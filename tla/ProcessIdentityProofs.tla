------------------------- MODULE ProcessIdentityProofs -------------------------
(***************************************************************************)
(* Lemmas about process identities: the lineage of every process consists  *)
(* of identities that are not its own, whatever pids the kernel reuses.    *)
(***************************************************************************)
EXTENDS ProcessIdentity, TLAPS

\* Why an identity in the lineage is not the process's own: its generation is
\* lower, or its pid was taken by a process that came before.
LineageInv ==
    \A p \in Procs :
        /\ ~Born(p) => lineage[p] = {}
        /\ \A i \in lineage[p] :
             /\ HandlerRuns = {TRUE} => i.generation < generation[p]
             /\ ~PidReuse => /\ i.pid # pid[p]
                             /\ \E q \in Procs : Born(q) /\ pid[q] = i.pid

ProcessInv == ProcessTypeOK /\ LineageInv

\* The identity of a process is an Identity, and tells both its halves.
LEMMA CurrentIsIdentity ==
    ASSUME ProcessAssumption, ProcessTypeOK, NEW p \in Procs
    PROVE  /\ Current(p) \in Identity
           /\ Current(p).pid = pid[p]
           /\ Current(p).generation = generation[p]
  BY DEF ProcessAssumption, ProcessTypeOK, Current, Identity

\* The root process starts with an empty lineage.
LEMMA ProcessInitInv ==
    ASSUME ProcessAssumption, ProcessInit
    PROVE  ProcessInv
  BY DEF ProcessAssumption, ProcessInit, ProcessInv, ProcessTypeOK, LineageInv, Born

\* The lineage invariant makes every process tell itself from its ancestors.
LEMMA LineageTellsApart ==
    ASSUME ProcessAssumption, IdentityAssumption, ProcessInv
    PROVE  IdentityTellsApart
  <1> SUFFICES ASSUME NEW p \in Procs, Current(p) \in lineage[p] PROVE FALSE
    BY DEF IdentityTellsApart
  <1>1. /\ Current(p).pid = pid[p]
        /\ Current(p).generation = generation[p]
        /\ generation[p] \in Nat
    BY CurrentIsIdentity DEF ProcessInv, ProcessTypeOK, ProcessAssumption
  <1>2. CASE HandlerRuns = {TRUE}
    BY <1>1, <1>2 DEF ProcessInv, LineageInv
  <1>3. CASE ~PidReuse
    BY <1>1, <1>3 DEF ProcessInv, LineageInv
  <1>4. QED
    BY <1>2, <1>3 DEF IdentityAssumption

\* The same, as a fact of every state.
LEMMA TellsApartAlways ==
    ProcessInv => (IdentityAssumption => IdentityTellsApart)
  BY LineageTellsApart, ProcessAssumption

\* A fork keeps the invariant, whichever free pid the child is given, and leaves
\* every process but the child as it was.
LEMMA ForkProcessInv ==
    ASSUME ProcessAssumption, ProcessInv,
           NEW p \in Procs, NEW c \in Procs, ForkProcess(p, c)
    PROVE  /\ ProcessInv'
           /\ p # c
           /\ lineage' = [lineage EXCEPT ![c] = lineage[p] \cup {Current(p)}]
           /\ \A q \in Procs \ {c} : Current(q)' = Current(q)
  <1> USE DEF ProcessInv, ProcessAssumption
  <1>1. PICK n \in Pids, runs \in HandlerRuns :
            /\ PidFree(n)
            /\ runs => generation[p] < MaxGeneration
            /\ pid' = [pid EXCEPT ![c] = n]
            /\ generation' = [generation EXCEPT ![c] =
                                 IF runs THEN generation[p] + 1 ELSE generation[p]]
    BY DEF ForkProcess
  <1>2. /\ Alive(p) /\ status[c] = "unborn" /\ p # c /\ Born(p) /\ ~Born(c)
        /\ status' = [status EXCEPT ![c] = "alive"]
        /\ lineage' = [lineage EXCEPT ![c] = lineage[p] \cup {Current(p)}]
    BY DEF ForkProcess, Alive, Born
  <1>3. runs \in BOOLEAN /\ generation[p] \in 0..MaxGeneration
    BY DEF ProcessTypeOK
  <1>4. ProcessTypeOK'
    <2>1. Current(p) \in Identity
      BY CurrentIsIdentity
    <2>2. lineage' \in [Procs -> SUBSET Identity]
      BY <1>2, <2>1 DEF ProcessTypeOK
    <2>3. generation' \in [Procs -> 0..MaxGeneration]
      BY <1>1, <1>3 DEF ProcessTypeOK
    <2>4. pid' \in [Procs -> Pids] /\ status' \in [Procs -> {"unborn", "alive", "dead"}]
      BY <1>1, <1>2 DEF ProcessTypeOK
    <2>5. QED
      BY <2>2, <2>3, <2>4 DEF ProcessTypeOK
  <1>5. \A q \in Procs : Born(q) => Born(q)' /\ pid'[q] = pid[q]
    BY <1>1, <1>2 DEF Born, ProcessTypeOK
  <1>6. LineageInv'
    <2> SUFFICES ASSUME NEW q \in Procs
                 PROVE  /\ ~Born(q)' => lineage'[q] = {}
                        /\ \A i \in lineage'[q] :
                             /\ HandlerRuns = {TRUE} => i.generation < generation'[q]
                             /\ ~PidReuse => /\ i.pid # pid'[q]
                                             /\ \E r \in Procs : Born(r)' /\ pid'[r] = i.pid
      BY DEF LineageInv, Born
    <2>1. CASE q # c
      <3>1. /\ lineage'[q] = lineage[q] /\ pid'[q] = pid[q]
            /\ generation'[q] = generation[q] /\ Born(q)' = Born(q)
        BY <2>1, <1>1, <1>2 DEF ProcessTypeOK, Born
      <3>2. QED
        BY <3>1, <1>5 DEF LineageInv
    <2>2. CASE q = c
      <3>1. /\ lineage'[c] = lineage[p] \cup {Current(p)}
            /\ pid'[c] = n
            /\ generation'[c] = IF runs THEN generation[p] + 1 ELSE generation[p]
            /\ Born(c)'
        BY <1>1, <1>2 DEF ProcessTypeOK, Born
      <3>2. ASSUME NEW i \in lineage[p] \cup {Current(p)}, HandlerRuns = {TRUE}
            PROVE  i.generation < generation'[c]
        <4>1. runs = TRUE
          BY <3>2
        <4>2. i \in lineage[p] => i.generation < generation[p]
          BY <3>2 DEF LineageInv
        <4>3. i \in lineage[p] => i.generation \in Nat
          BY DEF ProcessTypeOK, Identity
        <4>4. Current(p).generation = generation[p] /\ generation[p] \in Nat
          BY <1>3, CurrentIsIdentity
        <4>5. QED
          BY <3>1, <4>1, <4>2, <4>3, <4>4
      <3>3. ASSUME NEW i \in lineage[p] \cup {Current(p)}, ~PidReuse
            PROVE  i.pid # n /\ \E r \in Procs : Born(r)' /\ pid'[r] = i.pid
        <4>1. \E r \in Procs : Born(r) /\ pid[r] = i.pid
          BY <3>3, <1>2, CurrentIsIdentity DEF LineageInv
        <4>2. QED
          BY <4>1, <1>1, <1>5, <3>3 DEF PidFree
      <3>4. QED
        BY <2>2, <3>1, <3>2, <3>3
    <2>3. QED
      BY <2>1, <2>2
  <1>7. \A q \in Procs \ {c} : Current(q)' = Current(q)
    BY <1>1 DEF Current, ProcessTypeOK
  <1>8. QED
    BY <1>2, <1>4, <1>6, <1>7

\* An exit keeps the invariant and every identity.
LEMMA ExitProcessInv ==
    ASSUME ProcessAssumption, ProcessInv, NEW p \in Procs, ExitProcess(p)
    PROVE  ProcessInv' /\ lineage' = lineage /\ \A q \in Procs : Current(q)' = Current(q)
  <1>1. ProcessTypeOK'
    BY DEF ProcessInv, ProcessTypeOK, ExitProcess
  <1>2. \A q \in Procs : Born(q)' = Born(q)
    BY DEF ProcessInv, ProcessTypeOK, ExitProcess, Alive, Born
  <1>3. LineageInv'
    BY <1>2 DEF ProcessInv, ExitProcess, LineageInv, Born
  <1>4. QED
    BY <1>1, <1>3 DEF ProcessInv, ExitProcess, Current

\* So does a step that leaves the processes alone.
LEMMA ProcessStutterInv ==
    ASSUME ProcessAssumption, ProcessInv, UNCHANGED processVars
    PROVE  ProcessInv' /\ lineage' = lineage /\ \A q \in Procs : Current(q)' = Current(q)
  BY DEF ProcessInv, ProcessTypeOK, LineageInv, Born, processVars, Current

================================================================================
