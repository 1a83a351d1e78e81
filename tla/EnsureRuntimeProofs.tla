-------------------------- MODULE EnsureRuntimeProofs --------------------------
(***************************************************************************)
(* Provisioning for any number of threads, calls and interrupts: who is at *)
(* the installer has the Monitor, nobody provisions twice, and the flag    *)
(* tells the truth.                                                        *)
(***************************************************************************)
EXTENDS EnsureRuntime, FiniteSetTheorems, TLAPS

--------------------------------------------------------------------------------
(* The inductive invariant.                                                *)

\* The places where a thread has entered the Monitor, once or twice.
AtInstaller(t) == pc[t] \in {"start", "installing"}
Once(t) ==
    \/ pc[t] \in {"recheck", "decide", "mark"}
    \/ pc[t] = "lockInstall" /\ op[t] = "ensure"
    \/ AtInstaller(t) /\ op[t] # "ensure"
Twice(t) == AtInstaller(t) /\ op[t] = "ensure"

\* The Monitor has who is at one of those places, as deep as he is in it.
LockInv ==
    /\ \A t \in Threads : Once(t) \/ Twice(t) <=> owner = t
    /\ \A t \in Threads : (Once(t) => depth = 1) /\ (Twice(t) => depth = 2)
    /\ owner = NoThread => depth = 0

\* ensure_runtime! past its second look: until its Mark, nobody sets the flag.
Provisioning(t) ==
    /\ op[t] = "ensure"
    /\ pc[t] \in {"decide", "lockInstall", "start", "installing", "mark"}

\* What the files and the flag are while a thread is at the installer or behind it.
FlagInv ==
    /\ \A t \in Threads : pc[t] \in {"lock", "recheck", "decide", "mark"} => op[t] = "ensure"
    /\ \A t \in Threads : Provisioning(t) => ~ready
    /\ \A t \in Threads : pc[t] = "mark" => files = "good"
    /\ \A t \in Threads : pc[t] = "installing" /\ op[t] = "setup" => replaced
    /\ ReadyMeansUsable

\* A provision was forgotten, or it is remembered, or its thread is about to.
Remembers == ready \/ \E t \in Threads : pc[t] = "mark"
ProvisionInv ==
    /\ provisions <= forgotten + 1
    /\ ~Remembers => provisions <= forgotten
    /\ forgotten <= raises

\* Calls of ensure_runtime! that have not provisioned yet; each was counted.
Unprovisioned ==
    {t \in Threads : op[t] = "ensure" /\ pc[t] \in Places \ {"out", "mark"}}
CallsInv ==
    /\ IsFiniteSet(Unprovisioned)
    /\ provisions + Cardinality(Unprovisioned) <= calls

IInv == TypeOK /\ LockInv /\ FlagInv /\ ProvisionInv /\ CallsInv

--------------------------------------------------------------------------------
(* What a step does to the set of calls that have not provisioned.         *)

LEMMA CallsKept ==
    ASSUME CallsInv, calls \in Nat, provisions \in Nat, UNCHANGED <<calls, provisions>>,
           Unprovisioned' \subseteq Unprovisioned
    PROVE  CallsInv'
  <1>1. IsFiniteSet(Unprovisioned') /\ Cardinality(Unprovisioned') <= Cardinality(Unprovisioned)
    BY FS_Subset DEF CallsInv
  <1>2. Cardinality(Unprovisioned) \in Nat /\ Cardinality(Unprovisioned') \in Nat
    BY <1>1, FS_CardinalityType DEF CallsInv
  <1>3. QED
    BY <1>1, <1>2 DEF CallsInv

\* One more call makes room for one more thread.
LEMMA CallAdded ==
    ASSUME CallsInv, calls \in Nat, provisions \in Nat, provisions' = provisions,
           calls' = calls + 1, NEW t, Unprovisioned' \subseteq Unprovisioned \cup {t}
    PROVE  CallsInv'
  <1> DEFINE all == Unprovisioned \cup {t}
  <1>1. IsFiniteSet(all) /\ Cardinality(all) <= Cardinality(Unprovisioned) + 1
    <2>1. Cardinality(Unprovisioned) \in Nat
      BY FS_CardinalityType DEF CallsInv
    <2>2. /\ IsFiniteSet(all)
          /\ \/ Cardinality(all) = Cardinality(Unprovisioned)
             \/ Cardinality(all) = Cardinality(Unprovisioned) + 1
      BY FS_AddElement DEF CallsInv
    <2>3. QED
      BY <2>1, <2>2
  <1> HIDE DEF all
  <1>2. IsFiniteSet(Unprovisioned') /\ Cardinality(Unprovisioned') <= Cardinality(all)
    BY <1>1, FS_Subset DEF all
  <1>3. /\ Cardinality(Unprovisioned) \in Nat /\ Cardinality(Unprovisioned') \in Nat
        /\ Cardinality(all) \in Nat
    BY <1>1, <1>2, FS_CardinalityType DEF CallsInv
  <1>4. QED
    BY <1>1, <1>2, <1>3 DEF CallsInv

\* A provision is one of a thread that had not.
LEMMA CallProvisioned ==
    ASSUME CallsInv, calls \in Nat, provisions \in Nat, provisions' = provisions + 1,
           calls' = calls, NEW t \in Unprovisioned, Unprovisioned' \subseteq Unprovisioned \ {t}
    PROVE  CallsInv'
  <1> DEFINE others == Unprovisioned \ {t}
  <1>1. IsFiniteSet(others) /\ Cardinality(others) = Cardinality(Unprovisioned) - 1
    BY FS_RemoveElement DEF CallsInv
  <1> HIDE DEF others
  <1>2. IsFiniteSet(Unprovisioned') /\ Cardinality(Unprovisioned') <= Cardinality(others)
    BY <1>1, FS_Subset DEF others
  <1>3. /\ Cardinality(Unprovisioned) \in Nat /\ Cardinality(Unprovisioned') \in Nat
        /\ Cardinality(others) \in Nat
    BY <1>1, <1>2, FS_CardinalityType DEF CallsInv
  <1>4. QED
    BY <1>1, <1>2, <1>3 DEF CallsInv

--------------------------------------------------------------------------------
(* The steps, one at a time.                                               *)

LEMMA CallInv ==
    ASSUME IInv, NEW t \in Threads, NEW o \in Operations, Call(t, o)
    PROVE  IInv'
  <1> USE RuntimeAssumption DEF IInv, TypeOK, LockInv, Once, Twice, AtInstaller, Call, Goto
  <1>1. TypeOK'
    BY DEF Places, Operations, ProvisionInv
  <1>2. LockInv'
    OBVIOUS
  <1>3. FlagInv'
    BY DEF FlagInv, Provisioning, ReadyMeansUsable
  <1>4. ProvisionInv'
    BY DEF ProvisionInv, Remembers, FlagInv, Provisioning
  <1>5. Unprovisioned' \subseteq Unprovisioned \cup {t}
    BY DEF Unprovisioned, Places
  <1>6. CallsInv'
    BY <1>5, CallAdded
  <1>7. QED
    BY <1>1, <1>2, <1>3, <1>4, <1>6

LEMMA LockedInv ==
    ASSUME IInv, NEW t \in Threads, Lock(t)
    PROVE  IInv'
  <1> USE RuntimeAssumption DEF IInv, TypeOK, LockInv, Once, Twice, AtInstaller, Lock,
          Goto, EnterMonitor
  <1>1. TypeOK'
    BY DEF Places, Operations, ProvisionInv
  <1>2. LockInv'
    OBVIOUS
  <1>3. FlagInv'
    BY DEF FlagInv, Provisioning, ReadyMeansUsable
  <1>4. ProvisionInv'
    BY DEF ProvisionInv, Remembers, FlagInv, Provisioning
  <1>5. Unprovisioned' \subseteq Unprovisioned
    BY DEF Unprovisioned, Places, FlagInv
  <1>6. CallsInv'
    BY <1>5, CallsKept
  <1>7. QED
    BY <1>1, <1>2, <1>3, <1>4, <1>6

LEMMA RecheckInv ==
    ASSUME IInv, NEW t \in Threads, Recheck(t)
    PROVE  IInv'
  <1> USE RuntimeAssumption DEF IInv, TypeOK, LockInv, Once, Twice, AtInstaller, Recheck,
          Goto, LeaveMonitor, Settled
  <1>1. TypeOK'
    BY DEF Places, Operations, ProvisionInv
  <1>2. LockInv'
    OBVIOUS
  <1>3. FlagInv'
    BY DEF FlagInv, Provisioning, ReadyMeansUsable
  <1>4. ProvisionInv'
    BY DEF ProvisionInv, Remembers, FlagInv, Provisioning
  <1>5. Unprovisioned' \subseteq Unprovisioned
    BY DEF Unprovisioned, Places, FlagInv
  <1>6. CallsInv'
    BY <1>5, CallsKept
  <1>7. QED
    BY <1>1, <1>2, <1>3, <1>4, <1>6

LEMMA DecideInv ==
    ASSUME IInv, NEW t \in Threads, Decide(t)
    PROVE  IInv'
  <1>1. backend = "cloud" \/ managed =>
          ready' \in BOOLEAN /\ LeaveMonitor(t) /\ pc' = [pc EXCEPT ![t] = "out"]
    BY Zenon DEF Decide, Goto, IInv, TypeOK, ReadyUnderCloud
  <1> USE RuntimeAssumption DEF IInv, TypeOK, LockInv, Once, Twice, AtInstaller, Decide,
          Goto, LeaveMonitor, ReadyUnderCloud
  <1>2. owner = t /\ depth = 1
    OBVIOUS
  <1>3. TypeOK'
    <2>1. CASE backend = "cloud" \/ managed
      <3>1. ready' \in BOOLEAN /\ pc' = [pc EXCEPT ![t] = "out"] /\ LeaveMonitor(t)
        BY <1>1, <2>1, Zenon
      <3>2. depth' = 0 /\ owner' = NoThread
        BY <1>2, <3>1
      <3>3. UNCHANGED <<op, files, managed, backend, provisions, forgotten, replaced, calls, raises>>
        OBVIOUS
      <3>4. QED
        BY <3>1, <3>2, <3>3, 0 \in 0..2, "out" \in Places DEF Places
    <2>2. CASE ~(backend = "cloud" \/ managed)
      BY <2>2 DEF Places
    <2>3. QED
      BY <2>1, <2>2
  <1>4. LockInv'
    <2>1. CASE backend = "cloud" \/ managed
      <3>1. depth' = 0 /\ owner' = NoThread /\ pc' = [pc EXCEPT ![t] = "out"] /\ op' = op
        BY <1>2, <1>1, <2>1
      <3>2. QED
        BY <1>2, <3>1
    <2>2. CASE ~(backend = "cloud" \/ managed)
      <3>1. op[t] = "ensure"
        BY DEF FlagInv
      <3>2. pc' = [pc EXCEPT ![t] = "lockInstall"] /\ UNCHANGED <<owner, depth, op>>
        BY <2>2
      <3>3. QED
        BY <1>2, <3>1, <3>2
    <2>3. QED
      BY <2>1, <2>2
  <1>5. FlagInv'
    BY DEF FlagInv, Provisioning, ReadyMeansUsable
  <1>6. ProvisionInv'
    BY DEF ProvisionInv, Remembers, FlagInv, Provisioning
  <1>7. Unprovisioned' \subseteq Unprovisioned
    BY DEF Unprovisioned, Places, FlagInv
  <1>8. CallsInv'
    BY <1>7, CallsKept
  <1>9. QED
    BY <1>3, <1>4, <1>5, <1>6, <1>8

LEMMA LockInstallInv ==
    ASSUME IInv, NEW t \in Threads, LockInstall(t)
    PROVE  IInv'
  <1> USE RuntimeAssumption DEF IInv, TypeOK, LockInv, Once, Twice, AtInstaller,
          LockInstall, Goto, Guarded, EnterMonitor
  <1>1. /\ op[t] = "ensure" => owner = t /\ depth = 1
        /\ op[t] # "ensure" => owner = NoThread /\ depth = 0
    BY DEF Places
  <1>2. TypeOK'
    <2>1. depth' \in 0..2 /\ owner' \in Threads \cup {NoThread}
      BY <1>1
    <2>2. pc' \in [Threads -> Places]
      BY DEF Places
    <2>3. QED
      BY <2>1, <2>2
  <1>3. LockInv'
    BY <1>1
  <1>4. FlagInv'
    BY DEF FlagInv, Provisioning, ReadyMeansUsable
  <1>5. ProvisionInv'
    BY DEF ProvisionInv, Remembers, FlagInv, Provisioning
  <1>6. Unprovisioned' \subseteq Unprovisioned
    BY DEF Unprovisioned, Places, FlagInv
  <1>7. CallsInv'
    BY <1>6, CallsKept
  <1>8. QED
    BY <1>1, <1>2, <1>4, <1>5, <1>7

LEMMA StartInstallInv ==
    ASSUME IInv, NEW t \in Threads, StartInstall(t)
    PROVE  IInv'
  <1> USE RuntimeAssumption DEF IInv, TypeOK, LockInv, Once, Twice, AtInstaller,
          StartInstall, Goto
  <1>1. TypeOK'
    BY DEF Places, Operations, ProvisionInv
  <1>2. LockInv'
    OBVIOUS
  <1>3. FlagInv'
    BY DEF FlagInv, Provisioning, ReadyMeansUsable
  <1>4. ProvisionInv'
    BY DEF ProvisionInv, Remembers, FlagInv, Provisioning
  <1>5. Unprovisioned' \subseteq Unprovisioned
    BY DEF Unprovisioned, Places, FlagInv
  <1>6. CallsInv'
    BY <1>5, CallsKept
  <1>7. QED
    BY <1>1, <1>2, <1>3, <1>4, <1>6

LEMMA FinishInstallInv ==
    ASSUME IInv, NEW t \in Threads, FinishInstall(t)
    PROVE  IInv'
  <1> USE RuntimeAssumption DEF IInv, TypeOK, LockInv, Once, Twice, AtInstaller,
          FinishInstall, Goto, LeaveMonitor
  <1>1. op[t] = "ensure" => provisions < calls
    <2>1. SUFFICES ASSUME op[t] = "ensure" PROVE provisions < calls
      OBVIOUS
    <2>2. t \in Unprovisioned
      BY <2>1 DEF Unprovisioned, Places
    <2>3. Cardinality(Unprovisioned) \in Nat /\ Cardinality(Unprovisioned) # 0
      BY <2>2, FS_CardinalityType, FS_EmptySet DEF CallsInv
    <2>4. QED
      BY <2>3 DEF CallsInv
  <1>2. TypeOK'
    BY <1>1 DEF Places, Operations, ProvisionInv
  <1>3. LockInv'
    OBVIOUS
  <1>4. FlagInv'
    BY DEF FlagInv, Provisioning, ReadyMeansUsable
  <1>5. ProvisionInv'
    BY DEF ProvisionInv, Remembers, FlagInv, Provisioning
  <1>6. CASE op[t] = "ensure"
    <2>1. t \in Unprovisioned /\ Unprovisioned' \subseteq Unprovisioned \ {t}
      BY <1>6 DEF Unprovisioned, Places
    <2>2. CallsInv'
      BY <1>6, <2>1, CallProvisioned
    <2>3. QED
      BY <1>2, <1>3, <1>4, <1>5, <2>2
  <1>7. CASE op[t] # "ensure"
    <2>1. Unprovisioned' \subseteq Unprovisioned
      BY <1>7 DEF Unprovisioned, Places
    <2>2. CallsInv'
      BY <1>7, <2>1, CallsKept
    <2>3. QED
      BY <1>2, <1>3, <1>4, <1>5, <2>2
  <1>8. QED
    BY <1>6, <1>7

LEMMA FailInstallInv ==
    ASSUME IInv, NEW t \in Threads, FailInstall(t)
    PROVE  IInv'
  <1> USE RuntimeAssumption DEF IInv, TypeOK, LockInv, Once, Twice, AtInstaller,
          FailInstall, Goto, Raise, Unwound
  <1>1. TypeOK'
    BY DEF Places, Operations, ProvisionInv
  <1>2. LockInv'
    OBVIOUS
  <1>3. FlagInv'
    BY DEF FlagInv, Provisioning, ReadyMeansUsable
  <1>4. ProvisionInv'
    BY DEF ProvisionInv, Remembers, FlagInv, Provisioning
  <1>5. Unprovisioned' \subseteq Unprovisioned
    BY DEF Unprovisioned, Places, FlagInv
  <1>6. CallsInv'
    BY <1>5, CallsKept
  <1>7. QED
    BY <1>1, <1>2, <1>3, <1>4, <1>6

LEMMA MarkInv ==
    ASSUME IInv, NEW t \in Threads, Mark(t)
    PROVE  IInv'
  <1> USE RuntimeAssumption DEF IInv, TypeOK, LockInv, Once, Twice, AtInstaller, Mark,
          Goto, LeaveMonitor
  <1>1. owner = t /\ depth = 1
    OBVIOUS
  <1>2. TypeOK'
    <2>1. ready' \in BOOLEAN /\ replaced' \in BOOLEAN
      BY Zenon
    <2>2. QED
      BY <1>1, <2>1, 0 \in 0..2 DEF Places
  <1>3. LockInv'
    OBVIOUS
  <1>4. FlagInv'
    BY DEF FlagInv, Provisioning, ReadyMeansUsable
  <1>5. ProvisionInv'
    BY DEF ProvisionInv, Remembers, FlagInv, Provisioning
  <1>6. Unprovisioned' \subseteq Unprovisioned
    BY DEF Unprovisioned, Places, FlagInv
  <1>7. CallsInv'
    BY <1>6, CallsKept
  <1>8. QED
    BY <1>2, <1>3, <1>4, <1>5, <1>7

LEMMA InterruptInv ==
    ASSUME IInv, NEW t \in Threads, Interrupt(t)
    PROVE  IInv'
  <1> USE RuntimeAssumption DEF IInv, TypeOK, LockInv, Once, Twice, AtInstaller,
          Interrupt, Goto, Raise, Unwound
  <1>1. TypeOK'
    <2>1. forgotten' \in 0..MaxRaises /\ raises' \in 0..MaxRaises
      BY DEF ProvisionInv
    <2>2. QED
      BY <2>1 DEF Places
  <1>2. LockInv'
    OBVIOUS
  <1>3. FlagInv'
    BY DEF FlagInv, Provisioning, ReadyMeansUsable
  <1>4. ProvisionInv'
    BY DEF ProvisionInv, Remembers, FlagInv, Provisioning
  <1>5. Unprovisioned' \subseteq Unprovisioned
    BY DEF Unprovisioned, Places, FlagInv
  <1>6. CallsInv'
    BY <1>5, CallsKept
  <1>7. QED
    BY <1>1, <1>2, <1>3, <1>4, <1>6

\* What changes nothing, or the default backend only.
LEMMA QuietInv ==
    ASSUME IInv, backend' \in {"local", "cloud"},
           UNCHANGED <<ready, owner, depth, pc, op, files, managed, provisions, forgotten, replaced,
                       calls, raises>>
    PROVE  IInv'
  <1>1. TypeOK' /\ LockInv'
    BY DEF IInv, TypeOK, LockInv, Once, Twice, AtInstaller
  <1>2. FlagInv'
    BY DEF IInv, FlagInv, Provisioning, ReadyMeansUsable
  <1>3. ProvisionInv' /\ CallsInv'
    BY DEF IInv, ProvisionInv, Remembers, CallsInv, Unprovisioned
  <1>4. QED
    BY <1>1, <1>2, <1>3 DEF IInv

LEMMA InitInv ==
    ASSUME Init
    PROVE  IInv
  <1> USE RuntimeAssumption DEF Init
  <1>1. TypeOK
    <2>1. pc \in [Threads -> Places] /\ op \in [Threads -> Operations]
      BY DEF Places, Operations
    <2>2. ready \in BOOLEAN /\ replaced \in BOOLEAN /\ managed \in BOOLEAN
      BY Zenon
    <2>3. QED
      BY <2>1, <2>2, 0 \in 0..MaxCalls, 0 \in 0..MaxRaises DEF TypeOK
  <1>2. LockInv
    BY DEF LockInv, Once, Twice, AtInstaller
  <1>3. FlagInv /\ ProvisionInv
    BY DEF FlagInv, Provisioning, ReadyMeansUsable, ProvisionInv, Remembers
  <1>4. Unprovisioned = {}
    BY DEF Unprovisioned
  <1>5. CallsInv
    BY <1>4, FS_EmptySet DEF CallsInv
  <1>6. QED
    BY <1>1, <1>2, <1>3, <1>5 DEF IInv

LEMMA NextInv ==
    ASSUME IInv, [Next]_vars
    PROVE  IInv'
  <1>1. CASE SwitchBackend \/ UNCHANGED vars
    BY <1>1, QuietInv DEF SwitchBackend, vars, IInv, TypeOK
  <1>2. ASSUME NEW t \in Threads, NEW o \in Operations, Call(t, o)
        PROVE  IInv'
    BY <1>2, CallInv
  <1>3. ASSUME NEW t \in Threads, Locking(t) \/ Working(t) \/ FailInstall(t) \/ Interrupt(t)
        PROVE  IInv'
    BY <1>3, LockedInv, LockInstallInv, RecheckInv, DecideInv, StartInstallInv,
       FinishInstallInv, MarkInv, FailInstallInv, InterruptInv DEF Locking, Working
  <1>4. QED
    BY <1>1, <1>2, <1>3 DEF Next

--------------------------------------------------------------------------------
(* The theorems.                                                           *)

\* The invariant holds in every state.
THEOREM Invariant == Spec => []IInv
  <1>1. Init => IInv
    BY InitInv
  <1>2. IInv /\ [Next]_vars => IInv'
    BY NextInv
  <1>3. QED
    BY <1>1, <1>2, PTL DEF Spec

\* Type correctness; the Monitor is never entered more than twice.
THEOREM TypeCorrect == Spec => []TypeOK
  <1>1. IInv => TypeOK
    BY DEF IInv
  <1>2. QED
    BY <1>1, Invariant, PTL

\* @runtime_ready tells the truth (ensure_runtime!).
THEOREM ReadySound == Spec => []ReadyMeansUsable
  <1>1. IInv => ReadyMeansUsable
    BY DEF IInv, FlagInv
  <1>2. QED
    BY <1>1, Invariant, PTL

\* One provisioning, and one thread at the installer (RUNTIME_SETUP_LOCK).
THEOREM ProvisionedOnceSound == Spec => []ProvisionedOnce
  <1>1. ASSUME IInv
        PROVE  ProvisionedOnce
    <2> DEFINE installing == {t \in Threads : AtInstaller(t)}
    <2>1. installing \subseteq {owner}
      BY <1>1 DEF IInv, LockInv, Once, Twice
    <2>2. Cardinality(installing) <= 1
      <3> HIDE DEF installing
      <3>1. IsFiniteSet({owner}) /\ Cardinality({owner}) = 1
        BY FS_Singleton
      <3>2. QED
        BY <2>1, <3>1, FS_Subset
    <2>3. provisions <= 1 + forgotten
      BY <1>1 DEF IInv, TypeOK, ProvisionInv
    <2>4. QED
      BY <2>2, <2>3 DEF ProvisionedOnce, AtInstaller
  <1>2. QED
    BY <1>1, Invariant, PTL

================================================================================
