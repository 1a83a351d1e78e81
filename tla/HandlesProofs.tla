----------------------------- MODULE HandlesProofs -----------------------------
(***************************************************************************)
(* Handles for every number of processes and threads and every class of    *)
(* handle: the guard keeps every process but the builder out, and the      *)
(* session behind it ends once and cleanly.                                *)
(***************************************************************************)
EXTENDS Handles, ProcessIdentityProofs

\* An await under the mutex, as opposed to a control method.
Awaiting(p, t) == Using(p, t) /\ call[p][t].op \in {"use", "wait"}
Closing(p, t) == call[p][t].at = "closing"

--------------------------------------------------------------------------------
(* The inductive invariant.                                                *)

\* Before the handle is built there is nothing.
FreshInv ==
    builder = Nobody =>
        /\ \A p \in Procs : handle[p] = "none" /\ slot[p] /\ lock[p] = NoThread
        /\ ends = 0 /\ touched = {}

\* The tag is the builder's identity, and every other process that has a copy of
\* the handle descends from the builder.
OwnerInv ==
    /\ builder # Nobody => Born(builder) /\ owner = Current(builder)
    /\ \A p \in Procs : handle[p] # "none" =>
          Born(p) /\ builder # Nobody /\ (p = builder \/ owner \in lineage[p])
    /\ touched \subseteq {builder}

\* Whoever is in a native call on the handle is a thread of the builder.
CallInv ==
    \A p \in Procs, t \in Threads : ~Idle(p, t) =>
        /\ p = builder /\ Alive(p) /\ handle[p] = "live"
        /\ Offers(class, call[p][t].op)
        /\ Closing(p, t) => call[p][t].op = "close"
        /\ call[p][t].at = "locking" => call[p][t].op \in {"use", "wait", "close"}
        /\ Using(p, t) => call[p][t].op \notin {"close", "stdin"}

\* Who holds the mutex awaits the session, which is in its slot then.
LockInv ==
    builder # Nobody /\ Alive(builder) =>
        /\ \A t \in Threads : lock[builder] = t => Awaiting(builder, t)
        /\ lock[builder] # NoThread => slot[builder]
        /\ class.await = "held" =>
              \A t \in Threads : Awaiting(builder, t) => lock[builder] = t

\* The session has not ended while the builder's slot holds it; it leaves the slot
\* with one closing thread, and ends with that.
SlotInv ==
    /\ ends \in {0, 1}
    /\ ~class.closable => \A p \in Procs : slot[p]
    /\ builder # Nobody =>
          /\ handle[builder] = "live" /\ slot[builder] => ends = 0
          /\ \A t \in Threads : Closing(builder, t) => ~slot[builder] /\ ends = 0
          /\ \A t, u \in Threads : Closing(builder, t) /\ Closing(builder, u) => t = u
          /\ Alive(builder) /\ ~slot[builder] =>
                ends = 1 \/ \E t \in Threads : Closing(builder, t)

IInv ==
    /\ ProcessInv
    /\ TypeOK
    /\ FreshInv
    /\ OwnerInv
    /\ CallInv
    /\ LockInv
    /\ SlotInv

--------------------------------------------------------------------------------
(* The guard.                                                              *)

\* A process that has a copy of the handle and bears the identity it is tagged
\* with is the one that built it.
LEMMA GuardSound ==
    ASSUME IdentityAssumption, IInv, NEW p \in Procs, handle[p] # "none", Owns(p)
    PROVE  p = builder
  <1>1. Current(p) \notin lineage[p]
    BY LineageTellsApart, ProcessAssumption DEF IInv, IdentityTellsApart
  <1>2. QED
    BY <1>1 DEF IInv, OwnerInv, Owns

\* What a step of one thread of process p that leaves the processes and the
\* handle's origin alone has to show.
Local(p) ==
    /\ UNCHANGED <<processVars, class, builder, owner, handle>>
    /\ \A q \in Procs \ {p} :
          slot'[q] = slot[q] /\ lock'[q] = lock[q] /\ call'[q] = call[q]

LEMMA LocalInv ==
    ASSUME IInv, NEW p \in Procs, p = builder, Alive(p), handle[p] = "live",
           Local(p), TypeOK', touched' \subseteq {builder},
           CallInv', LockInv', SlotInv'
    PROVE  IInv'
  <1>1. /\ ProcessInv' /\ lineage' = lineage
        /\ \A q \in Procs : Current(q)' = Current(q) /\ Born(q)' = Born(q)
    BY ProcessStutterInv, ProcessAssumption DEF IInv, Local, Born, processVars
  <1>2. builder # Nobody
    BY HandleAssumption
  <1>3. OwnerInv' /\ FreshInv'
    BY <1>1, <1>2 DEF IInv, OwnerInv, FreshInv, Local
  <1>4. QED
    BY <1>1, <1>3 DEF IInv

\* Who is in a call belongs to the builder.
LEMMA CallerFacts ==
    ASSUME IInv, NEW p \in Procs, NEW t \in Threads, ~Idle(p, t)
    PROVE  /\ p = builder /\ builder # Nobody /\ Alive(builder)
           /\ handle[p] = "live" /\ Offers(class, call[p][t].op)
  BY HandleAssumption DEF IInv, CallInv

\* Thread t of process p goes to v, and no other thread moves.
LEMMA CallMoves ==
    ASSUME TypeOK, NEW p \in Procs, NEW t \in Threads, NEW v \in Call,
           call' = [call EXCEPT ![p][t] = v]
    PROVE  /\ call' \in [Procs -> [Threads -> Call]]
           /\ call'[p][t] = v
           /\ \A u \in Threads \ {t} : call'[p][u] = call[p][u]
           /\ \A q \in Procs \ {p} : call'[q] = call[q]
  BY DEF TypeOK

LEMMA CallGoes ==
    ASSUME TypeOK, NEW p \in Procs, NEW t \in Threads,
           NEW place \in {"locking", "using", "closing"}, Goto(p, t, place)
    PROVE  LET v == [at |-> place, op |-> call[p][t].op, sink |-> call[p][t].sink]
           IN  v \in Call /\ call' = [call EXCEPT ![p][t] = v]
  <1>1. call[p][t] \in Call
    BY DEF TypeOK
  <1>2. call' = [call EXCEPT ![p][t] = [call[p][t] EXCEPT !.at = place]]
    BY DEF TypeOK, Goto
  <1>3. [call[p][t] EXCEPT !.at = place] =
            [at |-> place, op |-> call[p][t].op, sink |-> call[p][t].sink]
    BY <1>1 DEF Call
  <1>4. QED
    BY <1>1, <1>2, <1>3 DEF Call

LEMMA OutsideIsCall == Outside \in Call /\ Absent \in Call
  BY DEF Outside, Absent, Call

--------------------------------------------------------------------------------
(* The steps of a native call.                                             *)

\* A step that only moves one thread, to a place where it does not hold what it
\* held before: out of the call or to its next stage, none of them a close under way.
LEMMA QuietInv ==
    ASSUME IInv, NEW p \in Procs, NEW t \in Threads, NEW v \in Call,
           ~Idle(p, t), call[p][t].at \notin {"using", "closing"},
           call' = [call EXCEPT ![p][t] = v],
           v.at # "closing",
           v.at = "using" => v.op \in {"kill", "signal"} \/ class.await # "held",
           v.at \notin {"absent", "out"} => v.op = call[p][t].op,
           v.at = "using" => v.op \notin {"close", "stdin"},
           v.at = "locking" => v.op \in {"use", "wait", "close"},
           UNCHANGED <<processVars, class, builder, owner, ends, touched, handle, slot, lock>>,
           guest' \in {"running", "exited"}, piped' \in BOOLEAN, saidNil' \in BOOLEAN,
           stdin' \in [Procs -> BOOLEAN], memo' \in [Procs -> {"unset", "nil", "writer"}]
    PROVE  IInv'
  <1>1. /\ p = builder /\ builder # Nobody /\ Alive(p) /\ handle[p] = "live"
        /\ Offers(class, call[p][t].op)
    BY CallerFacts
  <1>2. /\ call' \in [Procs -> [Threads -> Call]]
        /\ call'[p][t] = v
        /\ \A u \in Threads \ {t} : call'[p][u] = call[p][u]
        /\ \A q \in Procs \ {p} : call'[q] = call[q]
    BY CallMoves DEF IInv
  <1>3. TypeOK'
    BY <1>2 DEF IInv, TypeOK, processVars, ProcessTypeOK
  <1>4. CallInv'
    BY <1>1, <1>2 DEF IInv, CallInv, Idle, Closing, Using, Alive, processVars
  <1>5. LockInv'
    BY <1>1, <1>2 DEF IInv, LockInv, Awaiting, Using, Alive, processVars
  <1>6. SlotInv'
    BY <1>1, <1>2 DEF IInv, SlotInv, Closing, Alive, processVars
  <1>7. Local(p) /\ touched' \subseteq {builder}
    BY <1>2 DEF Local, IInv, OwnerInv
  <1>8. QED
    BY <1>1, <1>3, <1>4, <1>5, <1>6, <1>7, LocalInv

LEMMA GetInv ==
    ASSUME IdentityAssumption, IInv, NEW p \in Procs, NEW t \in Threads, NEW op \in Ops,
           Get(p, t, op)
    PROVE  IInv'
  <1> DEFINE v == [at |-> "entering", op |-> op, sink |-> FALSE]
  <1>1. /\ p = builder /\ builder # Nobody /\ Alive(p) /\ handle[p] = "live"
        /\ Offers(class, op) /\ Idle(p, t)
    BY GuardSound, HandleAssumption DEF Get, Idle
  <1>2. v \in Call /\ call' = [call EXCEPT ![p][t] = v]
    BY DEF Get, Call
  <1>3. /\ call' \in [Procs -> [Threads -> Call]]
        /\ call'[p][t] = v
        /\ \A u \in Threads \ {t} : call'[p][u] = call[p][u]
        /\ \A q \in Procs \ {p} : call'[q] = call[q]
    BY <1>2, CallMoves DEF IInv
  <1>4. /\ UNCHANGED <<processVars, class, builder, owner, guest, piped, ends, saidNil, copyVars>>
        /\ touched' \subseteq {builder}
    BY <1>1 DEF Get, Touch, IInv, OwnerInv
  <1>5. TypeOK'
    BY <1>1, <1>3, <1>4 DEF IInv, TypeOK, processVars, copyVars, ProcessTypeOK
  <1>6. CallInv'
    BY <1>1, <1>3, <1>4 DEF IInv, CallInv, Idle, Closing, Using, Alive, processVars, copyVars
  <1>7. LockInv'
    BY <1>1, <1>3, <1>4 DEF IInv, LockInv, Awaiting, Using, Idle, Alive, processVars, copyVars
  <1>8. SlotInv'
    BY <1>1, <1>3, <1>4 DEF IInv, SlotInv, Closing, Idle, Alive, processVars, copyVars
  <1>9. QED
    BY <1>1, <1>3, <1>4, <1>5, <1>6, <1>7, <1>8, LocalInv DEF Local, copyVars

\* What the type invariant says of the state that few steps change.
LEMMA SideTypes ==
    ASSUME IInv
    PROVE  /\ guest \in {"running", "exited"} /\ piped \in BOOLEAN /\ saidNil \in BOOLEAN
           /\ stdin \in [Procs -> BOOLEAN] /\ memo \in [Procs -> {"unset", "nil", "writer"}]
  BY DEF IInv, TypeOK

LEMMA NotStartedInv ==
    ASSUME IInv, NEW p \in Procs, NEW t \in Threads, NotStarted(p, t)
    PROVE  IInv'
  <1>1. call[p][t].at = "entering" /\ call' = [call EXCEPT ![p][t] = Outside]
    BY DEF NotStarted, Leave
  <1>2. UNCHANGED <<processVars, sessionVars, copyVars>>
    BY DEF NotStarted, Interrupted, IInv, TypeOK, copyVars
  <1>3. QED
    BY <1>1, <1>2, OutsideIsCall, SideTypes, QuietInv DEF Outside, Idle, sessionVars, copyVars

LEMMA StartInv ==
    ASSUME IInv, NEW p \in Procs, NEW t \in Threads, Start(p, t)
    PROVE  IInv'
  <1> DEFINE place == IF NeedsLock(call[p][t].op) THEN "locking" ELSE "using"
             v == [at |-> place, op |-> call[p][t].op, sink |-> call[p][t].sink]
  <1>1. call[p][t].at = "entering" /\ Goto(p, t, place)
    BY DEF Start
  <1>2. v \in Call /\ call' = [call EXCEPT ![p][t] = v]
    BY <1>1, CallGoes DEF IInv
  <1>3. Offers(class, call[p][t].op)
    BY <1>1, CallerFacts DEF Idle
  <1>4. class.await = "free" => ~class.closable
    BY DEF IInv, TypeOK, Classes, FsWriteSink, SshClient, SftpClient, SshServer,
           FsReadStream, LogStream, ExecHandle, AgentClient
  <1>5. place = "using" =>
            /\ call[p][t].op \in {"kill", "signal"} \/ class.await # "held"
            /\ call[p][t].op # "close"
    BY <1>3, <1>4 DEF NeedsLock, Offers
  <1>9. /\ call[p][t].op # "stdin" /\ call[p][t].op \in Ops \cup {"none"}
        /\ place = "locking" => call[p][t].op \in {"use", "wait", "close"}
    BY <1>3 DEF Start, NeedsLock, Offers, IInv, TypeOK, Call, Ops
  <1>6. UNCHANGED <<processVars, sessionVars, copyVars>>
    BY DEF Start
  <1>7. /\ v.at # "closing" /\ v.op = call[p][t].op
        /\ v.at = place
    OBVIOUS
  <1> HIDE DEF v, place
  <1>8. QED
    BY <1>1, <1>2, <1>5, <1>6, <1>7, <1>9, SideTypes, QuietInv DEF Idle, sessionVars, copyVars

LEMMA TakeStdinInv ==
    ASSUME IInv, NEW p \in Procs, NEW t \in Threads, TakeStdin(p, t)
    PROVE  IInv'
  <1> DEFINE v == [at |-> "took", op |-> "stdin", sink |-> stdin[p]]
  <1>1. /\ call[p][t].at = "entering" /\ call[p][t].op = "stdin"
        /\ call' = [call EXCEPT ![p][t] = v]
        /\ UNCHANGED <<processVars, sessionVars, handle, slot, lock, memo>>
    BY DEF TakeStdin
  <1>2. v \in Call /\ stdin' \in [Procs -> BOOLEAN]
    BY DEF TakeStdin, IInv, TypeOK, Call, Ops
  <1>3. v.at = "took" /\ v.op = "stdin"
    OBVIOUS
  <1> HIDE DEF v
  <1>4. QED
    BY <1>1, <1>2, <1>3, SideTypes, QuietInv DEF Idle, sessionVars

LEMMA StdinInterruptedInv ==
    ASSUME IInv, NEW p \in Procs, NEW t \in Threads, StdinInterrupted(p, t)
    PROVE  IInv'
  <1>1. /\ call[p][t].at = "took" /\ call' = [call EXCEPT ![p][t] = Outside]
        /\ UNCHANGED <<processVars, sessionVars, copyVars>>
    BY DEF StdinInterrupted, Leave
  <1>2. QED
    BY <1>1, OutsideIsCall, SideTypes, QuietInv DEF Outside, Idle, sessionVars, copyVars

LEMMA RememberInv ==
    ASSUME IInv, NEW p \in Procs, NEW t \in Threads, Remember(p, t)
    PROVE  IInv'
  <1>1. /\ call[p][t].at = "took" /\ call' = [call EXCEPT ![p][t] = Outside]
        /\ UNCHANGED <<processVars, class, builder, owner, guest, piped, ends, touched,
                       handle, slot, lock, stdin>>
    BY DEF Remember, Leave
  <1>2. memo' \in [Procs -> {"unset", "nil", "writer"}] /\ saidNil' \in BOOLEAN
    BY DEF Remember, Remembered, IInv, TypeOK
  <1>3. QED
    BY <1>1, <1>2, OutsideIsCall, SideTypes, QuietInv DEF Outside, Idle

\* The thread gets the mutex, or finds the session gone.
LEMMA LockToUseInv ==
    ASSUME IInv, NEW p \in Procs, NEW t \in Threads, LockToUse(p, t)
    PROVE  IInv'
  <1> DEFINE v == [at |-> "using", op |-> call[p][t].op, sink |-> call[p][t].sink]
  <1>1. /\ call[p][t].at = "locking" /\ call[p][t].op # "close" /\ lock[p] = NoThread
        /\ UNCHANGED <<processVars, sessionVars, handle, slot, stdin, memo>>
    BY DEF LockToUse
  <1>2. /\ p = builder /\ builder # Nobody /\ Alive(p) /\ handle[p] = "live"
        /\ Offers(class, call[p][t].op)
    BY <1>1, CallerFacts DEF Idle
  <1>3. CASE ~slot[p]
    <2>1. call' = [call EXCEPT ![p][t] = Outside] /\ UNCHANGED lock
      BY <1>3 DEF LockToUse, Leave
    <2>2. QED
      BY <1>1, <2>1, OutsideIsCall, SideTypes, QuietInv DEF Outside, Idle, sessionVars
  <1>4. CASE slot[p]
    <2>1. /\ Goto(p, t, "using")
          /\ lock' = [lock EXCEPT ![p] = IF Held THEN t ELSE NoThread]
      BY <1>4 DEF LockToUse
    <2>2. v \in Call /\ call' = [call EXCEPT ![p][t] = v]
      BY <2>1, CallGoes DEF IInv
    <2>3. /\ call' \in [Procs -> [Threads -> Call]]
          /\ call'[p][t] = v
          /\ \A u \in Threads \ {t} : call'[p][u] = call[p][u]
          /\ \A q \in Procs \ {p} : call'[q] = call[q]
      BY <2>2, CallMoves DEF IInv
    <2>4. /\ lock' \in [Procs -> Threads \cup {NoThread}]
          /\ lock'[p] = IF Held THEN t ELSE NoThread
          /\ \A q \in Procs \ {p} : lock'[q] = lock[q]
      BY <2>1 DEF IInv, TypeOK
    <2>5. TypeOK'
      BY <1>1, <2>3, <2>4 DEF IInv, TypeOK, processVars, sessionVars, ProcessTypeOK
    <2>6. CallInv'
      BY <1>1, <1>2, <2>3 DEF IInv, CallInv, Idle, Closing, Using, Alive, processVars, sessionVars
    <2>7. LockInv'
      <3>1. \A u \in Threads : ~Awaiting(p, u) \/ class.await # "held"
        BY <1>1, <1>2, HandleAssumption DEF IInv, LockInv
      <3>2. call[p][t].op \in {"use", "wait"}
        BY <1>1, <1>2 DEF IInv, CallInv, Idle
      <3>3. Awaiting(p, t)' /\ builder' = builder /\ slot' = slot /\ class' = class
        BY <1>1, <2>3, <3>2 DEF Awaiting, Using, sessionVars
      <3>4. \A u \in Threads \ {t} : Awaiting(p, u)' = Awaiting(p, u)
        BY <2>3 DEF Awaiting, Using
      <3>5. CASE Held
        BY <1>2, <1>4, <2>4, <3>1, <3>3, <3>4, <3>5, HandleAssumption DEF LockInv, Held
      <3>6. CASE ~Held
        BY <1>2, <1>4, <2>4, <3>1, <3>3, <3>4, <3>6, HandleAssumption DEF LockInv, Held
      <3>7. QED
        BY <3>5, <3>6
    <2>8. SlotInv'
      BY <1>1, <1>2, <2>3 DEF IInv, SlotInv, Closing, Alive, processVars, sessionVars
    <2>9. Local(p) /\ touched' \subseteq {builder}
      BY <1>1, <2>3, <2>4 DEF Local, IInv, OwnerInv, sessionVars
    <2>10. QED
      BY <1>2, <2>5, <2>6, <2>7, <2>8, <2>9, LocalInv
  <1>5. QED
    BY <1>3, <1>4

\* A closing thread takes the session, so there is no other.
LEMMA LockToCloseInv ==
    ASSUME IInv, NEW p \in Procs, NEW t \in Threads, LockToClose(p, t)
    PROVE  IInv'
  <1> DEFINE v == [at |-> "closing", op |-> call[p][t].op, sink |-> call[p][t].sink]
  <1>1. /\ call[p][t].at = "locking" /\ call[p][t].op = "close" /\ lock[p] = NoThread
        /\ UNCHANGED <<processVars, sessionVars, handle, lock, stdin, memo>>
        /\ slot' = [slot EXCEPT ![p] = FALSE]
    BY DEF LockToClose, Taken
  <1>2. /\ p = builder /\ builder # Nobody /\ Alive(p) /\ handle[p] = "live"
        /\ Offers(class, call[p][t].op)
    BY <1>1, CallerFacts DEF Idle
  <1>3. CASE ~slot[p]
    <2>1. call' = [call EXCEPT ![p][t] = Outside]
      BY <1>3 DEF LockToClose, Leave
    <2>2. UNCHANGED slot
      BY <1>1, <1>3 DEF IInv, TypeOK
    <2>3. QED
      BY <1>1, <2>1, <2>2, OutsideIsCall, SideTypes, QuietInv DEF Outside, Idle, sessionVars
  <1>4. CASE slot[p]
    <2>1. Goto(p, t, "closing")
      BY <1>4 DEF LockToClose
    <2>2. v \in Call /\ call' = [call EXCEPT ![p][t] = v]
      BY <2>1, CallGoes DEF IInv
    <2>3. /\ call' \in [Procs -> [Threads -> Call]]
          /\ call'[p][t] = v
          /\ \A u \in Threads \ {t} : call'[p][u] = call[p][u]
          /\ \A q \in Procs \ {p} : call'[q] = call[q]
      BY <2>2, CallMoves DEF IInv
    <2>4. /\ slot' \in [Procs -> BOOLEAN] /\ slot'[p] = FALSE
          /\ \A q \in Procs \ {p} : slot'[q] = slot[q]
      BY <1>1 DEF IInv, TypeOK
    <2>5. TypeOK'
      BY <1>1, <2>3, <2>4 DEF IInv, TypeOK, processVars, sessionVars, ProcessTypeOK
    <2>6. CallInv'
      BY <1>1, <1>2, <2>3 DEF IInv, CallInv, Idle, Closing, Using, Alive, processVars, sessionVars
    <2>7. LockInv'
      <3>1. \A u \in Threads : Awaiting(p, u)' = Awaiting(p, u)
        BY <1>1, <2>3 DEF Awaiting, Using
      <3>2. QED
        BY <1>1, <1>2, <3>1, HandleAssumption DEF IInv, LockInv, Alive, processVars, sessionVars
    <2>8. SlotInv'
      <3>1. class.closable /\ ends = 0 /\ \A u \in Threads : ~Closing(p, u)
        BY <1>1, <1>2, <1>4 DEF IInv, SlotInv, Offers
      <3>2. Closing(p, t)' /\ \A u \in Threads \ {t} : ~Closing(p, u)'
        BY <2>3, <3>1 DEF Closing
      <3>3. QED
        BY <1>1, <1>2, <2>4, <3>1, <3>2 DEF SlotInv, sessionVars
    <2>9. Local(p) /\ touched' \subseteq {builder}
      BY <1>1, <2>3, <2>4 DEF Local, IInv, OwnerInv, sessionVars
    <2>10. QED
      BY <1>2, <2>5, <2>6, <2>7, <2>8, <2>9, LocalInv
  <1>5. QED
    BY <1>3, <1>4

\* A thread leaves its call, and gives back the mutex if it held it.
LEMMA EndUseInv ==
    ASSUME IInv, NEW p \in Procs, NEW t \in Threads, EndUse(p, t)
    PROVE  IInv'
  <1>1. /\ call[p][t].at = "using" /\ call[p][t].op \in {"use", "wait"}
        /\ UNCHANGED <<processVars, sessionVars, handle, slot, stdin, memo>>
        /\ lock' = [lock EXCEPT ![p] = IF @ = t THEN NoThread ELSE @]
        /\ call' = [call EXCEPT ![p][t] = Outside]
    BY DEF EndUse, Leave
  <1>2. /\ p = builder /\ builder # Nobody /\ Alive(p) /\ handle[p] = "live"
    BY <1>1, CallerFacts DEF Idle
  <1>3. /\ call' \in [Procs -> [Threads -> Call]]
        /\ call'[p][t] = Outside
        /\ \A u \in Threads \ {t} : call'[p][u] = call[p][u]
        /\ \A q \in Procs \ {p} : call'[q] = call[q]
    BY <1>1, OutsideIsCall, CallMoves DEF IInv
  <1>4. /\ lock' \in [Procs -> Threads \cup {NoThread}]
        /\ lock'[p] = IF lock[p] = t THEN NoThread ELSE lock[p]
        /\ \A q \in Procs \ {p} : lock'[q] = lock[q]
    BY <1>1 DEF IInv, TypeOK
  <1>5. TypeOK'
    BY <1>1, <1>3, <1>4 DEF IInv, TypeOK, processVars, sessionVars, ProcessTypeOK
  <1>6. CallInv'
    BY <1>1, <1>2, <1>3 DEF IInv, CallInv, Idle, Closing, Using, Alive, Outside,
                            processVars, sessionVars
  <1>7. LockInv'
    <2>1. ~Awaiting(p, t)' /\ \A u \in Threads \ {t} : Awaiting(p, u)' = Awaiting(p, u)
      BY <1>3 DEF Awaiting, Using, Outside
    <2>2. builder' = builder /\ class' = class /\ slot' = slot
      BY <1>1 DEF sessionVars
    <2>3. QED
      BY <1>2, <1>4, <2>1, <2>2, HandleAssumption DEF IInv, LockInv
  <1>8. SlotInv'
    BY <1>1, <1>2, <1>3 DEF IInv, SlotInv, Closing, Outside, Alive, processVars, sessionVars
  <1>9. Local(p) /\ touched' \subseteq {builder}
    BY <1>1, <1>3, <1>4 DEF Local, IInv, OwnerInv, sessionVars
  <1>10. QED
    BY <1>2, <1>5, <1>6, <1>7, <1>8, <1>9, LocalInv

\* So does a control method, which never held it.
LEMMA ControlInv ==
    ASSUME IInv, NEW p \in Procs, NEW t \in Threads, Control(p, t)
    PROVE  IInv'
  <1>1. /\ call[p][t].at = "using" /\ call[p][t].op \in {"kill", "signal"}
        /\ UNCHANGED <<processVars, class, builder, owner, piped, ends, touched, saidNil, copyVars>>
        /\ guest' \in {"running", "exited"}
        /\ call' = [call EXCEPT ![p][t] = Outside]
    BY DEF Control, Leave, IInv, TypeOK
  <1>2. /\ p = builder /\ builder # Nobody /\ Alive(p) /\ handle[p] = "live"
    BY <1>1, CallerFacts DEF Idle
  <1>3. /\ call' \in [Procs -> [Threads -> Call]]
        /\ call'[p][t] = Outside
        /\ \A u \in Threads \ {t} : call'[p][u] = call[p][u]
        /\ \A q \in Procs \ {p} : call'[q] = call[q]
    BY <1>1, OutsideIsCall, CallMoves DEF IInv
  <1>4. TypeOK'
    BY <1>1, <1>3 DEF IInv, TypeOK, processVars, copyVars, ProcessTypeOK
  <1>5. CallInv'
    BY <1>1, <1>2, <1>3 DEF IInv, CallInv, Idle, Closing, Using, Alive, Outside,
                            processVars, copyVars
  <1>6. LockInv'
    <2>1. \A u \in Threads : Awaiting(p, u)' = Awaiting(p, u)
      BY <1>1, <1>3 DEF Awaiting, Using, Outside
    <2>2. QED
      BY <1>1, <1>2, <2>1 DEF IInv, LockInv, copyVars
  <1>7. SlotInv'
    BY <1>1, <1>2, <1>3 DEF IInv, SlotInv, Closing, Outside, Alive, processVars, copyVars
  <1>8. Local(p) /\ touched' \subseteq {builder}
    BY <1>1, <1>3 DEF Local, IInv, OwnerInv, copyVars
  <1>9. QED
    BY <1>2, <1>4, <1>5, <1>6, <1>7, <1>8, LocalInv

\* The only closing thread ends the session.
LEMMA EndCloseInv ==
    ASSUME IInv, NEW p \in Procs, NEW t \in Threads, EndClose(p, t)
    PROVE  IInv'
  <1>1. /\ call[p][t].at = "closing" /\ ends' = ends + 1
        /\ UNCHANGED <<processVars, class, builder, owner, guest, piped, touched, saidNil, copyVars>>
        /\ call' = [call EXCEPT ![p][t] = Outside]
    BY DEF EndClose, Leave
  <1>2. /\ p = builder /\ builder # Nobody /\ Alive(p) /\ handle[p] = "live"
    BY <1>1, CallerFacts DEF Idle
  <1>3. /\ call' \in [Procs -> [Threads -> Call]]
        /\ call'[p][t] = Outside
        /\ \A u \in Threads \ {t} : call'[p][u] = call[p][u]
        /\ \A q \in Procs \ {p} : call'[q] = call[q]
    BY <1>1, OutsideIsCall, CallMoves DEF IInv
  <1>4. /\ ends' = 1 /\ ~slot[p]
        /\ \A u \in Threads : ~Closing(p, u)'
    BY <1>1, <1>2, <1>3 DEF IInv, SlotInv, Closing, Outside
  <1>5. TypeOK'
    BY <1>1, <1>3, <1>4 DEF IInv, TypeOK, processVars, copyVars, ProcessTypeOK
  <1>6. CallInv'
    BY <1>1, <1>2, <1>3 DEF IInv, CallInv, Idle, Closing, Using, Alive, Outside,
                            processVars, copyVars
  <1>7. LockInv'
    <2>1. \A u \in Threads : Awaiting(p, u)' = Awaiting(p, u)
      BY <1>1, <1>3 DEF Awaiting, Using, Outside
    <2>2. QED
      BY <1>1, <1>2, <2>1 DEF IInv, LockInv, copyVars
  <1>8. SlotInv'
    BY <1>1, <1>2, <1>4 DEF IInv, SlotInv, copyVars
  <1>9. Local(p) /\ touched' \subseteq {builder}
    BY <1>1, <1>3 DEF Local, IInv, OwnerInv, copyVars
  <1>10. QED
    BY <1>2, <1>5, <1>6, <1>7, <1>8, <1>9, LocalInv

--------------------------------------------------------------------------------
(* The handle's origin, its end, and the processes.                        *)

LEMMA OpenInv ==
    ASSUME IInv, NEW p \in Procs, NEW t \in Threads, Open(p, t)
    PROVE  IInv'
  <1>1. /\ Alive(p) /\ builder = Nobody /\ builder' = p /\ owner' = Current(p)
        /\ handle' = [handle EXCEPT ![p] = "live"]
        /\ UNCHANGED <<processVars, class, guest, piped, ends, touched, saidNil,
                       slot, lock, stdin, memo, call>>
    BY DEF Open
  <1>2. /\ ProcessInv' /\ lineage' = lineage
        /\ \A q \in Procs : Current(q)' = Current(q) /\ Born(q)' = Born(q)
    BY <1>1, ProcessStutterInv, ProcessAssumption DEF IInv, Born, processVars
  <1>3. /\ \A q \in Procs : handle[q] = "none" /\ slot[q] /\ lock[q] = NoThread
        /\ ends = 0 /\ touched = {}
        /\ \A q \in Procs, u \in Threads : Idle(q, u)
    BY <1>1, HandleAssumption DEF IInv, FreshInv, CallInv
  <1>4. Current(p) \in Identity /\ Born(p)
    BY <1>1, CurrentIsIdentity, ProcessAssumption DEF IInv, ProcessInv, Alive, Born
  <1>5. TypeOK'
    BY <1>1, <1>4 DEF IInv, TypeOK, processVars, ProcessTypeOK
  <1>6. FreshInv' /\ OwnerInv'
    BY <1>1, <1>2, <1>3, <1>4, HandleAssumption DEF FreshInv, OwnerInv, IInv, TypeOK
  <1>7. CallInv' /\ LockInv' /\ SlotInv'
    <2>1. \A q \in Procs, u \in Threads :
             Idle(q, u)' /\ ~Closing(q, u)' /\ ~Awaiting(q, u)'
      BY <1>1, <1>3 DEF Idle, Closing, Awaiting, Using
    <2>2. /\ \A q \in Procs : slot'[q] = TRUE /\ lock'[q] = NoThread
          /\ ends' = 0 /\ builder' \in Procs
      BY <1>1, <1>3 DEF IInv, TypeOK
    <2>3. QED
      BY <2>1, <2>2, HandleAssumption DEF CallInv, LockInv, SlotInv
  <1>8. QED
    BY <1>2, <1>5, <1>6, <1>7 DEF IInv

\* What the end of a copy of the handle has to show: the destructor ran here and
\* ended what was left, or did nothing.
LEMMA FinalizeFacts ==
    ASSUME IdentityAssumption, IInv, NEW p \in Procs, handle[p] = "live", Finalize(p),
           \A t \in Threads : Idle(p, t)
    PROVE  /\ touched' \subseteq {builder} /\ touched' \subseteq Procs
           /\ ends' \in {0, 1} /\ ends' \in Nat
           /\ p # builder => ends' = ends
           /\ ends = 1 => ends' = 1
  <1>1. Owns(p) => p = builder
    BY GuardSound
  <1>2. p = builder => builder # Nobody
    BY HandleAssumption
  <1>3. CASE Owns(p)
    BY <1>1, <1>2, <1>3 DEF Finalize, Touch, IInv, OwnerInv, SlotInv, TypeOK
  <1>4. CASE ~Owns(p)
    BY <1>4 DEF Finalize, IInv, OwnerInv, SlotInv, TypeOK
  <1>5. QED
    BY <1>3, <1>4

LEMMA CollectInv ==
    ASSUME IdentityAssumption, IInv, NEW p \in Procs, Collect(p)
    PROVE  IInv'
  <1>1. /\ Alive(p) /\ handle[p] = "live" /\ Finalize(p)
        /\ \A t \in Threads : Idle(p, t)
        /\ handle' = [handle EXCEPT ![p] = "freed"]
        /\ UNCHANGED <<processVars, class, builder, owner, guest, piped, saidNil,
                       slot, lock, stdin, memo, call>>
    BY DEF Collect
  <1>2. /\ ProcessInv' /\ lineage' = lineage
        /\ \A q \in Procs : Current(q)' = Current(q) /\ Born(q)' = Born(q)
    BY <1>1, ProcessStutterInv, ProcessAssumption DEF IInv, Born, processVars
  <1>3. /\ touched' \subseteq {builder} /\ touched' \subseteq Procs
        /\ ends' \in {0, 1} /\ ends' \in Nat
        /\ p # builder => ends' = ends
        /\ ends = 1 => ends' = 1
    BY <1>1, FinalizeFacts
  <1>4. /\ handle' \in [Procs -> {"none", "live", "freed"}] /\ handle'[p] = "freed"
        /\ \A q \in Procs \ {p} : handle'[q] = handle[q]
    BY <1>1 DEF IInv, TypeOK
  <1>5. TypeOK'
    BY <1>1, <1>3, <1>4 DEF IInv, TypeOK, processVars, ProcessTypeOK
  <1>6. FreshInv' /\ OwnerInv'
    <2>1. builder # Nobody /\ builder' = builder /\ owner' = owner
      BY <1>1 DEF IInv, OwnerInv
    <2>2. QED
      BY <1>1, <1>2, <1>3, <1>4, <2>1 DEF FreshInv, OwnerInv, IInv, TypeOK
  <1>7. CallInv'
    BY <1>1, <1>4 DEF IInv, CallInv, Idle, Closing, Using, Alive, processVars
  <1>8. LockInv'
    BY <1>1 DEF IInv, LockInv, Awaiting, Using, Alive, processVars
  <1>9. SlotInv'
    <2>1. p = builder => \A t \in Threads : ~Closing(builder, t)
      BY <1>1 DEF Closing, Idle
    <2>2. builder' = builder /\ class' = class /\ slot' = slot /\ call' = call /\ status' = status
      BY <1>1 DEF processVars
    <2>3. QED
      BY <1>1, <1>3, <1>4, <2>1, <2>2 DEF IInv, SlotInv, Closing, Alive
  <1>10. QED
    BY <1>2, <1>5, <1>6, <1>7, <1>8, <1>9 DEF IInv

\* A process that is gone has no thread in a call, and owes nothing any more.
LEMMA GoneInv ==
    ASSUME IInv, NEW p \in Procs, ExitProcess(p),
           call' = [call EXCEPT ![p] = [t \in Threads |-> Absent]],
           UNCHANGED <<class, builder, owner, guest, piped, saidNil, slot, lock, stdin, memo>>,
           handle' \in [Procs -> {"none", "live", "freed"}],
           handle'[p] \in {handle[p], "freed"}, handle[p] = "none" => handle'[p] = "none",
           \A q \in Procs \ {p} : handle'[q] = handle[q],
           touched' \subseteq {builder}, touched' \subseteq Procs,
           ends' \in {0, 1}, ends' \in Nat,
           p # builder \/ handle'[p] # "freed" => ends' = ends
    PROVE  IInv'
  <1>1. /\ ProcessInv' /\ lineage' = lineage
        /\ \A q \in Procs : Current(q)' = Current(q)
    BY ExitProcessInv, ProcessAssumption DEF IInv
  <1>2. /\ \A q \in Procs : Born(q)' = Born(q)
        /\ ~Alive(p)' /\ Born(p)
        /\ \A q \in Procs \ {p} : Alive(q)' = Alive(q)
    BY DEF ExitProcess, IInv, TypeOK, ProcessTypeOK, Born, Alive
  <1>3. /\ call' \in [Procs -> [Threads -> Call]]
        /\ \A t \in Threads : call'[p][t] = Absent
        /\ \A q \in Procs \ {p} : call'[q] = call[q]
    BY OutsideIsCall DEF IInv, TypeOK
  <1>4. TypeOK'
    BY <1>1, <1>3 DEF IInv, TypeOK, ProcessInv
  <1>5. FreshInv' /\ OwnerInv'
    <2>1. builder = Nobody => p # builder
      BY HandleAssumption
    <2>2. FreshInv'
      <3>1. SUFFICES ASSUME builder = Nobody PROVE FreshInv'
        BY DEF FreshInv
      <3>2. handle[p] = "none" /\ ends' = ends /\ touched' = {}
        BY <2>1, <3>1, HandleAssumption DEF FreshInv, IInv
      <3>3. QED
        BY <3>1, <3>2 DEF FreshInv, IInv
    <2>3. OwnerInv'
      <3>1. \A q \in Procs : handle'[q] # "none" => handle[q] # "none"
        OBVIOUS
      <3>2. builder' = builder /\ owner' = owner
        OBVIOUS
      <3>3. builder # Nobody => builder \in Procs
        BY DEF IInv, TypeOK
      <3>4. QED
        BY <1>1, <1>2, <3>1, <3>2, <3>3 DEF OwnerInv, IInv
    <2>4. QED
      BY <2>2, <2>3
  <1>6. CallInv'
    <2>1. \A t \in Threads : Idle(p, t)'
      BY <1>3 DEF Idle, Absent
    <2>2. \A q \in Procs \ {p}, t \in Threads : Idle(q, t)' = Idle(q, t)
      BY <1>3 DEF Idle
    <2>3. QED
      BY <1>2, <1>3, <2>1, <2>2 DEF IInv, CallInv, Closing, Using
  <1>7. LockInv'
    <2>1. CASE p # builder
      <3>1. builder # Nobody =>
               /\ builder \in Procs /\ Alive(builder)' = Alive(builder)
               /\ \A t \in Threads : Awaiting(builder, t)' = Awaiting(builder, t)
        BY <1>2, <1>3, <2>1 DEF Awaiting, Using, IInv, TypeOK
      <3>2. builder' = builder /\ class' = class /\ slot' = slot /\ lock' = lock
        OBVIOUS
      <3>3. QED
        BY <3>1, <3>2 DEF LockInv, IInv
    <2>2. CASE p = builder
      BY <1>2, <2>2 DEF LockInv
    <2>3. QED
      BY <2>1, <2>2
  <1>8. SlotInv'
    <2>1. CASE p # builder
      <3>1. builder # Nobody =>
               /\ builder \in Procs /\ handle'[builder] = handle[builder]
               /\ Alive(builder)' = Alive(builder)
               /\ \A t \in Threads : Closing(builder, t)' = Closing(builder, t)
        BY <1>2, <1>3, <2>1 DEF Closing, IInv, TypeOK
      <3>2. builder' = builder /\ class' = class /\ slot' = slot /\ ends' = ends
        BY <2>1
      <3>3. QED
        BY <3>1, <3>2 DEF SlotInv, IInv
    <2>2. CASE p = builder
      BY <1>2, <1>3, <2>2 DEF IInv, SlotInv, Closing, Absent
    <2>3. QED
      BY <2>1, <2>2
  <1>9. QED
    BY <1>1, <1>4, <1>5, <1>6, <1>7, <1>8 DEF IInv

\* What the invariant says of handles and ends, when nothing is finalized.
LEMMA SameCopies ==
    ASSUME IInv
    PROVE  /\ handle \in [Procs -> {"none", "live", "freed"}]
           /\ touched \subseteq {builder} /\ touched \subseteq Procs
           /\ ends \in {0, 1} /\ ends \in Nat
  BY DEF IInv, TypeOK, OwnerInv, SlotInv

LEMMA ExitInv ==
    ASSUME IdentityAssumption, IInv, NEW p \in Procs, Exit(p)
    PROVE  IInv'
  <1>1. /\ ExitProcess(p) /\ \A t \in Threads : Idle(p, t)
        /\ call' = [call EXCEPT ![p] = [t \in Threads |-> Absent]]
        /\ UNCHANGED <<class, builder, owner, guest, piped, saidNil, slot, lock, stdin, memo>>
    BY DEF Exit
  <1>2. CASE handle[p] = "live"
    <2>1. Finalize(p) /\ handle' = [handle EXCEPT ![p] = "freed"]
      BY <1>2 DEF Exit
    <2>2. /\ touched' \subseteq {builder} /\ touched' \subseteq Procs
          /\ ends' \in {0, 1} /\ ends' \in Nat
          /\ p # builder => ends' = ends
      BY <1>1, <1>2, <2>1, FinalizeFacts
    <2>3. /\ handle' \in [Procs -> {"none", "live", "freed"}] /\ handle'[p] = "freed"
          /\ \A q \in Procs \ {p} : handle'[q] = handle[q]
      BY <2>1 DEF IInv, TypeOK
    <2>4. QED
      BY <1>1, <1>2, <2>2, <2>3, GoneInv
  <1>3. CASE handle[p] # "live"
    <2>1. UNCHANGED <<touched, ends, handle>>
      BY <1>3 DEF Exit
    <2>2. QED
      BY <1>1, <2>1, SameCopies, GoneInv
  <1>4. QED
    BY <1>2, <1>3

LEMMA CrashInv ==
    ASSUME IInv, NEW p \in Procs, Crash(p)
    PROVE  IInv'
  <1>1. /\ ExitProcess(p)
        /\ call' = [call EXCEPT ![p] = [t \in Threads |-> Absent]]
        /\ UNCHANGED <<sessionVars, copyVars>>
    BY DEF Crash
  <1>2. QED
    BY <1>1, SameCopies, GoneInv DEF sessionVars, copyVars

\* The child gets a copy of everything but a thread in a call, and the parent's
\* identity among its ancestors'.
LEMMA ForkInv ==
    ASSUME IInv, NEW p \in Procs, NEW c \in Procs, NEW t \in Threads, Fork(p, c, t)
    PROVE  IInv'
  <1>1. /\ ProcessInv' /\ p # c
        /\ lineage' = [lineage EXCEPT ![c] = lineage[p] \cup {Current(p)}]
        /\ \A q \in Procs \ {c} : Current(q)' = Current(q)
    BY ForkProcessInv, ProcessAssumption DEF Fork, IInv
  <1>2. /\ status' = [status EXCEPT ![c] = "alive"] /\ status[c] = "unborn"
        /\ UNCHANGED sessionVars
        /\ call' = [call EXCEPT ![c][t] = Outside]
    BY DEF Fork, ForkProcess
  <1>3. /\ slot' = [slot EXCEPT ![c] = slot[p]] /\ lock' = [lock EXCEPT ![c] = lock[p]]
        /\ handle' = [handle EXCEPT ![c] = handle[p]]
        /\ stdin' = [stdin EXCEPT ![c] = stdin[p]] /\ memo' = [memo EXCEPT ![c] = memo[p]]
    BY DEF Fork
  <1>4. /\ call' \in [Procs -> [Threads -> Call]]
        /\ call'[c][t] = Outside
        /\ \A u \in Threads \ {t} : call'[c][u] = call[c][u]
        /\ \A q \in Procs \ {c} : call'[q] = call[q]
    BY <1>2, OutsideIsCall, CallMoves DEF IInv
  <1>5. /\ ~Born(c) /\ Born(c)' /\ ~Alive(c)
        /\ \A q \in Procs \ {c} : Born(q)' = Born(q) /\ Alive(q)' = Alive(q)
    BY <1>2 DEF IInv, TypeOK, ProcessTypeOK, Born, Alive
  <1>6. c # builder
    BY <1>5, HandleAssumption DEF IInv, OwnerInv
  <1>7. TypeOK'
    BY <1>1, <1>2, <1>3, <1>4 DEF IInv, TypeOK, ProcessInv, sessionVars
  <1>8. \A q \in Procs \ {c} : slot'[q] = slot[q] /\ lock'[q] = lock[q] /\ handle'[q] = handle[q]
    BY <1>3 DEF IInv, TypeOK
  <1>9. slot'[c] = slot[p] /\ lock'[c] = lock[p] /\ handle'[c] = handle[p]
    BY <1>3 DEF IInv, TypeOK
  <1>10. builder' = builder /\ class' = class /\ owner' = owner /\ ends' = ends /\ touched' = touched
    BY <1>2 DEF sessionVars
  <1>11. FreshInv'
    BY <1>1, <1>8, <1>9, <1>10 DEF IInv, FreshInv
  <1>12. OwnerInv'
    <2>1. builder # Nobody => Born(builder)' /\ owner' = Current(builder)'
      BY <1>1, <1>5, <1>6, <1>10 DEF IInv, OwnerInv, TypeOK
    <2>2. ASSUME NEW q \in Procs, handle'[q] # "none"
          PROVE  Born(q)' /\ builder # Nobody /\ (q = builder \/ owner \in lineage'[q])
      <3>1. CASE q = c
        <4>1. handle[p] # "none" /\ lineage'[c] = lineage[p] \cup {Current(p)}
          BY <1>1, <1>9, <2>2, <3>1 DEF IInv, TypeOK, ProcessTypeOK
        <4>2. builder # Nobody /\ (p = builder \/ owner \in lineage[p])
          BY <4>1 DEF IInv, OwnerInv
        <4>3. QED
          BY <1>5, <3>1, <4>1, <4>2 DEF IInv, OwnerInv
      <3>2. CASE q # c
        <4>1. handle[q] # "none" /\ lineage'[q] = lineage[q]
          BY <1>1, <1>8, <2>2, <3>2 DEF IInv, TypeOK, ProcessTypeOK
        <4>2. QED
          BY <1>5, <3>2, <4>1 DEF IInv, OwnerInv
      <3>3. QED
        BY <3>1, <3>2
    <2>3. QED
      BY <1>10, <2>1, <2>2 DEF IInv, OwnerInv
  <1>13. CallInv'
    <2>1. \A u \in Threads : Idle(c, u) /\ Idle(c, u)'
      BY <1>4, <1>6 DEF IInv, CallInv, Idle, Outside
    <2>2. \A q \in Procs \ {c}, u \in Threads : Idle(q, u)' = Idle(q, u)
      BY <1>4 DEF Idle
    <2>3. QED
      BY <1>4, <1>5, <1>8, <1>10, <2>1, <2>2 DEF IInv, CallInv, Closing, Using
  <1>14. builder # Nobody =>
            /\ builder \in Procs \ {c} /\ Alive(builder)' = Alive(builder)
            /\ \A u \in Threads : /\ Awaiting(builder, u)' = Awaiting(builder, u)
                                  /\ Closing(builder, u)' = Closing(builder, u)
    BY <1>4, <1>5, <1>6, <1>10 DEF IInv, TypeOK, Awaiting, Using, Closing
  <1>15. LockInv'
    BY <1>8, <1>10, <1>14 DEF IInv, LockInv
  <1>16. SlotInv'
    BY <1>8, <1>9, <1>10, <1>14 DEF IInv, SlotInv
  <1>17. QED
    BY <1>1, <1>7, <1>11, <1>12, <1>13, <1>15, <1>16 DEF IInv

\* A new thread, or the end of the exec's process, disturbs nothing.
LEMMA SideStepInv ==
    ASSUME IInv, UNCHANGED <<processVars, class, builder, owner, piped, ends, touched, saidNil,
                             copyVars>>,
           guest' \in {"running", "exited"},
           call' \in [Procs -> [Threads -> Call]],
           \A p \in Procs, t \in Threads :
              call'[p][t] = call[p][t] \/ (Idle(p, t) /\ call'[p][t] = Outside)
    PROVE  IInv'
  <1>1. /\ ProcessInv' /\ lineage' = lineage
        /\ \A q \in Procs : Current(q)' = Current(q) /\ Born(q)' = Born(q) /\ Alive(q)' = Alive(q)
    BY ProcessStutterInv, ProcessAssumption DEF IInv, Born, Alive, processVars
  <1>2. \A p \in Procs, t \in Threads :
           /\ Idle(p, t)' = Idle(p, t) /\ Awaiting(p, t)' = Awaiting(p, t)
           /\ Closing(p, t)' = Closing(p, t) /\ Using(p, t)' = Using(p, t)
           /\ ~Idle(p, t) => call'[p][t] = call[p][t]
    BY DEF Idle, Awaiting, Using, Closing, Outside
  <1>3. TypeOK'
    BY <1>1 DEF IInv, TypeOK, ProcessInv, copyVars
  <1>4. FreshInv' /\ OwnerInv'
    BY <1>1 DEF IInv, FreshInv, OwnerInv, copyVars, TypeOK
  <1>5. CallInv'
    BY <1>1, <1>2 DEF IInv, CallInv, copyVars
  <1>6. builder # Nobody => builder \in Procs
    BY DEF IInv, TypeOK
  <1>7. LockInv' /\ SlotInv'
    BY <1>1, <1>2, <1>6 DEF IInv, LockInv, SlotInv, copyVars
  <1>8. QED
    BY <1>1, <1>3, <1>4, <1>5, <1>7 DEF IInv

LEMMA SpawnInv ==
    ASSUME IInv, NEW p \in Procs, NEW t \in Threads, Spawn(p, t)
    PROVE  IInv'
  <1>1. /\ call[p][t].at = "absent" /\ call' = [call EXCEPT ![p][t] = Outside]
        /\ UNCHANGED <<processVars, sessionVars, copyVars>>
    BY DEF Spawn
  <1>2. /\ call' \in [Procs -> [Threads -> Call]]
        /\ call'[p][t] = Outside
        /\ \A u \in Threads \ {t} : call'[p][u] = call[p][u]
        /\ \A q \in Procs \ {p} : call'[q] = call[q]
    BY <1>1, OutsideIsCall, CallMoves DEF IInv
  <1>3. \A q \in Procs, u \in Threads :
           call'[q][u] = call[q][u] \/ (Idle(q, u) /\ call'[q][u] = Outside)
    BY <1>1, <1>2 DEF Idle
  <1>4. QED
    BY <1>1, <1>2, <1>3, SideTypes, SideStepInv DEF sessionVars

LEMMA GuestExitsInv ==
    ASSUME IInv, GuestExits
    PROVE  IInv'
  BY SideStepInv DEF GuestExits, IInv, TypeOK

--------------------------------------------------------------------------------
(* The invariant is inductive, and what follows from it.                   *)

LEMMA InitInv ==
    ASSUME Init
    PROVE  IInv
  <1>1. ProcessInv
    BY ProcessInitInv, ProcessAssumption DEF Init
  <1>2. Root \in Procs /\ owner \in Identity /\ piped \in BOOLEAN /\ ends \in Nat
    BY <1>1, ProcessAssumption DEF Init, ProcessInv, ProcessTypeOK, Identity
  <1>3. call \in [Procs -> [Threads -> Call]] /\ \A p \in Procs, u \in Threads : Idle(p, u)
    BY OutsideIsCall DEF Init, Idle, Outside, Absent
  <1>4. TypeOK
    BY <1>1, <1>2, <1>3 DEF Init, TypeOK, ProcessInv
  <1>5. FreshInv /\ OwnerInv /\ LockInv /\ SlotInv
    BY DEF Init, FreshInv, OwnerInv, LockInv, SlotInv
  <1>6. CallInv
    BY <1>3 DEF CallInv
  <1>7. QED
    BY <1>1, <1>4, <1>5, <1>6 DEF IInv

LEMMA StutterInv ==
    ASSUME IInv, UNCHANGED vars
    PROVE  IInv'
  <1>1. /\ guest' \in {"running", "exited"} /\ call' = call
        /\ call' \in [Procs -> [Threads -> Call]]
    BY DEF vars, sessionVars, IInv, TypeOK
  <1>2. QED
    BY <1>1, SideStepInv DEF vars, sessionVars

LEMMA NextInv ==
    ASSUME IdentityAssumption, IInv, [Next]_vars
    PROVE  IInv'
  <1>1. ASSUME NEW p \in Procs, NEW t \in Threads, Step(p, t)
        PROVE  IInv'
    <2>1. CASE \E op \in Ops : Get(p, t, op)
      BY <2>1, GetInv
    <2>2. CASE \E c \in Procs : Fork(p, c, t)
      BY <2>2, ForkInv
    <2>3. QED
      BY <1>1, <2>1, <2>2, OpenInv, NotStartedInv, StartInv, LockToUseInv, LockToCloseInv,
         EndUseInv, ControlInv, EndCloseInv, TakeStdinInv, StdinInterruptedInv, RememberInv,
         SpawnInv DEF Step
  <1>2. QED
    BY <1>1, CollectInv, ExitInv, CrashInv, GuestExitsInv, StutterInv DEF Next

\* The invariant holds in every state, provided identities are sound.
THEOREM Invariant ==
    ASSUME IdentityAssumption PROVE Spec => []IInv
  <1>1. Init => IInv
    BY InitInv
  <1>2. IInv /\ [Next]_vars => IInv'
    BY NextInv
  <1>3. QED
    BY <1>1, <1>2, PTL DEF Spec

\* Type correctness.
THEOREM TypeCorrect ==
    ASSUME IdentityAssumption PROVE Spec => []TypeOK
  <1>1. IInv => TypeOK
    BY DEF IInv
  <1>2. QED
    BY <1>1, Invariant, PTL

\* Nobody but the process that built a handle gets past its guard or runs its
\* destructor.
THEOREM GuardKeepsOthersOut ==
    ASSUME IdentityAssumption PROVE Spec => []OnlyBuilderActs
  <1>1. IInv => OnlyBuilderActs
    BY DEF IInv, OwnerInv, OnlyBuilderActs
  <1>2. QED
    BY <1>1, Invariant, PTL

\* The session ends once, not while the builder holds it, and not under a call that
\* awaits it.
THEOREM EndsCleanlySound ==
    ASSUME IdentityAssumption PROVE Spec => []EndsCleanly
  <1>1. ASSUME IInv, builder # Nobody, class.await = "held",
               NEW t \in Threads, Using(builder, t)
        PROVE  ends = 0
    <2>1. /\ builder \in Procs /\ ~Idle(builder, t) /\ Alive(builder) /\ handle[builder] = "live"
          /\ Offers(class, call[builder][t].op)
      BY <1>1, CallerFacts DEF IInv, TypeOK, Using, Idle
    <2>2. CASE call[builder][t].op \in {"use", "wait"}
      <3>1. lock[builder] = t /\ t # NoThread
        BY <1>1, <2>1, <2>2, HandleAssumption DEF IInv, LockInv, Awaiting
      <3>2. QED
        BY <1>1, <2>1, <3>1 DEF IInv, LockInv, SlotInv
    <2>3. CASE call[builder][t].op \notin {"use", "wait"}
      <3>1. call[builder][t].op # "close"
        BY <1>1, <2>1 DEF IInv, CallInv
      <3>2. class.exec
        BY <2>1, <2>3, <3>1 DEF Offers
      <3>3. ~class.closable
        BY <1>1, <3>2 DEF IInv, TypeOK, Classes, FsWriteSink, SshClient, SftpClient, SshServer,
                          FsReadStream, LogStream, ExecHandle, AgentClient
      <3>4. QED
        BY <1>1, <2>1, <3>3 DEF IInv, SlotInv
    <2>4. QED
      BY <2>2, <2>3
  <1>2. ASSUME IInv PROVE EndsCleanly
    BY <1>1, <1>2 DEF IInv, SlotInv, EndsCleanly
  <1>3. QED
    BY <1>2, Invariant, PTL

\* A session that has left its slot is closed or being closed.
THEOREM CloseNotLostSound ==
    ASSUME IdentityAssumption PROVE Spec => []CloseNotLost
  <1>1. IInv => CloseNotLost
    BY DEF IInv, SlotInv, CloseNotLost, Closing
  <1>2. QED
    BY <1>1, Invariant, PTL

================================================================================
