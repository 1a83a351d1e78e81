----------------------------- MODULE EnsureRuntime -----------------------------
(***************************************************************************)
(* First-use provisioning of the msb runtime in one process                *)
(* (lib/microsandbox.rb): ensure_runtime!, which every create, connect and *)
(* start calls, and the explicit install and setup, all under one Monitor. *)
(*                                                                         *)
(* Native.install releases the GVL, for as long as a download takes;       *)
(* meanwhile other threads call, are interrupted, or change the default    *)
(* backend.  A companion gem or MICROSANDBOX_NO_AUTO_INSTALL may relieve   *)
(* the process of provisioning altogether.                                 *)
(***************************************************************************)
EXTENDS Naturals, FiniteSets

CONSTANTS
    Threads,        \* the threads of the process
    MaxCalls,       \* bound: calls in one behaviour
    MaxRaises,      \* bound: interrupts and failures
    NoThread

ASSUME RuntimeAssumption ==
    /\ MaxCalls \in Nat
    /\ MaxRaises \in Nat
    /\ NoThread \notin Threads

VARIABLES
    ready,       \* @runtime_ready
    owner,       \* of RUNTIME_SETUP_LOCK
    depth,       \* how often the owner has entered it: it is re-entrant
    pc,          \* where each thread is
    op,          \* what it called: "ensure", "install" or "setup"
    files,       \* ~/.microsandbox: "absent", "stale", "torn" or "good"
    managed,     \* bundled_runtime_active? or auto_install_disabled?
    backend,     \* the kind of the default backend, which other code switches
    provisions,  \* history: installs that ensure_runtime! completed
    forgotten,   \* history: of those, the ones it was interrupted after
    replaced,    \* history: setup has been at the files since the flag was set
    calls, raises

vars == <<ready, owner, depth, pc, op, files, managed, backend, provisions, forgotten,
          replaced, calls, raises>>

Operations == {"ensure", "install", "setup"}
Places == {"out", "lock", "recheck", "decide", "lockInstall", "start", "installing", "mark"}

--------------------------------------------------------------------------------
(* The Monitor.                                                            *)

Goto(t, place) == pc' = [pc EXCEPT ![t] = place]

EnterMonitor(t) ==
    /\ owner \in {NoThread, t}
    /\ owner' = t
    /\ depth' = depth + 1

LeaveMonitor(t) ==
    /\ depth' = depth - 1
    /\ owner' = IF depth = 1 THEN NoThread ELSE owner

\* MUTANTS of Unwound: an exception skips the unlock, of both or of the outer one.
LeftLocked(t) == UNCHANGED <<owner, depth>>
UnwoundOnce(t) == IF owner = t THEN LeaveMonitor(t) ELSE UNCHANGED <<owner, depth>>
\* An exception leaves every synchronize the thread is in.
Unwound(t) ==
    IF owner = t THEN owner' = NoThread /\ depth' = 0 ELSE UNCHANGED <<owner, depth>>

\* An exception out of the call: an interrupt, or an error of what it calls.
Raise(t) ==
    /\ raises < MaxRaises
    /\ raises' = raises + 1
    /\ Unwound(t)
    /\ Goto(t, "out")

--------------------------------------------------------------------------------
(* The calls.                                                              *)

Call(t, o) ==
    /\ pc[t] = "out"
    /\ calls < MaxCalls
    /\ calls' = calls + 1
    /\ op' = [op EXCEPT ![t] = o]
    /\ Goto(t, CASE o = "ensure" /\ ready -> "out"
                 [] o = "ensure" /\ ~ready -> "lock"
                 [] OTHER -> "lockInstall")
    /\ UNCHANGED <<ready, owner, depth, files, managed, backend, provisions, forgotten,
                   replaced, raises>>

Lock(t) ==
    /\ pc[t] = "lock"
    /\ EnterMonitor(t)
    /\ Goto(t, "recheck")
    /\ UNCHANGED <<ready, op, files, managed, backend, provisions, forgotten, replaced,
                   calls, raises>>

\* MUTANT of Settled: no second look under the lock.
NotLookedAt == FALSE
\* Another thread has finished meanwhile.
Settled == ready

Recheck(t) ==
    /\ pc[t] = "recheck"
    /\ IF Settled THEN LeaveMonitor(t) /\ Goto(t, "out")
                  ELSE Goto(t, "decide") /\ UNCHANGED <<owner, depth>>
    /\ UNCHANGED <<ready, op, files, managed, backend, provisions, forgotten, replaced,
                   calls, raises>>

\* MUTANT of ReadyUnderCloud: the decision is memoized like the others.
CloudMemoized == TRUE
\* Under a cloud backend nothing is provisioned - nor memoized: the default may
\* become local.
ReadyUnderCloud == ready

Decide(t) ==
    /\ pc[t] = "decide"
    /\ IF backend = "cloud" \/ managed
       THEN /\ ready' = IF backend = "cloud" THEN ReadyUnderCloud ELSE TRUE
            /\ LeaveMonitor(t)
            /\ Goto(t, "out")
       ELSE Goto(t, "lockInstall") /\ UNCHANGED <<ready, owner, depth>>
    /\ UNCHANGED <<op, files, managed, backend, provisions, forgotten, replaced, calls,
                   raises>>

\* install and setup synchronize, on their own account or inside ensure_runtime!.
Guarded(t) == EnterMonitor(t)

LockInstall(t) ==
    /\ pc[t] = "lockInstall"
    /\ Guarded(t)
    /\ Goto(t, "start")
    /\ UNCHANGED <<ready, op, files, managed, backend, provisions, forgotten, replaced,
                   calls, raises>>

\* The installer runs, without the GVL.  install leaves a matching runtime alone;
\* setup may be told to replace it, or to put it elsewhere.
StartInstall(t) ==
    /\ pc[t] = "start"
    /\ IF op[t] = "setup"
       THEN files' \in {"torn", files} /\ replaced' = TRUE
       ELSE files' = (IF files = "good" THEN "good" ELSE "torn") /\ UNCHANGED replaced
    /\ Goto(t, "installing")
    /\ UNCHANGED <<ready, owner, depth, op, managed, backend, provisions, forgotten, calls,
                   raises>>

\* It completes; a pinned setup may leave a runtime of another version.
FinishInstall(t) ==
    /\ pc[t] = "installing"
    /\ files' \in IF op[t] = "setup" THEN {"good", "stale", files} ELSE {"good"}
    /\ LeaveMonitor(t)
    /\ Goto(t, IF op[t] = "ensure" THEN "mark" ELSE "out")
    /\ provisions' = IF op[t] = "ensure" THEN provisions + 1 ELSE provisions
    /\ UNCHANGED <<ready, op, managed, backend, forgotten, replaced, calls, raises>>

\* It fails: whatever it was at stays as it is.
FailInstall(t) ==
    /\ pc[t] = "installing"
    /\ Raise(t)
    /\ UNCHANGED <<ready, op, files, managed, backend, provisions, forgotten, replaced, calls>>

Mark(t) ==
    /\ pc[t] = "mark"
    /\ ready' = TRUE
    /\ replaced' = FALSE
    /\ LeaveMonitor(t)
    /\ Goto(t, "out")
    /\ UNCHANGED <<op, files, managed, backend, provisions, forgotten, calls, raises>>

\* An interrupt anywhere in Ruby code, waiting for the lock included, or before
\* the installer has started; or default_backend_kind raises.
Interrupt(t) ==
    /\ pc[t] \notin {"out", "installing"}
    /\ Raise(t)
    /\ forgotten' = IF pc[t] = "mark" THEN forgotten + 1 ELSE forgotten
    /\ UNCHANGED <<ready, op, files, managed, backend, provisions, replaced, calls>>

\* set_default_backend or with_backend, on any thread.
SwitchBackend ==
    /\ backend' \in {"local", "cloud"} \ {backend}
    /\ UNCHANGED <<ready, owner, depth, pc, op, files, managed, provisions, forgotten,
                   replaced, calls, raises>>

Init ==
    /\ ready = FALSE
    /\ owner = NoThread /\ depth = 0
    /\ pc = [t \in Threads |-> "out"]
    /\ op \in [Threads -> {"ensure"}]
    /\ files \in {"absent", "stale", "good"}
    /\ managed \in BOOLEAN
    /\ backend \in {"local", "cloud"}
    /\ provisions = 0 /\ forgotten = 0 /\ replaced = FALSE
    /\ calls = 0 /\ raises = 0

Locking(t) == Lock(t) \/ LockInstall(t)
Working(t) ==
    Recheck(t) \/ Decide(t) \/ StartInstall(t) \/ FinishInstall(t) \/ Mark(t)

Next ==
    \/ \E t \in Threads :
         \/ \E o \in Operations : Call(t, o)
         \/ Locking(t) \/ Working(t)
         \/ FailInstall(t) \/ Interrupt(t)
    \/ SwitchBackend

Spec == Init /\ [][Next]_vars

\* Threads are scheduled and the installer ends.  Nothing is assumed of the order
\* in which the Monitor lets its waiters in: the calls are bounded, so it is free
\* in the end.
FairSpec ==
    Spec /\ \A t \in Threads : WF_vars(Working(t)) /\ WF_vars(Locking(t))

--------------------------------------------------------------------------------
TypeOK ==
    /\ ready \in BOOLEAN
    /\ owner \in Threads \cup {NoThread} /\ depth \in 0..2
    /\ pc \in [Threads -> Places]
    /\ op \in [Threads -> Operations]
    /\ files \in {"absent", "stale", "torn", "good"}
    /\ managed \in BOOLEAN /\ backend \in {"local", "cloud"}
    /\ provisions \in 0..MaxCalls /\ forgotten \in 0..MaxRaises
    /\ replaced \in BOOLEAN
    /\ calls \in 0..MaxCalls /\ raises \in 0..MaxRaises

\* The flag tells the truth: once it is set, either nothing has to be provisioned
\* here, or a runtime of the right version is in place and, unless setup was told
\* otherwise, stays there.  A failed or interrupted install never sets it, and
\* neither does a call made while the default was a cloud backend.
ReadyMeansUsable == ready => managed \/ files = "good" \/ replaced

\* "Runs at most once per process": any number of threads racing through their
\* first create provision once, unless an interrupt came between the install and
\* the flag.  And the installer "replaces files in place, so two threads ... must
\* not both run it" (lib/microsandbox.rb): install, setup and first use take turns.
ProvisionedOnce ==
    /\ provisions <= 1 + forgotten
    /\ Cardinality({t \in Threads : pc[t] \in {"start", "installing"}}) <= 1

\* Nobody waits for the lock for ever, whoever failed or was interrupted with it.
Waiting(t) == pc[t] \in {"lock", "lockInstall"}
LockObtained == \A t \in Threads : Waiting(t) ~> ~Waiting(t)

================================================================================
