------------------------------ MODULE PullSession ------------------------------
(***************************************************************************)
(* PullSession#sandbox (lib/microsandbox/sandbox.rb) over the native       *)
(* PullSession::result (ext/microsandbox/src/sandbox.rs): the sandbox that *)
(* a create task boots can be taken once, and Ruby remembers what came of  *)
(* it.                                                                     *)
(*                                                                         *)
(* Sandbox.acquire, which the call goes through, is the subject of module  *)
(* Acquire; of its checkpoints this module keeps one before the native     *)
(* call starts, one where acquire's own cleanup answers, and one between   *)
(* its return and the assignment, where nothing does.                      *)
(***************************************************************************)
EXTENDS Naturals, FiniteSets

CONSTANTS
    Threads,         \* the threads that may share the session
    MaxAsked,        \* bound: calls of PullSession#sandbox
    MaxInterrupts    \* bound: interrupts delivered

ASSUME SessionAssumption ==
    IsFiniteSet(Threads) /\ MaxAsked \in Nat /\ MaxInterrupts \in Nat

VARIABLES
    task,        \* the create task: "running", "booted" or "failed"
    up,          \* the microVM it booted runs
    join,        \* is its JoinHandle still in the native session?
    users,       \* the threads that do
    place,       \* where each thread is in PullSession#sandbox
    memo,        \* @sandbox is set
    failure,     \* @failure: "none" or which error
    returned,    \* history: some call has returned the sandbox
    spoilt,      \* history: an interrupt consumed the result
    answer,      \* history: what the last step told its caller
    asked, interrupts

sessionVars ==
    <<task, up, join, users, place, memo, failure, returned, spoilt, answer, asked,
      interrupts>>

Errors == {"failed", "taken", "unstarted"}

--------------------------------------------------------------------------------
Goto(t, there) == place' = [place EXCEPT ![t] = there]

\* The call ends: with the sandbox, an error of the native layer, or an interrupt.
Answer(t, a) == answer' = a /\ Goto(t, "out")

\* @failure ||= e
Remembered(e) == IF failure = "none" THEN e ELSE failure

\* MUTANT of Interrupted: the rescue is for every exception.
InterruptRemembered == Remembered("interrupt")
\* What an interrupt leaves of @failure: it is no Microsandbox::Error.
Interrupted == failure

\* An interrupt in thread t.
Interrupt(t) ==
    /\ interrupts < MaxInterrupts
    /\ interrupts' = interrupts + 1
    /\ failure' = Interrupted
    /\ Answer(t, "interrupt")

\* The task ends.
TaskEnds ==
    /\ task = "running"
    /\ \/ task' = "booted" /\ up' = TRUE
       \/ task' = "failed" /\ up' = FALSE
    /\ answer' = "none"
    /\ UNCHANGED <<join, users, place, memo, failure, returned, spoilt, asked, interrupts>>

\* raise @failure if @failure
Ask(t) ==
    /\ t \in users
    /\ place[t] = "out"
    /\ asked < MaxAsked
    /\ asked' = asked + 1
    /\ IF failure # "none" THEN Answer(t, failure)
       ELSE Goto(t, "begun") /\ answer' = "none"
    /\ UNCHANGED <<users, task, up, join, memo, failure, returned, spoilt, interrupts>>

\* MUTANT of Memoized: @sandbox is not looked at.
NeverMemoized == FALSE
\* @sandbox ||=
Memoized == memo

LookUp(t) ==
    /\ place[t] = "begun"
    /\ IF Memoized
       THEN Answer(t, "sandbox") /\ returned' = TRUE
       ELSE Goto(t, "entering") /\ answer' = "none" /\ UNCHANGED returned
    /\ UNCHANGED <<users, task, up, join, memo, failure, spoilt, asked, interrupts>>

\* MUTANT of Unentered: the handle is taken in a block_on of its own, before the
\* one that is interrupted.
TakenFirst == FALSE
\* What an interrupt at the entry of the native call leaves of the handle.
Unentered == join

\* The native call is interrupted before it starts, or cannot start.
NotEntered(t) ==
    /\ place[t] = "entering"
    /\ \/ Interrupt(t)
       \/ /\ Answer(t, "unstarted")
          /\ failure' = Remembered("unstarted") /\ UNCHANGED interrupts
    /\ join' = Unentered
    /\ UNCHANGED <<users, task, up, memo, returned, spoilt, asked>>

\* What taking it leaves in the session.
Taken == FALSE

\* It takes the handle, and awaits the task in the same future.
Enter(t) ==
    /\ place[t] = "entering"
    /\ join' = Taken
    /\ Goto(t, IF join THEN "waiting" ELSE "late")
    /\ answer' = "none"
    /\ UNCHANGED <<users, task, up, memo, failure, returned, spoilt, asked, interrupts>>

\* The call returns an error: the handle was taken before, or the task failed.
Fail(t) ==
    /\ \/ place[t] = "late" /\ Answer(t, "taken") /\ failure' = Remembered("taken")
       \/ /\ place[t] = "waiting" /\ task = "failed"
          /\ Answer(t, "failed") /\ failure' = Remembered("failed")
    /\ UNCHANGED <<users, task, up, join, memo, returned, spoilt, asked, interrupts>>

\* It returns the sandbox, to Sandbox.acquire.
Deliver(t) ==
    /\ place[t] = "waiting"
    /\ task = "booted"
    /\ Goto(t, "acquired")
    /\ answer' = "none"
    /\ UNCHANGED <<users, task, up, join, memo, failure, returned, spoilt, asked, interrupts>>

\* An interrupt before acquire has handed the sandbox off, which then stops it, or
\* after, which leaves it to the collector.  The result is consumed either way.
Spoil(t) ==
    /\ place[t] = "acquired"
    /\ Interrupt(t)
    /\ up' \in {FALSE, up}
    /\ spoilt' = TRUE
    /\ UNCHANGED <<users, task, join, memo, returned, asked>>

Assign(t) ==
    /\ place[t] = "acquired"
    /\ memo' = TRUE
    /\ returned' = TRUE
    /\ Answer(t, "sandbox")
    /\ UNCHANGED <<users, task, up, join, failure, spoilt, asked, interrupts>>

SessionInit ==
    /\ task = "running" /\ up = FALSE /\ join = TRUE
    /\ users \in (SUBSET Threads) \ {{}}
    /\ place = [t \in Threads |-> "out"]
    /\ memo = FALSE /\ failure = "none"
    /\ returned = FALSE /\ spoilt = FALSE /\ answer = "none"
    /\ asked = 0 /\ interrupts = 0

Proceed(t) ==
    LookUp(t) \/ Enter(t) \/ Fail(t) \/ Deliver(t) \/ Assign(t)

SessionNext ==
    \/ TaskEnds
    \/ \E t \in Threads : Ask(t) \/ Proceed(t) \/ NotEntered(t) \/ Spoil(t)

SessionSpec == SessionInit /\ [][SessionNext]_sessionVars

--------------------------------------------------------------------------------
SessionTypeOK ==
    /\ task \in {"running", "booted", "failed"}
    /\ up \in BOOLEAN /\ join \in BOOLEAN /\ users \subseteq Threads
    /\ place \in [Threads -> {"out", "begun", "entering", "waiting", "late", "acquired"}]
    /\ memo \in BOOLEAN /\ failure \in Errors \cup {"none"}
    /\ returned \in BOOLEAN /\ spoilt \in BOOLEAN
    /\ answer \in Errors \cup {"none", "sandbox", "interrupt"}
    /\ asked \in 0..MaxAsked /\ interrupts \in 0..MaxInterrupts

\* The sandbox the task boots can always be reached: it is remembered, or some
\* thread is about to get it, or its handle is still there for the next call - an
\* interrupt before the native call starts costs nothing ("as two calls, an
\* interrupt between them would drop the taken JoinHandle", sandbox.rs).
Holder(t) == place[t] \in {"waiting", "acquired"}
Reachable == task # "failed" => join \/ memo \/ spoilt \/ \E t \in Threads : Holder(t)

\* "A later call returns the same Sandbox, or re-raises the same error": with one
\* thread using the session, as documented, no call raises an error of the native
\* layer once one has returned the sandbox, and none says that the result is gone
\* unless an interrupt did consume it.
SameAnswer ==
    Cardinality(users) = 1 =>
        /\ returned => answer \notin Errors
        /\ answer = "taken" => spoilt

================================================================================
