-------------------------------- MODULE Handles --------------------------------
(***************************************************************************)
(* The native handles that Ruby objects hold - streams, sinks, exec, ssh   *)
(* and agent sessions - behind ForkGuarded (ext/microsandbox/src/          *)
(* runtime.rs).  A handle may be used only by the process that built it,   *)
(* and a forked child must not even destroy its copy; inside that process, *)
(* threads share it through a mutex of tokio's, and some handles are       *)
(* consumed by their close.                                                *)
(*                                                                         *)
(* One handle is followed from its construction to its end in every        *)
(* process.  Of a native call the module keeps the guard, the one          *)
(* interrupt that can end it before it starts, and the future; module      *)
(* Acquire has the entry in full.  Trap handlers that fork inside a native *)
(* call are left to ForkBackend.                                           *)
(***************************************************************************)
EXTENDS ProcessIdentity

CONSTANTS
    Threads,     \* the threads of a process
    NoThread,    \* nobody holds the mutex
    Nobody       \* nobody has built the handle

ASSUME HandleAssumption == NoThread \notin Threads /\ Nobody \notin Procs

VARIABLES
    class,      \* which protocol the handle follows
    builder,    \* the process that built it: history
    owner,      \* the identity it is tagged with
    handle,     \* the Ruby object in each process: "none", "live" or "freed"
    slot,       \* does the copy of each process still hold the session?
    lock,       \* the thread that holds the mutex, in each process
    call,       \* what each thread of each process is doing
    stdin,      \* does the copy of each process still hold the stdin sink?
    memo,       \* @stdin in each process: "unset", "nil" or "writer"
    guest,      \* an exec's process in the sandbox: "running" or "exited"
    piped,      \* was its stdin piped?
    ends,       \* how often the session was closed or destroyed: history
    touched,    \* the processes that reached behind the guard: history
    saidNil     \* has stdin answered nil?  history

sessionVars == <<class, builder, owner, guest, piped, ends, touched, saidNil>>
copyVars == <<handle, slot, lock, stdin, memo>>
vars == <<processVars, sessionVars, copyVars, call>>

\* How a class awaits its session: holding the mutex, on a clone of it, or
\* without a mutex; whether a close consumes it; whether it is an exec.
Protocol == [await: {"held", "cloned", "free"}, closable: BOOLEAN, exec: BOOLEAN]

FsWriteSink  == [await |-> "held", closable |-> TRUE, exec |-> FALSE]
SshClient    == [await |-> "held", closable |-> TRUE, exec |-> FALSE]
SftpClient   == [await |-> "held", closable |-> TRUE, exec |-> FALSE]
SshServer    == [await |-> "cloned", closable |-> TRUE, exec |-> FALSE]
FsReadStream == [await |-> "held", closable |-> FALSE, exec |-> FALSE]
LogStream    == [await |-> "held", closable |-> FALSE, exec |-> FALSE]
ExecHandle   == [await |-> "held", closable |-> FALSE, exec |-> TRUE]
\* What its close does is inside the core, like every other call of it.
AgentClient  == [await |-> "free", closable |-> FALSE, exec |-> FALSE]

Classes == {FsWriteSink, SshClient, SftpClient, SshServer, FsReadStream, LogStream,
            ExecHandle, AgentClient}

\* The native methods: any that awaits the session; wait and collect, which do so
\* until the exec's process has ended; its control methods; close; take_stdin.
Ops == {"use", "wait", "kill", "signal", "close", "stdin"}
Call == [at: {"absent", "out", "entering", "locking", "using", "closing", "took"},
         op: Ops \cup {"none"}, sink: BOOLEAN]

Absent  == [at |-> "absent", op |-> "none", sink |-> FALSE]
Outside == [at |-> "out", op |-> "none", sink |-> FALSE]

Offers(c, op) ==
    \/ op = "use"
    \/ op = "close" /\ c.closable
    \/ op \in {"wait", "kill", "signal", "stdin"} /\ c.exec

--------------------------------------------------------------------------------
Goto(p, t, place) == call' = [call EXCEPT ![p][t].at = place]
Leave(p, t) == call' = [call EXCEPT ![p][t] = Outside]
Idle(p, t) == call[p][t].at \in {"absent", "out"}

\* MUTANT of Owns: no check.
OwnsAny(p) == TRUE
\* self.owner == ProcessIdentity::current()
Owns(p) == owner = Current(p)

Touch(p) == touched' = touched \cup {p}

\* A method hands back a new handle.
Open(p, t) ==
    /\ Alive(p)
    /\ builder = Nobody
    /\ call[p][t].at = "out"
    /\ builder' = p
    /\ owner' = Current(p)
    /\ handle' = [handle EXCEPT ![p] = "live"]
    /\ UNCHANGED <<processVars, class, guest, piped, ends, touched, saidNil,
                   slot, lock, stdin, memo, call>>

\* ForkGuarded::get, the first thing every method does: ForkedHandleError in
\* another process.  A stdin that was looked up before is remembered.
Get(p, t, op) ==
    /\ Alive(p)
    /\ handle[p] = "live"
    /\ call[p][t].at = "out"
    /\ Offers(class, op)
    /\ op = "stdin" => memo[p] = "unset"
    /\ Owns(p)
    /\ Touch(p)
    /\ call' = [call EXCEPT ![p][t] = [at |-> "entering", op |-> op, sink |-> FALSE]]
    /\ UNCHANGED <<processVars, class, builder, owner, guest, piped, ends, saidNil, copyVars>>

\* MUTANT of Interrupted: the session was taken by a call of its own before.
InterruptedTaken(p, t) == slot[p] /\ call[p][t].op # "close"
\* What an interrupt at the entry of the future leaves in the slot.
Interrupted(p, t) == slot[p]

\* block_on: an interrupt ends the call before its future is polled.
NotStarted(p, t) ==
    /\ Alive(p)
    /\ call[p][t].at = "entering"
    /\ call[p][t].op # "stdin"
    /\ slot' = [slot EXCEPT ![p] = Interrupted(p, t)]
    /\ Leave(p, t)
    /\ UNCHANGED <<processVars, sessionVars, handle, lock, stdin, memo>>

\* MUTANT of NeedsLock: the control methods lock the exec handle too.
AlwaysLocks(op) == TRUE
\* Signal, kill and resize go through ExecControl, past the mutex.
NeedsLock(op) == class.await # "free" /\ op \notin {"kill", "signal"}

Start(p, t) ==
    /\ Alive(p)
    /\ call[p][t].at = "entering"
    /\ call[p][t].op # "stdin"
    /\ Goto(p, t, IF NeedsLock(call[p][t].op) THEN "locking" ELSE "using")
    /\ UNCHANGED <<processVars, sessionVars, copyVars>>

\* MUTANT of Held: the mutex is held only to look.
NeverHeld == FALSE
\* Is the mutex held while the session is awaited?
Held == class.await = "held"

\* inner.lock().await, and what is done with the Option at once: a use looks at
\* the session, and errs if it is gone ("already closed").
LockToUse(p, t) ==
    /\ Alive(p)
    /\ call[p][t].at = "locking"
    /\ call[p][t].op # "close"
    /\ lock[p] = NoThread
    /\ IF slot[p]
       THEN /\ Goto(p, t, "using")
            /\ lock' = [lock EXCEPT ![p] = IF Held THEN t ELSE NoThread]
       ELSE Leave(p, t) /\ UNCHANGED lock
    /\ UNCHANGED <<processVars, sessionVars, handle, slot, stdin, memo>>

\* guard.take()
Taken(p) == FALSE

\* A close takes the session, gives the mutex back, and goes on; without a session
\* it is done.
LockToClose(p, t) ==
    /\ Alive(p)
    /\ call[p][t].at = "locking"
    /\ call[p][t].op = "close"
    /\ lock[p] = NoThread
    /\ slot' = [slot EXCEPT ![p] = Taken(p)]
    /\ IF slot[p] THEN Goto(p, t, "closing") ELSE Leave(p, t)
    /\ UNCHANGED <<processVars, sessionVars, handle, lock, stdin, memo>>

\* The future ends; a wait only when the exec's process has.
EndUse(p, t) ==
    /\ Alive(p)
    /\ call[p][t].at = "using"
    /\ call[p][t].op \in {"use", "wait"}
    /\ call[p][t].op = "wait" => guest = "exited"
    /\ lock' = [lock EXCEPT ![p] = IF @ = t THEN NoThread ELSE @]
    /\ Leave(p, t)
    /\ UNCHANGED <<processVars, sessionVars, handle, slot, stdin, memo>>

\* The control message is sent: a kill ends the process, a signal may.
Control(p, t) ==
    /\ Alive(p)
    /\ call[p][t].at = "using"
    /\ call[p][t].op \in {"kill", "signal"}
    /\ guest' \in (IF call[p][t].op = "kill" THEN {"exited"} ELSE {guest, "exited"})
    /\ Leave(p, t)
    /\ UNCHANGED <<processVars, class, builder, owner, piped, ends, touched, saidNil, copyVars>>

\* The exec's process ends by itself.
GuestExits ==
    /\ class.exec
    /\ builder # Nobody
    /\ guest' = "exited"
    /\ UNCHANGED <<processVars, class, builder, owner, piped, ends, touched, saidNil,
                   copyVars, call>>

\* The session's own close, which consumes it whether it succeeds or not.
EndClose(p, t) ==
    /\ Alive(p)
    /\ call[p][t].at = "closing"
    /\ ends' = ends + 1
    /\ Leave(p, t)
    /\ UNCHANGED <<processVars, class, builder, owner, guest, piped, touched, saidNil, copyVars>>

--------------------------------------------------------------------------------
(* ExecHandle#stdin: the native sink is taken once and remembered in @stdin. *)

\* take_stdin, which runs with the GVL and no checkpoint.
TakeStdin(p, t) ==
    /\ Alive(p)
    /\ call[p][t].at = "entering"
    /\ call[p][t].op = "stdin"
    /\ call' = [call EXCEPT ![p][t] = [at |-> "took", op |-> "stdin", sink |-> stdin[p]]]
    /\ stdin' = [stdin EXCEPT ![p] = FALSE]
    /\ UNCHANGED <<processVars, sessionVars, handle, slot, lock, memo>>

\* Then ExecStdin.new, where an interrupt may arrive and other threads may run.
StdinInterrupted(p, t) ==
    /\ Alive(p)
    /\ call[p][t].at = "took"
    /\ Leave(p, t)
    /\ UNCHANGED <<processVars, sessionVars, copyVars>>

\* MUTANT of Remembered: the native sink itself is.
RememberedRaw(sink) == IF sink THEN "native" ELSE "nil"
\* native_sink && ExecStdin.new(native_sink)
Remembered(sink) == IF sink THEN "writer" ELSE "nil"

Remember(p, t) ==
    /\ Alive(p)
    /\ call[p][t].at = "took"
    /\ memo' = [memo EXCEPT ![p] = Remembered(call[p][t].sink)]
    /\ saidNil' = (saidNil \/ ~call[p][t].sink)
    /\ Leave(p, t)
    /\ UNCHANGED <<processVars, class, builder, owner, guest, piped, ends, touched,
                   handle, slot, lock, stdin>>

--------------------------------------------------------------------------------
\* The destructor of the payload, in the process that built it: it ends a session
\* that is still there.
Finalize(p) ==
    IF Owns(p)
    THEN Touch(p) /\ ends' = IF slot[p] THEN ends + 1 ELSE ends
    ELSE UNCHANGED <<touched, ends>>

\* The collector finds the object unreachable.
Collect(p) ==
    /\ Alive(p)
    /\ handle[p] = "live"
    /\ \A t \in Threads : Idle(p, t)
    /\ handle' = [handle EXCEPT ![p] = "freed"]
    /\ Finalize(p)
    /\ UNCHANGED <<processVars, class, builder, owner, guest, piped, saidNil,
                   slot, lock, stdin, memo, call>>

\* The process exits: Ruby frees every object that is left.
Exit(p) ==
    /\ ExitProcess(p)
    /\ \A t \in Threads : Idle(p, t)
    /\ IF handle[p] = "live"
       THEN Finalize(p) /\ handle' = [handle EXCEPT ![p] = "freed"]
       ELSE UNCHANGED <<touched, ends, handle>>
    /\ call' = [call EXCEPT ![p] = [t \in Threads |-> Absent]]
    /\ UNCHANGED <<class, builder, owner, guest, piped, saidNil, slot, lock, stdin, memo>>

\* It is killed: nothing runs any more.
Crash(p) ==
    /\ ExitProcess(p)
    /\ call' = [call EXCEPT ![p] = [t \in Threads |-> Absent]]
    /\ UNCHANGED <<sessionVars, copyVars>>

\* Thread t forks: the child has its own copy of the handle, with the mutex and the
\* slot as they are at that moment, and of the threads only t.
Fork(p, c, t) ==
    /\ ForkProcess(p, c)
    /\ call[p][t].at = "out"
    /\ handle' = [handle EXCEPT ![c] = handle[p]]
    /\ slot' = [slot EXCEPT ![c] = slot[p]]
    /\ lock' = [lock EXCEPT ![c] = lock[p]]
    /\ stdin' = [stdin EXCEPT ![c] = stdin[p]]
    /\ memo' = [memo EXCEPT ![c] = memo[p]]
    /\ call' = [call EXCEPT ![c][t] = Outside]
    /\ UNCHANGED sessionVars

Spawn(p, t) ==
    /\ Alive(p)
    /\ call[p][t].at = "absent"
    /\ \E u \in Threads : call[p][u].at # "absent"
    /\ call' = [call EXCEPT ![p][t] = Outside]
    /\ UNCHANGED <<processVars, sessionVars, copyVars>>

--------------------------------------------------------------------------------
Init ==
    /\ ProcessInit
    /\ class \in Classes
    /\ builder = Nobody
    /\ owner = [pid |-> pid[Root], generation |-> 0]
    /\ handle = [p \in Procs |-> "none"]
    /\ slot = [p \in Procs |-> TRUE]
    /\ lock = [p \in Procs |-> NoThread]
    /\ \E t \in Threads :
         call = [p \in Procs |-> [u \in Threads |->
                    IF p = Root /\ u = t THEN Outside ELSE Absent]]
    /\ piped \in (IF class.exec THEN BOOLEAN ELSE {FALSE})
    /\ stdin = [p \in Procs |-> piped]
    /\ memo = [p \in Procs |-> "unset"]
    /\ guest = "running"
    /\ ends = 0
    /\ touched = {}
    /\ saidNil = FALSE

Step(p, t) ==
    \/ Open(p, t)
    \/ \E op \in Ops : Get(p, t, op)
    \/ NotStarted(p, t)
    \/ Start(p, t)
    \/ LockToUse(p, t)
    \/ LockToClose(p, t)
    \/ EndUse(p, t)
    \/ Control(p, t)
    \/ EndClose(p, t)
    \/ TakeStdin(p, t)
    \/ StdinInterrupted(p, t)
    \/ Remember(p, t)
    \/ Spawn(p, t)
    \/ \E c \in Procs : Fork(p, c, t)

Next ==
    \/ \E p \in Procs :
         \/ \E t \in Threads : Step(p, t)
         \/ Collect(p)
         \/ Exit(p)
         \/ Crash(p)
    \/ GuestExits

Spec == Init /\ [][Next]_vars

\* What a thread inside a native call does next, wherever the sandbox does not
\* decide when: once an exec's process has ended, nothing of its handle waits.
Proceed(t) ==
    \E p \in Procs \cap {builder} :
        Start(p, t) \/ Control(p, t) \/ (guest = "exited" /\ EndUse(p, t))

\* Native calls run on threads of the operating system, without the GVL; the tokio
\* mutex is first come, first served.
Fairness ==
    \A t \in Threads :
        /\ WF_vars(Proceed(t))
        /\ SF_vars(\E p \in Procs \cap {builder} : LockToUse(p, t))

FairSpec == Spec /\ Fairness

--------------------------------------------------------------------------------
TypeOK ==
    /\ ProcessTypeOK
    /\ class \in Classes
    /\ builder \in Procs \cup {Nobody}
    /\ owner \in Identity
    /\ handle \in [Procs -> {"none", "live", "freed"}]
    /\ slot \in [Procs -> BOOLEAN]
    /\ lock \in [Procs -> Threads \cup {NoThread}]
    /\ call \in [Procs -> [Threads -> Call]]
    /\ stdin \in [Procs -> BOOLEAN]
    /\ memo \in [Procs -> {"unset", "nil", "writer"}]
    /\ guest \in {"running", "exited"}
    /\ piped \in BOOLEAN
    /\ ends \in Nat
    /\ touched \in SUBSET Procs
    /\ saidNil \in BOOLEAN

\* Only the process that built a handle gets past its guard, or runs its
\* destructor: not a child, not one that a recycled pid makes look like the
\* builder, not the collector of either.
OnlyBuilderActs == touched \subseteq {builder}

Using(p, t) == call[p][t].at = "using"

\* The session ends once: no second close and no destructor after a close; not
\* while its builder still holds it, whatever children do with their copies; and
\* not under a call that awaits it.
EndsCleanly ==
    builder # Nobody =>
        /\ ends <= 1
        /\ handle[builder] = "live" /\ slot[builder] => ends = 0
        /\ class.await = "held" /\ (\E t \in Threads : Using(builder, t)) => ends = 0

\* A session that was taken out of its slot is closed, or about to be: an
\* interrupt cannot leave it in between ("the guest file is left unfinished, and
\* the handle can no longer close it", fs_stream.rs).
CloseNotLost ==
    builder # Nobody /\ Alive(builder) /\ ~slot[builder] =>
        ends = 1 \/ \E t \in Threads : call[builder][t].at = "closing"

\* nil stands for a stdin that was not piped ("The stdin writer, or nil if stdin
\* was not piped", exec_handle.rb).
NilMeansNotPiped == saidNil => ~piped

Running(t, op) ==
    \E p \in Procs \cap {builder} :
        call[p][t].op = op /\ call[p][t].at \in {"locking", "using"}

\* A kill gets through although other threads are parked in wait, and a wait comes
\* to an end once the process has ("so they never contend with an in-flight recv",
\* exec.rs).
KillEndsWait ==
    \A t \in Threads :
        /\ Running(t, "kill") ~> ~Running(t, "kill")
        /\ (guest = "exited" /\ Running(t, "wait")) ~> ~Running(t, "wait")

================================================================================
