-------------------------------- MODULE Acquire --------------------------------
(***************************************************************************)
(* One Ruby thread acquires a sandbox while others interrupt it: nogvl     *)
(* (ext/microsandbox/src/runtime.rs), through which every native call      *)
(* goes, and Sandbox.acquire with its callers create, connect_or_create    *)
(* and start (lib/microsandbox/sandbox.rb).                                *)
(*                                                                         *)
(* A native call cannot be interrupted while it runs.  What is queued in   *)
(* the meantime is raised at the next checkpoint, by a longjmp that runs   *)
(* no Rust destructor; whatever then lives only in a Rust frame is neither *)
(* returned nor dropped.  The model has every checkpoint between the call  *)
(* and the caller, and an interrupt may arrive before any of them.         *)
(***************************************************************************)
EXTENDS Naturals

CONSTANTS
    Forms,          \* how the sandbox is asked for: "create" and "connect", with
                    \* the block that uses it; "plain" without one, or start
    MaxAttempts,    \* MAX_ENTRY_ATTEMPTS (64 in the code)
    MaxInterrupts   \* bound: interrupts queued in one behaviour

ASSUME AcquireAssumption ==
    /\ Forms \subseteq {"plain", "create", "connect"}
    /\ MaxAttempts \in Nat \ {0}
    /\ MaxInterrupts \in Nat

VARIABLES
    pc,          \* where the thread is
    call,        \* which native call it is in or was last in
    form,        \* which of Forms this is
    attempts,    \* of this native call to start
    value,       \* where the Sandbox that the core returned is
    sandbox,     \* the microVM behind it
    owned,       \* Sandbox::owns_lifecycle: attached, and booted by this call
    raising,     \* an exception is on its way up
    pending,     \* interrupts queued: Thread#raise, Thread#kill
    sigint,      \* a SIGINT is pending
    bits,        \* some bit of ec->interrupt_flag is set
    onBlocking,  \* the caller deferred them: handle_interrupt(... => :on_blocking)
    raisedFlag,  \* ec->raised_flag: CRuby is in the middle of another raise
    queued,      \* how many interrupts were queued: bounds the model
    heard,       \* history: where which kind of interrupt was delivered
    stopFailed   \* history: a stop returned an error, or could not start

interruptVars == <<pending, sigint, bits, onBlocking, raisedFlag, queued>>
vars == <<pc, call, form, attempts, value, sandbox, owned, raising, interruptVars,
          heard, stopFailed>>

\* Inside a native call, with the GVL; in Ruby code of acquire or its caller.
Entering == {"check", "try", "recheck"}
InRuby   == {"assigned", "new", "handed", "body"}
Ended    == {"done", "raised"}

Kinds == {"sigint", "queued"}

--------------------------------------------------------------------------------
(* Interrupts.                                                             *)

\* MUTANT of Masked: the call is made without handle_interrupt.
NeverMasked == FALSE

\* acquire masks queued interrupts (Object => :never) until the native call has
\* returned and its value is assigned.
Masked == call = "acquire" /\ pc \in Entering \cup {"running", "frame", "popped"}

\* What a checkpoint raises: SIGINT knows no mask, and deferred interrupts wait
\* for a blocking one.
Raises(kind, blocking) ==
    /\ ~raisedFlag
    /\ \/ kind = "sigint" /\ sigint
       \/ kind = "queued" /\ pending > 0 /\ ~Masked /\ (blocking \/ ~onBlocking)
Silent(blocking) == \A kind \in Kinds : ~Raises(kind, blocking)

\* An interrupt is delivered at the checkpoint named at.
Deliver(at, blocking) ==
    \E kind \in Kinds :
        /\ Raises(kind, blocking)
        /\ sigint' = (sigint /\ kind # "sigint")
        /\ pending' = IF kind = "queued" THEN pending - 1 ELSE pending
        /\ heard' = heard \cup {<<at, kind>>}
        /\ raising' = TRUE
        /\ UNCHANGED <<bits, onBlocking, raisedFlag, queued, stopFailed>>

\* Nothing is, nor does anything else happen to the interrupts.
Quiet == UNCHANGED <<interruptVars, heard>>

\* Another Ruby thread, while it has the GVL: when this one has released it, or
\* at a checkpoint that switches threads.
QueueInterrupt ==
    /\ pc \in InRuby \cup {"check", "recheck", "running", "popped"}
    /\ queued < MaxInterrupts
    /\ queued' = queued + 1
    /\ pending' = pending + 1
    /\ bits' = TRUE
    /\ UNCHANGED <<pc, call, form, attempts, value, sandbox, owned, raising, sigint,
                   onBlocking, raisedFlag, heard, stopFailed>>

\* Ctrl-C needs nobody's GVL; nor does the timer thread, which sets a bit and
\* raises nothing.
Signal(tick) ==
    /\ pc \notin Ended
    /\ bits' = TRUE
    /\ \/ tick /\ pc \in Entering /\ UNCHANGED <<sigint, queued>>
       \/ ~tick /\ queued < MaxInterrupts /\ queued' = queued + 1 /\ sigint' = TRUE
    /\ UNCHANGED <<pc, call, form, attempts, value, sandbox, owned, raising, pending,
                   onBlocking, raisedFlag, heard, stopFailed>>

--------------------------------------------------------------------------------
(* How a step ends.                                                        *)

\* The thread leaves acquire and its caller.  Only the plain forms hand the
\* object out, and only when nothing is raised; a value still in a Rust frame
\* would be lost.
Leave(raised) ==
    /\ pc' = IF raised THEN "raised" ELSE "done"
    /\ value' = IF value = "frame" THEN "lost"
                ELSE IF value # "ruby" THEN value
                ELSE IF form = "plain" /\ ~raised THEN "caller" ELSE "garbage"

\* MUTANT of Interrupted: the rescue around a stop is for every Exception.
InterruptedOrRescued == Leave(call = "acquire" \/ raising)

\* An interrupt takes the thread out of a native call and of the Ruby code around
\* it: what rescues there rescues a Microsandbox::Error only.
Interrupted == Leave(TRUE)

GoTo(place) == pc' = place /\ UNCHANGED value

StartCall(native) == call' = native /\ attempts' = 0 /\ GoTo("check")

Rest == <<form, sandbox, owned>>

--------------------------------------------------------------------------------
(* nogvl.                                                                  *)

\* check_interrupts finds nothing to raise.  It consumes the bits, except while
\* CRuby is in the middle of a raise.
Settle ==
    /\ Silent(TRUE)
    /\ bits' = (bits /\ raisedFlag)
    /\ UNCHANGED <<pending, sigint, onBlocking, raisedFlag, queued, heard>>

CheckInterrupts ==
    /\ pc = "check"
    /\ \/ Deliver(call, TRUE) /\ Interrupted
       \/ Settle /\ GoTo("try") /\ UNCHANGED <<raising, stopFailed>>
    /\ UNCHANGED <<Rest, call, attempts>>

\* rb_thread_call_without_gvl2 runs the callback only if no bit is set.
TryRun ==
    /\ pc = "try"
    /\ GoTo(IF bits THEN "recheck" ELSE "running")
    /\ Quiet
    /\ UNCHANGED <<Rest, call, attempts, raising, stopFailed>>

\* MUTANTS of NextAttempt and GivesUp: the counter starts over in every round; one
\* round too many.
FirstAttempt == 0
GivesUpLate(n) == n > MaxAttempts

NextAttempt == attempts + 1
GivesUp(n) == n >= MaxAttempts

\* It declined.  Let Ruby deliver what there is and try again, up to a bound: then
\* acquire raises, and a stop fails with an Error that is rescued.
Recheck ==
    /\ pc = "recheck"
    /\ attempts' = NextAttempt
    /\ \/ Deliver(call, TRUE) /\ Interrupted
       \/ /\ Settle
          /\ ~GivesUp(attempts')
          /\ GoTo("try")
          /\ UNCHANGED <<raising, stopFailed>>
       \/ /\ Settle
          /\ GivesUp(attempts')
          /\ raising' = (raising \/ call = "acquire")
          /\ stopFailed' = (stopFailed \/ call # "acquire")
          /\ Leave(raising')
    /\ UNCHANGED <<Rest, call>>

\* The future completes: a sandbox, ours or another's, or no sandbox; stopped or not.
Finish ==
    /\ pc = "running"
    /\ pc' = "frame"
    /\ \/ /\ call = "acquire"
          /\ \/ /\ value' = "frame" /\ sandbox' = "up" /\ owned' \in BOOLEAN
                /\ UNCHANGED raising
             \/ raising' = TRUE /\ UNCHANGED <<value, sandbox, owned>>
          /\ UNCHANGED stopFailed
       \/ /\ call # "acquire"
          /\ \/ sandbox' = "down" /\ UNCHANGED stopFailed
             \/ stopFailed' = TRUE /\ UNCHANGED sandbox
          /\ UNCHANGED <<value, owned, raising>>
    /\ Quiet
    /\ UNCHANGED <<call, form, attempts>>

\* The GVL is back and the bound method returns: its value becomes a Ruby object,
\* or its error an exception.
ToRuby ==
    /\ IF call = "acquire" /\ value = "none"
       THEN Leave(TRUE)
       ELSE pc' = "popped" /\ value' = "ruby"
    /\ Quiet
    /\ UNCHANGED <<raising, stopFailed>>

\* MUTANT of Return: the plain rb_thread_call_without_gvl, which checks interrupts
\* on its way out.
ReturnChecked ==
    \/ Deliver(call, TRUE) /\ Interrupted
    \/ Silent(TRUE) /\ ToRuby

\* rb_thread_call_without_gvl2 checks nothing on its way out.
Return == ToRuby

ReturnToRuby ==
    /\ pc = "frame"
    /\ Return
    /\ UNCHANGED <<Rest, call, attempts>>

--------------------------------------------------------------------------------
(* acquire and its callers.                                                *)

\* The VM pops the frame of the native method.
PopFrame ==
    /\ pc = "popped"
    /\ \/ Deliver(IF call = "acquire" THEN "pop" ELSE "stopped", FALSE) /\ Interrupted
       \/ /\ Silent(FALSE)
          /\ IF call = "acquire" THEN GoTo("assigned") ELSE Leave(raising)
          /\ Quiet
          /\ UNCHANGED <<raising, stopFailed>>
    /\ UNCHANGED <<Rest, call, attempts>>

\* The handle is assigned to native, and the mask ends.
EndMask ==
    /\ pc = "assigned"
    /\ \/ Deliver("mask", FALSE) /\ GoTo("cleanup")
       \/ Silent(FALSE) /\ GoTo("new") /\ Quiet /\ UNCHANGED <<raising, stopFailed>>
    /\ UNCHANGED <<Rest, call, attempts>>

\* new(native) runs the initialize of whatever subclass: it may be interrupted,
\* may raise, or set handed_off.
Construct ==
    /\ pc = "new"
    /\ \/ Deliver("new", TRUE) /\ GoTo("cleanup")
       \/ raising' = TRUE /\ GoTo("cleanup") /\ Quiet /\ UNCHANGED stopFailed
       \/ GoTo("handed") /\ Quiet /\ UNCHANGED <<raising, stopFailed>>
    /\ UNCHANGED <<Rest, call, attempts>>

\* acquire returns.
HandOff ==
    /\ pc = "handed"
    /\ \/ Deliver("return", FALSE) /\ Leave(TRUE)
       \/ /\ Silent(FALSE)
          /\ IF form = "plain" THEN Leave(FALSE) ELSE GoTo("body")
          /\ Quiet
          /\ UNCHANGED <<raising, stopFailed>>
    /\ UNCHANGED <<Rest, call, attempts>>

\* The block is left: create always stops, connect_or_create what it owns.
BlockStops == form = "create" \/ owned

RunBlock ==
    /\ pc = "body"
    /\ \/ Deliver("body", TRUE)
       \/ raising' \in BOOLEAN /\ Quiet /\ UNCHANGED stopFailed
    /\ IF BlockStops THEN StartCall("block")
       ELSE Leave(raising') /\ UNCHANGED <<call, attempts>>
    /\ UNCHANGED Rest

\* The ensure of acquire, not handed off: only what this call owns is stopped.
CleanupStops == owned

CleanUp ==
    /\ pc = "cleanup"
    /\ IF CleanupStops THEN StartCall("cleanup")
       ELSE Leave(TRUE) /\ UNCHANGED <<call, attempts>>
    /\ Quiet
    /\ UNCHANGED <<Rest, raising, stopFailed>>

--------------------------------------------------------------------------------
(* The collector.                                                          *)

\* The caller lets go of the sandbox.
Release ==
    /\ value = "caller"
    /\ value' = "garbage"
    /\ UNCHANGED <<pc, call, attempts, Rest, raising, interruptVars, heard, stopFailed>>

\* The object is freed and its Drop takes down a sandbox it owns.
Collect ==
    /\ value = "garbage"
    /\ value' = "freed"
    /\ sandbox' = IF owned THEN "down" ELSE sandbox
    /\ UNCHANGED <<pc, call, attempts, form, owned, raising, interruptVars, heard,
                   stopFailed>>

--------------------------------------------------------------------------------
Init ==
    /\ pc = "check" /\ call = "acquire" /\ attempts = 0
    /\ form \in Forms
    /\ value = "none" /\ sandbox = "absent" /\ owned = FALSE
    /\ raising = FALSE /\ pending = 0 /\ sigint = FALSE /\ bits = FALSE
    /\ onBlocking \in BOOLEAN /\ raisedFlag \in BOOLEAN
    /\ queued = 0 /\ heard = {} /\ stopFailed = FALSE

Step ==
    \/ CheckInterrupts \/ TryRun \/ Recheck \/ Finish \/ ReturnToRuby
    \/ PopFrame \/ EndMask \/ Construct \/ HandOff \/ RunBlock \/ CleanUp

Next ==
    \/ Step
    \/ QueueInterrupt
    \/ \E tick \in BOOLEAN : Signal(tick)
    \/ Release
    \/ Collect

Spec == Init /\ [][Next]_vars

\* The thread is scheduled, the core's futures complete, user code returns, and
\* garbage is collected in the end.
FairSpec == Spec /\ WF_vars(Step) /\ WF_vars(Collect)

--------------------------------------------------------------------------------
Points == {"acquire", "cleanup", "block", "pop", "stopped", "mask", "new", "return", "body"}

TypeOK ==
    /\ pc \in Entering \cup {"running", "frame", "popped", "cleanup"} \cup InRuby \cup Ended
    /\ call \in {"acquire", "cleanup", "block"}
    /\ form \in Forms
    /\ attempts \in 0..MaxAttempts
    /\ value \in {"none", "frame", "ruby", "caller", "garbage", "freed", "lost"}
    /\ sandbox \in {"absent", "up", "down"}
    /\ owned \in BOOLEAN /\ raising \in BOOLEAN /\ sigint \in BOOLEAN /\ bits \in BOOLEAN
    /\ onBlocking \in BOOLEAN /\ raisedFlag \in BOOLEAN /\ stopFailed \in BOOLEAN
    /\ pending \in 0..MaxInterrupts /\ queued \in 0..MaxInterrupts
    /\ heard \subseteq Points \X Kinds

\* What a native call produced is never abandoned in its frame: a sandbox that is
\* up and ours is always somewhere a destructor or the collector will find it.
\* ("the value is either returned or dropped by Rust - never abandoned in this
\* frame by a longjmp", runtime.rs.)
NeverLost == value # "lost"

\* When the call ends in an exception, a sandbox of ours is down by then - the
\* exceptions documented being a SIGINT as the native method returns, an interrupt
\* at acquire's own return, one more interrupt as the stop starts, and a stop
\* that fails.  One this call does not own is left running, whatever interrupts
\* come; only create's block form always stops.
Excused ==
    \/ stopFailed
    \/ <<"pop", "sigint">> \in heard
    \/ \E kind \in Kinds, at \in {"return", "cleanup", "block"} : <<at, kind>> \in heard
StoppedOnRaise ==
    /\ pc = "raised" /\ owned /\ sandbox = "up" => Excused
    /\ sandbox = "down" /\ ~owned => form = "create" /\ call = "block"

\* An interrupt that was delivered reaches the caller as an exception: neither the
\* rescue around the cleanup's stop nor the one around the block's swallows it.
Propagates == pc = "done" => heard = {}

\* Every native call starts or gives up, however many ticks and signals arrive.
EntrySettles == pc \in Entering ~> pc \notin Entering

\* A sandbox of ours that an exception left behind does go down - when it is
\* collected, if nothing stopped it before.
AbandonedGoesDown == pc = "raised" /\ owned ~> sandbox = "down"

================================================================================
