----------------------------- MODULE AcquireProofs -----------------------------
(***************************************************************************)
(* An acquisition for every bound on interrupts and attempts and every     *)
(* form: its sandbox is never lost, never left running by an exception     *)
(* that the documentation does not except, and no interrupt is swallowed.  *)
(***************************************************************************)
EXTENDS Acquire, TLAPS

--------------------------------------------------------------------------------
(* The inductive invariant.                                                *)

\* Counters: every interrupt pending was queued, and a native call that has not given
\* up has an attempt left.
CountInv ==
    /\ pending <= queued
    /\ pc = "check" => attempts = 0
    /\ pc \in {"try", "recheck"} => attempts < MaxAttempts

\* Where the sandbox is at each place.  Until the future completes there is none; it
\* comes back in the frame of the native call, or an error does; from then on a Ruby
\* object has it, until the thread leaves.
PlaceInv ==
    /\ pc \in Entering \cup {"running"} /\ call = "acquire" =>
          value = "none" /\ sandbox = "absent" /\ ~owned /\ ~raising
    /\ pc = "frame" /\ call = "acquire" =>
          \/ value = "none" /\ sandbox = "absent" /\ ~owned /\ raising
          \/ value = "frame" /\ sandbox = "up" /\ ~raising
    /\ pc \in InRuby \cup {"cleanup"} => call = "acquire"
    /\ pc \in InRuby \cup {"cleanup", "popped"} /\ call = "acquire" =>
          value = "ruby" /\ sandbox = "up" /\ (raising <=> pc = "cleanup")
    /\ pc \notin Ended /\ call # "acquire" => value = "ruby"
    /\ value \in {"caller", "garbage", "freed"} => pc \in Ended
    /\ pc \in Ended => value \notin {"frame", "ruby"}
    /\ value # "lost"

\* Who is stopped.  The cleanup stops what this call owns; once the stop of the
\* cleanup or of the block is over the sandbox is down, or the stop has failed.
StopInv ==
    /\ call = "cleanup" => owned /\ raising
    /\ call = "block" => BlockStops
    /\ call # "acquire" /\ pc \in {"frame", "popped"} => sandbox = "down" \/ stopFailed
    /\ StoppedOnRaise

\* What was delivered is on its way up, and whoever leaves quietly was not raising.
HeardInv ==
    /\ heard # {} => raising
    /\ pc = "done" => ~raising

IInv == TypeOK /\ CountInv /\ PlaceInv /\ StopInv /\ HeardInv

--------------------------------------------------------------------------------
(* The steps, one at a time.                                               *)

\* TypeOK in parts.
PlaceType ==
    /\ pc \in Entering \cup {"running", "frame", "popped", "cleanup"} \cup InRuby \cup Ended
    /\ call \in {"acquire", "cleanup", "block"}
    /\ form \in Forms
    /\ value \in {"none", "frame", "ruby", "caller", "garbage", "freed", "lost"}
    /\ sandbox \in {"absent", "up", "down"}
FlagType ==
    /\ owned \in BOOLEAN /\ raising \in BOOLEAN /\ sigint \in BOOLEAN /\ bits \in BOOLEAN
    /\ onBlocking \in BOOLEAN /\ raisedFlag \in BOOLEAN /\ stopFailed \in BOOLEAN
CountType ==
    /\ attempts \in 0..MaxAttempts
    /\ pending \in 0..MaxInterrupts /\ queued \in 0..MaxInterrupts
    /\ heard \subseteq Points \X Kinds

LEMMA TypeParts == TypeOK <=> PlaceType /\ FlagType /\ CountType
  BY DEF TypeOK, PlaceType, FlagType, CountType

LEMMA TypePartsNext == PlaceType' /\ FlagType' /\ CountType' => TypeOK'
  BY DEF TypeOK, PlaceType, FlagType, CountType

\* A delivery is recorded under its place and kind.
LEMMA DeliverHeard ==
    ASSUME TypeOK, NEW at \in Points, NEW blocking, Deliver(at, blocking)
    PROVE  heard' \subseteq Points \X Kinds
  <1>1. PICK kind \in Kinds : heard' = heard \cup {<<at, kind>>}
    BY DEF Deliver
  <1>2. QED
    BY <1>1 DEF TypeOK

LEMMA CheckInterruptsInv ==
    ASSUME IInv, CheckInterrupts
    PROVE  IInv'
  <1>1. heard' \subseteq Points \X Kinds
    <2>1. call \in Points
      BY DEF IInv, TypeOK, Points
    <2>2. QED
      BY <2>1, DeliverHeard DEF IInv, TypeOK, CheckInterrupts, Settle, Quiet
  <1>2. /\ PlaceType /\ FlagType /\ CountType
        /\ CountInv /\ PlaceInv /\ StopInv /\ HeardInv
    BY TypeParts DEF IInv
  <1> USE <1>2 DEF Entering, InRuby, Ended, Kinds, CheckInterrupts, Rest, Deliver, Silent,
          Raises, Masked, Settle, Interrupted, Leave, GoTo
  <1>3. PlaceType'
    BY DEF PlaceType
  <1>4. FlagType'
    BY DEF FlagType
  <1>5. CountType'
    BY <1>1, AcquireAssumption DEF CountType, CountInv
  <1>6. CountInv'
    BY AcquireAssumption DEF CountType, CountInv
  <1>7. PlaceInv'
    BY DEF PlaceType, FlagType, PlaceInv
  <1>8. StopInv'
    BY DEF PlaceType, FlagType, PlaceInv, StopInv, StoppedOnRaise, Excused, BlockStops
  <1>9. HeardInv'
    BY DEF PlaceInv, StopInv, HeardInv
  <1>10. QED
    BY <1>3, <1>4, <1>5, <1>6, <1>7, <1>8, <1>9, TypePartsNext DEF IInv

LEMMA TryRunInv ==
    ASSUME IInv, TryRun
    PROVE  IInv'
  <1>1. /\ PlaceType /\ FlagType /\ CountType
        /\ CountInv /\ PlaceInv /\ StopInv /\ HeardInv
    BY TypeParts DEF IInv
  <1> USE <1>1 DEF Entering, InRuby, Ended, Kinds, TryRun, Rest, GoTo, Quiet, interruptVars
  <1>2. PlaceType'
    BY DEF PlaceType
  <1>3. FlagType'
    BY DEF FlagType
  <1>4. CountType'
    BY AcquireAssumption DEF CountType, CountInv
  <1>5. CountInv'
    BY AcquireAssumption DEF CountType, CountInv
  <1>6. PlaceInv'
    BY DEF PlaceType, FlagType, PlaceInv
  <1>7. StopInv'
    BY DEF PlaceType, FlagType, PlaceInv, StopInv, StoppedOnRaise, Excused, BlockStops
  <1>8. HeardInv'
    BY DEF PlaceInv, StopInv, HeardInv
  <1>9. QED
    BY <1>2, <1>3, <1>4, <1>5, <1>6, <1>7, <1>8, TypePartsNext DEF IInv

LEMMA RecheckInv ==
    ASSUME IInv, Recheck
    PROVE  IInv'
  <1>1. heard' \subseteq Points \X Kinds
    <2>1. call \in Points
      BY DEF IInv, TypeOK, Points
    <2>2. QED
      BY <2>1, DeliverHeard DEF IInv, TypeOK, Recheck, Settle, Quiet
  <1>2. /\ PlaceType /\ FlagType /\ CountType
        /\ CountInv /\ PlaceInv /\ StopInv /\ HeardInv
    BY TypeParts DEF IInv
  <1> USE <1>2 DEF Entering, InRuby, Ended, Kinds, Recheck, Rest, Deliver, Silent, Raises,
          Masked, Settle, Interrupted, Leave, GoTo, NextAttempt, GivesUp
  <1>3. PlaceType'
    BY DEF PlaceType
  <1>4. FlagType'
    BY DEF FlagType
  <1>5. CountType'
    BY <1>1, AcquireAssumption DEF CountType, CountInv
  <1>6. CountInv'
    BY AcquireAssumption DEF CountType, CountInv
  <1>7. PlaceInv'
    BY DEF PlaceType, FlagType, PlaceInv
  <1>8. StopInv'
    BY DEF PlaceType, FlagType, PlaceInv, StopInv, StoppedOnRaise, Excused, BlockStops
  <1>9. HeardInv'
    BY DEF PlaceInv, StopInv, HeardInv
  <1>10. QED
    BY <1>3, <1>4, <1>5, <1>6, <1>7, <1>8, <1>9, TypePartsNext DEF IInv

LEMMA FinishInv ==
    ASSUME IInv, Finish
    PROVE  IInv'
  <1>1. /\ PlaceType /\ FlagType /\ CountType
        /\ CountInv /\ PlaceInv /\ StopInv /\ HeardInv
    BY TypeParts DEF IInv
  <1> USE <1>1 DEF Entering, InRuby, Ended, Kinds, Finish, Quiet, interruptVars
  <1>2. PlaceType'
    BY DEF PlaceType
  <1>3. FlagType'
    BY DEF FlagType
  <1>4. CountType'
    BY AcquireAssumption DEF CountType, CountInv
  <1>5. CountInv'
    BY AcquireAssumption DEF CountType, CountInv
  <1>6. PlaceInv'
    BY DEF PlaceType, FlagType, PlaceInv
  <1>7. StopInv'
    BY DEF PlaceType, FlagType, PlaceInv, StopInv, StoppedOnRaise, Excused, BlockStops
  <1>8. HeardInv'
    BY DEF PlaceInv, StopInv, HeardInv
  <1>9. QED
    BY <1>2, <1>3, <1>4, <1>5, <1>6, <1>7, <1>8, TypePartsNext DEF IInv

LEMMA ReturnToRubyInv ==
    ASSUME IInv, ReturnToRuby
    PROVE  IInv'
  <1>1. /\ PlaceType /\ FlagType /\ CountType
        /\ CountInv /\ PlaceInv /\ StopInv /\ HeardInv
    BY TypeParts DEF IInv
  <1> USE <1>1 DEF Entering, InRuby, Ended, Kinds, ReturnToRuby, Rest, Return, ToRuby,
          Leave, Quiet, interruptVars
  <1>2. PlaceType'
    BY DEF PlaceType
  <1>3. FlagType'
    BY DEF FlagType
  <1>4. CountType'
    BY AcquireAssumption DEF CountType, CountInv
  <1>5. CountInv'
    BY AcquireAssumption DEF CountType, CountInv
  <1>6. PlaceInv'
    BY DEF PlaceType, FlagType, PlaceInv
  <1>7. StopInv'
    BY DEF PlaceType, FlagType, PlaceInv, StopInv, StoppedOnRaise, Excused, BlockStops
  <1>8. HeardInv'
    BY DEF PlaceInv, StopInv, HeardInv
  <1>9. QED
    BY <1>2, <1>3, <1>4, <1>5, <1>6, <1>7, <1>8, TypePartsNext DEF IInv

LEMMA PopFrameInv ==
    ASSUME IInv, PopFrame
    PROVE  IInv'
  <1>1. heard' \subseteq Points \X Kinds
    <2>1. CASE call = "acquire"
      <3>1. "pop" \in Points
        BY DEF Points
      <3>2. QED
        BY <2>1, <3>1, DeliverHeard DEF IInv, TypeOK, PopFrame, Quiet
    <2>2. CASE call # "acquire"
      <3>1. "stopped" \in Points
        BY DEF Points
      <3>2. QED
        BY <2>2, <3>1, DeliverHeard DEF IInv, TypeOK, PopFrame, Quiet
    <2>3. QED
      BY <2>1, <2>2
  <1>2. /\ PlaceType /\ FlagType /\ CountType
        /\ CountInv /\ PlaceInv /\ StopInv /\ HeardInv
    BY TypeParts DEF IInv
  <1> USE <1>2 DEF Entering, InRuby, Ended, Kinds, PopFrame, Rest, Deliver, Silent,
          Raises, Masked, Interrupted, Leave, GoTo, Quiet, interruptVars
  <1>3. PlaceType'
    BY DEF PlaceType
  <1>4. FlagType'
    BY DEF FlagType
  <1>5. CountType'
    BY <1>1, AcquireAssumption DEF CountType, CountInv
  <1>6. CountInv'
    BY AcquireAssumption DEF CountType, CountInv
  <1>7. PlaceInv'
    BY DEF PlaceType, FlagType, PlaceInv
  <1>8. StopInv'
    BY DEF PlaceType, FlagType, PlaceInv, StopInv, StoppedOnRaise, Excused, BlockStops
  <1>9. HeardInv'
    BY DEF PlaceInv, StopInv, HeardInv
  <1>10. QED
    BY <1>3, <1>4, <1>5, <1>6, <1>7, <1>8, <1>9, TypePartsNext DEF IInv

LEMMA EndMaskInv ==
    ASSUME IInv, EndMask
    PROVE  IInv'
  <1>1. heard' \subseteq Points \X Kinds
    <2>1. "mask" \in Points
      BY DEF IInv, TypeOK, Points
    <2>2. QED
      BY <2>1, DeliverHeard DEF IInv, TypeOK, EndMask, Settle, Quiet
  <1>2. /\ PlaceType /\ FlagType /\ CountType
        /\ CountInv /\ PlaceInv /\ StopInv /\ HeardInv
    BY TypeParts DEF IInv
  <1> USE <1>2 DEF Entering, InRuby, Ended, Kinds, EndMask, Rest, Deliver, Silent, Raises,
          GoTo, Quiet, interruptVars
  <1>3. PlaceType'
    BY DEF PlaceType
  <1>4. FlagType'
    BY DEF FlagType
  <1>5. CountType'
    BY <1>1, AcquireAssumption DEF CountType, CountInv
  <1>6. CountInv'
    BY AcquireAssumption DEF CountType, CountInv
  <1>7. PlaceInv'
    BY DEF PlaceType, FlagType, PlaceInv
  <1>8. StopInv'
    BY DEF PlaceType, FlagType, PlaceInv, StopInv, StoppedOnRaise, Excused, BlockStops
  <1>9. HeardInv'
    BY DEF PlaceInv, StopInv, HeardInv
  <1>10. QED
    BY <1>3, <1>4, <1>5, <1>6, <1>7, <1>8, <1>9, TypePartsNext DEF IInv

LEMMA ConstructInv ==
    ASSUME IInv, Construct
    PROVE  IInv'
  <1>1. heard' \subseteq Points \X Kinds
    <2>1. "new" \in Points
      BY DEF IInv, TypeOK, Points
    <2>2. QED
      BY <2>1, DeliverHeard DEF IInv, TypeOK, Construct, Settle, Quiet
  <1>2. /\ PlaceType /\ FlagType /\ CountType
        /\ CountInv /\ PlaceInv /\ StopInv /\ HeardInv
    BY TypeParts DEF IInv
  <1> USE <1>2 DEF Entering, InRuby, Ended, Kinds, Construct, Rest, Deliver, Silent,
          Raises, GoTo, Quiet, interruptVars
  <1>3. PlaceType'
    BY DEF PlaceType
  <1>4. FlagType'
    BY DEF FlagType
  <1>5. CountType'
    BY <1>1, AcquireAssumption DEF CountType, CountInv
  <1>6. CountInv'
    BY AcquireAssumption DEF CountType, CountInv
  <1>7. PlaceInv'
    BY DEF PlaceType, FlagType, PlaceInv
  <1>8. StopInv'
    BY DEF PlaceType, FlagType, PlaceInv, StopInv, StoppedOnRaise, Excused, BlockStops
  <1>9. HeardInv'
    BY DEF PlaceInv, StopInv, HeardInv
  <1>10. QED
    BY <1>3, <1>4, <1>5, <1>6, <1>7, <1>8, <1>9, TypePartsNext DEF IInv

LEMMA HandOffInv ==
    ASSUME IInv, HandOff
    PROVE  IInv'
  <1>1. heard' \subseteq Points \X Kinds
    <2>1. "return" \in Points
      BY DEF IInv, TypeOK, Points
    <2>2. QED
      BY <2>1, DeliverHeard DEF IInv, TypeOK, HandOff, Settle, Quiet
  <1>2. /\ PlaceType /\ FlagType /\ CountType
        /\ CountInv /\ PlaceInv /\ StopInv /\ HeardInv
    BY TypeParts DEF IInv
  <1> USE <1>2 DEF Entering, InRuby, Ended, Kinds, HandOff, Rest, Deliver, Silent, Raises,
          Leave, GoTo, Quiet, interruptVars
  <1>3. PlaceType'
    BY DEF PlaceType
  <1>4. FlagType'
    BY DEF FlagType
  <1>5. CountType'
    BY <1>1, AcquireAssumption DEF CountType, CountInv
  <1>6. CountInv'
    BY AcquireAssumption DEF CountType, CountInv
  <1>7. PlaceInv'
    BY DEF PlaceType, FlagType, PlaceInv
  <1>8. StopInv'
    BY DEF PlaceType, FlagType, PlaceInv, StopInv, StoppedOnRaise, Excused, BlockStops
  <1>9. HeardInv'
    BY DEF PlaceInv, StopInv, HeardInv
  <1>10. QED
    BY <1>3, <1>4, <1>5, <1>6, <1>7, <1>8, <1>9, TypePartsNext DEF IInv

LEMMA RunBlockInv ==
    ASSUME IInv, RunBlock
    PROVE  IInv'
  <1>1. heard' \subseteq Points \X Kinds
    <2>1. "body" \in Points
      BY DEF IInv, TypeOK, Points
    <2>2. QED
      BY <2>1, DeliverHeard DEF IInv, TypeOK, RunBlock, Settle, Quiet
  <1>2. /\ PlaceType /\ FlagType /\ CountType
        /\ CountInv /\ PlaceInv /\ StopInv /\ HeardInv
    BY TypeParts DEF IInv
  <1> USE <1>2 DEF Entering, InRuby, Ended, Kinds, RunBlock, Rest, Deliver, Silent,
          Raises, Leave, GoTo, BlockStops, StartCall, Quiet, interruptVars
  <1>3. PlaceType'
    BY DEF PlaceType
  <1>4. FlagType'
    BY DEF FlagType
  <1>5. CountType'
    BY <1>1, AcquireAssumption DEF CountType, CountInv
  <1>6. CountInv'
    BY AcquireAssumption DEF CountType, CountInv
  <1>7. PlaceInv'
    BY DEF PlaceType, FlagType, PlaceInv
  <1>8. StopInv'
    BY DEF PlaceType, FlagType, PlaceInv, StopInv, StoppedOnRaise, Excused, BlockStops
  <1>9. HeardInv'
    BY DEF PlaceInv, StopInv, HeardInv
  <1>10. QED
    BY <1>3, <1>4, <1>5, <1>6, <1>7, <1>8, <1>9, TypePartsNext DEF IInv

LEMMA CleanUpInv ==
    ASSUME IInv, CleanUp
    PROVE  IInv'
  <1>1. /\ PlaceType /\ FlagType /\ CountType
        /\ CountInv /\ PlaceInv /\ StopInv /\ HeardInv
    BY TypeParts DEF IInv
  <1> USE <1>1 DEF Entering, InRuby, Ended, Kinds, CleanUp, Rest, Leave, GoTo,
          CleanupStops, StartCall, Quiet, interruptVars
  <1>2. PlaceType'
    BY DEF PlaceType
  <1>3. FlagType'
    BY DEF FlagType
  <1>4. CountType'
    BY AcquireAssumption DEF CountType, CountInv
  <1>5. CountInv'
    BY AcquireAssumption DEF CountType, CountInv
  <1>6. PlaceInv'
    BY DEF PlaceType, FlagType, PlaceInv
  <1>7. StopInv'
    BY DEF PlaceType, FlagType, PlaceInv, StopInv, StoppedOnRaise, Excused, BlockStops
  <1>8. HeardInv'
    BY DEF PlaceInv, StopInv, HeardInv
  <1>9. QED
    BY <1>2, <1>3, <1>4, <1>5, <1>6, <1>7, <1>8, TypePartsNext DEF IInv

LEMMA QueueInterruptInv ==
    ASSUME IInv, QueueInterrupt
    PROVE  IInv'
  <1>1. /\ PlaceType /\ FlagType /\ CountType
        /\ CountInv /\ PlaceInv /\ StopInv /\ HeardInv
    BY TypeParts DEF IInv
  <1> USE <1>1 DEF Entering, InRuby, Ended, Kinds, QueueInterrupt
  <1>2. PlaceType'
    BY DEF PlaceType
  <1>3. FlagType'
    BY DEF FlagType
  <1>4. CountType'
    BY AcquireAssumption DEF CountType, CountInv
  <1>5. CountInv'
    BY AcquireAssumption DEF CountType, CountInv
  <1>6. PlaceInv'
    BY DEF PlaceType, FlagType, PlaceInv
  <1>7. StopInv'
    BY DEF PlaceType, FlagType, PlaceInv, StopInv, StoppedOnRaise, Excused, BlockStops
  <1>8. HeardInv'
    BY DEF PlaceInv, StopInv, HeardInv
  <1>9. QED
    BY <1>2, <1>3, <1>4, <1>5, <1>6, <1>7, <1>8, TypePartsNext DEF IInv

LEMMA SignalInv ==
    ASSUME IInv, NEW tick \in BOOLEAN, Signal(tick)
    PROVE  IInv'
  <1>1. /\ PlaceType /\ FlagType /\ CountType
        /\ CountInv /\ PlaceInv /\ StopInv /\ HeardInv
    BY TypeParts DEF IInv
  <1> USE <1>1 DEF Entering, InRuby, Ended, Kinds, Signal
  <1>2. PlaceType'
    BY DEF PlaceType
  <1>3. FlagType'
    BY DEF FlagType
  <1>4. CountType'
    BY AcquireAssumption DEF CountType, CountInv
  <1>5. CountInv'
    BY AcquireAssumption DEF CountType, CountInv
  <1>6. PlaceInv'
    BY DEF PlaceType, FlagType, PlaceInv
  <1>7. StopInv'
    BY DEF PlaceType, FlagType, PlaceInv, StopInv, StoppedOnRaise, Excused, BlockStops
  <1>8. HeardInv'
    BY DEF PlaceInv, StopInv, HeardInv
  <1>9. QED
    BY <1>2, <1>3, <1>4, <1>5, <1>6, <1>7, <1>8, TypePartsNext DEF IInv

LEMMA ReleaseInv ==
    ASSUME IInv, Release
    PROVE  IInv'
  <1>1. /\ PlaceType /\ FlagType /\ CountType
        /\ CountInv /\ PlaceInv /\ StopInv /\ HeardInv
    BY TypeParts DEF IInv
  <1> USE <1>1 DEF Entering, InRuby, Ended, Kinds, Release, Rest, interruptVars
  <1>2. PlaceType'
    BY DEF PlaceType
  <1>3. FlagType'
    BY DEF FlagType
  <1>4. CountType'
    BY AcquireAssumption DEF CountType, CountInv
  <1>5. CountInv'
    BY AcquireAssumption DEF CountType, CountInv
  <1>6. PlaceInv'
    BY DEF PlaceType, FlagType, PlaceInv
  <1>7. StopInv'
    BY DEF PlaceType, FlagType, PlaceInv, StopInv, StoppedOnRaise, Excused, BlockStops
  <1>8. HeardInv'
    BY DEF PlaceInv, StopInv, HeardInv
  <1>9. QED
    BY <1>2, <1>3, <1>4, <1>5, <1>6, <1>7, <1>8, TypePartsNext DEF IInv

LEMMA CollectInv ==
    ASSUME IInv, Collect
    PROVE  IInv'
  <1>1. /\ PlaceType /\ FlagType /\ CountType
        /\ CountInv /\ PlaceInv /\ StopInv /\ HeardInv
    BY TypeParts DEF IInv
  <1> USE <1>1 DEF Entering, InRuby, Ended, Kinds, Collect, interruptVars
  <1>2. PlaceType'
    BY DEF PlaceType
  <1>3. FlagType'
    BY DEF FlagType
  <1>4. CountType'
    BY AcquireAssumption DEF CountType, CountInv
  <1>5. CountInv'
    BY AcquireAssumption DEF CountType, CountInv
  <1>6. PlaceInv'
    BY DEF PlaceType, FlagType, PlaceInv
  <1>7. StopInv'
    BY DEF PlaceType, FlagType, PlaceInv, StopInv, StoppedOnRaise, Excused, BlockStops
  <1>8. HeardInv'
    BY DEF PlaceInv, StopInv, HeardInv
  <1>9. QED
    BY <1>2, <1>3, <1>4, <1>5, <1>6, <1>7, <1>8, TypePartsNext DEF IInv

LEMMA StutterInv ==
    ASSUME IInv, UNCHANGED vars
    PROVE  IInv'
  <1> USE DEF vars, interruptVars, Rest
  <1>1. TypeOK' /\ CountInv'
    BY DEF IInv, TypeOK, CountInv
  <1>2. PlaceInv' /\ HeardInv'
    BY DEF IInv, PlaceInv, HeardInv
  <1>3. StopInv'
    BY DEF IInv, StopInv, StoppedOnRaise, Excused, BlockStops
  <1>4. QED
    BY <1>1, <1>2, <1>3 DEF IInv

LEMMA InitInv ==
    ASSUME Init
    PROVE  IInv
  <1> USE AcquireAssumption DEF Init, Entering, InRuby, Ended
  <1>1. PlaceType /\ FlagType
    BY DEF PlaceType, FlagType
  <1>2. CountType /\ CountInv
    BY DEF CountType, CountInv
  <1>3. PlaceInv /\ HeardInv
    BY DEF PlaceInv, HeardInv
  <1>4. StopInv
    BY DEF StopInv, StoppedOnRaise
  <1>5. QED
    BY <1>1, <1>2, <1>3, <1>4, TypeParts DEF IInv

--------------------------------------------------------------------------------
(* The theorems.                                                           *)

\* The invariant holds in every state.
THEOREM Invariant == Spec => []IInv
  <1>1. Init => IInv
    BY InitInv
  <1>2. IInv /\ [Next]_vars => IInv'
    BY CheckInterruptsInv, TryRunInv, RecheckInv, FinishInv, ReturnToRubyInv, PopFrameInv,
       EndMaskInv, ConstructInv, HandOffInv, RunBlockInv, CleanUpInv, QueueInterruptInv,
       SignalInv, ReleaseInv, CollectInv, StutterInv DEF Next, Step
  <1>3. QED
    BY <1>1, <1>2, PTL DEF Spec

\* Type correctness; a native call makes at most MAX_ENTRY_ATTEMPTS attempts.
THEOREM TypeCorrect == Spec => []TypeOK
  <1>1. IInv => TypeOK
    BY DEF IInv
  <1>2. QED
    BY <1>1, Invariant, PTL

\* No sandbox is abandoned in the frame of a native call (nogvl, Sandbox.acquire).
THEOREM NeverLostSound == Spec => []NeverLost
  <1>1. IInv => NeverLost
    BY DEF IInv, PlaceInv, NeverLost
  <1>2. QED
    BY <1>1, Invariant, PTL

\* An exception leaves none of ours running but for the documented exceptions, and
\* takes down nobody else's (the ensure of Sandbox.acquire and its block forms).
THEOREM StoppedOnRaiseSound == Spec => []StoppedOnRaise
  <1>1. IInv => StoppedOnRaise
    BY DEF IInv, StopInv
  <1>2. QED
    BY <1>1, Invariant, PTL

\* Whoever was interrupted does not return normally (the rescues around the stops).
THEOREM PropagatesSound == Spec => []Propagates
  <1>1. IInv => Propagates
    BY DEF IInv, HeardInv, Propagates
  <1>2. QED
    BY <1>1, Invariant, PTL

================================================================================
