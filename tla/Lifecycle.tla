------------------------------- MODULE Lifecycle -------------------------------
(***************************************************************************)
(* What callers do to the sandboxes of one name: the class methods and the *)
(* methods of Sandbox and SandboxHandle (lib/microsandbox/sandbox.rb) over *)
(* the native ones (ext/microsandbox/src/sandbox.rs).                      *)
(*                                                                         *)
(* A name is reused: each sandbox persisted under it has an identity of    *)
(* its own, and each boot of one is a run.  A native call is a plan of     *)
(* steps in the core; it holds neither the GVL nor the name, so other      *)
(* callers, of this program and of others, act between any two of them.    *)
(* What a step does is the core's (external); the plans, what a call is    *)
(* bound to and what becomes of its result are this repository's.          *)
(***************************************************************************)
EXTENDS Naturals, Sequences, FiniteSets

CONSTANTS
    Callers,    \* threads, of any program
    MaxId,      \* bound: identities that the name is given to
    MaxRun,     \* bound: runs of each
    MaxCalls    \* bound: calls that are made

ASSUME LifecycleAssumption == MaxId \in Nat /\ MaxRun \in Nat /\ MaxCalls \in Nat

VARIABLES
    phase,      \* of each identity
    run,        \* of each identity: the number of its last run
    signals,    \* of each identity: what its run has been sent
    object,     \* of each caller: the Sandbox or SandboxHandle it has
    garbage,    \* <<identity, run>> of owning objects that nobody refers to
    detached,   \* history: <<identity, run>> whose owner was told to let them live
    call,       \* of each caller: the call it is in
    calls       \* how many have been made

lifecycleVars == <<phase, run, signals, object, garbage, detached, call, calls>>

Ids == 1..MaxId
Down == {"stopped", "crashed"}
Alive(i) == phase[i] \in {"starting", "running", "draining"}
Holders == {i \in Ids : phase[i] \notin {"unborn", "removed"}}

\* A live Sandbox is of a run; a SandboxHandle is of none.
NoObject == [id |-> 0, run |-> 0, owns |-> FALSE]
\* id: the identity it is bound to, 0 while it only has the name.  from: the run it
\* found.  started: the run it booted itself, or 0.  detach: the option.
NoCall ==
    [op |-> "none", id |-> 0, todo |-> <<>>, from |-> 0, started |-> 0, detach |-> FALSE]

--------------------------------------------------------------------------------
(* The methods, as what they have the core do.                             *)

\* MUTANT of Stop: the wait does not escalate.
StopWaits == <<"term", "down">>
\* stop, stop_with_timeout, stop_and_wait: SIGTERM, and SIGKILL if that is not enough.
Stop == <<"term", "fall">>
\* MUTANT of Teardown: connect_or_create stops at the end of its block like create.
TeardownAlways == Stop
\* kill, and what force: makes of a stop.
Kill == <<"kill", "fall">>
\* What the block form of connect_or_create does when its block returns.
Teardown == <<"leave_unless_owned">> \o Stop

ByName == [op \in {"create", "create_block", "create_replace", "connect_or_create",
                   "connect_or_create_block", "start", "get", "Sandbox.remove"} |->
    CASE op = "create" -> <<"claim", "ready">>
      [] op = "create_block" -> <<"claim", "ready", "yield">> \o Stop
      [] op = "create_replace" -> <<"seize">> \o Stop \o <<"remove", "claim", "ready">>
      [] op = "connect_or_create" -> <<"converge", "ready">>
      [] op = "connect_or_create_block" -> <<"converge", "ready", "yield">> \o Teardown
      [] op = "start" -> <<"start", "ready">>
      [] op = "get" -> <<"find">>
      [] op = "Sandbox.remove" -> <<"find_and_remove">>]

Common == [op \in {"stop", "kill", "wait", "restart", "restart_by_force", "destroy",
                   "destroy_by_force", "wait_for_status"} |->
    CASE op = "stop" -> Stop
      [] op = "kill" -> Kill
      [] op = "wait" -> <<"down">>
      [] op = "restart" -> Stop \o <<"boot", "ready">>
      [] op = "restart_by_force" -> Kill \o <<"boot", "ready">>
      [] op = "destroy" -> Stop \o <<"remove">>
      [] op = "destroy_by_force" -> Kill \o <<"remove">>
      [] op = "wait_for_status" -> <<"status">>]
OnSandbox == [op \in (DOMAIN Common) \cup {"drain", "detach"} |->
    IF op \in DOMAIN Common THEN Common[op] ELSE <<op>>]
OnHandle == [op \in (DOMAIN Common) \cup {"request_stop", "request_kill", "request_drain",
                                         "connect_or_start"} |->
    CASE op = "request_stop" -> <<"term">>
      [] op = "request_kill" -> <<"kill">>
      [] op = "request_drain" -> <<"drain">>
      [] op = "connect_or_start" -> <<"converge", "ready">>
      [] OTHER -> Common[op]]

\* The calls whose options say that the sandbox is to outlive the object.
TakesDetached == ((DOMAIN ByName) \ {"get", "Sandbox.remove"})
                     \cup {"restart", "restart_by_force", "connect_or_start"}
GivesSandbox == TakesDetached
GivesHandle == {"get", "wait_for_status"}

Begin(c, plans, id) ==
    /\ call[c] = NoCall /\ calls < MaxCalls
    /\ calls' = calls + 1
    /\ \E op \in DOMAIN plans, detach \in BOOLEAN :
          /\ detach => op \in TakesDetached
          /\ call' = [call EXCEPT ![c] = [op |-> op, id |-> id, todo |-> plans[op],
                                          from |-> IF id = 0 THEN 0 ELSE run[id],
                                          started |-> 0, detach |-> detach]]
    /\ UNCHANGED <<phase, run, signals, object, garbage, detached>>

CallByName(c) == Begin(c, ByName, 0)
\* A method is bound to the identity of its receiver, whoever has the name by then.
CallOnObject(c) ==
    /\ object[c] # NoObject
    /\ Begin(c, IF object[c].run > 0 THEN OnSandbox ELSE OnHandle, object[c].id)

--------------------------------------------------------------------------------
(* Steps of a call in the core.                                            *)

\* MUTANT of Target: the name is looked up again, as Sandbox#stop once did.
TargetByName(c) == IF Holders = {} THEN call[c].id ELSE CHOOSE i \in Holders : TRUE
\* The identity that a step is about.
Target(c) == call[c].id

At(c, step) == call[c].todo # <<>> /\ Head(call[c].todo) = step
\* The call goes on, bound to i.
Goes(c, i) == call' = [call EXCEPT ![c].id = i, ![c].todo = Tail(@)]
Fails(c) ==
    /\ call' = [call EXCEPT ![c] = NoCall]
    /\ UNCHANGED <<phase, run, signals, object, garbage, detached, calls>>
\* NotFound or Replaced
Gone(c) == Target(c) \notin Holders

\* A boot of i by c, which makes c the owner of the run unless it is detached.
Boots(c, i) ==
    /\ run[i] < MaxRun
    /\ phase' = [phase EXCEPT ![i] = "starting"]
    /\ run' = [run EXCEPT ![i] = @ + 1]
    /\ signals' = [signals EXCEPT ![i] = {}]
    /\ detached' = IF call[c].detach THEN detached \cup {<<i, run[i] + 1>>} ELSE detached
    /\ call' = [call EXCEPT ![c].id = i, ![c].todo = Tail(@), ![c].started = run[i] + 1]
    /\ UNCHANGED <<object, garbage, calls>>

\* The name, if it is free, goes to a new identity.
Claim(c) ==
    /\ At(c, "claim") \/ (At(c, "converge") /\ call[c].id = 0 /\ Holders = {})
    /\ IF Holders = {}
       THEN \E i \in Ids :
              /\ phase[i] = "unborn" /\ \A j \in 1..(i - 1) : phase[j] # "unborn"
              /\ Boots(c, i)
       ELSE Fails(c)

Find(c) ==
    /\ At(c, "find") \/ At(c, "seize")
    /\ \/ \E i \in Holders : Goes(c, i)
       \/ /\ Holders = {} /\ At(c, "find")
          /\ call' = [call EXCEPT ![c] = NoCall]
       \/ /\ Holders = {} /\ At(c, "seize")
          /\ call' = [call EXCEPT ![c].todo = <<"claim", "ready">>]
    /\ UNCHANGED <<phase, run, signals, object, garbage, detached, calls>>

\* Connect to what runs, wait for what starts, start what is down.
Converge(c) ==
    /\ At(c, "converge") /\ (call[c].id = 0 => Holders # {})
    /\ \E i \in IF call[c].id = 0 THEN Holders ELSE {Target(c)} :
          \/ /\ phase[i] = "running"
             /\ call' = [call EXCEPT ![c].id = i, ![c].todo = Tail(Tail(@))]
             /\ UNCHANGED <<phase, run, signals, object, garbage, detached, calls>>
          \/ phase[i] \in Down /\ Boots(c, i)
          \/ phase[i] \in {"draining", "removed"} /\ Fails(c)

Boot(c) ==
    \/ /\ At(c, "boot")
       /\ IF phase[Target(c)] \in Down THEN Boots(c, Target(c)) ELSE Fails(c)
    \/ /\ At(c, "start")
       /\ IF \E i \in Holders : phase[i] \in Down
          THEN \E i \in Holders : Boots(c, i) ELSE Fails(c)

Ready(c) ==
    /\ At(c, "ready")
    /\ IF phase[Target(c)] = "starting" /\ run[Target(c)] = call[c].started
       THEN /\ phase' = [phase EXCEPT ![Target(c)] = "running"]
            /\ Goes(c, Target(c))
            /\ UNCHANGED <<run, signals, object, garbage, detached, calls>>
       ELSE Fails(c)

Signal(c) ==
    \E s \in {"term", "kill", "drain"} :
       /\ At(c, s)
       /\ IF Gone(c) THEN Fails(c)
          ELSE LET i == Target(c)
               IN  /\ IF Alive(i) /\ s # "drain"
                      THEN signals' = [signals EXCEPT ![i] = @ \cup {s}]
                      ELSE UNCHANGED signals
                   /\ IF phase[i] = "running" /\ s = "drain"
                      THEN phase' = [phase EXCEPT ![i] = "draining"] ELSE UNCHANGED phase
                   /\ call' = [call EXCEPT ![c].todo = Tail(@), ![c].from = run[i]]
                   /\ UNCHANGED <<run, object, garbage, detached, calls>>

\* The graceful part of a stop has taken too long.
Escalate(c) ==
    /\ At(c, "fall") /\ ~Gone(c) /\ Alive(Target(c)) /\ run[Target(c)] = call[c].from
    /\ "kill" \notin signals[Target(c)]
    /\ signals' = [signals EXCEPT ![Target(c)] = @ \cup {"kill"}]
    /\ UNCHANGED <<phase, run, object, garbage, detached, call, calls>>

\* The run that the call found is over; or the sandbox is gone, or has the status.
Wait(c) ==
    \/ /\ At(c, "fall") \/ At(c, "down")
       /\ Gone(c) \/ ~Alive(Target(c)) \/ run[Target(c)] > call[c].from
       /\ Goes(c, Target(c))
       /\ UNCHANGED <<phase, run, signals, object, garbage, detached, calls>>
    \/ /\ At(c, "status")
       /\ \/ /\ Gone(c)
             /\ Fails(c)
          \/ /\ phase[Target(c)] = "running"
             /\ Goes(c, Target(c))
             /\ UNCHANGED <<phase, run, signals, object, garbage, detached, calls>>

\* Only what is down is removed; a call that goes on has no identity any more.
RemoveRecord(c) ==
    /\ At(c, "remove") \/ At(c, "find_and_remove")
    /\ LET is == IF At(c, "remove") THEN {Target(c)} ELSE Holders
       IN  IF \E i \in is : phase[i] \in Down
           THEN /\ \E i \in is : phase' = [phase EXCEPT ![i] = "removed"]
                /\ Goes(c, 0)
                /\ UNCHANGED <<run, signals, object, garbage, detached, calls>>
           ELSE Fails(c)

Detach(c) ==
    /\ At(c, "detach")
    /\ object' = [object EXCEPT ![c].owns = FALSE]
    /\ detached' = detached \cup (IF object[c].owns THEN {<<object[c].id, object[c].run>>} ELSE {})
    /\ Goes(c, Target(c))
    /\ UNCHANGED <<phase, run, signals, garbage, calls>>

--------------------------------------------------------------------------------
(* The Ruby side of a call.                                                *)

\* owns_lifecycle: of what the call has booted itself, and not detached.
Owns(c) == call[c].started # 0 /\ ~call[c].detach

\* The caller's block, which may detach the sandbox it is given.
Yield(c) ==
    /\ At(c, "yield")
    /\ \E detach \in {call[c].detach, TRUE} :
          /\ call' = [call EXCEPT ![c].todo = Tail(@), ![c].detach = detach]
          /\ detached' = detached \cup
                (IF detach /\ call[c].started # 0
                 THEN {<<call[c].id, call[c].started>>} ELSE {})
    /\ UNCHANGED <<phase, run, signals, object, garbage, calls>>

LeaveUnlessOwned(c) ==
    /\ At(c, "leave_unless_owned")
    /\ IF Owns(c) THEN Goes(c, call[c].id) ELSE call' = [call EXCEPT ![c].todo = <<>>]
    /\ UNCHANGED <<phase, run, signals, object, garbage, detached, calls>>

\* MUTANT of Discarded: the destructor of every object ends its run.
DiscardedAny(o) == {<<o.id, o.run>>}
\* What is left when an object is let go of.
Discarded(o) == IF o.owns THEN {<<o.id, o.run>>} ELSE {}

\* The object that a call makes.
Made(c) ==
    IF call[c].op \in GivesHandle THEN [NoObject EXCEPT !.id = call[c].id]
    ELSE [id |-> call[c].id, owns |-> Owns(c),
          run |-> IF call[c].started # 0 THEN call[c].started ELSE run[call[c].id]]

\* It reaches the caller, in the place of what he had; or, in a block form, or cut
\* off by an interrupt, nobody.
Finish(c) ==
    /\ call[c] # NoCall /\ call[c].todo = <<>>
    /\ call' = [call EXCEPT ![c] = NoCall]
    /\ IF call[c].op \in GivesSandbox \cup GivesHandle
       THEN \/ /\ call[c].op \notin {"create_block", "connect_or_create_block"}
               /\ object' = [object EXCEPT ![c] = Made(c)]
               /\ garbage' = garbage \cup Discarded(object[c])
            \/ /\ garbage' = garbage \cup Discarded(Made(c))
               /\ UNCHANGED object
       ELSE UNCHANGED <<object, garbage>>
    /\ UNCHANGED <<phase, run, signals, detached, calls>>

\* The caller drops his object.
LetGo(c) ==
    /\ call[c] = NoCall /\ object[c] # NoObject
    /\ object' = [object EXCEPT ![c] = NoObject]
    /\ garbage' = garbage \cup Discarded(object[c])
    /\ UNCHANGED <<phase, run, signals, detached, call, calls>>

--------------------------------------------------------------------------------
(* The collector, and the microVMs.                                        *)

\* The safety net of an owning object: SIGTERM, to its own run only.
Collect(g) ==
    /\ g \in garbage
    /\ garbage' = garbage \ {g}
    /\ IF Alive(g[1]) /\ run[g[1]] = g[2]
       THEN signals' = [signals EXCEPT ![g[1]] = @ \cup {"term"}] ELSE UNCHANGED signals
    /\ UNCHANGED <<phase, run, object, detached, call, calls>>

Exit(i) ==
    /\ Alive(i) /\ (signals[i] # {} \/ phase[i] = "draining")
    /\ phase' = [phase EXCEPT ![i] = "stopped"]
    /\ UNCHANGED <<run, signals, object, garbage, detached, call, calls>>
\* SIGKILL is not up to the guest.
Killed(i) == "kill" \in signals[i] /\ Exit(i)

Crash(i) ==
    /\ Alive(i)
    /\ phase' = [phase EXCEPT ![i] = "crashed"]
    /\ UNCHANGED <<run, signals, object, garbage, detached, call, calls>>

--------------------------------------------------------------------------------
LifecycleInit ==
    /\ phase = [i \in Ids |-> "unborn"]
    /\ run = [i \in Ids |-> 0] /\ signals = [i \in Ids |-> {}]
    /\ object = [c \in Callers |-> NoObject] /\ garbage = {} /\ detached = {}
    /\ call = [c \in Callers |-> NoCall] /\ calls = 0

\* What a call does without waiting for the caller's own code.
Step(c) ==
    \/ Claim(c) \/ Find(c) \/ Converge(c) \/ Boot(c) \/ Ready(c) \/ Signal(c) \/ Wait(c)
    \/ RemoveRecord(c) \/ Detach(c) \/ LeaveUnlessOwned(c) \/ Finish(c)

LifecycleNext ==
    \/ \E c \in Callers :
          CallByName(c) \/ CallOnObject(c) \/ Step(c) \/ Escalate(c) \/ Yield(c) \/ LetGo(c)
    \/ \E g \in garbage : Collect(g)
    \/ \E i \in Ids : Exit(i) \/ Crash(i)

Fairness ==
    /\ \A c \in Callers : WF_lifecycleVars(Step(c)) /\ WF_lifecycleVars(Escalate(c))
    /\ \A i \in Ids : WF_lifecycleVars(Killed(i))

LifecycleSpec == LifecycleInit /\ [][LifecycleNext]_lifecycleVars /\ Fairness

--------------------------------------------------------------------------------
LifecycleTypeOK ==
    /\ phase \in [Ids -> {"unborn", "starting", "running", "draining", "removed"} \cup Down]
    /\ run \in [Ids -> 0..MaxRun]
    /\ signals \in [Ids -> SUBSET {"term", "kill"}]
    /\ \A c \in Callers : object[c].id \in 0..MaxId /\ object[c].run \in 0..MaxRun
    /\ garbage \subseteq Ids \X (1..MaxRun) /\ detached \subseteq Ids \X (1..MaxRun)
    /\ \A c \in Callers : /\ call[c].id \in 0..MaxId
                          /\ {call[c].from, call[c].started} \subseteq 0..MaxRun
    /\ Cardinality(Holders) <= 1

\* A call that is bound to a sandbox changes no other one that has the name before,
\* meanwhile or after: not one that was created while it waited either (Sandbox::stop
\* and the other methods that go through their own sandbox, not through its name).
OwnIdentityOnly ==
    [][\A c \in Callers : (call[c].id # 0 /\ (call'[c] # call[c] \/ Escalate(c))) =>
          \A i \in Ids \ {call[c].id} : phase'[i] = phase[i] /\ signals'[i] = signals[i]
      ]_lifecycleVars

\* Nobody's sandbox is stopped without somebody asking for it: the end of a block of
\* connect_or_create stops only a sandbox that this call has started, and the
\* collector only a run whose object owned it and was never told to let it live.
UnaskedStops ==
    [][\A i \in Ids : (signals'[i] # signals[i] /\ signals'[i] # {}) =>
          \/ <<i, run[i]>> \in garbage \ detached
          \/ \E c \in Callers :
                /\ call[c].id = i
                /\ call[c].op = "connect_or_create_block" => Owns(c)
      ]_lifecycleVars

\* A stop, kill or destroy ends, if the guest ignores SIGTERM and callers go on
\* restarting the sandbox too.
StopsReturn ==
    \A c \in Callers :
        call[c].op \in {"stop", "kill", "destroy", "destroy_by_force"} ~> call[c] = NoCall

================================================================================
