----------------------------- MODULE CreateOptions -----------------------------
(***************************************************************************)
(* A create, from its keyword arguments to the boots of the sandbox they   *)
(* describe: Sandbox.create and build_create_opts (lib/microsandbox/       *)
(* sandbox.rb), build_builder and what it parses with (ext/microsandbox/   *)
(* src/sandbox.rs), the pinning of host paths (ext/microsandbox/src/       *)
(* host_path.rs), and the dispatch to the default backend.                 *)
(*                                                                         *)
(* build_builder runs with the GVL and is one step.  Provisioning before   *)
(* it, and the create after it, give the GVL up: other threads then change *)
(* the working directory or the default backend.  The core persists what   *)
(* it is given, and resolves what is still relative whenever it boots.     *)
(*                                                                         *)
(* An option that may hold a path is [opt, text, dir]: text says whether   *)
(* it is relative, absolute or a name, or missing; dir what it is relative *)
(* to, once that is known.                                                 *)
(***************************************************************************)
EXTENDS NetworkPolicy

CONSTANTS
    Dirs,       \* working directories
    Requests,   \* the creates to check: [items, network, timeout, replace]
    Flows       \* what a sandbox may do on the network: [direction, peer, protocol, port]

PathOpts == {"image", "disk image", "snapshot", "bind", "disk", "copy", "root disk", "ca"}
\* As the caller writes them, no item is resolved and no number is a Duration yet.
Items == [opt: PathOpts \cup {"vsock", "named", "tmpfs", "text"},
          text: {"relative", "absolute", "name", "missing"}, dir: {"none"}]
Timeouts == {"unset", "fits", "huge", "nan", "infinite", "negative"}

ASSUME RequestAssumption == \A r \in Requests : r.items \subseteq Items /\ r.timeout \in Timeouts

\* A network, as a Hash, has these keys and no other; some hold lists. A rule in it
\* has a direction or none, and ports that are ranges of numbers.
ListKeys == {"profiles", "rules", "deny_domains", "deny_domain_suffixes"}
IsList(l) == l \in Seq(ToSet(l))
WrittenRule(r) ==
    /\ Get(r, "direction", "egress") # Unset
    /\ IsList(Get(r, "protocols", <<>>)) /\ IsList(Get(r, "ports", <<>>))
    /\ \A p \in ToSet(NormalizeRule(r).ports) : p.lo \in Int /\ p.hi \in Int
WrittenHash(h) ==
    /\ DOMAIN h \subseteq {"preset"} \cup CustomKeys \cup ListKeys
    /\ \A key \in DOMAIN h \cap ListKeys : IsList(h[key])
    /\ \A r \in ToSet(Get(h, "rules", <<>>)) : WrittenRule(r)

ASSUME NetworkAssumption == \A r \in Requests : WrittenHash(AsHash(r.network))
ASSUME FlowAssumption == \A f \in Flows : f.direction \in {"egress", "ingress"} /\ f.port \in Int

VARIABLES
    request,      \* what the caller asks for
    pc,           \* how far the call is
    backend,      \* the kind of the default backend: "local" or "cloud"
    cwd,          \* the working directory of the process that acts next
    provisioned,  \* ensure_runtime! has run for it
    builder,      \* the builder: the kind of backend it was built for, its items and policy
    anchor,       \* history: the working directory it was built in
    name,         \* the sandbox's name: "free", "held" by an older one, "claimed", "ours"
    stored,       \* what the core persisted: where, and what
    mounted       \* what the last boot used

vars == <<request, pc, backend, cwd, provisioned, builder, anchor, name, stored, mounted>>

Nothing == [kind |-> "none", items |-> {}, policy |-> DefaultPolicy]
Opts(items) == {i.opt : i \in items}

--------------------------------------------------------------------------------
(* The Ruby layer.                                                         *)

\* MUTANT of Contradicts: patches on a snapshot are left for the core to refuse.
ContradictsRootfs(items) == {"image", "snapshot"} \subseteq Opts(items)
\* Options that exclude each other.
Contradicts(items) ==
    \/ {"image", "snapshot"} \subseteq Opts(items)
    \/ "snapshot" \in Opts(items) /\ Opts(items) \cap {"copy", "text"} # {}

\* fstype: is for a path that ends like a disk image.
NotADisk(items) == \E i \in items : i.opt = "disk image" /\ i.text = "name"

\* coerce_duration: no NaN, infinity or negative number; no upper bound.
DurationRefused(seconds) == seconds \in {"nan", "infinite", "negative"}

RubyRefuses ==
    \/ Contradicts(request.items)
    \/ NotADisk(request.items)
    \/ DurationRefused(request.timeout)
    \/ NetworkRejected(request.network)

\* Sandbox.create: build_create_opts, and only then the runtime is provided for.
BuildCreateOpts ==
    /\ pc = "called"
    /\ pc' = IF RubyRefuses THEN "refused" ELSE "valid"
    /\ UNCHANGED <<request, backend, cwd, provisioned, builder, anchor, name, stored, mounted>>

EnsureRuntime ==
    /\ pc = "valid"
    /\ pc' = "ready"
    /\ provisioned' = (backend = "local")
    /\ UNCHANGED <<request, backend, cwd, builder, anchor, name, stored, mounted>>

--------------------------------------------------------------------------------
(* build_builder.                                                          *)

\* MUTANT of Pin: the path is resolved as the file system has it.
PinCanonical(i) ==
    IF backend = "local" /\ i.text = "relative"
    THEN [i EXCEPT !.text = "absolute", !.dir = "target of a link"] ELSE i
\* HostPaths::pin, in a local create only, and by the text alone.
Pin(i) ==
    IF backend = "local" /\ i.text = "relative"
    THEN [i EXCEPT !.text = "absolute", !.dir = cwd] ELSE i

\* A rootfs or disk image is a host path; an image may also be an OCI reference.
ParseImage(i) == Pin(i)
\* A snapshot's name or digest is not a path.
ParseSnapshot(i) == Pin(i)
\* MUTANT of ParseMount: disk mounts are forgotten.
PinBindsOnly(i) == IF i.opt = "bind" THEN Pin(i) ELSE i
\* A bind or disk source is a host path, a named one the name of a volume.
ParseMount(i) == IF i.opt \in {"bind", "disk"} THEN Pin(i) ELSE i
ParsePatch(i) == IF i.opt = "copy" THEN Pin(i) ELSE i
ParseRootDisk(i) == Pin(i)
ParseTls(i) == Pin(i)

Parse(i) ==
    CASE i.opt \in {"image", "disk image"} -> ParseImage(i)
      [] i.opt = "snapshot" -> ParseSnapshot(i)
      [] i.opt \in {"bind", "disk", "named", "tmpfs"} -> ParseMount(i)
      [] i.opt \in {"copy", "text"} -> ParsePatch(i)
      [] i.opt = "root disk" -> ParseRootDisk(i)
      [] i.opt = "ca" -> ParseTls(i)
      [] OTHER -> i      \* vsock: the core refuses a relative socket itself

\* A mount, a patch, a root disk or a vsock route without the path that its kind needs.
SourceMissing(i) == i.text = "missing" /\ i.opt # "tmpfs"

\* secs_to_duration refuses what a Duration cannot hold; from_secs_f64 panics.
Unrepresentable(seconds) == seconds \in {"nan", "infinite", "negative", "huge"}

BuilderRefuses ==
    \/ \E i \in request.items : SourceMissing(i)
    \/ RulesRejected(request.network)
    \/ Unrepresentable(request.timeout)

BuildBuilder ==
    /\ pc = "ready"
    /\ anchor' = cwd
    /\ IF BuilderRefuses
       THEN pc' = "refused" /\ UNCHANGED builder
       ELSE /\ pc' = "built"
            /\ builder' = [kind |-> backend, items |-> {Parse(i) : i \in request.items},
                           policy |-> Policy(request.network)]
    /\ UNCHANGED <<request, backend, cwd, provisioned, name, stored, mounted>>

--------------------------------------------------------------------------------
(* The core.                                                               *)

\* The paths among the items, those that are relative resolved in dir.
Resolved(items, dir) ==
    {IF i.text = "relative" THEN [i EXCEPT !.text = "absolute", !.dir = dir] ELSE i :
        i \in {j \in items : j.opt \in PathOpts}}

\* It refuses a relative vsock socket, and a name that is held, before any effect;
\* patches on a snapshot when it has claimed the name.
CoreRefuses ==
    \/ \E i \in builder.items : i.opt = "vsock" /\ i.text = "relative"
    \/ name = "held" /\ ~request.replace
CoreRefusesLate == "snapshot" \in Opts(builder.items) /\ Opts(builder.items) \cap {"copy", "text"} # {}

\* SandboxBuilder::create, on the backend that is the default by now.
Dispatch ==
    /\ pc = "built"
    /\ CASE CoreRefuses -> pc' = "refused" /\ UNCHANGED <<name, stored, mounted>>
         [] CoreRefusesLate /\ ~CoreRefuses ->
               pc' = "refused" /\ name' = "claimed" /\ UNCHANGED <<stored, mounted>>
         [] OTHER -> /\ pc' = "created"
                     /\ name' = "ours"
                     /\ stored' = [builder EXCEPT !.kind = backend]
                     /\ mounted' = IF backend = "local" THEN Resolved(builder.items, cwd) ELSE {}
    /\ UNCHANGED <<request, backend, cwd, provisioned, builder, anchor>>

\* Sandbox.start, in this process or another, wherever that runs.
Start ==
    /\ pc = "created" /\ stored.kind = "local" /\ backend = "local"
    /\ mounted' = Resolved(stored.items, cwd)
    /\ UNCHANGED <<request, pc, backend, cwd, provisioned, builder, anchor, name, stored>>

--------------------------------------------------------------------------------
(* Other threads, and other processes.                                     *)

ChangeDirectory ==
    /\ \E d \in Dirs \ {cwd} : cwd' = d
    /\ UNCHANGED <<request, pc, backend, provisioned, builder, anchor, name, stored, mounted>>

SwitchBackend ==
    /\ backend' = IF backend = "local" THEN "cloud" ELSE "local"
    /\ UNCHANGED <<request, pc, cwd, provisioned, builder, anchor, name, stored, mounted>>

--------------------------------------------------------------------------------
Init ==
    /\ request \in Requests
    /\ backend \in {"local", "cloud"}
    /\ cwd \in Dirs /\ anchor = cwd
    /\ name \in {"free", "held"}
    /\ pc = "called" /\ provisioned = FALSE
    /\ builder = Nothing /\ stored = Nothing /\ mounted = {}

Next ==
    \/ BuildCreateOpts \/ EnsureRuntime \/ BuildBuilder \/ Dispatch \/ Start
    \/ ChangeDirectory \/ SwitchBackend

Spec == Init /\ [][Next]_vars

--------------------------------------------------------------------------------
TypeOK ==
    /\ pc \in {"called", "valid", "ready", "built", "created", "refused"}
    /\ backend \in {"local", "cloud"} /\ {cwd, anchor} \subseteq Dirs
    /\ provisioned \in BOOLEAN
    /\ name \in {"free", "held", "claimed", "ours"}
    /\ {builder.kind, stored.kind} \subseteq {"none", "local", "cloud"}
    /\ pc = "created" <=> stored.kind # "none"
    /\ \A i \in builder.items \cup stored.items \cup mounted : i.dir \in Dirs \cup {"none"}

\* Every boot of a local sandbox, from whatever directory, uses the host paths
\* that the create call meant in the directory it was built in, and a name is
\* never taken for a path; a cloud backend gets the text the caller wrote
\* (HostPaths). Except when another thread switched the default backend between
\* build_builder and the dispatch: see the README.
PathsAnchored ==
    stored.kind = builder.kind =>
        CASE stored.kind = "local" ->
                  /\ mounted = Resolved(request.items, anchor)
                  /\ {i \in request.items : i.opt \notin PathOpts} \subseteq stored.items
          [] stored.kind = "cloud" -> stored.items = request.items
          [] OTHER -> TRUE

\* A create that is refused, by whichever layer, has persisted nothing, has not
\* replaced the sandbox that held the name and has not claimed a free one
\* (build_create_opts refuses in time what the core would refuse too late), nor
\* has the runtime been downloaded for what Ruby refuses; one that is not refused
\* has nothing in it that the core cannot hold.
RefusedCleanly ==
    /\ pc = "refused" => stored = Nothing /\ name \in {"free", "held"} /\ (RubyRefuses => ~provisioned)
    /\ pc \in {"built", "created"} =>
          /\ request.timeout \in {"unset", "fits"}
          /\ \A i \in request.items : i.text = "missing" => i.opt = "tmpfs"

(* What a `network:` option means, from the caller's point of view.        *)

\* What a rule names by either spelling of a key; naming nothing, it restricts nothing.
Named(r, one, many) == ToSet(Get(r, many, <<>>)) \cup (IF Has(r, {one}) THEN {r[one]} ELSE {})

\* The rule as its author wrote it speaks of the flow.
Says(r, flow) ==
    LET protocols == Named(r, "protocol", "protocols")
        ports == Named(r, "port", "ports")
    IN  /\ Get(r, "direction", "egress") \in {flow.direction, "any"}
        /\ Has(r, {"destination"}) => Names(ParseDestination(r.destination), flow.peer)
        /\ protocols # {} => flow.protocol \in protocols
        /\ ports # {} => flow.port \in UNION {p.lo..p.hi : p \in ports}

\* Profiles open their groups, and name resolution at the gateway.
Opens(profiles, flow) ==
    /\ flow.direction = "egress"
    /\ \E i \in DOMAIN profiles :
          \/ profiles[i] \in flow.peer.group
          \/ "host" \in flow.peer.group /\ flow.port = 53 /\ flow.protocol \in {"udp", "tcp"}

\* What a Hash leaves undecided.
Otherwise(h, direction) ==
    LET key == IF direction = "egress" THEN "default_egress" ELSE "default_ingress"
    IN  CASE Has(h, {key}) -> h[key]
          [] ~Has(h, {key}) /\ Has(h, {"preset"}) -> IF h.preset = "none" THEN "deny" ELSE "allow"
          [] OTHER -> IF direction = "ingress" \/ ~Has(h, CustomKeys \cup {"profiles"})
                      THEN "allow" ELSE "deny"

\* An option that asks for nothing leaves the sandbox the public internet.
AsksNothing(h) ==
    \A key \in DOMAIN h : key \in {"deny_domains", "deny_domain_suffixes"} /\ h[key] = <<>>

MeantBy(h, flow) ==
    LET rules == Get(h, "rules", <<>>)
        denied == /\ flow.direction = "egress"
                  /\ \/ ToSet(Get(h, "deny_domains", <<>>)) \cap flow.peer.domain # {}
                     \/ ToSet(Get(h, "deny_domain_suffixes", <<>>)) \cap flow.peer.suffix # {}
        saying == {i \in DOMAIN rules : Says(rules[i], flow)}
        first == CHOOSE i \in saying : \A j \in saying : i <= j
    IN  CASE denied -> "deny"
          [] ~denied /\ saying # {} -> rules[first].action
          [] ~denied /\ saying = {} /\ Opens(Get(h, "profiles", <<>>), flow) -> "allow"
          [] OTHER -> Otherwise(h, flow.direction)

Meant(network, flow) ==
    LET h == AsHash(network)
    IN  MeantBy(IF AsksNothing(h) THEN [profiles |-> <<"public">>] ELSE h, flow)

\* A sandbox's policy decides about every flow as its author meant: denied names
\* first, then the first of his rules that speaks of the flow, however it is
\* spelled, then what the profiles open, then the defaults he gave or his form of
\* the option stands for. Whichever of three keys it travels by.
PolicyAsMeant ==
    pc = "built" =>
        \A flow \in Flows, action \in Actions :
            Decides(builder.policy, flow, action) <=> action = Meant(request.network, flow)

================================================================================
