----------------------------- MODULE NetworkPolicy -----------------------------
(***************************************************************************)
(* From the `network:` option of a create to the policy that decides about *)
(* a flow: NetworkPolicy.coerce (lib/microsandbox/network.rb), the routing *)
(* of its result to one of three keys (lib/microsandbox/sandbox.rb), and   *)
(* what the extension parses out of them (ext/microsandbox/src/sandbox.rs).*)
(* Pure definitions: no variables.                                         *)
(*                                                                         *)
(* A Ruby Hash is a function from the keys it has.  Wire hashes are total  *)
(* records, with Unset for an absent string and <<>> for an absent list,   *)
(* which is how the extension reads them.  A destination as written is     *)
(* [kind, lead, word]: lead is a prefix that shorthand gives a meaning. A  *)
(* peer of a flow is [domain, suffix, group, cidr |-> the names it has].   *)
(***************************************************************************)
EXTENDS Integers, SequencesExt

CONSTANTS
    Cidrs       \* the words that parse as an address or hold a slash

Unset == "unset"
Actions == {"allow", "deny"}
Groups == {"public", "loopback", "private", "link-local", "metadata", "multicast", "host"}
MaxPort == 65535
Get(h, key, default) == IF key \in DOMAIN h THEN h[key] ELSE default
Has(h, keys) == keys \cap DOMAIN h # {}

--------------------------------------------------------------------------------
(* Rules.                                                                  *)

\* A rule Hash, of the factories or written by hand, on the wire.
NormalizeRule(r) ==
    [action |-> r.action,
     direction |-> Get(r, "direction", Unset),
     destination |-> Get(r, "destination", [kind |-> "any", lead |-> "", word |-> ""]),
     protocols |-> Get(r, "protocols", <<>>) \o (IF Has(r, {"protocol"}) THEN <<r.protocol>> ELSE <<>>),
     ports |-> Get(r, "ports", <<>>) \o (IF Has(r, {"port"}) THEN <<r.port>> ELSE <<>>)]

\* What a shorthand text names: the explicit prefixes first, then the words for
\* groups, then what looks like a suffix, an address, and at last a domain.
Shorthand(d) ==
    CASE d.lead = "" /\ d.word = "*" -> "any"
      [] d.lead = "domain=" -> "domain"
      [] d.lead \in {"suffix=", "."} -> "suffix"
      [] d.lead = "" /\ d.word \in Groups -> "group"
      [] d.lead = "" /\ d.word \in Cidrs -> "cidr"
      [] OTHER -> "domain"

ParseDestination(d) ==
    [kind |-> IF d.kind = "shorthand" THEN Shorthand(d) ELSE d.kind, name |-> d.word]

PortRejected(p) == p.lo > p.hi \/ p.hi > MaxPort

ParseRule(w) ==
    [action |-> w.action,
     direction |-> IF w.direction = Unset THEN "egress" ELSE w.direction,
     destination |-> ParseDestination(w.destination),
     protocols |-> ToSet(w.protocols),
     ports |-> ToSet(w.ports)]

RuleRejected(w) ==
    \/ w.action \notin Actions
    \/ w.direction \notin {Unset, "egress", "ingress", "any"}
    \/ w.destination.kind = "group" /\ w.destination.word \notin Groups
    \/ \E p \in ToSet(w.protocols) : p \notin {"tcp", "udp", "icmpv4", "icmpv6"}
    \/ \E p \in ToSet(w.ports) : PortRejected(p)

--------------------------------------------------------------------------------
(* The presets and profiles of the core.                                   *)

Rule(action, kind, name, protocols, ports) ==
    [action |-> action, direction |-> "egress", destination |-> [kind |-> kind, name |-> name],
     protocols |-> protocols, ports |-> ports]

AllowDns == Rule("allow", "group", "host", {"udp", "tcp"}, {[lo |-> 53, hi |-> 53]})

\* microsandbox::NetworkPolicy::from_profiles: name resolution at the gateway,
\* and each profile's group.
FromProfiles(profiles) ==
    [default_egress |-> "deny", default_ingress |-> "allow",
     rules |-> IF profiles = {} THEN <<>>
               ELSE <<AllowDns>> \o [i \in DOMAIN SetToSeq(profiles) |->
                                       Rule("allow", "group", SetToSeq(profiles)[i], {}, {})]]

PresetNames == {"none", "allow_all"}
Preset(name) ==
    LET action == IF name = "none" THEN "deny" ELSE "allow"
    IN  [default_egress |-> action, default_ingress |-> action, rules |-> <<>>]

--------------------------------------------------------------------------------
(* NetworkPolicy.coerce.                                                   *)

ProfileNames == {"public", "private", "host"}
CustomKeys == {"rules", "default_egress", "default_ingress"}

Blank == [profiles |-> <<>>, preset |-> Unset, default_egress |-> Unset, default_ingress |-> Unset,
          rules |-> <<>>, deny_domains |-> <<>>, deny_domain_suffixes |-> <<>>]

\* A name stands for a profile, the default policy or a preset; a list for profiles.
FromName(name) ==
    CASE name \in ProfileNames -> [profiles |-> <<name>>]
      [] name = "default" -> [profiles |-> <<"public">>]
      [] OTHER -> [preset |-> name]
AsHash(network) ==
    CASE network.form = "name" -> FromName(network.name)
      [] network.form = "list" -> [profiles |-> network.list]
      [] OTHER -> network.hash

HashRejected(h) ==
    \/ Has(h, {"profiles"}) /\ Has(h, {"preset"})
    \/ Has(h, {"preset"}) /\ (Has(h, CustomKeys) \/ h.preset \notin PresetNames)
    \/ \E p \in ToSet(Get(h, "profiles", <<>>)) : p \notin ProfileNames
    \/ Get(h, "default_egress", "deny") \notin Actions
    \/ Get(h, "default_ingress", "deny") \notin Actions

\* `network: {}` leaves the default policy in place.
IsNoOp(h) == ~Has(h, {"profiles", "preset"} \cup CustomKeys)
             /\ Get(h, "deny_domains", <<>>) = <<>> /\ Get(h, "deny_domain_suffixes", <<>>) = <<>>

\* The defaults a Hash stands for where it gives none: those of its base, or of a
\* custom policy, or, for deny lists alone, a network open but for them.
FromHash(h) ==
    LET default == IF Has(h, {"profiles", "preset"}) THEN [egress |-> Unset, ingress |-> Unset]
                   ELSE IF Has(h, CustomKeys) THEN [egress |-> "deny", ingress |-> "allow"]
                   ELSE [egress |-> "allow", ingress |-> "allow"]
        rules == Get(h, "rules", <<>>)
    IN  [preset |-> Get(h, "preset", Unset),
         profiles |-> Get(h, "profiles", <<>>),
         default_egress |-> Get(h, "default_egress", default.egress),
         default_ingress |-> Get(h, "default_ingress", default.ingress),
         rules |-> [i \in DOMAIN rules |-> NormalizeRule(rules[i])],
         deny_domains |-> Get(h, "deny_domains", <<>>),
         deny_domain_suffixes |-> Get(h, "deny_domain_suffixes", <<>>)]

--------------------------------------------------------------------------------
(* What the extension makes of the wire.                                   *)

DenyAll(kind, names) == [i \in DOMAIN names |-> Rule("deny", kind, names[i], {}, {})]
Given(action, default) == IF action = Unset THEN default ELSE action

Base(w) ==
    IF w.preset # Unset THEN Preset(w.preset) ELSE FromProfiles(ToSet(w.profiles))

\* MUTANT of Composed: the rules of the base come before the caller's.
BaseFirst(denials, callers, base) == denials \o base \o callers
\* The bulk denials outrank the caller's rules, and those the base.
Composed(denials, callers, base) == denials \o callers \o base

ParsePolicy(w) ==
    [default_egress |-> Given(w.default_egress, Base(w).default_egress),
     default_ingress |-> Given(w.default_ingress, Base(w).default_ingress),
     rules |-> Composed(DenyAll("domain", w.deny_domains) \o DenyAll("suffix", w.deny_domain_suffixes),
                        [i \in DOMAIN w.rules |-> ParseRule(w.rules[i])], Base(w).rules)]

\* build_builder: a bare preset, bare profiles, or a policy.
Configured(w) ==
    CASE w = [Blank EXCEPT !.preset = w.preset] /\ w.preset # Unset -> Preset(w.preset)
      [] w = [Blank EXCEPT !.profiles = w.profiles] /\ w.profiles # <<>> ->
            FromProfiles(ToSet(w.profiles))
      [] OTHER -> ParsePolicy(w)

DefaultPolicy == FromProfiles({"public"})

\* The policy of a sandbox created with `network: network`.
Policy(network) ==
    LET h == AsHash(network)
    IN  IF IsNoOp(h) THEN DefaultPolicy ELSE Configured(FromHash(h))

\* Ruby refuses the Hash; the extension refuses a rule in it.
NetworkRejected(network) == HashRejected(AsHash(network))
RulesRejected(network) ==
    \E r \in ToSet(Get(AsHash(network), "rules", <<>>)) : RuleRejected(NormalizeRule(r))

--------------------------------------------------------------------------------
(* How the core decides: the first rule that matches, per direction.       *)

Names(destination, peer) ==
    destination.kind = "any" \/ destination.name \in peer[destination.kind]

Matches(rule, flow) ==
    /\ rule.direction \in {flow.direction, "any"}
    /\ Names(rule.destination, flow.peer)
    /\ rule.protocols = {} \/ flow.protocol \in rule.protocols
    /\ rule.ports = {} \/ \E p \in rule.ports : p.lo <= flow.port /\ flow.port <= p.hi

Default(policy, flow) ==
    IF flow.direction = "egress" THEN policy.default_egress ELSE policy.default_ingress

\* The policy takes this action for the flow.
Decides(policy, flow, action) ==
    \/ \E i \in DOMAIN policy.rules :
          /\ Matches(policy.rules[i], flow)
          /\ \A j \in 1..(i - 1) : ~Matches(policy.rules[j], flow)
          /\ action = policy.rules[i].action
    \/ /\ \A i \in DOMAIN policy.rules : ~Matches(policy.rules[i], flow)
       /\ action = Default(policy, flow)

================================================================================
