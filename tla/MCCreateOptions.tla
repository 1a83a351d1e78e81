---------------------------- MODULE MCCreateOptions ----------------------------
(***************************************************************************)
(* Instances of CreateOptions for TLC: peers, flows, and two families of   *)
(* requests, one of paths and one of networks, which do not touch each     *)
(* other in the code.                                                      *)
(***************************************************************************)
EXTENDS CreateOptions, TLC, FiniteSets

Peer(domain, suffix, group, cidr) ==
    [domain |-> domain, suffix |-> suffix, group |-> group, cidr |-> cidr]
MCPeers == {Peer({"ads"}, {"corp"}, {"public"}, {}), Peer({"api"}, {}, {"public"}, {}),
            Peer({}, {}, {"private"}, {"net"}), Peer({}, {}, {"host"}, {})}
MCCidrs == {"net"}
MCFlows == [direction : {"egress", "ingress"}, peer : MCPeers, protocol : {"tcp", "udp"},
            port : {53, 80, 81}]

Dest(kind, lead, word) == [destination |-> [kind |-> kind, lead |-> lead, word |-> word]]
Allow(fields) == [action |-> "allow"] @@ fields
Deny(fields) == [action |-> "deny"] @@ fields
Port(lo, hi) == [lo |-> lo, hi |-> hi]

RawRules == {
    Allow(<<>>), Deny([port |-> Port(53, 53)]),
    Allow([protocol |-> "tcp", port |-> Port(80, 81)] @@ Dest("shorthand", "", "api")),
    Allow([protocols |-> <<"tcp">>, protocol |-> "udp", ports |-> <<Port(80, 80)>>]
              @@ Dest("shorthand", "suffix=", "corp")),
    Deny([direction |-> "any"] @@ Dest("shorthand", "", "net")),
    Deny(Dest("shorthand", "", "host")), Allow(Dest("shorthand", "domain=", "host")),
    Deny([direction |-> "ingress", protocol |-> "tcp"]), Allow([protocols |-> <<>>, ports |-> <<>>]),
    Allow([port |-> Port(81, 80)]), Allow([port |-> Port(1, 65536)]),
    Allow(Dest("group", "", "ads")), [action |-> "drop"]}
RuleLists == {<<r>> : r \in RawRules} \cup {<<r, s>> : r, s \in RawRules}

Bases == {<<>>, [profiles |-> <<>>], [profiles |-> <<"public", "host">>], [preset |-> "none"],
          [preset |-> "allow_all"], [preset |-> "none", profiles |-> <<"public">>]}
Extras == {<<>>, [default_egress |-> "allow"], [default_egress |-> "deny", default_ingress |-> "deny"]}
          \cup {[rules |-> l] : l \in RuleLists}
          \cup {[rules |-> <<Deny(Dest("shorthand", ".", "corp"))>>, default_egress |-> "allow"]}
Denials == {<<>>, [deny_domains |-> <<>>], [deny_domains |-> <<"ads">>],
            [deny_domains |-> <<"api">>, deny_domain_suffixes |-> <<"corp">>]}

Networks == [form : {"name"}, name : {"public", "host", "default", "none", "allow_all", "public_only"}]
    \cup [form : {"list"}, list : {<<>>, <<"public", "private">>, <<"host", "non_local">>}]
    \cup [form : {"hash"}, hash : {b @@ e @@ d : b \in Bases, e \in Extras, d \in Denials}]
Unspecified == [form |-> "hash", hash |-> <<>>]

Item(opt, text) == [opt |-> opt, text |-> text, dir |-> "none"]
AnyItem == {Item(o, t) : o \in PathOpts \cup {"vsock"}, t \in {"relative", "absolute", "missing"}}
    \cup {Item("image", "name"), Item("disk image", "name"), Item("snapshot", "name"),
          Item("named", "name"), Item("named", "relative"), Item("named", "missing"),
          Item("tmpfs", "missing"), Item("text", "name")}
ItemSets == {{i} : i \in AnyItem} \cup
    {{Item(o, t), i} : o \in {"image", "snapshot"}, t \in {"relative", "name"},
                       i \in {j \in AnyItem : j.text # "missing"}}

Request(items, network, timeout, replace) ==
    [items |-> items, network |-> network, timeout |-> timeout, replace |-> replace]
MCRequests ==
    {Request(s, Unspecified, "unset", r) :
        s \in {s \in ItemSets : Cardinality(Opts(s)) = Cardinality(s)}, r \in BOOLEAN}
    \cup {Request({Item("image", "name")}, Unspecified, t, TRUE) :
              t \in {"fits", "nan", "infinite", "negative", "huge"}}
    \cup {Request({Item("image", "name")}, n, "unset", FALSE) : n \in Networks}

================================================================================
