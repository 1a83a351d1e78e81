---------------------------- MODULE SandboxProofs ----------------------------
(***************************************************************************)
(* How a sandbox is made, awaited and ended.                               *)
(*                                                                         *)
(*   CreateOptions  a create, for any working directories and requests:    *)
(*                  what a refusal has left undone, where host paths are   *)
(*                  anchored; that every policy decides as its author      *)
(*                  meant (NetworkPolicy).                                 *)
(*   PullSession    a create in the background, for any threads: its       *)
(*                  result always has a way to a caller.                   *)
(*   Lifecycle      the sandboxes of one name, for any callers, objects    *)
(*                  and runs: what a call may touch and who may stop it.   *)
(***************************************************************************)
EXTENDS CreateOptions, PullSession, Lifecycle, FiniteSetTheorems, SequenceTheorems, TLAPS

--------------------------------------------------------------------------------
(* The policy: parse_network_policy (ext/microsandbox/src/sandbox.rs) puts *)
(* bulk denials where no rule, profile, preset or default can outrank them.*)

\* A concatenation of sequences is one.
LEMMA ConcatIsSeq ==
    ASSUME NEW S, NEW a \in Seq(S), NEW b \in Seq(S)
    PROVE  a \o b \in Seq(S)
  BY ConcatProperties

\* What stands at the head of a concatenation of sequences stays where it is.
LEMMA HeadStays ==
    ASSUME NEW S, NEW a \in Seq(S), NEW b \in Seq(S), NEW i \in 1..Len(a)
    PROVE  i \in 1..Len(a \o b) /\ i \in DOMAIN (a \o b) /\ (a \o b)[i] = a[i]
  BY ConcatProperties, LenProperties

\* What follows is moved by its length.
LEMMA TailMoves ==
    ASSUME NEW S, NEW a \in Seq(S), NEW b \in Seq(S), NEW i \in 1..Len(b)
    PROVE  Len(a) + i \in 1..Len(a \o b) /\ (a \o b)[Len(a) + i] = b[i]
  <1>1. Len(a) \in Nat /\ Len(b) \in Nat /\ Len(a \o b) = Len(a) + Len(b)
    BY ConcatProperties, LenProperties
  <1>2. (a \o b)[Len(a) + i] = IF Len(a) + i <= Len(a) THEN a[Len(a) + i] ELSE b[(Len(a) + i) - Len(a)]
    BY <1>1, ConcatProperties
  <1>3. (Len(a) + i) - Len(a) = i /\ ~(Len(a) + i <= Len(a))
    BY <1>1
  <1>4. QED
    BY <1>1, <1>2, <1>3

\* No rule of a list is about the flow.
Silent(rules, flow) == \A i \in 1..Len(rules) : ~Matches(rules[i], flow)

\* The first rule of a list that is about it takes this action.
FirstTakes(rules, flow, action) ==
    \E i \in 1..Len(rules) :
        /\ Matches(rules[i], flow)
        /\ \A j \in 1..(i - 1) : ~Matches(rules[j], flow)
        /\ action = rules[i].action

LEMMA LeastIndex ==
    ASSUME NEW S \in SUBSET Nat, S # {}
    PROVE  \E i \in S : \A j \in S : i <= j
  <1>1. PICK i \in S : \A j \in S : <<j, i>> \notin OpToRel(<, Nat)
    BY WFMin, NatLessThanWellFounded, Zenon
  <1>2. \A j \in S : ~(j < i)
    BY <1>1, Zenon DEF OpToRel
  <1>3. QED
    BY <1>2

LEMMA DecidesByFirst ==
    ASSUME NEW S, NEW policy, policy.rules \in Seq(S), NEW flow, NEW action
    PROVE  Decides(policy, flow, action) <=>
             \/ FirstTakes(policy.rules, flow, action)
             \/ Silent(policy.rules, flow) /\ action = Default(policy, flow)
  <1>1. DOMAIN policy.rules = 1..Len(policy.rules)
    BY LenProperties
  <1>2. QED
    BY <1>1, Zenon DEF Decides, FirstTakes, Silent

\* Of two lists in a row, the second has a say where the first is silent.
LEMMA SilentConcat ==
    ASSUME NEW S, NEW a \in Seq(S), NEW b \in Seq(S), NEW flow
    PROVE  Silent(a \o b, flow) <=> Silent(a, flow) /\ Silent(b, flow)
  <1>1. /\ Len(a) \in Nat /\ Len(b) \in Nat /\ Len(a \o b) = Len(a) + Len(b)
        /\ \A i \in 1..Len(a) : (a \o b)[i] = a[i]
        /\ \A i \in 1..Len(b) : (a \o b)[Len(a) + i] = b[i]
    BY ConcatProperties, LenProperties, HeadStays, TailMoves
  <1> DEFINE ab == a \o b
  <1> HIDE DEF ab
  <1>2. /\ Len(ab) = Len(a) + Len(b)
        /\ \A i \in 1..Len(a) : ab[i] = a[i]
        /\ \A i \in 1..Len(b) : ab[Len(a) + i] = b[i]
    BY <1>1 DEF ab
  <1>3. ASSUME Silent(ab, flow)
        PROVE  Silent(a, flow) /\ Silent(b, flow)
    <2>1. \A i \in 1..Len(a) : ~Matches(a[i], flow)
      BY <1>1, <1>2, <1>3 DEF Silent
    <2>2. \A i \in 1..Len(b) : ~Matches(b[i], flow)
      BY <1>1, <1>2, <1>3 DEF Silent
    <2>3. QED
      BY <2>1, <2>2 DEF Silent
  <1>4. ASSUME Silent(a, flow), Silent(b, flow)
        PROVE  Silent(ab, flow)
    <2>1. SUFFICES ASSUME NEW k \in 1..Len(ab) PROVE ~Matches(ab[k], flow)
      BY DEF Silent
    <2>2. CASE k <= Len(a)
      BY <1>1, <1>2, <1>4, <2>2 DEF Silent
    <2>3. CASE k > Len(a)
      <3>1. (k - Len(a)) \in 1..Len(b) /\ Len(a) + (k - Len(a)) = k
        BY <1>1, <1>2, <2>3
      <3>2. ab[k] = b[k - Len(a)]
        BY <1>2, <3>1
      <3>3. QED
        BY <1>4, <3>1, <3>2 DEF Silent
    <2>4. QED
      BY <1>1, <1>2, <2>2, <2>3
  <1>5. QED
    BY <1>3, <1>4 DEF ab

LEMMA FirstOfConcat ==
    ASSUME NEW S, NEW a \in Seq(S), NEW b \in Seq(S), NEW flow, NEW action
    PROVE  FirstTakes(a \o b, flow, action) <=>
             FirstTakes(a, flow, action) \/ (Silent(a, flow) /\ FirstTakes(b, flow, action))
  <1>1. /\ Len(a) \in Nat /\ Len(b) \in Nat /\ Len(a \o b) = Len(a) + Len(b)
        /\ \A i \in 1..Len(a) : (a \o b)[i] = a[i]
        /\ \A i \in 1..Len(b) : (a \o b)[Len(a) + i] = b[i]
    BY ConcatProperties, LenProperties, HeadStays, TailMoves
  <1> DEFINE ab == a \o b
  <1> HIDE DEF ab
  <1>2. /\ Len(ab) = Len(a) + Len(b)
        /\ \A i \in 1..Len(a) : ab[i] = a[i]
        /\ \A i \in 1..Len(b) : ab[Len(a) + i] = b[i]
    BY <1>1 DEF ab
  <1>3. ASSUME FirstTakes(ab, flow, action)
        PROVE  FirstTakes(a, flow, action) \/ (Silent(a, flow) /\ FirstTakes(b, flow, action))
    <2>1. PICK k \in 1..Len(ab) : /\ Matches(ab[k], flow)
                                  /\ \A j \in 1..(k - 1) : ~Matches(ab[j], flow)
                                  /\ action = ab[k].action
      BY <1>3 DEF FirstTakes
    <2>2. CASE k <= Len(a)
      <3>1. k \in 1..Len(a) /\ ab[k] = a[k] /\ \A j \in 1..(k - 1) : ab[j] = a[j]
        BY <1>1, <1>2, <2>2
      <3>2. QED
        BY <2>1, <3>1, Zenon DEF FirstTakes
    <2>3. CASE k > Len(a)
      <3> DEFINE i == k - Len(a)
      <3>1. /\ i \in 1..Len(b) /\ Len(a) + i = k
            /\ \A j \in 1..(i - 1) : Len(a) + j \in 1..(k - 1) /\ j \in 1..Len(b)
        BY <1>1, <1>2, <2>3
      <3> HIDE DEF i
      <3>2. ab[k] = b[i] /\ \A j \in 1..(i - 1) : ab[Len(a) + j] = b[j]
        BY <1>2, <3>1
      <3>3. FirstTakes(b, flow, action)
        BY <2>1, <3>1, <3>2, Zenon DEF FirstTakes
      <3>4. \A j \in 1..Len(a) : j \in 1..(k - 1)
        BY <1>1, <2>3
      <3>5. Silent(a, flow)
        BY <1>2, <2>1, <3>4, Zenon DEF Silent
      <3>6. QED
        BY <3>3, <3>5
    <2>4. QED
      BY <1>1, <1>2, <2>2, <2>3
  <1>4. ASSUME FirstTakes(a, flow, action)
        PROVE  FirstTakes(ab, flow, action)
    <2>1. PICK k \in 1..Len(a) : /\ Matches(a[k], flow)
                                 /\ \A j \in 1..(k - 1) : ~Matches(a[j], flow)
                                 /\ action = a[k].action
      BY <1>4 DEF FirstTakes
    <2>2. k \in 1..Len(ab) /\ ab[k] = a[k] /\ \A j \in 1..(k - 1) : ab[j] = a[j]
      BY <1>1, <1>2
    <2>3. QED
      BY <2>1, <2>2, Zenon DEF FirstTakes
  <1>5. ASSUME Silent(a, flow), FirstTakes(b, flow, action)
        PROVE  FirstTakes(ab, flow, action)
    <2>1. PICK i \in 1..Len(b) : /\ Matches(b[i], flow)
                                 /\ \A j \in 1..(i - 1) : ~Matches(b[j], flow)
                                 /\ action = b[i].action
      BY <1>5 DEF FirstTakes
    <2> DEFINE k == Len(a) + i
    <2>2. k \in 1..Len(ab) /\ ab[k] = b[i]
      BY <1>1, <1>2
    <2>3. ASSUME NEW j \in 1..(k - 1) PROVE ~Matches(ab[j], flow)
      <3>1. CASE j <= Len(a)
        BY <1>1, <1>2, <1>5, <3>1 DEF Silent
      <3>2. CASE j > Len(a)
        <4>1. (j - Len(a)) \in 1..(i - 1) /\ (j - Len(a)) \in 1..Len(b) /\ Len(a) + (j - Len(a)) = j
          BY <1>1, <3>2
        <4>2. ab[j] = b[j - Len(a)]
          BY <1>2, <4>1
        <4>3. QED
          BY <2>1, <4>1, <4>2
      <3>3. QED
        BY <1>1, <3>1, <3>2
    <2> HIDE DEF k
    <2>4. QED
      BY <2>1, <2>2, <2>3, Zenon DEF FirstTakes
  <1>6. QED
    BY <1>3, <1>4, <1>5 DEF ab

\* Of three lists in a row, each has a say where those before it are silent.
LEMMA ThreeInARow ==
    ASSUME NEW S, NEW a \in Seq(S), NEW b \in Seq(S), NEW c \in Seq(S), NEW flow, NEW action
    PROVE  /\ (a \o b) \o c \in Seq(S)
           /\ Silent((a \o b) \o c, flow) <=> Silent(a, flow) /\ Silent(b, flow) /\ Silent(c, flow)
           /\ FirstTakes((a \o b) \o c, flow, action) <=>
                \/ FirstTakes(a, flow, action)
                \/ Silent(a, flow) /\ FirstTakes(b, flow, action)
                \/ Silent(a, flow) /\ Silent(b, flow) /\ FirstTakes(c, flow, action)
  <1> DEFINE ab == a \o b
  <1>1. /\ ab \in Seq(S)
        /\ Silent(ab, flow) <=> Silent(a, flow) /\ Silent(b, flow)
        /\ FirstTakes(ab, flow, action) <=>
             FirstTakes(a, flow, action) \/ (Silent(a, flow) /\ FirstTakes(b, flow, action))
    BY ConcatIsSeq, SilentConcat, FirstOfConcat
  <1> HIDE DEF ab
  <1>2. /\ ab \o c \in Seq(S)
        /\ Silent(ab \o c, flow) <=> Silent(ab, flow) /\ Silent(c, flow)
        /\ FirstTakes(ab \o c, flow, action) <=>
             FirstTakes(ab, flow, action) \/ (Silent(ab, flow) /\ FirstTakes(c, flow, action))
    BY <1>1, ConcatIsSeq, SilentConcat, FirstOfConcat
  <1>3. QED
    BY <1>1, <1>2, Zenon DEF ab

\* A list that is not silent has a first rule that is about the flow.
LEMMA FirstSpeaks ==
    ASSUME NEW S, NEW rules \in Seq(S), NEW flow, ~Silent(rules, flow)
    PROVE  \E i \in 1..Len(rules) : /\ Matches(rules[i], flow)
                                    /\ \A j \in 1..(i - 1) : ~Matches(rules[j], flow)
  <1> DEFINE speaking == {i \in 1..Len(rules) : Matches(rules[i], flow)}
  <1>1. Len(rules) \in Nat
    BY LenProperties
  <1>2. speaking \in SUBSET Nat /\ speaking # {}
    BY <1>1 DEF Silent
  <1>3. PICK i \in speaking : \A j \in speaking : i <= j
    <2> HIDE DEF speaking
    <2>1. QED
      BY <1>2, LeastIndex
  <1>4. ASSUME NEW j \in 1..(i - 1) PROVE ~Matches(rules[j], flow)
    <2>1. j \in 1..Len(rules) /\ ~(i <= j)
      BY <1>1, <1>3
    <2>2. QED
      BY <1>3, <2>1
  <1>5. QED
    BY <1>3, <1>4

\* A list of one action takes it wherever it is not silent.
LEMMA OneAction ==
    ASSUME NEW S, NEW rules \in Seq(S), NEW only, \A i \in 1..Len(rules) : rules[i].action = only,
           NEW flow, NEW action
    PROVE  FirstTakes(rules, flow, action) <=> ~Silent(rules, flow) /\ action = only
  <1>1. ASSUME FirstTakes(rules, flow, action)
        PROVE  ~Silent(rules, flow) /\ action = only
    BY <1>1, Zenon DEF FirstTakes, Silent
  <1>2. ASSUME ~Silent(rules, flow), action = only
        PROVE  FirstTakes(rules, flow, action)
    <2>1. PICK i \in 1..Len(rules) : /\ Matches(rules[i], flow)
                                     /\ \A j \in 1..(i - 1) : ~Matches(rules[j], flow)
      BY <1>2, FirstSpeaks
    <2>2. QED
      BY <1>2, <2>1, Zenon DEF FirstTakes
  <1>3. QED
    BY <1>1, <1>2

\* The elements of a list and one more.
LEMMA ListAndOne ==
    ASSUME NEW r, NEW one, NEW list, IsList(list)
    PROVE  ToSet(list \o (IF Has(r, {one}) THEN <<r[one]>> ELSE <<>>))
             = ToSet(list) \cup (IF Has(r, {one}) THEN {r[one]} ELSE {})
  <1> DEFINE S == ToSet(list) \cup {r[one]}
  <1>1. list \in Seq(S) /\ <<>> \in Seq(S) /\ <<r[one]>> \in Seq(S)
    <2>1. list \in Seq(S)
      BY SeqMonotonic DEF IsList
    <2>2. QED
      BY <2>1
  <1>2. CASE Has(r, {one})
    <2>1. Len(list) \in Nat /\ DOMAIN list = 1..Len(list)
      BY <1>1, LenProperties
    <2>2. /\ DOMAIN (list \o <<r[one]>>) = 1..(Len(list) + 1)
          /\ \A i \in 1..Len(list) : (list \o <<r[one]>>)[i] = list[i]
          /\ (list \o <<r[one]>>)[Len(list) + 1] = r[one]
      BY <1>1, <2>1, ConcatProperties, LenProperties
    <2> DEFINE both == list \o <<r[one]>>
    <2> HIDE DEF both
    <2>3. /\ DOMAIN both = 1..(Len(list) + 1) /\ both[Len(list) + 1] = r[one]
          /\ \A i \in 1..Len(list) : both[i] = list[i]
      BY <2>2 DEF both
    <2>4. \A i \in DOMAIN both : i \in 1..Len(list) \/ i = Len(list) + 1
      BY <2>1, <2>3
    <2>5. ToSet(both) = ToSet(list) \cup {r[one]}
      <3>1. ToSet(both) \subseteq ToSet(list) \cup {r[one]}
        BY <2>1, <2>3, <2>4 DEF ToSet
      <3>2. \A i \in 1..Len(list) : i \in DOMAIN both
        BY <2>1, <2>3
      <3>3. Len(list) + 1 \in DOMAIN both
        BY <2>1, <2>3
      <3>4. ToSet(list) \cup {r[one]} \subseteq ToSet(both)
        BY <2>1, <2>3, <3>2, <3>3 DEF ToSet
      <3>5. QED
        BY <3>1, <3>4
    <2>6. QED
      BY <1>2, <2>5 DEF both
  <1>3. CASE ~Has(r, {one})
    <2>1. list \o <<>> = list
      BY <1>1, ConcatEmptySeq
    <2>2. QED
      BY <1>3, <2>1
  <1>4. QED
    BY <1>2, <1>3

\* A rule on the wire matches what its author says, by whichever keys.
LEMMA RuleSays ==
    ASSUME NEW r, WrittenRule(r), NEW flow, flow.port \in Int
    PROVE  /\ Matches(ParseRule(NormalizeRule(r)), flow) <=> Says(r, flow)
           /\ ParseRule(NormalizeRule(r)).action = r.action
  <1> DEFINE w == NormalizeRule(r)
             rule == ParseRule(w)
             protocols == Named(r, "protocol", "protocols")
             ports == Named(r, "port", "ports")
  <1>1. /\ w.action = r.action
        /\ w.direction = Get(r, "direction", Unset)
        /\ w.destination = Get(r, "destination", [kind |-> "any", lead |-> "", word |-> ""])
        /\ w.protocols =
             Get(r, "protocols", <<>>) \o (IF Has(r, {"protocol"}) THEN <<r.protocol>> ELSE <<>>)
        /\ w.ports = Get(r, "ports", <<>>) \o (IF Has(r, {"port"}) THEN <<r.port>> ELSE <<>>)
    BY DEF NormalizeRule
  <1>2. ToSet(w.protocols) = protocols
    <2>1. IsList(Get(r, "protocols", <<>>))
      BY DEF WrittenRule
    <2>2. QED
      BY <1>1, <2>1, ListAndOne DEF Named
  <1>3. ToSet(w.ports) = ports
    <2>1. IsList(Get(r, "ports", <<>>))
      BY DEF WrittenRule
    <2>2. QED
      BY <1>1, <2>1, ListAndOne DEF Named
  <1>4. \A p \in ports : p.lo \in Int /\ p.hi \in Int
    BY <1>3 DEF WrittenRule
  <1>5. /\ rule.action = r.action
        /\ rule.direction = Get(r, "direction", "egress")
        /\ rule.destination = ParseDestination(w.destination)
        /\ rule.protocols = protocols /\ rule.ports = ports
    <2>1. /\ rule.action = w.action
          /\ rule.direction = IF w.direction = Unset THEN "egress" ELSE w.direction
          /\ rule.destination = ParseDestination(w.destination)
          /\ rule.protocols = ToSet(w.protocols) /\ rule.ports = ToSet(w.ports)
      BY DEF ParseRule
    <2>2. Get(r, "direction", "egress") # Unset
      BY DEF WrittenRule
    <2> HIDE DEF w, rule, protocols, ports
    <2>3. QED
      BY <1>1, <1>2, <1>3, <2>1, <2>2 DEF Get
  <1>6. Names(rule.destination, flow.peer) <=>
          (Has(r, {"destination"}) => Names(ParseDestination(r.destination), flow.peer))
    <2>1. CASE "destination" \in DOMAIN r
      <3>1. w.destination = r.destination /\ Has(r, {"destination"})
        BY <1>1, <2>1 DEF Get, Has
      <3>2. QED
        BY <1>5, <3>1, Zenon
    <2>2. CASE "destination" \notin DOMAIN r
      <3>1. w.destination = [kind |-> "any", lead |-> "", word |-> ""] /\ ~Has(r, {"destination"})
        BY <1>1, <2>2 DEF Get, Has
      <3>2. ParseDestination([kind |-> "any", lead |-> "", word |-> ""]).kind = "any"
        BY DEF ParseDestination
      <3>3. rule.destination.kind = "any"
        BY <1>5, <3>1, <3>2, Zenon
      <3>4. QED
        BY <3>1, <3>3, Zenon DEF Names
    <2>3. QED
      BY <2>1, <2>2
  <1> HIDE DEF w, rule
  <1>7. (ports = {} \/ \E p \in ports : p.lo <= flow.port /\ flow.port <= p.hi)
          <=> (ports # {} => flow.port \in UNION {p.lo..p.hi : p \in ports})
    <2> HIDE DEF ports
    <2>1. \A p \in ports : flow.port \in p.lo..p.hi <=> p.lo <= flow.port /\ flow.port <= p.hi
      BY <1>4
    <2>2. flow.port \in UNION {p.lo..p.hi : p \in ports} <=> \E p \in ports : flow.port \in p.lo..p.hi
      OBVIOUS
    <2>3. QED
      BY <2>1, <2>2
  <1>8. Says(r, flow) <=>
          /\ Get(r, "direction", "egress") \in {flow.direction, "any"}
          /\ Has(r, {"destination"}) => Names(ParseDestination(r.destination), flow.peer)
          /\ protocols # {} => flow.protocol \in protocols
          /\ ports # {} => flow.port \in UNION {p.lo..p.hi : p \in ports}
    BY Zenon DEF Says
  <1> HIDE DEF protocols, ports
  <1>9. Matches(rule, flow) <=> Says(r, flow)
    BY <1>5, <1>6, <1>7, <1>8, Zenon DEF Matches
  <1>10. QED
    BY <1>5, <1>9 DEF rule, w

\* The caller's rules decide as their author wrote them, in his order.
LEMMA CallersDecide ==
    ASSUME NEW rules, IsList(rules), \A r \in ToSet(rules) : WrittenRule(r),
           NEW flow, flow.port \in Int, NEW action,
           NEW parsed, DOMAIN parsed = DOMAIN rules,
           \A i \in DOMAIN rules : parsed[i] = ParseRule(NormalizeRule(rules[i])),
           NEW S, parsed \in Seq(S)
    PROVE  LET saying == {i \in DOMAIN rules : Says(rules[i], flow)}
               first == CHOOSE i \in saying : \A j \in saying : i <= j
           IN  /\ Silent(parsed, flow) <=> saying = {}
               /\ FirstTakes(parsed, flow, action) <=> saying # {} /\ action = rules[first].action
  <1> DEFINE saying == {i \in DOMAIN rules : Says(rules[i], flow)}
             first == CHOOSE i \in saying : \A j \in saying : i <= j
  <1>1. DOMAIN rules = 1..Len(parsed) /\ Len(parsed) \in Nat
    BY LenProperties
  <1>2. \A i \in 1..Len(parsed) : /\ Matches(parsed[i], flow) <=> i \in saying
                                  /\ parsed[i].action = rules[i].action
    <2>1. TAKE i \in 1..Len(parsed)
    <2>2. WrittenRule(rules[i])
      BY <1>1 DEF ToSet
    <2>3. QED
      BY <1>1, <2>2, RuleSays
  <1>3. Silent(parsed, flow) <=> saying = {}
    <2>1. saying \subseteq 1..Len(parsed)
      BY <1>1
    <2> HIDE DEF saying
    <2>2. QED
      BY <1>2, <2>1 DEF Silent
  <1>4. saying \in SUBSET Nat /\ saying \subseteq 1..Len(parsed)
    BY <1>1
  <1> HIDE DEF saying
  <1>5. saying # {} => first \in saying /\ \A j \in saying : first <= j
    BY <1>4, LeastIndex
  <1> HIDE DEF first
  <1>6. ASSUME FirstTakes(parsed, flow, action)
        PROVE  saying # {} /\ action = rules[first].action
    <2>1. PICK i \in 1..Len(parsed) : /\ Matches(parsed[i], flow)
                                      /\ \A j \in 1..(i - 1) : ~Matches(parsed[j], flow)
                                      /\ action = parsed[i].action
      BY <1>6 DEF FirstTakes
    <2>2. i \in saying /\ first \in saying /\ first <= i
      BY <1>2, <1>5, <2>1
    <2>3. first \notin 1..(i - 1)
      BY <1>2, <1>4, <2>1, <2>2
    <2>4. first = i
      BY <1>1, <1>4, <2>2, <2>3
    <2>5. QED
      BY <1>2, <2>1, <2>2, <2>4
  <1>7. ASSUME saying # {}, action = rules[first].action
        PROVE  FirstTakes(parsed, flow, action)
    <2>1. first \in saying /\ first \in 1..Len(parsed)
      BY <1>4, <1>5, <1>7
    <2>2. ASSUME NEW j \in 1..(first - 1) PROVE ~Matches(parsed[j], flow)
      <3>1. j \in 1..Len(parsed) /\ ~(first <= j)
        BY <1>1, <2>1
      <3>2. QED
        BY <1>2, <1>5, <1>7, <3>1
    <2>3. QED
      BY <1>2, <1>7, <2>1, <2>2 DEF FirstTakes
  <1>8. QED
    BY <1>3, <1>6, <1>7 DEF saying, first

\* The denials of a list are a sequence, in the order of the list.
LEMMA DenyAllIsSeq ==
    ASSUME NEW Name, NEW names \in Seq(Name), NEW kind, NEW D,
           \A word \in Name : Rule("deny", kind, word, {}, {}) \in D
    PROVE  /\ DenyAll(kind, names) \in Seq(D)
           /\ Len(DenyAll(kind, names)) = Len(names)
           /\ \A i \in 1..Len(names) : DenyAll(kind, names)[i] = Rule("deny", kind, names[i], {}, {})
  <1>1. DOMAIN names = 1..Len(names) /\ Len(names) \in Nat /\ \A i \in 1..Len(names) : names[i] \in Name
    BY LenProperties, ElementOfSeq
  <1>2. DenyAll(kind, names) \in [1..Len(names) -> D]
    BY <1>1 DEF DenyAll
  <1>3. DenyAll(kind, names) \in Seq(D)
    BY <1>1, <1>2, SeqDef
  <1>4. Len(DenyAll(kind, names)) = Len(names)
    BY <1>1, <1>2, <1>3, LenProperties
  <1>5. QED
    BY <1>1, <1>3, <1>4 DEF DenyAll

\* What goes out to one of these names.
Denied(names, kind, flow) == flow.direction = "egress" /\ ToSet(names) \cap flow.peer[kind] # {}

\* A list of denials is silent about what goes to none of its names.
LEMMA DenialsAbout ==
    ASSUME NEW names, IsList(names), NEW kind \in {"domain", "suffix"},
           NEW flow, flow.direction \in {"egress", "ingress"},
           NEW D, \A word \in ToSet(names) : Rule("deny", kind, word, {}, {}) \in D
    PROVE  /\ DenyAll(kind, names) \in Seq(D)
           /\ Silent(DenyAll(kind, names), flow) <=> ~Denied(names, kind, flow)
  <1> DEFINE denials == DenyAll(kind, names)
  <1>1. names \in Seq(ToSet(names)) /\ DOMAIN names = 1..Len(names)
    BY LenProperties DEF IsList
  <1>2. /\ denials \in Seq(D) /\ Len(denials) = Len(names)
        /\ \A i \in 1..Len(names) : denials[i] = Rule("deny", kind, names[i], {}, {})
    BY <1>1, DenyAllIsSeq
  <1>3. \A word : Matches(Rule("deny", kind, word, {}, {}), flow) <=>
                     flow.direction = "egress" /\ word \in flow.peer[kind]
    BY DEF Matches, Rule, Names
  <1> HIDE DEF denials
  <1>4. Silent(denials, flow) <=>
          \A i \in 1..Len(names) : ~(flow.direction = "egress" /\ names[i] \in flow.peer[kind])
    BY <1>2, <1>3 DEF Silent
  <1>5. QED
    BY <1>1, <1>2, <1>4 DEF Denied, ToSet, denials

\* The bulk denials of a wire Hash deny, and nothing else.
Denials(w) == DenyAll("domain", w.deny_domains) \o DenyAll("suffix", w.deny_domain_suffixes)
DeniedBy(w, flow) ==
    Denied(w.deny_domains, "domain", flow) \/ Denied(w.deny_domain_suffixes, "suffix", flow)

LEMMA DenialsDecide ==
    ASSUME NEW w, IsList(w.deny_domains), IsList(w.deny_domain_suffixes),
           NEW flow, flow.direction \in {"egress", "ingress"}, NEW action
    PROVE  \E D : /\ Denials(w) \in Seq(D)
                  /\ Silent(Denials(w), flow) <=> ~DeniedBy(w, flow)
                  /\ FirstTakes(Denials(w), flow, action) <=> DeniedBy(w, flow) /\ action = "deny"
  <1> DEFINE D == {Rule("deny", kind, word, {}, {}) : kind \in {"domain", "suffix"},
                      word \in ToSet(w.deny_domains) \cup ToSet(w.deny_domain_suffixes)}
             domains == DenyAll("domain", w.deny_domains)
             suffixes == DenyAll("suffix", w.deny_domain_suffixes)
             denials == domains \o suffixes
  <1>1. \A rule \in D : rule.action = "deny"
    BY DEF Rule
  <1>2. /\ \A word \in ToSet(w.deny_domains) : Rule("deny", "domain", word, {}, {}) \in D
        /\ \A word \in ToSet(w.deny_domain_suffixes) : Rule("deny", "suffix", word, {}, {}) \in D
    OBVIOUS
  <1> HIDE DEF D
  <1>3. domains \in Seq(D) /\ (Silent(domains, flow) <=> ~Denied(w.deny_domains, "domain", flow))
    BY <1>2, DenialsAbout
  <1>4. suffixes \in Seq(D) /\ (Silent(suffixes, flow) <=> ~Denied(w.deny_domain_suffixes, "suffix", flow))
    BY <1>2, DenialsAbout
  <1> HIDE DEF domains, suffixes
  <1>5. denials \in Seq(D) /\ (Silent(denials, flow) <=> ~DeniedBy(w, flow))
    BY <1>3, <1>4, ConcatIsSeq, SilentConcat DEF DeniedBy
  <1>6. \A i \in 1..Len(denials) : denials[i].action = "deny"
    BY <1>1, <1>5, ElementOfSeq
  <1> HIDE DEF denials
  <1>7. FirstTakes(denials, flow, action) <=> ~Silent(denials, flow) /\ action = "deny"
    BY <1>5, <1>6, OneAction
  <1>8. Denials(w) = denials
    BY DEF Denials, denials, domains, suffixes
  <1>9. QED
    BY <1>5, <1>7, <1>8, Zenon

\* The caller's rules on the wire, parsed.
LEMMA CallersAreSeq ==
    ASSUME NEW Wire, NEW w, w.rules \in Seq(Wire)
    PROVE  [i \in DOMAIN w.rules |-> ParseRule(w.rules[i])] \in Seq({ParseRule(r) : r \in Wire})
  <1> DEFINE Called == {ParseRule(r) : r \in Wire}
  <1>1. /\ DOMAIN w.rules = 1..Len(w.rules) /\ Len(w.rules) \in Nat
        /\ \A i \in 1..Len(w.rules) : w.rules[i] \in Wire
    BY LenProperties, ElementOfSeq
  <1>2. \A i \in 1..Len(w.rules) : ParseRule(w.rules[i]) \in Called
    BY <1>1
  <1> DEFINE callers == [i \in DOMAIN w.rules |-> ParseRule(w.rules[i])]
  <1> HIDE DEF Called
  <1>3. callers \in [1..Len(w.rules) -> Called]
    BY <1>1, <1>2
  <1> HIDE DEF callers
  <1>4. callers \in Seq(Called)
    BY <1>1, <1>3, SeqDef
  <1>5. QED
    BY <1>4 DEF callers, Called

\* A domain of deny_domains or a suffix of deny_domain_suffixes is out of reach of the
\* sandbox whatever else its policy says (parse_network_policy): which rules its author
\* wrote, which profiles or preset it starts from, and which defaults it has.
THEOREM DeniedStaysDenied ==
    ASSUME NEW w, IsList(w.deny_domains), IsList(w.deny_domain_suffixes),
           NEW Wire, w.rules \in Seq(Wire), NEW R, Base(w).rules \in Seq(R),
           NEW flow, flow.direction = "egress",
           \/ ToSet(w.deny_domains) \cap flow.peer["domain"] # {}
           \/ ToSet(w.deny_domain_suffixes) \cap flow.peer["suffix"] # {},
           NEW action, Decides(ParsePolicy(w), flow, action)
    PROVE  action = "deny"
  <1> DEFINE callers == [i \in DOMAIN w.rules |-> ParseRule(w.rules[i])]
             base == Base(w).rules
             policy == ParsePolicy(w)
  <1>1. DeniedBy(w, flow)
    BY DEF DeniedBy, Denied
  <1>2. PICK D : /\ Denials(w) \in Seq(D)
                 /\ Silent(Denials(w), flow) <=> ~DeniedBy(w, flow)
                 /\ FirstTakes(Denials(w), flow, action) <=> DeniedBy(w, flow) /\ action = "deny"
    BY DenialsDecide
  <1>3. policy.rules = (Denials(w) \o callers) \o base
    BY DEF ParsePolicy, Composed, Denials
  <1> DEFINE Called == {ParseRule(r) : r \in Wire}
             S == D \cup Called \cup R
  <1>4. callers \in Seq(Called)
    BY CallersAreSeq
  <1> HIDE DEF callers, Called, policy, base
  <1>5. Denials(w) \in Seq(S) /\ callers \in Seq(S) /\ base \in Seq(S)
    BY <1>2, <1>4, SeqMonotonic DEF base
  <1> HIDE DEF S
  <1>6. /\ policy.rules \in Seq(S)
        /\ Silent(policy.rules, flow) => Silent(Denials(w), flow)
        /\ FirstTakes(policy.rules, flow, action) =>
             FirstTakes(Denials(w), flow, action) \/ Silent(Denials(w), flow)
    BY <1>3, <1>5, ThreeInARow
  <1>7. FirstTakes(policy.rules, flow, action) \/ Silent(policy.rules, flow)
    BY <1>6, DecidesByFirst DEF policy
  <1>8. QED
    BY <1>1, <1>2, <1>6, <1>7

\* A list without elements.
LEMMA NoRules == \A flow, action : Silent(<<>>, flow) /\ ~FirstTakes(<<>>, flow, action)
  BY DEF Silent, FirstTakes

\* A finite set laid out in a sequence.
LEMMA LaidOut ==
    ASSUME NEW T, IsFiniteSet(T)
    PROVE  /\ SetToSeq(T) \in Seq(T)
           /\ \A t \in T : \E i \in 1..Len(SetToSeq(T)) : SetToSeq(T)[i] = t
  <1>1. Cardinality(T) \in Nat /\ ExistsBijection(1..Cardinality(T), T)
    BY FS_CardinalityType
  <1>2. PICK f \in [1..Cardinality(T) -> T] : IsInjective(f)
    BY <1>1 DEF ExistsBijection, Bijection, Injection, IsInjective
  <1>3. SetToSeq(T) \in [1..Cardinality(T) -> T] /\ IsInjective(SetToSeq(T))
    BY <1>2 DEF SetToSeq
  <1> DEFINE s == SetToSeq(T)
  <1> HIDE DEF s
  <1>4. s \in [1..Cardinality(T) -> T] /\ IsInjective(s)
    BY <1>3 DEF s
  <1>5. s \in Seq(T) /\ Len(s) = Cardinality(T)
    BY <1>1, <1>4, SeqDef, LenProperties
  <1>6. s \in Injection(1..Cardinality(T), T)
    BY <1>4 DEF Injection, IsInjective
  <1>7. IsFiniteSet(1..Cardinality(T)) /\ Cardinality(1..Cardinality(T)) = Cardinality(T)
    BY <1>1, FS_Interval
  <1>8. s \in Surjection(1..Cardinality(T), T)
    BY <1>6, <1>7, FS_Injection
  <1>9. QED
    BY <1>5, <1>8 DEF Surjection, s

\* The rules of composed profiles are silent about what the profiles do not open.
LEMMA ProfilesAbout ==
    ASSUME NEW list, ToSet(list) \subseteq ProfileNames,
           NEW flow, flow.direction \in {"egress", "ingress"}, flow.port \in Int
    PROVE  \E R : /\ FromProfiles(ToSet(list)).rules \in Seq(R)
                  /\ \A rule \in R : rule.action = "allow"
                  /\ Silent(FromProfiles(ToSet(list)).rules, flow) <=> ~Opens(list, flow)
  <1> DEFINE T == ToSet(list)
             groups == SetToSeq(T)
             group(g) == Rule("allow", "group", g, {}, {})
             opened == [i \in DOMAIN groups |-> group(groups[i])]
             R == {AllowDns} \cup {group(g) : g \in T}
             rules == FromProfiles(T).rules
  <1>1. Opens(list, flow) <=>
          /\ flow.direction = "egress"
          /\ \/ \E g \in T : g \in flow.peer["group"]
             \/ /\ T # {} /\ "host" \in flow.peer["group"]
                /\ flow.port = 53 /\ flow.protocol \in {"udp", "tcp"}
    BY DEF Opens, ToSet
  <1>2. rules = IF T = {} THEN <<>> ELSE <<AllowDns>> \o opened
    BY DEF FromProfiles
  <1>3. \A rule \in R : rule.action = "allow"
    BY DEF Rule, AllowDns
  <1>4. CASE T = {}
    <2>1. rules \in Seq(R) /\ rules = <<>>
      BY <1>2, <1>4
    <2>2. ~Opens(list, flow)
      BY <1>1, <1>4
    <2> HIDE DEF rules, R
    <2>3. QED
      BY <1>3, <2>1, <2>2, NoRules DEF rules
  <1>5. CASE T # {}
    <2>1. IsFiniteSet(T)
      <3>1. IsFiniteSet(ProfileNames)
        <4>1. IsFiniteSet({"public"})
          BY FS_Singleton
        <4>2. IsFiniteSet({"public"} \cup {"private"})
          BY <4>1, FS_AddElement
        <4>3. IsFiniteSet(({"public"} \cup {"private"}) \cup {"host"})
          BY <4>2, FS_AddElement
        <4>4. ({"public"} \cup {"private"}) \cup {"host"} = ProfileNames
          BY DEF ProfileNames
        <4>5. QED
          BY <4>3, <4>4
      <3>2. QED
        BY <3>1, FS_Subset
    <2>2. groups \in Seq(T) /\ \A g \in T : \E i \in 1..Len(groups) : groups[i] = g
      BY <2>1, LaidOut
    <2>3. /\ Len(groups) \in Nat /\ DOMAIN groups = 1..Len(groups)
          /\ \A i \in 1..Len(groups) : groups[i] \in T
      BY <2>2, LenProperties, ElementOfSeq
    <2> HIDE DEF groups
    <2>4. opened \in [1..Len(groups) -> R]
      BY <2>3
    <2>5. \A i \in 1..Len(groups) : opened[i] = group(groups[i])
      BY <2>3
    <2> HIDE DEF opened
    <2>6. opened \in Seq(R) /\ Len(opened) = Len(groups)
      BY <2>3, <2>4, SeqDef, LenProperties
    <2>7. <<AllowDns>> \in Seq(R)
      OBVIOUS
    <2>8. rules = <<AllowDns>> \o opened
      BY <1>2, <1>5
    <2>9. rules \in Seq(R)
      BY <2>6, <2>7, <2>8, ConcatIsSeq
    <2>10. Silent(rules, flow) <=> Silent(<<AllowDns>>, flow) /\ Silent(opened, flow)
      <3> HIDE DEF rules, R
      <3>1. Silent(<<AllowDns>> \o opened, flow) <=> Silent(<<AllowDns>>, flow) /\ Silent(opened, flow)
        BY <2>6, <2>7, SilentConcat
      <3>2. QED
        BY <2>8, <3>1, Zenon
    <2>11. \A g : Matches(group(g), flow) <=> flow.direction = "egress" /\ g \in flow.peer["group"]
      BY DEF Matches, Rule, Names
    <2>12. Silent(opened, flow) <=> ~(flow.direction = "egress" /\ \E g \in T : g \in flow.peer["group"])
      <3> HIDE DEF group, T
      <3>1. Silent(opened, flow) <=>
              \A i \in 1..Len(groups) : ~(flow.direction = "egress" /\ groups[i] \in flow.peer["group"])
        BY <2>5, <2>6, <2>11 DEF Silent
      <3>2. QED
        BY <2>2, <2>3, <3>1
    <2>13. Silent(<<AllowDns>>, flow) <=> ~Matches(AllowDns, flow)
      BY DEF Silent
    <2>14. Matches(AllowDns, flow) <=>
             /\ flow.direction = "egress" /\ "host" \in flow.peer["group"]
             /\ flow.port = 53 /\ flow.protocol \in {"udp", "tcp"}
      <3>1. /\ AllowDns.direction = "egress" /\ AllowDns.destination = [kind |-> "group", name |-> "host"]
            /\ AllowDns.protocols = {"udp", "tcp"} /\ AllowDns.ports = {[lo |-> 53, hi |-> 53]}
        BY DEF AllowDns, Rule
      <3>2. Names(AllowDns.destination, flow.peer) <=> "host" \in flow.peer["group"]
        BY <3>1 DEF Names
      <3>3. (\E p \in AllowDns.ports : p.lo <= flow.port /\ flow.port <= p.hi) <=> flow.port = 53
        BY <3>1
      <3>4. QED
        BY <3>1, <3>2, <3>3 DEF Matches
    <2>15. Silent(rules, flow) <=> ~Opens(list, flow)
      BY <1>1, <1>5, <2>10, <2>12, <2>13, <2>14
    <2> HIDE DEF rules, R
    <2>16. QED
      BY <1>3, <2>9, <2>15 DEF rules
  <1>6. QED
    BY <1>4, <1>5

\* What a policy that a Hash is parsed to starts from decides what the Hash opens.
LEMMA BaseAbout ==
    ASSUME NEW h, WrittenHash(h), ~HashRejected(h),
           NEW flow, flow.direction \in {"egress", "ingress"}, flow.port \in Int
    PROVE  \E R : /\ Base(FromHash(h)).rules \in Seq(R)
                  /\ \A rule \in R : rule.action = "allow"
                  /\ Silent(Base(FromHash(h)).rules, flow) <=>
                       ~Opens(Get(h, "profiles", <<>>), flow)
  <1> DEFINE w == FromHash(h)
  <1>1. w.preset = Get(h, "preset", Unset) /\ w.profiles = Get(h, "profiles", <<>>)
    BY DEF FromHash
  <1> HIDE DEF w
  <1>2. CASE "preset" \in DOMAIN h
    <2>1. w.preset # Unset
      BY <1>1, <1>2 DEF HashRejected, Has, Get, PresetNames, Unset
    <2>2. Base(w).rules = <<>>
      BY <2>1 DEF Base, Preset
    <2>3. Get(h, "profiles", <<>>) = <<>>
      BY <1>2 DEF HashRejected, Has, Get
    <2>4. ~Opens(<<>>, flow)
      BY DEF Opens
    <2>5. <<>> \in Seq({}) /\ Silent(<<>>, flow)
      BY NoRules
    <2> DEFINE R == {}
    <2>6. /\ Base(w).rules \in Seq(R)
          /\ Silent(Base(w).rules, flow) <=> ~Opens(Get(h, "profiles", <<>>), flow)
      BY <2>2, <2>3, <2>4, <2>5
    <2>7. \A rule \in R : rule.action = "allow"
      OBVIOUS
    <2> HIDE DEF R
    <2>8. QED
      BY <2>6, <2>7, Zenon DEF w
  <1>3. CASE "preset" \notin DOMAIN h
    <2>1. Base(w) = FromProfiles(ToSet(w.profiles))
      BY <1>1, <1>3 DEF Base, Get
    <2>2. ToSet(w.profiles) \subseteq ProfileNames
      BY <1>1 DEF HashRejected
    <2>3. QED
      BY <1>1, <2>1, <2>2, ProfilesAbout DEF w
  <1>4. QED
    BY <1>2, <1>3

\* Where no rule speaks, the defaults decide as the Hash says or stands for.
LEMMA DefaultsMeant ==
    ASSUME NEW h, ~HashRejected(h), NEW flow, flow.direction \in {"egress", "ingress"}
    PROVE  Default(ParsePolicy(FromHash(h)), flow) = Otherwise(h, flow.direction)
  <1> DEFINE w == FromHash(h)
             policy == ParsePolicy(w)
             default == IF Has(h, {"profiles", "preset"}) THEN [egress |-> Unset, ingress |-> Unset]
                        ELSE IF Has(h, CustomKeys) THEN [egress |-> "deny", ingress |-> "allow"]
                        ELSE [egress |-> "allow", ingress |-> "allow"]
  <1>1. /\ w.preset = Get(h, "preset", Unset)
        /\ w.default_egress = Get(h, "default_egress", default.egress)
        /\ w.default_ingress = Get(h, "default_ingress", default.ingress)
    BY DEF FromHash
  <1>2. /\ policy.default_egress = Given(w.default_egress, Base(w).default_egress)
        /\ policy.default_ingress = Given(w.default_ingress, Base(w).default_ingress)
    BY DEF ParsePolicy
  <1>3. /\ \A key \in {"default_egress", "default_ingress"} :
             key \in DOMAIN h => h[key] # Unset /\ "preset" \notin DOMAIN h
        /\ "preset" \in DOMAIN h => ~Has(h, CustomKeys) /\ h.preset \in PresetNames
    BY DEF HashRejected, Has, Get, Actions, Unset, CustomKeys
  <1> HIDE DEF w, policy
  <1>4. CASE "preset" \in DOMAIN h
    <2>1. w.preset = h.preset /\ h.preset # Unset /\ w.default_egress = Unset /\ w.default_ingress = Unset
      BY <1>1, <1>3, <1>4 DEF Has, Get, PresetNames, Unset
    <2>2. Base(w) = Preset(h.preset)
      BY <2>1 DEF Base
    <2>3. Default(policy, flow) = IF h.preset = "none" THEN "deny" ELSE "allow"
      BY <1>2, <2>1, <2>2 DEF Given, Preset, Default
    <2>4. Otherwise(h, flow.direction) = IF h.preset = "none" THEN "deny" ELSE "allow"
      BY <1>3, <1>4 DEF Otherwise, Has
    <2>5. QED
      BY <2>3, <2>4 DEF policy, w
  <1>5. CASE "preset" \notin DOMAIN h
    <2>1. Base(w).default_egress = "deny" /\ Base(w).default_ingress = "allow"
      BY <1>1, <1>5 DEF Base, Get, FromProfiles
    <2>2. /\ ~Has(h, {"preset"})
          /\ Has(h, {"profiles", "preset"}) <=> "profiles" \in DOMAIN h
          /\ Has(h, CustomKeys \cup {"profiles"}) <=> Has(h, CustomKeys) \/ "profiles" \in DOMAIN h
      BY <1>5 DEF Has
    <2>3. CASE flow.direction = "egress"
      <3>1. Default(policy, flow) = Given(w.default_egress, "deny")
        BY <1>2, <2>1, <2>3 DEF Default
      <3>2. CASE "default_egress" \in DOMAIN h
        BY <1>1, <1>3, <1>5, <2>2, <2>3, <3>1, <3>2 DEF Otherwise, Given, Has, Get, policy, w
      <3>3. CASE "default_egress" \notin DOMAIN h
        <4>1. w.default_egress = default.egress /\ ~Has(h, {"default_egress"})
          BY <1>1, <3>3 DEF Get, Has
        <4>2. Otherwise(h, flow.direction) = IF ~Has(h, CustomKeys \cup {"profiles"}) THEN "allow" ELSE "deny"
          BY <2>2, <2>3, <4>1 DEF Otherwise
        <4>3. QED
          BY <2>2, <3>1, <4>1, <4>2 DEF Given, Unset, policy, w
      <3>4. QED
        BY <3>2, <3>3
    <2>4. CASE flow.direction = "ingress"
      <3>1. Default(policy, flow) = Given(w.default_ingress, "allow")
        BY <1>2, <2>1, <2>4 DEF Default
      <3>2. CASE "default_ingress" \in DOMAIN h
        BY <1>1, <1>3, <1>5, <2>2, <2>4, <3>1, <3>2 DEF Otherwise, Given, Has, Get, policy, w
      <3>3. CASE "default_ingress" \notin DOMAIN h
        <4>1. w.default_ingress = default.ingress /\ ~Has(h, {"default_ingress"})
          BY <1>1, <3>3 DEF Get, Has
        <4>2. Otherwise(h, flow.direction) = "allow"
          BY <2>2, <2>4, <4>1 DEF Otherwise
        <4>3. QED
          BY <2>2, <3>1, <4>1, <4>2 DEF Given, Unset, policy, w
      <3>4. QED
        BY <3>2, <3>3
    <2>5. QED
      BY <2>3, <2>4
  <1>6. QED
    BY <1>4, <1>5

\* A policy parsed out of a Hash decides about every flow as the Hash means.
LEMMA ParsedAsMeant ==
    ASSUME NEW h, WrittenHash(h), ~HashRejected(h),
           NEW flow, flow.direction \in {"egress", "ingress"}, flow.port \in Int, NEW action
    PROVE  Decides(ParsePolicy(FromHash(h)), flow, action) <=> action = MeantBy(h, flow)
  <1> DEFINE w == FromHash(h)
             policy == ParsePolicy(w)
             rules == Get(h, "rules", <<>>)
             profiles == Get(h, "profiles", <<>>)
             callers == [i \in DOMAIN w.rules |-> ParseRule(w.rules[i])]
             base == Base(w).rules
             saying == {i \in DOMAIN rules : Says(rules[i], flow)}
             first == CHOOSE i \in saying : \A j \in saying : i <= j
             Called == {ParseRule(r) : r \in ToSet(w.rules)}
  <1>1. /\ w.deny_domains = Get(h, "deny_domains", <<>>)
        /\ w.deny_domain_suffixes = Get(h, "deny_domain_suffixes", <<>>)
        /\ w.rules = [i \in DOMAIN rules |-> NormalizeRule(rules[i])]
    BY DEF FromHash
  <1>2. policy.rules = (Denials(w) \o callers) \o base
    BY DEF ParsePolicy, Composed, Denials
  <1>3. \A key \in ListKeys : IsList(Get(h, key, <<>>))
    <2>1. IsList(<<>>)
      BY DEF IsList
    <2>2. QED
      BY <2>1 DEF WrittenHash, Get
  <1>4. MeantBy(h, flow) = CASE DeniedBy(w, flow) -> "deny"
                             [] ~DeniedBy(w, flow) /\ saying # {} -> rules[first].action
                             [] ~DeniedBy(w, flow) /\ saying = {} /\ Opens(profiles, flow) -> "allow"
                             [] OTHER -> Otherwise(h, flow.direction)
    BY <1>1 DEF MeantBy, DeniedBy, Denied
  <1> HIDE DEF w
  <1>5. PICK D : /\ Denials(w) \in Seq(D)
                 /\ Silent(Denials(w), flow) <=> ~DeniedBy(w, flow)
                 /\ FirstTakes(Denials(w), flow, action) <=> DeniedBy(w, flow) /\ action = "deny"
    <2>1. IsList(w.deny_domains) /\ IsList(w.deny_domain_suffixes)
      BY <1>1, <1>3 DEF ListKeys
    <2> HIDE DEF policy, rules, callers, base, saying, first, Called
    <2>2. QED
      BY <2>1, DenialsDecide DEF DeniedBy, Denied
  <1>6. IsList(rules) /\ \A r \in ToSet(rules) : WrittenRule(r)
    BY <1>3 DEF ListKeys, WrittenHash
  <1>7. /\ DOMAIN callers = DOMAIN rules /\ callers \in Seq(Called)
        /\ \A i \in DOMAIN rules : callers[i] = ParseRule(NormalizeRule(rules[i]))
    <2>1. w.rules \in Seq(ToSet(w.rules))
      <3>1. DOMAIN rules = 1..Len(rules) /\ Len(rules) \in Nat
        BY <1>6, LenProperties DEF IsList
      <3> DEFINE wire == w.rules
      <3>2. wire = [i \in 1..Len(rules) |-> wire[i]] /\ \A i \in 1..Len(rules) : wire[i] \in ToSet(wire)
        BY <1>1, <3>1 DEF ToSet
      <3> HIDE DEF wire, rules
      <3>3. wire \in [1..Len(rules) -> ToSet(wire)]
        BY <3>2
      <3>4. QED
        BY <3>1, <3>3, SeqDef DEF wire
    <2>2. callers \in Seq(Called)
      BY <2>1, CallersAreSeq
    <2>3. QED
      BY <1>1, <2>2
  <1> HIDE DEF rules, callers, Called
  <1>8. /\ Silent(callers, flow) <=> saying = {}
        /\ FirstTakes(callers, flow, action) <=> saying # {} /\ action = rules[first].action
    BY <1>6, <1>7, CallersDecide
  <1>9. PICK R : /\ base \in Seq(R) /\ \A rule \in R : rule.action = "allow"
                 /\ Silent(base, flow) <=> ~Opens(profiles, flow)
    BY BaseAbout DEF w
  <1>10. FirstTakes(base, flow, action) <=> Opens(profiles, flow) /\ action = "allow"
    <2>1. \A i \in 1..Len(base) : base[i].action = "allow"
      BY <1>9, ElementOfSeq
    <2>2. QED
      BY <1>9, <2>1, OneAction
  <1>11. Default(policy, flow) = Otherwise(h, flow.direction)
    BY DefaultsMeant DEF w
  <1> DEFINE S == D \cup Called \cup R
  <1> HIDE DEF base, saying, first, policy, profiles
  <1>12. Denials(w) \in Seq(S) /\ callers \in Seq(S) /\ base \in Seq(S)
    BY <1>5, <1>7, <1>9, SeqMonotonic
  <1> HIDE DEF S
  <1>13. /\ policy.rules \in Seq(S)
         /\ Silent(policy.rules, flow) <=>
              Silent(Denials(w), flow) /\ Silent(callers, flow) /\ Silent(base, flow)
         /\ FirstTakes(policy.rules, flow, action) <=>
              \/ FirstTakes(Denials(w), flow, action)
              \/ Silent(Denials(w), flow) /\ FirstTakes(callers, flow, action)
              \/ Silent(Denials(w), flow) /\ Silent(callers, flow) /\ FirstTakes(base, flow, action)
    BY <1>2, <1>12, ThreeInARow
  <1>14. Decides(policy, flow, action) <=>
           \/ FirstTakes(policy.rules, flow, action)
           \/ Silent(policy.rules, flow) /\ action = Default(policy, flow)
    BY <1>13, DecidesByFirst
  <1>15. Decides(policy, flow, action) <=>
           \/ DeniedBy(w, flow) /\ action = "deny"
           \/ ~DeniedBy(w, flow) /\ saying # {} /\ action = rules[first].action
           \/ ~DeniedBy(w, flow) /\ saying = {} /\ Opens(profiles, flow) /\ action = "allow"
           \/ /\ ~DeniedBy(w, flow) /\ saying = {} /\ ~Opens(profiles, flow)
              /\ action = Otherwise(h, flow.direction)
    BY <1>5, <1>8, <1>9, <1>10, <1>11, <1>13, <1>14
  <1>16. QED
    BY <1>4, <1>15 DEF policy, w

\* A bare preset and bare profiles are what the parser makes of them, so the key by which
\* a policy travels makes no difference.
LEMMA KeysAgree ==
    ASSUME NEW w, NEW R, Base(w).rules \in Seq(R)
    PROVE  Configured(w) = ParsePolicy(w)
  <1>1. ASSUME w.default_egress = Unset, w.default_ingress = Unset, w.rules = <<>>,
               w.deny_domains = <<>>, w.deny_domain_suffixes = <<>>
        PROVE  /\ ParsePolicy(w).default_egress = Base(w).default_egress
               /\ ParsePolicy(w).default_ingress = Base(w).default_ingress
               /\ ParsePolicy(w).rules = Base(w).rules
    <2>1. /\ DenyAll("domain", w.deny_domains) = <<>> /\ DenyAll("suffix", w.deny_domain_suffixes) = <<>>
          /\ [i \in DOMAIN w.rules |-> ParseRule(w.rules[i])] = <<>>
      BY <1>1 DEF DenyAll
    <2>2. <<>> \o <<>> = <<>> /\ <<>> \o Base(w).rules = Base(w).rules
      BY ConcatEmptySeq
    <2>3. ParsePolicy(w).rules = (<<>> \o <<>>) \o <<>> \o Base(w).rules
      BY <2>1, Zenon DEF ParsePolicy, Composed
    <2>4. ParsePolicy(w).rules = Base(w).rules
      BY <2>2, <2>3
    <2>5. QED
      BY <1>1, <2>4 DEF ParsePolicy, Given
  <1>2. ParsePolicy(w) = [default_egress |-> ParsePolicy(w).default_egress,
                          default_ingress |-> ParsePolicy(w).default_ingress,
                          rules |-> ParsePolicy(w).rules]
    BY DEF ParsePolicy
  <1>3. CASE w = [Blank EXCEPT !.preset = w.preset] /\ w.preset # Unset
    <2>1. /\ w.default_egress = Unset /\ w.default_ingress = Unset /\ w.rules = <<>>
          /\ w.deny_domains = <<>> /\ w.deny_domain_suffixes = <<>>
      BY <1>3 DEF Blank
    <2>2. Configured(w) = Base(w) /\ Base(w) = Preset(w.preset)
      <3>1. w.profiles = <<>>
        BY <1>3 DEF Blank
      <3>2. Configured(w) = Preset(w.preset)
        BY <1>3, <3>1, Zenon DEF Configured
      <3>3. QED
        BY <1>3, <3>2, Zenon DEF Base
    <2>3. Base(w) = [default_egress |-> Base(w).default_egress,
                     default_ingress |-> Base(w).default_ingress, rules |-> Base(w).rules]
      BY <2>2 DEF Preset
    <2>4. QED
      BY <1>1, <1>2, <2>1, <2>2, <2>3
  <1>4. CASE /\ ~(w = [Blank EXCEPT !.preset = w.preset] /\ w.preset # Unset)
             /\ w = [Blank EXCEPT !.profiles = w.profiles] /\ w.profiles # <<>>
    <2>1. /\ w.default_egress = Unset /\ w.default_ingress = Unset /\ w.rules = <<>>
          /\ w.deny_domains = <<>> /\ w.deny_domain_suffixes = <<>> /\ w.preset = Unset
      BY <1>4 DEF Blank
    <2>2. Configured(w) = Base(w) /\ Base(w) = FromProfiles(ToSet(w.profiles))
      <3>1. Configured(w) = FromProfiles(ToSet(w.profiles))
        BY <1>4, Zenon DEF Configured
      <3>2. QED
        BY <2>1, <3>1, Zenon DEF Base
    <2>3. Base(w) = [default_egress |-> Base(w).default_egress,
                     default_ingress |-> Base(w).default_ingress, rules |-> Base(w).rules]
      BY <2>2 DEF FromProfiles
    <2>4. QED
      BY <1>1, <1>2, <2>1, <2>2, <2>3
  <1>5. CASE /\ ~(w = [Blank EXCEPT !.preset = w.preset] /\ w.preset # Unset)
             /\ ~(w = [Blank EXCEPT !.profiles = w.profiles] /\ w.profiles # <<>>)
    BY <1>5, Zenon DEF Configured
  <1>6. QED
    BY <1>3, <1>4, <1>5

\* A network option is configured as a policy that decides as it means.
LEMMA PolicyMeant ==
    ASSUME NEW network, WrittenHash(AsHash(network)), ~NetworkRejected(network),
           NEW flow \in Flows, NEW action
    PROVE  Decides(Policy(network), flow, action) <=> action = Meant(network, flow)
  <1> DEFINE h == AsHash(network)
             public == [profiles |-> <<"public">>]
  <1>1. flow.direction \in {"egress", "ingress"} /\ flow.port \in Int
    BY FlowAssumption
  <1>2. ASSUME NEW g, WrittenHash(g), ~HashRejected(g)
        PROVE  Decides(Configured(FromHash(g)), flow, action) <=> action = MeantBy(g, flow)
    <2>1. PICK R : Base(FromHash(g)).rules \in Seq(R)
      BY <1>1, <1>2, BaseAbout
    <2>2. Configured(FromHash(g)) = ParsePolicy(FromHash(g))
      BY <2>1, KeysAgree
    <2>3. QED
      BY <1>1, <1>2, <2>2, ParsedAsMeant
  <1>3. WrittenHash(h) /\ ~HashRejected(h)
    BY DEF NetworkRejected
  <1>4. /\ Policy(network) = IF IsNoOp(h) THEN DefaultPolicy ELSE Configured(FromHash(h))
        /\ Meant(network, flow) = MeantBy(IF AsksNothing(h) THEN public ELSE h, flow)
    BY DEF Policy, Meant
  <1> HIDE DEF h
  <1>5. IsNoOp(h) <=> AsksNothing(h)
    <2>1. DOMAIN h \subseteq {"preset"} \cup CustomKeys \cup ListKeys
      BY <1>3 DEF WrittenHash
    <2>2. QED
      BY <2>1 DEF IsNoOp, AsksNothing, Has, Get, CustomKeys, ListKeys
  <1>6. CASE AsksNothing(h)
    <2>1. /\ DOMAIN public = {"profiles"} /\ public.profiles = <<"public">>
          /\ ToSet(<<"public">>) = {"public"}
      BY DEF ToSet
    <2> HIDE DEF public
    <2>2. WrittenHash(public)
      <3>1. IsList(<<"public">>)
        BY <2>1 DEF IsList
      <3>2. Get(public, "rules", <<>>) = <<>> /\ ToSet(<<>>) = {}
        BY <2>1 DEF Get, ToSet
      <3>3. QED
        BY <2>1, <3>1, <3>2 DEF WrittenHash, ListKeys
    <2>3. ~HashRejected(public)
      BY <2>1 DEF HashRejected, Has, Get, CustomKeys, ProfileNames, Actions
    <2>4. Configured(FromHash(public)) = DefaultPolicy
      <3>1. FromHash(public) = [Blank EXCEPT !.profiles = <<"public">>]
        <4>1. [i \in DOMAIN <<>> |-> NormalizeRule(<<>>[i])] = <<>>
          OBVIOUS
        <4>2. /\ Get(public, "profiles", <<>>) = <<"public">> /\ Has(public, {"profiles", "preset"})
              /\ \A default : /\ Get(public, "preset", default) = default
                             /\ Get(public, "default_egress", default) = default
                             /\ Get(public, "default_ingress", default) = default
                             /\ Get(public, "rules", default) = default
                             /\ Get(public, "deny_domains", default) = default
                             /\ Get(public, "deny_domain_suffixes", default) = default
          BY <2>1 DEF Get, Has
        <4>3. LET rules == Get(public, "rules", <<>>)
              IN  [i \in DOMAIN rules |-> NormalizeRule(rules[i])] = <<>>
          BY <4>1, <4>2
        <4>4. QED
          BY <4>2, <4>3 DEF FromHash, Blank
      <3> DEFINE w == FromHash(public)
      <3>2. w.profiles = <<"public">> /\ w.preset = Unset /\ w = [Blank EXCEPT !.profiles = w.profiles]
        BY <3>1 DEF Blank
      <3> HIDE DEF w
      <3>3. <<"public">> # <<>>
        OBVIOUS
      <3>4. Configured(w) = FromProfiles(ToSet(w.profiles))
        BY <3>2, <3>3, Zenon DEF Configured
      <3>5. QED
        BY <2>1, <3>2, <3>4, Zenon DEF w, DefaultPolicy
    <2>5. QED
      BY <1>2, <1>4, <1>5, <1>6, <2>2, <2>3, <2>4
  <1>7. CASE ~AsksNothing(h)
    BY <1>2, <1>3, <1>4, <1>5, <1>7
  <1>8. QED
    BY <1>6, <1>7

--------------------------------------------------------------------------------
(* The create: its inductive invariant.                                    *)

\* An item as build_builder parses it, in a working directory, for a local backend.
Pinned(i, dir) ==
    IF i.text = "relative" /\ i.opt \in PathOpts
    THEN [i EXCEPT !.text = "absolute", !.dir = dir] ELSE i

\* Where each layer refuses what, and what the layers behind it can rely on.
ReachedInv ==
    /\ pc \in {"valid", "ready", "built", "created"} => ~RubyRefuses
    /\ pc \in {"built", "created"} => ~BuilderRefuses
    /\ pc = "called" => ~provisioned
    /\ pc = "refused" => (RubyRefuses => ~provisioned)

\* Only a create that is through has touched the name or the store.
EffectInv ==
    /\ pc # "created" => stored = Nothing /\ mounted = {} /\ name \in {"free", "held"}
    /\ pc = "created" => stored.kind # "none" /\ stored.items = builder.items

\* The builder has been built for one kind of backend, in one directory.
BuilderInv ==
    /\ pc \in {"called", "valid", "ready"} => builder = Nothing
    /\ pc \in {"built", "created"} => builder.kind # "none" /\ builder.policy = Policy(request.network)
    /\ builder.kind = "none" => builder.items = {}
    /\ builder.kind = "local" => builder.items = {Pinned(i, anchor) : i \in request.items}
    /\ builder.kind = "cloud" => builder.items = request.items

IInv ==
    /\ TypeOK /\ request \in Requests
    /\ ReachedInv /\ EffectInv /\ BuilderInv /\ PathsAnchored

--------------------------------------------------------------------------------
(* Items: what parsing and resolving do to them.                           *)

LEMMA ParsesTo ==
    ASSUME NEW i \in Items
    PROVE  Parse(i) = IF backend = "local" THEN Pinned(i, cwd) ELSE i
  <1>1. CASE i.opt \in {"image", "disk image"}
    BY <1>1 DEF Parse, ParseImage, Pin, Pinned, PathOpts
  <1>2. CASE i.opt = "snapshot"
    BY <1>2 DEF Parse, ParseSnapshot, Pin, Pinned, PathOpts
  <1>3. CASE i.opt \in {"bind", "disk", "named", "tmpfs"}
    BY <1>3 DEF Parse, ParseMount, Pin, Pinned, PathOpts
  <1>4. CASE i.opt \in {"copy", "text"}
    BY <1>4 DEF Parse, ParsePatch, Pin, Pinned, PathOpts
  <1>5. CASE i.opt = "root disk"
    BY <1>5 DEF Parse, ParseRootDisk, Pin, Pinned, PathOpts
  <1>6. CASE i.opt = "ca"
    BY <1>6 DEF Parse, ParseTls, Pin, Pinned, PathOpts
  <1>7. CASE i.opt = "vsock"
    BY <1>7 DEF Parse, Pinned, PathOpts
  <1>8. QED
    BY <1>1, <1>2, <1>3, <1>4, <1>5, <1>6, <1>7 DEF Items, PathOpts

\* Pinning changes neither the option nor, but for the directory, where it is relative to.
LEMMA PinnedItem ==
    ASSUME NEW i \in Items, NEW dir
    PROVE  /\ Pinned(i, dir).opt = i.opt
           /\ Pinned(i, dir).dir \in {"none", dir}
           /\ i.opt \in PathOpts => Pinned(i, dir).text # "relative"
           /\ i.opt \notin PathOpts => Pinned(i, dir) = i
  <1>1. CASE i.text = "relative" /\ i.opt \in PathOpts
    <2>1. Pinned(i, dir) = [opt |-> i.opt, text |-> "absolute", dir |-> dir]
      BY <1>1 DEF Pinned, Items
    <2>2. QED
      BY <1>1, <2>1
  <1>2. CASE ~(i.text = "relative" /\ i.opt \in PathOpts)
    BY <1>2 DEF Pinned, Items
  <1>3. QED
    BY <1>1, <1>2

LEMMA OptsPinned ==
    ASSUME NEW items, items \subseteq Items, NEW dir
    PROVE  Opts({Pinned(i, dir) : i \in items}) = Opts(items)
  BY PinnedItem DEF Opts

\* A boot resolves what is pinned to what was meant where it was pinned, in whatever
\* directory it happens.
LEMMA ResolvedPinned ==
    ASSUME NEW items, items \subseteq Items, NEW dir, NEW other
    PROVE  Resolved({Pinned(i, dir) : i \in items}, other) = Resolved(items, dir)
  <1> DEFINE pinned == {Pinned(i, dir) : i \in items}
             paths(s) == {j \in s : j.opt \in PathOpts}
             resolve(i, d) == IF i.text = "relative"
                              THEN [i EXCEPT !.text = "absolute", !.dir = d] ELSE i
  <1>1. \A i \in items : i.opt \in PathOpts => Pinned(i, dir) = resolve(i, dir)
    BY DEF Pinned
  <1>2. \A j \in paths(pinned) : resolve(j, other) = j
    BY PinnedItem
  <1>3. paths(pinned) = {resolve(i, dir) : i \in paths(items)}
    <2>1. paths(pinned) = {Pinned(i, dir) : i \in paths(items)}
      BY PinnedItem
    <2>2. QED
      BY <1>1, <2>1
  <1>4. Resolved(pinned, other) = {resolve(j, other) : j \in paths(pinned)}
    BY DEF Resolved
  <1>5. Resolved(items, dir) = {resolve(i, dir) : i \in paths(items)}
    BY DEF Resolved
  <1> HIDE DEF pinned, resolve, paths
  <1>6. Resolved(pinned, other) = paths(pinned)
    BY <1>2, <1>4
  <1>7. QED
    BY <1>3, <1>5, <1>6 DEF pinned

\* Items that hold a directory of the process, or none yet.
Located == [opt: PathOpts \cup {"vsock", "named", "tmpfs", "text"},
            text: {"relative", "absolute", "name", "missing"}, dir: Dirs \cup {"none"}]

LEMMA PinnedLocated ==
    ASSUME NEW i \in Items, NEW dir \in Dirs
    PROVE  i \in Located /\ Pinned(i, dir) \in Located
  BY DEF Items, Located, Pinned

LEMMA ResolvedLocated ==
    ASSUME NEW items, items \subseteq Located, NEW dir \in Dirs
    PROVE  Resolved(items, dir) \subseteq Located
  BY DEF Resolved, Located

LEMMA BuilderLocated ==
    ASSUME IInv
    PROVE  request.items \subseteq Items /\ builder.items \subseteq Located
  <1>1. request.items \subseteq Items
    BY RequestAssumption DEF IInv
  <1>2. CASE builder.kind = "local"
    BY <1>1, <1>2, PinnedLocated DEF IInv, TypeOK, BuilderInv
  <1>3. CASE builder.kind = "cloud"
    BY <1>1, <1>3 DEF IInv, BuilderInv, Items, Located
  <1>4. CASE builder.kind = "none"
    BY <1>1, <1>4 DEF IInv, BuilderInv
  <1>5. QED
    BY <1>1, <1>2, <1>3, <1>4 DEF IInv, TypeOK

\* The core refuses late only what Ruby has refused before.
LEMMA NothingLate ==
    ASSUME IInv, pc = "built"
    PROVE  ~CoreRefusesLate
  <1>1. ~Contradicts(request.items)
    BY DEF IInv, ReachedInv, RubyRefuses
  <1>2. Opts(builder.items) = Opts(request.items)
    <2>1. request.items \subseteq Items
      BY BuilderLocated
    <2>2. CASE builder.kind = "local"
      BY <2>1, <2>2, OptsPinned DEF IInv, BuilderInv
    <2>3. CASE builder.kind = "cloud"
      BY <2>3 DEF IInv, BuilderInv
    <2>4. QED
      BY <2>2, <2>3 DEF IInv, TypeOK, BuilderInv
  <1>3. QED
    BY <1>1, <1>2 DEF CoreRefusesLate, Contradicts

--------------------------------------------------------------------------------
(* The steps, one at a time.                                               *)

\* Before the dispatch, what is stored and what the builder is for differ, or neither is.
LEMMA BeforeDispatch ==
    ASSUME stored = Nothing, builder.kind \in {"none", "local", "cloud"}
    PROVE  PathsAnchored
  BY DEF PathsAnchored, Nothing

LEMMA BuildCreateOptsInv ==
    ASSUME IInv, BuildCreateOpts
    PROVE  IInv'
  <1>1. UNCHANGED <<request, backend, cwd, provisioned, builder, anchor, name, stored, mounted>>
    BY DEF BuildCreateOpts
  <1>2. pc = "called" /\ pc' = IF RubyRefuses THEN "refused" ELSE "valid"
    BY DEF BuildCreateOpts
  <1>3. TypeOK'
    BY <1>1, <1>2 DEF IInv, TypeOK
  <1>4. ReachedInv'
    BY <1>1, <1>2 DEF IInv, ReachedInv, RubyRefuses
  <1>5. EffectInv' /\ BuilderInv'
    BY <1>1, <1>2 DEF IInv, EffectInv, BuilderInv
  <1>6. PathsAnchored'
    BY <1>1 DEF IInv, PathsAnchored
  <1>7. QED
    BY <1>1, <1>3, <1>4, <1>5, <1>6 DEF IInv

LEMMA EnsureRuntimeInv ==
    ASSUME IInv, EnsureRuntime
    PROVE  IInv'
  <1>1. UNCHANGED <<request, backend, cwd, builder, anchor, name, stored, mounted>>
    BY DEF EnsureRuntime
  <1>2. pc = "valid" /\ pc' = "ready" /\ provisioned' \in BOOLEAN
    BY Zenon DEF EnsureRuntime
  <1>3. TypeOK'
    BY <1>1, <1>2 DEF IInv, TypeOK
  <1>4. ReachedInv'
    BY <1>1, <1>2 DEF IInv, ReachedInv, RubyRefuses
  <1>5. EffectInv' /\ BuilderInv'
    BY <1>1, <1>2 DEF IInv, EffectInv, BuilderInv
  <1>6. PathsAnchored'
    BY <1>1 DEF IInv, PathsAnchored
  <1>7. QED
    BY <1>1, <1>3, <1>4, <1>5, <1>6 DEF IInv

LEMMA BuildBuilderInv ==
    ASSUME IInv, BuildBuilder
    PROVE  IInv'
  <1>1. /\ pc = "ready" /\ anchor' = cwd /\ builder = Nothing /\ stored = Nothing /\ mounted = {}
        /\ UNCHANGED <<request, backend, cwd, provisioned, name, stored, mounted>>
    BY DEF BuildBuilder, IInv, BuilderInv, EffectInv
  <1>2. request.items \subseteq Items /\ cwd \in Dirs /\ backend \in {"local", "cloud"}
    BY BuilderLocated DEF IInv, TypeOK
  <1>3. \/ BuilderRefuses /\ pc' = "refused" /\ builder' = builder
        \/ /\ ~BuilderRefuses /\ pc' = "built"
           /\ builder' = [kind |-> backend, items |-> {Parse(i) : i \in request.items},
                          policy |-> Policy(request.network)]
    BY DEF BuildBuilder
  <1>4. /\ pc' = "refused" => builder' = Nothing
        /\ pc' = "built" => /\ ~BuilderRefuses /\ builder'.kind = backend
                            /\ builder'.policy = Policy(request.network)
                            /\ builder'.items = {Parse(i) : i \in request.items}
        /\ pc' \in {"refused", "built"}
    BY <1>1, <1>3
  <1>5. /\ backend = "local" =>
             {Parse(i) : i \in request.items} = {Pinned(i, cwd) : i \in request.items}
        /\ backend = "cloud" => {Parse(i) : i \in request.items} = request.items
    BY <1>2, ParsesTo
  <1>6. builder'.items \subseteq Located /\ builder'.kind \in {"none", "local", "cloud"}
    <2>1. \A i \in request.items : i \in Located /\ Pinned(i, cwd) \in Located
      BY <1>2, PinnedLocated
    <2>2. QED
      BY <1>2, <1>4, <1>5, <2>1 DEF Nothing
  <1>7. TypeOK'
    BY <1>1, <1>2, <1>4, <1>6 DEF IInv, TypeOK, Nothing, Located
  <1>8. ReachedInv'
    BY <1>1, <1>4 DEF IInv, ReachedInv, RubyRefuses, BuilderRefuses
  <1>9. EffectInv'
    BY <1>1, <1>4 DEF IInv, EffectInv
  <1>10. BuilderInv'
    <2>1. CASE pc' = "refused"
      BY <1>4, <2>1 DEF BuilderInv, Nothing
    <2>2. CASE pc' = "built"
      <3>1. /\ builder'.kind = backend /\ anchor' = cwd /\ request' = request
            /\ builder'.policy = Policy(request.network)
        BY <1>1, <1>4, <2>2
      <3>2. /\ backend = "local" => builder'.items = {Pinned(i, cwd) : i \in request.items}
            /\ backend = "cloud" => builder'.items = request.items
        BY <1>4, <1>5, <2>2
      <3>3. QED
        BY <1>2, <2>2, <3>1, <3>2 DEF BuilderInv
    <2>3. QED
      BY <1>4, <2>1, <2>2
  <1>11. PathsAnchored'
    BY <1>1, <1>6, BeforeDispatch DEF PathsAnchored, Nothing
  <1>12. QED
    BY <1>1, <1>7, <1>8, <1>9, <1>10, <1>11 DEF IInv

\* What is stored, and resolved wherever a local sandbox boots, is what was meant.
LEMMA AnchoredWhenStored ==
    ASSUME IInv, builder.kind = "local", NEW dir
    PROVE  /\ Resolved(builder.items, dir) = Resolved(request.items, anchor)
           /\ {i \in request.items : i.opt \notin PathOpts} \subseteq builder.items
  <1>1. request.items \subseteq Items
    BY BuilderLocated
  <1>2. builder.items = {Pinned(i, anchor) : i \in request.items}
    BY DEF IInv, BuilderInv
  <1>3. QED
    BY <1>1, <1>2, ResolvedPinned, PinnedItem

LEMMA DispatchInv ==
    ASSUME IInv, Dispatch
    PROVE  IInv'
  <1>1. /\ pc = "built" /\ UNCHANGED <<request, backend, cwd, provisioned, builder, anchor>>
        /\ stored = Nothing /\ mounted = {} /\ name \in {"free", "held"}
    BY DEF Dispatch, IInv, EffectInv
  <1>2. CASE pc' = "refused" /\ UNCHANGED <<name, stored, mounted>>
    <2>1. TypeOK' /\ EffectInv' /\ BuilderInv'
      BY <1>1, <1>2 DEF IInv, TypeOK, EffectInv, BuilderInv, Nothing
    <2>2. ReachedInv'
      BY <1>1, <1>2 DEF IInv, ReachedInv, RubyRefuses
    <2>3. PathsAnchored'
      BY <1>1, <1>2 DEF IInv, PathsAnchored
    <2>4. QED
      BY <1>1, <2>1, <2>2, <2>3 DEF IInv
  <1>3. CASE /\ pc' = "created" /\ name' = "ours" /\ stored' = [builder EXCEPT !.kind = backend]
             /\ mounted' = IF backend = "local" THEN Resolved(builder.items, cwd) ELSE {}
    <2>1. stored'.kind = backend /\ stored'.items = builder.items /\ backend \in {"local", "cloud"}
      BY <1>3 DEF IInv, TypeOK
    <2>2. builder.items \subseteq Located /\ mounted' \subseteq Located
      BY <1>3, BuilderLocated, ResolvedLocated DEF IInv, TypeOK
    <2>3. TypeOK'
      BY <1>1, <1>3, <2>1, <2>2 DEF IInv, TypeOK, Located
    <2>4. EffectInv' /\ BuilderInv'
      BY <1>1, <1>3, <2>1 DEF IInv, EffectInv, BuilderInv
    <2>5. ReachedInv'
      BY <1>1, <1>3 DEF IInv, ReachedInv, RubyRefuses, BuilderRefuses
    <2>6. PathsAnchored'
      <3>1. CASE backend = "local" /\ builder.kind = "local"
        BY <1>1, <1>3, <2>1, <3>1, AnchoredWhenStored DEF PathsAnchored
      <3>2. CASE backend = "cloud" /\ builder.kind = "cloud"
        BY <1>1, <2>1, <3>2 DEF PathsAnchored, IInv, BuilderInv
      <3>3. CASE backend # builder.kind
        BY <1>1, <2>1, <3>3 DEF PathsAnchored
      <3>4. QED
        BY <2>1, <3>1, <3>2, <3>3
    <2>7. QED
      BY <1>1, <2>3, <2>4, <2>5, <2>6 DEF IInv
  <1>4. QED
    BY <1>1, <1>2, <1>3, NothingLate DEF Dispatch

LEMMA StartInv ==
    ASSUME IInv, Start
    PROVE  IInv'
  <1>1. /\ pc = "created" /\ stored.kind = "local" /\ stored.items = builder.items
        /\ mounted' = Resolved(builder.items, cwd)
        /\ UNCHANGED <<request, pc, backend, cwd, provisioned, builder, anchor, name, stored>>
    BY DEF Start, IInv, EffectInv
  <1>2. mounted' \subseteq Located
    BY <1>1, BuilderLocated, ResolvedLocated DEF IInv, TypeOK
  <1>3. TypeOK'
    BY <1>1, <1>2 DEF IInv, TypeOK, Located
  <1>4. ReachedInv' /\ EffectInv' /\ BuilderInv'
    BY <1>1 DEF IInv, ReachedInv, EffectInv, BuilderInv, RubyRefuses, BuilderRefuses
  <1>5. PathsAnchored'
    <2>1. CASE builder.kind = "local"
      BY <1>1, <2>1, AnchoredWhenStored DEF PathsAnchored
    <2>2. CASE builder.kind # "local"
      BY <1>1, <2>2 DEF PathsAnchored
    <2>3. QED
      BY <2>1, <2>2
  <1>6. QED
    BY <1>1, <1>3, <1>4, <1>5 DEF IInv

\* Other threads change only where, and on what, the process acts next.
LEMMA ElsewhereInv ==
    ASSUME IInv, cwd' \in Dirs, backend' \in {"local", "cloud"},
           UNCHANGED <<request, pc, provisioned, builder, anchor, name, stored, mounted>>
    PROVE  IInv'
  <1>1. TypeOK'
    BY DEF IInv, TypeOK
  <1>2. ReachedInv' /\ EffectInv' /\ BuilderInv'
    BY DEF IInv, ReachedInv, EffectInv, BuilderInv, RubyRefuses, BuilderRefuses
  <1>3. PathsAnchored'
    BY DEF IInv, PathsAnchored
  <1>4. QED
    BY <1>1, <1>2, <1>3 DEF IInv

LEMMA InitInv ==
    ASSUME Init
    PROVE  IInv
  <1>1. TypeOK /\ request \in Requests
    BY DEF Init, TypeOK, Nothing
  <1>2. ReachedInv /\ EffectInv /\ BuilderInv
    BY DEF Init, ReachedInv, EffectInv, BuilderInv, Nothing
  <1>3. PathsAnchored
    BY BeforeDispatch DEF Init, Nothing
  <1>4. QED
    BY <1>1, <1>2, <1>3 DEF IInv

LEMMA NextInv ==
    ASSUME IInv, [Next]_vars
    PROVE  IInv'
  <1>1. CASE ChangeDirectory \/ SwitchBackend \/ UNCHANGED vars
    BY <1>1, ElsewhereInv DEF ChangeDirectory, SwitchBackend, vars, IInv, TypeOK
  <1>2. QED
    BY <1>1, BuildCreateOptsInv, EnsureRuntimeInv, BuildBuilderInv, DispatchInv, StartInv
       DEF Next

--------------------------------------------------------------------------------
(* The theorems.                                                           *)

\* The invariant holds in every state.
THEOREM Invariant == Spec => []IInv
  <1>1. Init => IInv
    BY InitInv
  <1>2. IInv /\ [Next]_vars => IInv'
    BY NextInv
  <1>3. QED
    BY <1>1, <1>2, PTL DEF Spec

\* Type correctness: what is parsed, stored and mounted is anchored in a working
\* directory or in none.
THEOREM TypeCorrect == Spec => []TypeOK
  <1>1. IInv => TypeOK
    BY DEF IInv
  <1>2. QED
    BY <1>1, Invariant, PTL

\* Host paths stay where the create call meant them (HostPaths).
THEOREM PathsAnchoredSound == Spec => []PathsAnchored
  <1>1. IInv => PathsAnchored
    BY DEF IInv
  <1>2. QED
    BY <1>1, Invariant, PTL

\* The policy a builder holds decides about every flow as its author meant, whichever
\* form the option has and however many rules, profiles and denials (NetworkPolicy.coerce,
\* apply_network_opts, parse_network_policy).
THEOREM PolicyAsMeantSound == Spec => []PolicyAsMeant
  <1>1. ASSUME IInv
        PROVE  PolicyAsMeant
    <2>1. SUFFICES ASSUME pc = "built", NEW flow \in Flows, NEW action \in Actions
                   PROVE  Decides(builder.policy, flow, action) <=> action = Meant(request.network, flow)
      BY DEF PolicyAsMeant
    <2>2. ~NetworkRejected(request.network) /\ builder.policy = Policy(request.network)
      BY <1>1, <2>1 DEF IInv, ReachedInv, BuilderInv, RubyRefuses
    <2>3. WrittenHash(AsHash(request.network))
      BY <1>1, NetworkAssumption DEF IInv
    <2>4. QED
      BY <2>2, <2>3, PolicyMeant
  <1>2. QED
    BY <1>1, Invariant, PTL

\* A refused create has left nothing behind (build_create_opts, build_builder).
THEOREM RefusedCleanlySound == Spec => []RefusedCleanly
  <1>1. ASSUME IInv
        PROVE  RefusedCleanly
    <2>1. pc = "refused" =>
            stored = Nothing /\ name \in {"free", "held"} /\ (RubyRefuses => ~provisioned)
      BY <1>1 DEF IInv, EffectInv, ReachedInv
    <2>2. ASSUME pc \in {"built", "created"}
          PROVE  /\ request.timeout \in {"unset", "fits"}
                 /\ \A i \in request.items : i.text = "missing" => i.opt = "tmpfs"
      <3>1. ~BuilderRefuses /\ request \in Requests
        BY <1>1, <2>2 DEF IInv, ReachedInv
      <3>2. request.timeout \in Timeouts
        BY <3>1, RequestAssumption
      <3>3. QED
        BY <3>1, <3>2 DEF BuilderRefuses, Unrepresentable, SourceMissing, Timeouts
    <2>3. QED
      BY <2>1, <2>2 DEF RefusedCleanly
  <1>2. QED
    BY <1>1, Invariant, PTL

--------------------------------------------------------------------------------
(* The pull session.                                                       *)

\* Who is in a call shares the session, and what has been returned is remembered.
AskersInv ==
    /\ \A t \in Threads : place[t] # "out" => t \in users
    /\ returned => memo

\* A thread alone: what it remembers is one answer.  With the sandbox remembered no
\* error is, and nothing beyond the look at @sandbox is reached; with an error, no
\* call gets past the look at @failure.  The handle is gone without either only while
\* the call that took it is under way, or when an interrupt consumed its result.
AloneInv ==
    \A u \in Threads : users = {u} =>
        /\ memo => place[u] \in {"out", "begun"}
        /\ memo \/ place[u] # "out" => failure = "none"
        /\ failure = "taken" \/ place[u] = "late" => spoilt
        /\ join \/ memo \/ spoilt \/ failure # "none" \/ Holder(u)

SessionInv == SessionTypeOK /\ Reachable /\ AskersInv /\ AloneInv /\ SameAnswer

\* A session that one thread uses has that thread for its users.
LEMMA OneUser ==
    ASSUME SessionTypeOK, Cardinality(users) = 1
    PROVE  \E u \in Threads : users = {u}
<1>1. IsFiniteSet(users)
  BY SessionAssumption, FS_Subset DEF SessionTypeOK
<1>2. PICK u : users = {u}
  BY <1>1, FS_Singleton
<1> QED
  BY <1>2 DEF SessionTypeOK

LEMMA SessionInitInv == SessionInit => SessionInv
<1> SUFFICES ASSUME SessionInit PROVE SessionInv
  OBVIOUS
<1>1. SessionTypeOK
  <2>1. users \subseteq Threads
    BY DEF SessionInit
  <2>2. 0 \in 0..MaxAsked /\ 0 \in 0..MaxInterrupts
    BY SessionAssumption
  <2> QED
    BY <2>1, <2>2 DEF SessionInit, SessionTypeOK, Errors
<1>2. Reachable /\ AskersInv /\ AloneInv /\ SameAnswer
  BY DEF SessionInit, Reachable, AskersInv, AloneInv, SameAnswer, Errors
<1> QED
  BY <1>1, <1>2 DEF SessionInv

\* No step takes the state out of its type.
LEMMA SessionTypeNext == SessionTypeOK /\ [SessionNext]_sessionVars => SessionTypeOK'
<1> SUFFICES ASSUME SessionTypeOK, [SessionNext]_sessionVars PROVE SessionTypeOK'
  OBVIOUS
<1> USE SessionAssumption DEF SessionTypeOK, Errors
<1>1. CASE TaskEnds
  BY <1>1 DEF TaskEnds
<1>2. ASSUME NEW t \in Threads, Ask(t) PROVE SessionTypeOK'
  BY <1>2 DEF Ask, Answer, Goto
<1>3. ASSUME NEW t \in Threads, LookUp(t) PROVE SessionTypeOK'
  BY <1>3 DEF LookUp, Answer, Goto
<1>4. ASSUME NEW t \in Threads, Enter(t) PROVE SessionTypeOK'
  BY <1>4 DEF Enter, Taken, Goto
<1>5. ASSUME NEW t \in Threads, Fail(t) PROVE SessionTypeOK'
  BY <1>5 DEF Fail, Remembered, Answer, Goto
<1>6. ASSUME NEW t \in Threads, Deliver(t) PROVE SessionTypeOK'
  BY <1>6 DEF Deliver, Goto
<1>7. ASSUME NEW t \in Threads, Assign(t) PROVE SessionTypeOK'
  BY <1>7 DEF Assign, Answer, Goto
<1>8. ASSUME NEW t \in Threads, NotEntered(t) PROVE SessionTypeOK'
  BY <1>8 DEF NotEntered, Unentered, Interrupt, Interrupted, Remembered, Answer, Goto
<1>9. ASSUME NEW t \in Threads, Spoil(t) PROVE SessionTypeOK'
  <2>1. up' \in BOOLEAN
    BY <1>9 DEF Spoil
  <2> QED
    BY <1>9, <2>1 DEF Spoil, Interrupt, Interrupted, Answer, Goto
<1>10. CASE UNCHANGED sessionVars
  BY <1>10 DEF sessionVars
<1> QED
  BY <1>1, <1>2, <1>3, <1>4, <1>5, <1>6, <1>7, <1>8, <1>9, <1>10 DEF SessionNext, Proceed

\* What a step leaves of the rest, by its kind.
LEMMA SessionStep ==
    ASSUME SessionInv, [SessionNext]_sessionVars
    PROVE  Reachable' /\ AskersInv' /\ AloneInv' /\ SameAnswer'
<1> DEFINE Goal == Reachable' /\ AskersInv' /\ AloneInv' /\ SameAnswer'
<1> SUFFICES Goal
  OBVIOUS
<1>1. users' = users
  BY DEF SessionNext, Proceed, TaskEnds, Ask, LookUp, Enter, Fail, Deliver, Assign,
     NotEntered, Spoil, sessionVars
\* Of one user only.
<1>2. ASSUME \A u \in Threads : users = {u} =>
                 (returned' => answer' \notin Errors) /\ (answer' = "taken" => spoilt')
      PROVE  SameAnswer'
  BY <1>1, <1>2, OneUser DEF SameAnswer, SessionInv
<1> USE DEF SessionInv, SessionTypeOK, Reachable, AskersInv, AloneInv, Holder, Errors
<1>3. CASE TaskEnds
  BY <1>3, <1>1, <1>2 DEF TaskEnds
<1>4. ASSUME NEW t \in Threads, Ask(t) PROVE Goal
  BY <1>4, <1>1, <1>2 DEF Ask, Answer, Goto
<1>5. ASSUME NEW t \in Threads, LookUp(t) PROVE Goal
  BY <1>5, <1>1, <1>2 DEF LookUp, Memoized, Answer, Goto
<1>6. ASSUME NEW t \in Threads, Enter(t) PROVE Goal
  BY <1>6, <1>1, <1>2 DEF Enter, Taken, Goto
<1>7. ASSUME NEW t \in Threads, Fail(t) PROVE Goal
  BY <1>7, <1>1, <1>2 DEF Fail, Remembered, Answer, Goto
<1>8. ASSUME NEW t \in Threads, Deliver(t) PROVE Goal
  BY <1>8, <1>1, <1>2 DEF Deliver, Goto
<1>9. ASSUME NEW t \in Threads, Assign(t) PROVE Goal
  BY <1>9, <1>1, <1>2 DEF Assign, Answer, Goto
<1>10. ASSUME NEW t \in Threads, NotEntered(t) PROVE Goal
  BY <1>10, <1>1, <1>2
     DEF NotEntered, Unentered, Interrupt, Interrupted, Remembered, Answer, Goto
<1>11. ASSUME NEW t \in Threads, Spoil(t) PROVE Goal
  BY <1>11, <1>1, <1>2 DEF Spoil, Interrupt, Interrupted, Answer, Goto
<1>12. CASE UNCHANGED sessionVars
  BY <1>12 DEF sessionVars, SameAnswer
<1> QED
  BY <1>3, <1>4, <1>5, <1>6, <1>7, <1>8, <1>9, <1>10, <1>11, <1>12 DEF SessionNext, Proceed

\* The inductive invariant of a pull session (PullSession#sandbox over PullSession::result).
THEOREM SessionInvariant == SessionSpec => []SessionInv
<1>1. SessionInv /\ [SessionNext]_sessionVars => SessionInv'
  BY SessionTypeNext, SessionStep DEF SessionInv
<1> QED
  BY SessionInitInv, <1>1, PTL DEF SessionSpec

\* The state of a session keeps its type, for any number of threads, calls and
\* interrupts.
THEOREM SessionTypeCorrect == SessionSpec => []SessionTypeOK
<1>1. SessionInv => SessionTypeOK
  BY DEF SessionInv
<1> QED
  BY SessionInvariant, <1>1, PTL

\* The sandbox that the task boots always has a way to a caller, or an interrupt has
\* consumed it (PullSession::result takes the handle and awaits it in one call).
THEOREM ReachableSound == SessionSpec => []Reachable
<1>1. SessionInv => Reachable
  BY DEF SessionInv
<1> QED
  BY SessionInvariant, <1>1, PTL

\* One thread gets the same answer from every call (@sandbox ||=, @failure ||=).
THEOREM SameAnswerSound == SessionSpec => []SameAnswer
<1>1. SessionInv => SameAnswer
  BY DEF SessionInv
<1> QED
  BY SessionInvariant, <1>1, PTL
--------------------------------------------------------------------------------
(* The lifecycle: its plans.                                               *)

\* The steps that only a call without a sandbox takes, and those that boot one.
Naming == {"claim", "seize", "find", "find_and_remove", "start"}
Booting == {"claim", "converge", "start", "boot"}
\* What may come after a boot.
Late == {"ready", "yield", "leave_unless_owned", "term", "fall"}
Words ==
    Naming \cup Booting \cup Late \cup
        {"kill", "down", "drain", "detach", "status", "remove"}
Gives == GivesSandbox \cup GivesHandle

\* What every plan, and every rest of one, is like: it asks the catalog by name only
\* at its beginning, or once it has removed what had the name; it boots once, and
\* removes nothing afterwards; what ends with a removal gives nobody an object; and
\* the block of connect_or_create stops only behind the question who owns the run.
InPlace(op, s, k) ==
    /\ s[k] \in (Naming \cup {"converge"}) \ {"claim"} => k = 1
    /\ s[k] = "claim" => k = 1 \/ s[k - 1] = "remove"
    /\ s[k] = "seize" => op = "create_replace"
    /\ s[k] = "converge" => k < Len(s) /\ s[k + 1] = "ready"
    /\ s[k] = "remove" => IF k = Len(s) THEN op \notin Gives ELSE s[k + 1] = "claim"
    /\ s[k] = "find_and_remove" => k = Len(s) /\ op \notin Gives
    /\ s[k] \in Booting => \A j \in (k + 1)..Len(s) : s[j] \in Late
    /\ op = "connect_or_create_block" /\ s[k] \in {"term", "kill", "fall"} =>
          k = 1 \/ s[k - 1] \in {"leave_unless_owned", "term"}
WellFormed(op, s) == s \in Seq(Words) /\ \A k \in 1..Len(s) : InPlace(op, s, k)

--------------------------------------------------------------------------------
(* The invariant.                                                          *)

Ops == (DOMAIN ByName) \cup (DOMAIN OnSandbox) \cup (DOMAIN OnHandle) \cup {"none"}
Calls == [op : Ops, id : 0..MaxId, todo : Seq(Words), from : 0..MaxRun, started : 0..MaxRun,
          detach : BOOLEAN]
Objects == [id : 0..MaxId, run : 0..MaxRun, owns : BOOLEAN]

\* The sandboxes: one at most has the name.
WorldInv ==
    /\ phase \in [Ids -> {"unborn", "starting", "running", "draining", "removed"} \cup Down]
    /\ run \in [Ids -> 0..MaxRun]
    /\ signals \in [Ids -> SUBSET {"term", "kill"}]
    /\ \A i, j \in Holders : i = j

Begins(q, steps) == q.todo # <<>> /\ Head(q.todo) \in steps
OwnsRun(q) == q.started # 0 /\ ~q.detach

\* A call that has no sandbox asks the catalog for one next, or ends without an object;
\* one that has a sandbox never asks.  After its boot it is done but for the block, and
\* the block of connect_or_create stops only what the call owns.
Proper(q) ==
    /\ q \in Calls
    /\ WellFormed(q.op, q.todo)
    /\ q.id = 0 => \/ Begins(q, Naming \cup {"converge"})
                   \/ q.todo = <<>> /\ q.op \notin Gives
    /\ Begins(q, Naming) => q.id = 0
    /\ q.started # 0 => q.id \in Ids /\ \A k \in 1..Len(q.todo) : q.todo[k] \in Late
    /\ q.op = "connect_or_create_block" /\ Begins(q, {"term", "kill", "fall"}) => OwnsRun(q)

CallInv == call \in [Callers -> Calls] /\ \A c \in Callers : Proper(call[c])

ObjectInv ==
    /\ object \in [Callers -> Objects]
    /\ \A c \in Callers : object[c] = NoObject \/ object[c].id \in Ids

\* The runs there have been, and which one an object or a call is about.
Born == {p \in Ids \X (1..MaxRun) : p[2] <= run[p[1]]}
Kept(c) == <<object[c].id, object[c].run>>
Started(c) == <<call[c].id, call[c].started>>

\* A run has one owner: an object that a caller has, one that nobody refers to any
\* more, or the call that booted it.  Who owns a run was not told to let it live.
OwnerInv ==
    /\ garbage \subseteq Born /\ detached \subseteq Born
    /\ garbage \cap detached = {}
    /\ \A c \in Callers :
          /\ object[c].owns => Kept(c) \in Born \ (garbage \cup detached)
          /\ call[c].started # 0 => Started(c) \in Born \ garbage
          /\ Owns(c) => Started(c) \notin detached
    /\ \A c, d \in Callers :
          /\ object[c].owns /\ call[d].started # 0 => Kept(c) # Started(d)
          /\ c # d /\ object[c].owns /\ object[d].owns => Kept(c) # Kept(d)
          /\ c # d /\ call[c].started # 0 /\ call[d].started # 0 => Started(c) # Started(d)

LifecycleInv == WorldInv /\ CallInv /\ ObjectInv /\ OwnerInv

--------------------------------------------------------------------------------
(* Plans.                                                                  *)

\* A sequence is what its elements are.
LEMMA SameSteps ==
    ASSUME NEW S, NEW s \in Seq(S), NEW t \in Seq(S), Len(s) = Len(t),
           \A k \in 1..Len(s) : s[k] = t[k]
    PROVE  s = t
OBVIOUS

\* Two plans one after the other.
LEMMA Joins ==
    /\ \A a, b, c : <<a>> \o <<b, c>> = <<a, b, c>>
    /\ \A a, b, c : <<a, b>> \o <<c>> = <<a, b, c>>
    /\ \A a, b, c, d : <<a, b>> \o <<c, d>> = <<a, b, c, d>>
    /\ \A a, b, c, d, e : <<a, b, c>> \o <<d, e>> = <<a, b, c, d, e>>
<1>1. \A a, b, c : <<a>> \o <<b, c>> = <<a, b, c>>
  <2> TAKE a, b, c
  <2> DEFINE joined == <<a>> \o <<b, c>>
             written == <<a, b, c>>
             S == {a, b, c}
  <2>1. /\ joined \in Seq(S) /\ written \in Seq(S)
        /\ Len(joined) = 3 /\ Len(written) = 3
    OBVIOUS
  <2>2. \A k \in 1..3 : joined[k] = written[k]
    OBVIOUS
  <2> HIDE DEF joined, written, S
  <2>3. joined = written
    BY <2>1, <2>2, SameSteps
  <2> QED
    BY <2>3 DEF joined, written
<1>2. \A a, b, c : <<a, b>> \o <<c>> = <<a, b, c>>
  <2> TAKE a, b, c
  <2> DEFINE joined == <<a, b>> \o <<c>>
             written == <<a, b, c>>
             S == {a, b, c}
  <2>1. /\ joined \in Seq(S) /\ written \in Seq(S)
        /\ Len(joined) = 3 /\ Len(written) = 3
    OBVIOUS
  <2>2. \A k \in 1..3 : joined[k] = written[k]
    OBVIOUS
  <2> HIDE DEF joined, written, S
  <2>3. joined = written
    BY <2>1, <2>2, SameSteps
  <2> QED
    BY <2>3 DEF joined, written
<1>3. \A a, b, c, d : <<a, b>> \o <<c, d>> = <<a, b, c, d>>
  <2> TAKE a, b, c, d
  <2> DEFINE joined == <<a, b>> \o <<c, d>>
             written == <<a, b, c, d>>
             S == {a, b, c, d}
  <2>1. /\ joined \in Seq(S) /\ written \in Seq(S)
        /\ Len(joined) = 4 /\ Len(written) = 4
    OBVIOUS
  <2>2. \A k \in 1..4 : joined[k] = written[k]
    OBVIOUS
  <2> HIDE DEF joined, written, S
  <2>3. joined = written
    BY <2>1, <2>2, SameSteps
  <2> QED
    BY <2>3 DEF joined, written
<1>4. \A a, b, c, d, e : <<a, b, c>> \o <<d, e>> = <<a, b, c, d, e>>
  <2> TAKE a, b, c, d, e
  <2> DEFINE joined == <<a, b, c>> \o <<d, e>>
             written == <<a, b, c, d, e>>
             S == {a, b, c, d, e}
  <2>1. /\ joined \in Seq(S) /\ written \in Seq(S)
        /\ Len(joined) = 5 /\ Len(written) = 5
    OBVIOUS
  <2>2. \A k \in 1..5 : joined[k] = written[k]
    OBVIOUS
  <2> HIDE DEF joined, written, S
  <2>3. joined = written
    BY <2>1, <2>2, SameSteps
  <2> QED
    BY <2>3 DEF joined, written
<1> QED
  BY <1>1, <1>2, <1>3, <1>4

LEMMA JoinsThree ==
    ASSUME NEW a, NEW b, NEW c, NEW d, NEW e, NEW f
    PROVE  <<a, b, c>> \o <<d, e, f>> = <<a, b, c, d, e, f>>
<1> DEFINE joined == <<a, b, c>> \o <<d, e, f>>
           written == <<a, b, c, d, e, f>>
           S == {a, b, c, d, e, f}
<1>1. /\ joined \in Seq(S) /\ written \in Seq(S)
      /\ Len(joined) = 6 /\ Len(written) = 6
  OBVIOUS
<1>2. \A k \in 1..6 : joined[k] = written[k]
  OBVIOUS
<1> HIDE DEF joined, written, S
<1>3. joined = written
  BY <1>1, <1>2, SameSteps
<1> QED
  BY <1>3 DEF joined, written

\* The plans, written out.
LEMMA Written ==
    /\ ByName["create"] = <<"claim", "ready">>
    /\ ByName["create_block"] = <<"claim", "ready", "yield", "term", "fall">>
    /\ ByName["create_replace"] = <<"seize", "term", "fall", "remove", "claim", "ready">>
    /\ ByName["connect_or_create"] = <<"converge", "ready">>
    /\ ByName["connect_or_create_block"] =
          <<"converge", "ready", "yield", "leave_unless_owned", "term", "fall">>
    /\ ByName["start"] = <<"start", "ready">>
    /\ ByName["get"] = <<"find">>
    /\ ByName["Sandbox.remove"] = <<"find_and_remove">>
    /\ Common["stop"] = <<"term", "fall">>
    /\ Common["kill"] = <<"kill", "fall">>
    /\ Common["wait"] = <<"down">>
    /\ Common["restart"] = <<"term", "fall", "boot", "ready">>
    /\ Common["restart_by_force"] = <<"kill", "fall", "boot", "ready">>
    /\ Common["destroy"] = <<"term", "fall", "remove">>
    /\ Common["destroy_by_force"] = <<"kill", "fall", "remove">>
    /\ Common["wait_for_status"] = <<"status">>
<1>1. Teardown = <<"leave_unless_owned", "term", "fall">>
  BY Joins DEF Teardown, Stop
<1>2. <<"claim", "ready", "yield">> \o Stop = <<"claim", "ready", "yield", "term", "fall">>
  BY Joins DEF Stop
<1>3. <<"seize">> \o Stop \o <<"remove", "claim", "ready">> =
          <<"seize", "term", "fall", "remove", "claim", "ready">>
  <2>1. <<"seize">> \o Stop = <<"seize", "term", "fall">>
    BY Joins DEF Stop
  <2>2. <<"seize", "term", "fall">> \o <<"remove", "claim", "ready">> =
          <<"seize", "term", "fall", "remove", "claim", "ready">>
    BY JoinsThree
  <2> QED
    BY <2>1, <2>2
<1>4. <<"converge", "ready", "yield">> \o Teardown =
          <<"converge", "ready", "yield", "leave_unless_owned", "term", "fall">>
  <2>1. \A question : <<"converge", "ready", "yield">> \o <<question, "term", "fall">> =
                        <<"converge", "ready", "yield", question, "term", "fall">>
    BY JoinsThree
  <2> QED
    BY <1>1, <2>1
<1>5. /\ Stop \o <<"boot", "ready">> = <<"term", "fall", "boot", "ready">>
      /\ Kill \o <<"boot", "ready">> = <<"kill", "fall", "boot", "ready">>
      /\ Stop \o <<"remove">> = <<"term", "fall", "remove">>
      /\ Kill \o <<"remove">> = <<"kill", "fall", "remove">>
  BY Joins DEF Stop, Kill
<1>6. /\ ByName["create"] = <<"claim", "ready">>
      /\ ByName["create_block"] = <<"claim", "ready", "yield">> \o Stop
      /\ ByName["create_replace"] = <<"seize">> \o Stop \o <<"remove", "claim", "ready">>
      /\ ByName["connect_or_create"] = <<"converge", "ready">>
      /\ ByName["connect_or_create_block"] = <<"converge", "ready", "yield">> \o Teardown
      /\ ByName["start"] = <<"start", "ready">>
      /\ ByName["get"] = <<"find">>
      /\ ByName["Sandbox.remove"] = <<"find_and_remove">>
  BY DEF ByName
<1>7. /\ Common["stop"] = Stop
      /\ Common["kill"] = Kill
      /\ Common["wait"] = <<"down">>
      /\ Common["restart"] = Stop \o <<"boot", "ready">>
      /\ Common["restart_by_force"] = Kill \o <<"boot", "ready">>
      /\ Common["destroy"] = Stop \o <<"remove">>
      /\ Common["destroy_by_force"] = Kill \o <<"remove">>
      /\ Common["wait_for_status"] = <<"status">>
  BY DEF Common
<1>8. Stop = <<"term", "fall">> /\ Kill = <<"kill", "fall">>
  BY DEF Stop, Kill
<1> QED
  BY <1>2, <1>3, <1>4, <1>5, <1>6, <1>7, <1>8

\* Who is given an object.
LEMMA Givers ==
    /\ DOMAIN ByName = {"create", "create_block", "create_replace", "connect_or_create",
                        "connect_or_create_block", "start", "get", "Sandbox.remove"}
    /\ DOMAIN Common = {"stop", "kill", "wait", "restart", "restart_by_force", "destroy",
                        "destroy_by_force", "wait_for_status"}
    /\ Gives = {"create", "create_block", "create_replace", "connect_or_create",
                "connect_or_create_block", "start", "restart", "restart_by_force",
                "connect_or_start", "get", "wait_for_status"}
<1>1. DOMAIN ByName = {"create", "create_block", "create_replace", "connect_or_create",
                       "connect_or_create_block", "start", "get", "Sandbox.remove"}
  BY DEF ByName
<1>2. DOMAIN Common = {"stop", "kill", "wait", "restart", "restart_by_force", "destroy",
                       "destroy_by_force", "wait_for_status"}
  BY DEF Common
<1> QED
  BY <1>1, <1>2 DEF Gives, GivesSandbox, GivesHandle, TakesDetached

\* A call that starts from the name asks the catalog for it.
LEMMA NamePlans ==
    ASSUME NEW op \in DOMAIN ByName
    PROVE  /\ WellFormed(op, ByName[op])
           /\ ByName[op] # <<>> /\ Head(ByName[op]) \in Naming \cup {"converge"}
<1> USE DEF WellFormed, InPlace, Words, Naming, Booting, Late
<1>1. CASE op = "create"
  BY <1>1, Written, Givers
<1>2. CASE op = "create_block"
  BY <1>2, Written, Givers
<1>3. CASE op = "create_replace"
  BY <1>3, Written, Givers
<1>4. CASE op = "connect_or_create"
  BY <1>4, Written, Givers
<1>5. CASE op = "connect_or_create_block"
  BY <1>5, Written, Givers
<1>6. CASE op = "start"
  BY <1>6, Written, Givers
<1>7. CASE op = "get"
  BY <1>7, Written, Givers
<1>8. CASE op = "Sandbox.remove"
  BY <1>8, Written, Givers
<1> QED
  BY <1>1, <1>2, <1>3, <1>4, <1>5, <1>6, <1>7, <1>8, Givers

\* One on an object never does.
LEMMA CommonPlans ==
    ASSUME NEW op \in DOMAIN Common
    PROVE  /\ WellFormed(op, Common[op])
           /\ Common[op] # <<>> /\ Head(Common[op]) \notin Naming
<1> USE DEF WellFormed, InPlace, Words, Naming, Booting, Late
<1>1. CASE op = "stop"
  BY <1>1, Written, Givers
<1>2. CASE op = "kill"
  BY <1>2, Written, Givers
<1>3. CASE op = "wait"
  BY <1>3, Written, Givers
<1>4. CASE op = "restart"
  BY <1>4, Written, Givers
<1>5. CASE op = "restart_by_force"
  BY <1>5, Written, Givers
<1>6. CASE op = "destroy"
  BY <1>6, Written, Givers
<1>7. CASE op = "destroy_by_force"
  BY <1>7, Written, Givers
<1>8. CASE op = "wait_for_status"
  BY <1>8, Written, Givers
<1> QED
  BY <1>1, <1>2, <1>3, <1>4, <1>5, <1>6, <1>7, <1>8, Givers

LEMMA ObjectPlans ==
    ASSUME NEW plans \in {OnSandbox, OnHandle}, NEW op \in DOMAIN plans
    PROVE  /\ WellFormed(op, plans[op])
           /\ plans[op] # <<>> /\ Head(plans[op]) \notin Naming
           /\ op # "connect_or_create_block" /\ op \in Ops
<1>1. op \in Ops
  BY DEF Ops
<1>2. CASE op \in DOMAIN Common
  <2>1. plans[op] = Common[op]
    BY <1>2, Givers DEF OnSandbox, OnHandle
  <2> QED
    BY <1>1, <1>2, <2>1, CommonPlans, Givers
<1>3. CASE plans = OnSandbox /\ op \in {"drain", "detach"}
  <2>1. plans[op] = <<op>>
    BY <1>3, Givers DEF OnSandbox
  <2> QED
    BY <1>1, <1>3, <2>1 DEF WellFormed, InPlace, Words, Naming, Booting, Late
<1>4. CASE plans = OnHandle /\ op \in {"request_stop", "request_kill", "request_drain"}
  <2>1. \E step \in {"term", "kill", "drain"} : plans[op] = <<step>>
    BY <1>4 DEF OnHandle
  <2> QED
    BY <1>1, <1>4, <2>1 DEF WellFormed, InPlace, Words, Naming, Booting, Late
<1>5. CASE plans = OnHandle /\ op = "connect_or_start"
  <2>1. plans[op] = <<"converge", "ready">>
    BY <1>5 DEF OnHandle
  <2> QED
    BY <1>1, <1>5, <2>1 DEF WellFormed, InPlace, Words, Naming, Booting, Late
<1> QED
  BY <1>2, <1>3, <1>4, <1>5 DEF OnSandbox, OnHandle

\* What is left of a plan is one.
LEMMA RestWellFormed ==
    ASSUME NEW op, NEW s, WellFormed(op, s), s # <<>>
    PROVE  /\ WellFormed(op, Tail(s))
           /\ Len(Tail(s)) = Len(s) - 1
           /\ \A k \in 1..Len(Tail(s)) : Tail(s)[k] = s[k + 1]
           /\ Head(s) = s[1] /\ Len(s) \in Nat \ {0}
<1>1. s \in Seq(Words)
  BY DEF WellFormed
<1>2. /\ Tail(s) \in Seq(Words) /\ Len(Tail(s)) = Len(s) - 1
      /\ Head(s) = s[1] /\ Len(s) \in Nat \ {0}
      /\ \A k \in 1..Len(Tail(s)) : Tail(s)[k] = s[k + 1]
  BY <1>1
<1>3. ASSUME NEW k \in 1..Len(Tail(s)) PROVE InPlace(op, Tail(s), k)
  <2>1. k + 1 \in 1..Len(s) /\ InPlace(op, s, k + 1) /\ InPlace(op, s, k) /\ k \in Nat \ {0}
    BY <1>2 DEF WellFormed
  <2> DEFINE r == Tail(s)
             n == Len(s)
  <2>2. r[k] = s[k + 1] /\ Len(r) = n - 1 /\ n \in Nat /\ k <= n - 1
    BY <1>2
  <2>3. k # 1 => r[k - 1] = s[k]
    BY <1>2, <2>1
  <2>4. k # Len(r) => r[k + 1] = s[k + 2]
    <3> SUFFICES ASSUME k # Len(r) PROVE r[k + 1] = s[k + 2]
      OBVIOUS
    <3>1. k + 1 \in 1..Len(r)
      <4> HIDE DEF r, n
      <4> QED
        BY <2>1, <2>2
    <3>2. r[k + 1] = s[(k + 1) + 1]
      BY <1>2, <3>1
    <3> QED
      BY <3>2, <2>1
  <2>5. \A j \in (k + 1)..Len(r) : r[j] = s[j + 1] /\ j + 1 \in (k + 2)..n
    BY <1>2, <2>1
  <2>6. n = Len(s)
    OBVIOUS
  <2> HIDE DEF r, n
  <2>7. r[k] \notin (Naming \cup {"converge"}) \ {"claim"}
    BY <2>1, <2>2 DEF InPlace
  <2>8. r[k] = "claim" => k = 1 \/ r[k - 1] = "remove"
    BY <2>1, <2>2, <2>3 DEF InPlace
  <2>9. r[k] = "remove" => IF k = Len(r) THEN op \notin Gives ELSE r[k + 1] = "claim"
    BY <2>1, <2>2, <2>4, <2>6 DEF InPlace
  <2>10. r[k] \in Booting => \A j \in (k + 1)..Len(r) : r[j] \in Late
    BY <2>1, <2>2, <2>5, <2>6 DEF InPlace
  <2>11. op = "connect_or_create_block" /\ r[k] \in {"term", "kill", "fall"} =>
            k = 1 \/ r[k - 1] \in {"leave_unless_owned", "term"}
    BY <2>1, <2>2, <2>3 DEF InPlace
  <2>12. InPlace(op, r, k)
    BY <2>7, <2>8, <2>9, <2>10, <2>11 DEF InPlace, Naming
  <2> QED
    BY <2>12 DEF r
<1> QED
  BY <1>1, <1>2, <1>3 DEF WellFormed

--------------------------------------------------------------------------------
(* Calls.                                                                  *)

\* The elements of a plan that is not over.
LEMMA Plan ==
    ASSUME NEW q, Proper(q), q.todo # <<>>
    PROVE  /\ Len(q.todo) \in Nat \ {0} /\ Head(q.todo) = q.todo[1]
           /\ q.todo[1] \in Words /\ InPlace(q.op, q.todo, 1)
           /\ WellFormed(q.op, Tail(q.todo)) /\ Tail(q.todo) \in Seq(Words)
           /\ Tail(q.todo) # <<>> =>
                 /\ Len(q.todo) > 1 /\ Head(Tail(q.todo)) = q.todo[2] /\ InPlace(q.op, q.todo, 2)
           /\ Tail(q.todo) = <<>> => Len(q.todo) = 1
           /\ \A k \in 1..Len(Tail(q.todo)) : Tail(q.todo)[k] = q.todo[k + 1] /\ k + 1 <= Len(q.todo)
<1> DEFINE s == q.todo
<1>1. WellFormed(q.op, s) /\ s # <<>>
  BY DEF Proper
<1> HIDE DEF s
<1>2. /\ WellFormed(q.op, Tail(s)) /\ Len(Tail(s)) = Len(s) - 1
      /\ \A k \in 1..Len(Tail(s)) : Tail(s)[k] = s[k + 1]
      /\ Head(s) = s[1] /\ Len(s) \in Nat \ {0}
  BY <1>1, RestWellFormed
<1>3. s \in Seq(Words) /\ Tail(s) \in Seq(Words) /\ \A k \in 1..Len(s) : InPlace(q.op, s, k)
  BY <1>1, <1>2 DEF WellFormed
<1>4. s[1] \in Words /\ InPlace(q.op, s, 1)
  BY <1>2, <1>3
<1>5. Tail(s) # <<>> => Len(s) > 1 /\ Head(Tail(s)) = s[2] /\ InPlace(q.op, s, 2)
  <2> SUFFICES ASSUME Tail(s) # <<>> PROVE Len(s) > 1 /\ Head(Tail(s)) = s[2] /\ InPlace(q.op, s, 2)
    OBVIOUS
  <2> DEFINE rest == Tail(s)
  <2>1. Len(rest) # 0 /\ Head(rest) = rest[1]
    <3>1. rest \in Seq(Words) /\ rest # <<>>
      BY <1>3
    <3> HIDE DEF rest
    <3> QED
      BY <3>1
  <2> QED
    BY <1>2, <1>3, <2>1
<1>6. Tail(s) = <<>> => Len(s) = 1
  <2>1. Tail(s) = <<>> => Len(Tail(s)) = 0
    OBVIOUS
  <2> QED
    BY <1>2, <2>1
<1>7. \A k \in 1..Len(Tail(s)) : Tail(s)[k] = s[k + 1] /\ k + 1 <= Len(s)
  BY <1>2
<1> QED
  BY <1>2, <1>3, <1>4, <1>5, <1>6, <1>7 DEF s

LEMMA NoCallProper == Proper(NoCall)
<1>1. /\ NoCall.op = "none" /\ NoCall.id = 0 /\ NoCall.todo = <<>> /\ NoCall.started = 0
      /\ NoCall \in Calls
  <2>1. <<>> \in Seq(Words) /\ "none" \in Ops
    BY DEF Ops
  <2> QED
    BY <2>1, LifecycleAssumption DEF NoCall, Calls
<1>2. "none" \notin Gives /\ WellFormed("none", <<>>)
  BY Givers DEF WellFormed
<1> QED
  BY <1>1, <1>2 DEF Proper, Begins

\* A step that goes on: it unbinds the call by removing its sandbox only.
LEMMA GoesProper ==
    ASSUME NEW q, Proper(q), q.todo # <<>>, NEW i \in 0..MaxId, NEW from \in 0..MaxRun,
           i = 0 <=> Head(q.todo) \in {"remove", "find_and_remove"},
           q.started # 0 => i = q.id,
           Head(q.todo) = "leave_unless_owned" => OwnsRun(q)
    PROVE  Proper([q EXCEPT !.id = i, !.todo = Tail(@), !.from = from])
<1> DEFINE r == [q EXCEPT !.id = i, !.todo = Tail(@), !.from = from]
           s == q.todo
<1>1. q \in Calls
  BY DEF Proper
<1>2. /\ r \in Calls /\ r.op = q.op /\ r.id = i /\ r.todo = Tail(s) /\ r.started = q.started
      /\ r.detach = q.detach
  BY <1>1, Plan DEF Calls
<1>3. /\ Len(s) \in Nat \ {0} /\ Head(s) = s[1] /\ InPlace(q.op, s, 1)
      /\ WellFormed(q.op, Tail(s))
      /\ Tail(s) # <<>> => Len(s) > 1 /\ Head(Tail(s)) = s[2] /\ InPlace(q.op, s, 2)
      /\ Tail(s) = <<>> => Len(s) = 1
      /\ \A k \in 1..Len(Tail(s)) : Tail(s)[k] = s[k + 1] /\ k + 1 <= Len(s)
  BY Plan
<1>4. /\ q.started # 0 => q.id \in Ids /\ \A k \in 1..Len(s) : s[k] \in Late
      /\ q.op = "connect_or_create_block" /\ s # <<>> /\ Head(s) \in {"term", "kill", "fall"} =>
            OwnsRun(q)
  BY DEF Proper, Begins
<1> HIDE DEF r, s
<1>5. r.id = 0 => \/ Begins(r, Naming \cup {"converge"})
                  \/ r.todo = <<>> /\ r.op \notin Gives
  BY <1>2, <1>3 DEF Begins, InPlace, Naming, s
<1>6. Begins(r, Naming) => r.id = 0
  BY <1>2, <1>3 DEF Begins, InPlace, Naming, s
<1>7. r.started # 0 => r.id \in Ids /\ \A k \in 1..Len(r.todo) : r.todo[k] \in Late
  <2> SUFFICES ASSUME q.started # 0 PROVE i \in Ids /\ \A k \in 1..Len(Tail(s)) : Tail(s)[k] \in Late
    BY <1>2
  <2>1. \A k \in 1..Len(Tail(s)) : k + 1 \in 1..Len(s)
    BY <1>3
  <2> QED
    BY <1>3, <1>4, <2>1
<1>8. r.op = "connect_or_create_block" /\ Begins(r, {"term", "kill", "fall"}) => OwnsRun(r)
  BY <1>2, <1>3, <1>4 DEF Begins, InPlace, OwnsRun, s
<1> QED
  BY <1>2, <1>3, <1>5, <1>6, <1>7, <1>8 DEF Proper, r

\* One that boots the sandbox.
LEMMA BootProper ==
    ASSUME NEW q, Proper(q), q.todo # <<>>, Head(q.todo) \in Booting,
           NEW i \in Ids, NEW n \in 1..MaxRun
    PROVE  Proper([q EXCEPT !.id = i, !.todo = Tail(@), !.started = n])
<1> DEFINE r == [q EXCEPT !.id = i, !.todo = Tail(@), !.started = n]
           s == q.todo
<1>1. q \in Calls /\ i \in 0..MaxId /\ i # 0 /\ n \in 0..MaxRun /\ n # 0
  BY LifecycleAssumption DEF Proper, Ids
<1>2. /\ r \in Calls /\ r.op = q.op /\ r.id = i /\ r.todo = Tail(s) /\ r.started = n
      /\ r.detach = q.detach
  BY <1>1, Plan DEF Calls
<1>3. /\ Len(s) \in Nat \ {0} /\ Head(s) = s[1] /\ InPlace(q.op, s, 1)
      /\ WellFormed(q.op, Tail(s))
      /\ Tail(s) # <<>> => Len(s) > 1 /\ Head(Tail(s)) = s[2] /\ InPlace(q.op, s, 2)
      /\ \A k \in 1..Len(Tail(s)) : Tail(s)[k] = s[k + 1] /\ k + 1 <= Len(s)
  BY Plan
<1> HIDE DEF r, s
<1>4. \A j \in 2..Len(s) : s[j] \in Late
  BY <1>3 DEF InPlace, s
<1>5. \A k \in 1..Len(Tail(s)) : Tail(s)[k] \in Late
  BY <1>3, <1>4
<1>6. ~Begins(r, Naming)
  BY <1>2, <1>3, <1>4 DEF Begins, Naming, Late
<1>7. ~(r.op = "connect_or_create_block" /\ Begins(r, {"term", "kill", "fall"}))
  BY <1>2, <1>3 DEF Begins, InPlace, Booting, s
<1> QED
  BY <1>1, <1>2, <1>3, <1>5, <1>6, <1>7 DEF Proper, r

--------------------------------------------------------------------------------
(* What steps have in common.                                              *)

\* A step of one call leaves the others as they are.
LEMMA CallStep ==
    ASSUME CallInv, NEW c \in Callers, NEW q, Proper(q), call' = [call EXCEPT ![c] = q]
    PROVE  CallInv' /\ call'[c] = q /\ \A d \in Callers \ {c} : call'[d] = call[d]
<1>1. q \in Calls
  BY DEF Proper
<1>2. call'[c] = q /\ \A d \in Callers \ {c} : call'[d] = call[d]
  BY DEF CallInv
<1>3. call' \in [Callers -> Calls]
  BY <1>1 DEF CallInv
<1>4. \A d \in Callers : Proper(call'[d])
  BY <1>2 DEF CallInv
<1> QED
  BY <1>2, <1>3, <1>4 DEF CallInv, Proper, Begins, OwnsRun, WellFormed, InPlace, Calls

\* The sandboxes are as they were.
LEMMA SameWorld ==
    ASSUME UNCHANGED <<phase, run, signals>>
    PROVE  (WorldInv => WorldInv') /\ Born' = Born /\ Holders' = Holders
BY DEF WorldInv, Born, Holders

\* Ownership stays if nothing is owned anew and nobody is told anything.
LEMMA SameOwners ==
    ASSUME OwnerInv, object' = object, garbage' \subseteq garbage, detached' = detached,
           Born \subseteq Born',
           \A c \in Callers : call'[c].started # 0 =>
               /\ call'[c].started = call[c].started /\ call'[c].id = call[c].id
               /\ call'[c].detach = call[c].detach
    PROVE  OwnerInv'
<1> USE DEF OwnerInv, Kept, Started, Owns
<1>1. /\ (garbage \subseteq Born)' /\ (detached \subseteq Born)'
      /\ (garbage \cap detached = {})'
  OBVIOUS
<1>2. ASSUME NEW c \in Callers
      PROVE  /\ (object[c].owns => Kept(c) \in Born \ (garbage \cup detached))'
             /\ (call[c].started # 0 => Started(c) \in Born \ garbage)'
             /\ (Owns(c) => Started(c) \notin detached)'
  OBVIOUS
<1>3. ASSUME NEW c \in Callers, NEW d \in Callers
      PROVE  /\ (object[c].owns /\ call[d].started # 0 => Kept(c) # Started(d))'
             /\ (c # d /\ object[c].owns /\ object[d].owns => Kept(c) # Kept(d))'
             /\ (c # d /\ call[c].started # 0 /\ call[d].started # 0 => Started(c) # Started(d))'
  OBVIOUS
<1> QED
  BY <1>1, <1>2, <1>3

LEMMA SameObjects == ObjectInv /\ object' = object => ObjectInv'
BY DEF ObjectInv

\* A step of a call that neither boots nor hands anything over.
LEMMA GoesInv ==
    ASSUME LifecycleInv, NEW c \in Callers, call[c].todo # <<>>,
           NEW i \in 0..MaxId, NEW from \in 0..MaxRun,
           i = 0 <=> Head(call[c].todo) \in {"remove", "find_and_remove"},
           call[c].started # 0 => i = call[c].id,
           Head(call[c].todo) = "leave_unless_owned" => Owns(c),
           call' = [call EXCEPT ![c] = [call[c] EXCEPT !.id = i, !.todo = Tail(@), !.from = from]],
           UNCHANGED <<object, garbage, detached>>, Born \subseteq Born'
    PROVE  CallInv' /\ ObjectInv' /\ OwnerInv'
<1> DEFINE q == [call[c] EXCEPT !.id = i, !.todo = Tail(@), !.from = from]
<1>1. Proper(call[c]) /\ call[c] \in Calls
  BY DEF LifecycleInv, CallInv
<1>2. Proper(q)
  BY <1>1, GoesProper DEF Owns, OwnsRun
<1>3. q.started = call[c].started /\ q.detach = call[c].detach /\ q.id = i
  BY <1>1 DEF Calls
<1> HIDE DEF q
<1>4. call' = [call EXCEPT ![c] = q]
  BY DEF q
<1>5. CallInv' /\ call'[c] = q /\ \A d \in Callers \ {c} : call'[d] = call[d]
  BY <1>2, <1>4, CallStep DEF LifecycleInv
<1>6. OwnerInv'
  BY <1>3, <1>5, SameOwners DEF LifecycleInv
<1> QED
  BY <1>5, <1>6, SameObjects DEF LifecycleInv

\* One that fails.
LEMMA FailsInv ==
    ASSUME LifecycleInv, NEW c \in Callers, call' = [call EXCEPT ![c] = NoCall],
           UNCHANGED <<phase, run, signals, object, garbage, detached>>
    PROVE  LifecycleInv'
<1>1. CallInv' /\ call'[c] = NoCall /\ \A d \in Callers \ {c} : call'[d] = call[d]
  BY NoCallProper, CallStep DEF LifecycleInv
<1>2. Born \subseteq Born' /\ WorldInv'
  BY SameWorld DEF LifecycleInv
<1>3. NoCall.started = 0
  BY DEF NoCall
<1>4. OwnerInv'
  BY <1>1, <1>2, <1>3, SameOwners DEF LifecycleInv
<1> QED
  BY <1>1, <1>2, <1>4, SameObjects DEF LifecycleInv

\* A boot makes a run that nobody owned, and its call the owner.
LEMMA BootsInv ==
    ASSUME LifecycleInv, NEW c \in Callers, NEW i \in Ids,
           call[c].todo # <<>>, Head(call[c].todo) \in Booting,
           Holders = {} \/ i \in Holders, Boots(c, i)
    PROVE  LifecycleInv'
<1> DEFINE n == run[i] + 1
           q == [call[c] EXCEPT !.id = i, !.todo = Tail(@), !.started = n]
<1>1. /\ Proper(call[c]) /\ call[c] \in Calls
      /\ run \in [Ids -> 0..MaxRun] /\ n \in 1..MaxRun /\ n = run[i] + 1
  BY LifecycleAssumption DEF LifecycleInv, CallInv, WorldInv, Boots
<1> HIDE DEF n
<1>2. Proper(q)
  BY <1>1, BootProper
<1>3. q.started = n /\ q.detach = call[c].detach /\ q.id = i
  BY <1>1 DEF Calls
<1>4. call' = [call EXCEPT ![c] = q]
  BY <1>1 DEF Boots, LifecycleInv, CallInv
<1> HIDE DEF q
<1>5. CallInv' /\ call'[c] = q /\ \A d \in Callers \ {c} : call'[d] = call[d]
  BY <1>2, <1>4, CallStep DEF LifecycleInv
<1>6. /\ phase' = [phase EXCEPT ![i] = "starting"] /\ run' = [run EXCEPT ![i] = n]
      /\ signals' = [signals EXCEPT ![i] = {}]
      /\ detached' = IF call[c].detach THEN detached \cup {<<i, n>>} ELSE detached
      /\ object' = object /\ garbage' = garbage
  BY <1>1 DEF Boots
<1>7. WorldInv'
  <2>1. /\ phase' \in [Ids -> {"unborn", "starting", "running", "draining", "removed"} \cup Down]
        /\ run' \in [Ids -> 0..MaxRun] /\ signals' \in [Ids -> SUBSET {"term", "kill"}]
    BY <1>1, <1>6 DEF LifecycleInv, WorldInv
  <2>2. Holders' \subseteq Holders \cup {i}
    BY <1>6 DEF Holders, LifecycleInv, WorldInv
  <2> QED
    BY <2>1, <2>2 DEF LifecycleInv, WorldInv
<1>8. Born \subseteq Born' /\ <<i, n>> \in Born' /\ <<i, n>> \notin Born
  <2>1. \A j \in Ids : run[j] <= run'[j] /\ run[j] \in Nat /\ run'[j] \in Nat
    BY <1>1, <1>6
  <2>2. run'[i] = n /\ ~(n <= run[i])
    BY <1>1, <1>6
  <2>3. ASSUME NEW p \in Born PROVE p \in Born'
    <3>1. p \in Ids \X (1..MaxRun) /\ p[1] \in Ids /\ p[2] \in 1..MaxRun /\ p[2] <= run[p[1]]
      BY DEF Born
    <3>2. p[2] <= run'[p[1]]
      BY <2>1, <3>1
    <3> QED
      BY <3>1, <3>2 DEF Born
  <2>4. <<i, n>> \in Ids \X (1..MaxRun) /\ <<i, n>>[1] = i /\ <<i, n>>[2] = n
    BY <1>1
  <2>5. n <= n
    BY <1>1
  <2> QED
    BY <2>2, <2>3, <2>4, <2>5 DEF Born
<1>9. Started(c)' = <<i, n>> /\ \A d \in Callers : Kept(d)' = Kept(d)
  BY <1>3, <1>5, <1>6 DEF Started, Kept
<1>10. \A d \in Callers \ {c} : Started(d)' = Started(d)
  BY <1>5 DEF Started
<1>11. OwnerInv'
  <2>1. /\ (garbage \subseteq Born)' /\ (detached \subseteq Born)'
        /\ (garbage \cap detached = {})'
    BY <1>6, <1>8 DEF LifecycleInv, OwnerInv
  <2>2. ASSUME NEW d \in Callers
        PROVE  /\ (object[d].owns => Kept(d) \in Born \ (garbage \cup detached))'
               /\ (call[d].started # 0 => Started(d) \in Born \ garbage)'
               /\ (Owns(d) => Started(d) \notin detached)'
    <3>1. (object[d].owns => Kept(d) \in Born \ (garbage \cup detached))'
      BY <1>6, <1>8, <1>9 DEF LifecycleInv, OwnerInv
    <3>2. CASE d = c
      BY <1>3, <1>5, <1>6, <1>8, <1>9, <3>1, <3>2 DEF LifecycleInv, OwnerInv, Owns
    <3>3. CASE d # c
      BY <1>5, <1>6, <1>8, <1>10, <3>1, <3>3 DEF LifecycleInv, OwnerInv, Owns
    <3> QED
      BY <3>2, <3>3
  <2>3. ASSUME NEW d \in Callers, NEW e \in Callers
        PROVE  /\ (object[d].owns /\ call[e].started # 0 => Kept(d) # Started(e))'
               /\ (d # e /\ object[d].owns /\ object[e].owns => Kept(d) # Kept(e))'
               /\ (d # e /\ call[d].started # 0 /\ call[e].started # 0 => Started(d) # Started(e))'
    <3>1. (d # e /\ object[d].owns /\ object[e].owns => Kept(d) # Kept(e))'
      BY <1>6, <1>9 DEF LifecycleInv, OwnerInv
    <3>2. (object[d].owns /\ call[e].started # 0 => Kept(d) # Started(e))'
      BY <1>5, <1>6, <1>8, <1>9, <1>10 DEF LifecycleInv, OwnerInv
    <3>3. (d # e /\ call[d].started # 0 /\ call[e].started # 0 => Started(d) # Started(e))'
      BY <1>5, <1>8, <1>9, <1>10 DEF LifecycleInv, OwnerInv
    <3> QED
      BY <3>1, <3>2, <3>3
  <2> QED
    BY <2>1, <2>2, <2>3 DEF OwnerInv
<1> QED
  BY <1>5, <1>6, <1>7, <1>11, SameObjects DEF LifecycleInv

LEMMA GoesOn ==
    ASSUME LifecycleInv, NEW c \in Callers, call[c].todo # <<>>, NEW i \in 0..MaxId,
           i = 0 <=> Head(call[c].todo) \in {"remove", "find_and_remove"},
           call[c].started # 0 => i = call[c].id,
           Head(call[c].todo) = "leave_unless_owned" => Owns(c),
           Goes(c, i), UNCHANGED <<object, garbage, detached>>, Born \subseteq Born'
    PROVE  CallInv' /\ ObjectInv' /\ OwnerInv'
<1>1. call[c] \in Calls /\ call \in [Callers -> Calls]
  BY DEF LifecycleInv, CallInv
<1>2. call[c].from \in 0..MaxRun
  BY <1>1 DEF Calls
<1>3. call' = [call EXCEPT ![c] = [call[c] EXCEPT !.id = i, !.todo = Tail(@), !.from = call[c].from]]
  BY <1>1 DEF Goes, Calls
<1> QED
  BY <1>2, <1>3, GoesInv

\* A call that is under way has the sandbox it is bound to, but for those that start
\* from the name.
LEMMA Bound ==
    ASSUME LifecycleInv, NEW c \in Callers, call[c].todo # <<>>
    PROVE  /\ call[c].id \in 0..MaxId
           /\ Head(call[c].todo) \notin Naming \cup {"converge"} => call[c].id \in Ids
           /\ Head(call[c].todo) \in Naming => call[c].id = 0
           /\ call[c].started # 0 => Head(call[c].todo) \in Late
           /\ call[c].op = "connect_or_create_block" /\ Head(call[c].todo) \in {"term", "kill", "fall"} =>
                 Owns(c)
<1>1. Proper(call[c])
  BY DEF LifecycleInv, CallInv
<1>2. call[c].id \in 0..MaxId
  BY <1>1 DEF Proper, Calls
<1>3. Len(call[c].todo) \in Nat \ {0} /\ Head(call[c].todo) = call[c].todo[1]
  BY <1>1, Plan
<1> QED
  BY <1>1, <1>2, <1>3 DEF Proper, Begins, Ids, Owns, OwnsRun

LEMMA NoObjectType ==
    NoObject \in Objects /\ NoObject.id = 0 /\ NoObject.run = 0 /\ NoObject.owns = FALSE
BY LifecycleAssumption DEF NoObject, Objects

LEMMA HoldersIds == Holders \subseteq Ids
BY DEF Holders

--------------------------------------------------------------------------------
(* The steps.                                                              *)

LEMMA BeginInv ==
    ASSUME LifecycleInv, NEW c \in Callers, NEW id \in 0..MaxId, NEW plans,
           Begin(c, plans, id),
           \/ id = 0 /\ plans = ByName
           \/ id \in Ids /\ plans \in {OnSandbox, OnHandle}
    PROVE  LifecycleInv'
<1>1. PICK op \in DOMAIN plans, detach \in BOOLEAN :
        call' = [call EXCEPT ![c] = [op |-> op, id |-> id, todo |-> plans[op],
                                     from |-> IF id = 0 THEN 0 ELSE run[id],
                                     started |-> 0, detach |-> detach]]
  BY DEF Begin
<1> DEFINE q == [op |-> op, id |-> id, todo |-> plans[op],
                 from |-> IF id = 0 THEN 0 ELSE run[id], started |-> 0, detach |-> detach]
<1>2. /\ WellFormed(op, plans[op]) /\ plans[op] # <<>> /\ op \in Ops
      /\ id = 0 => Head(plans[op]) \in Naming \cup {"converge"}
      /\ id # 0 => Head(plans[op]) \notin Naming /\ op # "connect_or_create_block"
  BY NamePlans, ObjectPlans, LifecycleAssumption DEF Ops, Ids
<1>3. (IF id = 0 THEN 0 ELSE run[id]) \in 0..MaxRun
  BY LifecycleAssumption DEF LifecycleInv, WorldInv, Ids
<1>4. q \in Calls
  BY <1>2, <1>3, LifecycleAssumption DEF Calls, WellFormed
<1>5. q.op = op /\ q.id = id /\ q.todo = plans[op] /\ q.started = 0
  OBVIOUS
<1> HIDE DEF q
<1>6. Proper(q)
  BY <1>2, <1>4, <1>5 DEF Proper, Begins, Naming
<1>7. call' = [call EXCEPT ![c] = q]
  BY <1>1 DEF q
<1>8. CallInv' /\ call'[c] = q /\ \A d \in Callers \ {c} : call'[d] = call[d]
  BY <1>6, <1>7, CallStep DEF LifecycleInv
<1>9. UNCHANGED <<phase, run, signals, object, garbage, detached>>
  BY DEF Begin
<1>10. WorldInv' /\ Born' = Born
  BY <1>9, SameWorld DEF LifecycleInv
<1>11. OwnerInv'
  BY <1>5, <1>8, <1>9, <1>10, SameOwners DEF LifecycleInv
<1> QED
  BY <1>8, <1>9, <1>10, <1>11, SameObjects DEF LifecycleInv

LEMMA CallByNameInv == ASSUME LifecycleInv, NEW c \in Callers, CallByName(c) PROVE LifecycleInv'
BY BeginInv, LifecycleAssumption DEF CallByName

LEMMA CallOnObjectInv == ASSUME LifecycleInv, NEW c \in Callers, CallOnObject(c) PROVE LifecycleInv'
<1>1. object[c].id \in Ids /\ object[c].id \in 0..MaxId
  BY DEF CallOnObject, LifecycleInv, ObjectInv, Objects
<1>2. CASE object[c].run > 0
  BY <1>1, <1>2, BeginInv DEF CallOnObject
<1>3. CASE ~(object[c].run > 0)
  BY <1>1, <1>3, BeginInv DEF CallOnObject
<1> QED
  BY <1>2, <1>3

LEMMA ClaimInv == ASSUME LifecycleInv, NEW c \in Callers, Claim(c) PROVE LifecycleInv'
<1>1. call[c].todo # <<>> /\ Head(call[c].todo) \in Booting
  BY DEF Claim, At, Booting
<1>2. CASE Holders = {}
  <2>1. PICK i \in Ids : Boots(c, i)
    BY <1>2 DEF Claim
  <2> QED
    BY <1>1, <1>2, <2>1, BootsInv
<1>3. CASE Holders # {}
  BY <1>3, FailsInv DEF Claim, Fails
<1> QED
  BY <1>2, <1>3

LEMMA FindInv == ASSUME LifecycleInv, NEW c \in Callers, Find(c) PROVE LifecycleInv'
<1>1. call[c].todo # <<>> /\ Head(call[c].todo) \in {"find", "seize"}
  BY DEF Find, At
<1>2. call[c].id = 0 /\ call[c].started = 0 /\ Proper(call[c]) /\ call[c] \in Calls
  BY <1>1, Bound DEF Naming, Late, LifecycleInv, CallInv
<1>3. UNCHANGED <<phase, run, signals, object, garbage, detached>>
  BY DEF Find
<1>4. WorldInv' /\ Born' = Born
  BY <1>3, SameWorld DEF LifecycleInv
<1>5. CASE \E i \in Holders : Goes(c, i)
  <2>1. PICK i \in Ids : Goes(c, i)
    BY <1>5, HoldersIds
  <2>2. i \in 0..MaxId /\ i # 0
    BY LifecycleAssumption DEF Ids
  <2>3. CallInv' /\ ObjectInv' /\ OwnerInv'
    BY <1>1, <1>2, <1>3, <1>4, <2>1, <2>2, GoesOn
  <2> QED
    BY <1>4, <2>3 DEF LifecycleInv
<1>6. CASE call' = [call EXCEPT ![c] = NoCall]
  BY <1>3, <1>6, FailsInv
<1>7. CASE At(c, "seize") /\ call' = [call EXCEPT ![c].todo = <<"claim", "ready">>]
  <2> DEFINE q == [call[c] EXCEPT !.todo = <<"claim", "ready">>]
  <2>1. call[c].op = "create_replace"
    <3>1. InPlace(call[c].op, call[c].todo, 1) /\ call[c].todo[1] = "seize"
      BY <1>1, <1>2, <1>7, Plan DEF At
    <3> QED
      BY <3>1 DEF InPlace
  <2>2. /\ ByName["create"] = <<"claim", "ready">> /\ <<"claim", "ready">> \in Seq(Words)
        /\ WellFormed("create_replace", <<"claim", "ready">>)
        /\ Head(<<"claim", "ready">>) = "claim" /\ <<"claim", "ready">> # <<>>
    BY Written DEF WellFormed, InPlace, Words, Naming, Booting, Late
  <2>3. /\ q \in Calls /\ q.op = "create_replace" /\ q.todo = <<"claim", "ready">>
        /\ q.id = 0 /\ q.started = 0
    BY <1>2, <2>1, <2>2 DEF Calls
  <2>4. call' = [call EXCEPT ![c] = q]
    BY <1>2, <1>7 DEF LifecycleInv, CallInv
  <2> HIDE DEF q
  <2>5. Proper(q)
    BY <2>2, <2>3 DEF Proper, Begins, Naming
  <2>6. CallInv' /\ call'[c] = q /\ \A d \in Callers \ {c} : call'[d] = call[d]
    BY <2>4, <2>5, CallStep DEF LifecycleInv
  <2>7. OwnerInv'
    BY <1>3, <1>4, <2>3, <2>6, SameOwners DEF LifecycleInv
  <2> QED
    BY <1>3, <1>4, <2>6, <2>7, SameObjects DEF LifecycleInv
<1> QED
  BY <1>5, <1>6, <1>7 DEF Find

\* The sandbox that has the name gets a new phase; or some are sent signals.
LEMMA NewPhase ==
    ASSUME WorldInv, NEW i \in Holders,
           NEW p \in {"unborn", "starting", "running", "draining", "removed"} \cup Down,
           phase' = [phase EXCEPT ![i] = p], run' = run, signals' = signals
    PROVE  WorldInv' /\ Born' = Born
<1>1. i \in Ids /\ \A j \in Ids \ {i} : phase'[j] = phase[j]
  BY DEF WorldInv, Holders
<1>2. Holders' \subseteq Holders
  BY <1>1 DEF Holders
<1> QED
  BY <1>1, <1>2 DEF WorldInv, Born

LEMMA NewSignals ==
    ASSUME WorldInv, phase' = phase, run' = run, signals' \in [Ids -> SUBSET {"term", "kill"}]
    PROVE  WorldInv' /\ Born' = Born
BY DEF WorldInv, Born, Holders

LEMMA ConvergeInv == ASSUME LifecycleInv, NEW c \in Callers, Converge(c) PROVE LifecycleInv'
<1>1. call[c].todo # <<>> /\ Head(call[c].todo) = "converge"
  BY DEF Converge, At
<1>2. PICK i \in IF call[c].id = 0 THEN Holders ELSE {Target(c)} :
        \/ /\ phase[i] = "running"
           /\ call' = [call EXCEPT ![c].id = i, ![c].todo = Tail(Tail(@))]
           /\ UNCHANGED <<phase, run, signals, object, garbage, detached, calls>>
        \/ phase[i] \in Down /\ Boots(c, i)
        \/ phase[i] \in {"draining", "removed"} /\ Fails(c)
  BY DEF Converge
<1>3. Proper(call[c]) /\ call[c] \in Calls /\ call[c].id \in 0..MaxId /\ call[c].started = 0
  BY <1>1, Bound DEF LifecycleInv, CallInv, Late
<1>4. i \in Ids /\ i \in 0..MaxId /\ i # 0
  BY <1>2, <1>3, HoldersIds, LifecycleAssumption DEF Target, Ids
<1>5. CASE /\ call' = [call EXCEPT ![c].id = i, ![c].todo = Tail(Tail(@))]
           /\ UNCHANGED <<phase, run, signals, object, garbage, detached, calls>>
  <2> DEFINE q == [call[c] EXCEPT !.id = i, !.todo = Tail(@), !.from = call[c].from]
             r == [q EXCEPT !.id = i, !.todo = Tail(@), !.from = call[c].from]
  <2>1. call[c].from \in 0..MaxRun
    BY <1>3 DEF Calls
  <2>2. Proper(q)
    BY <1>1, <1>3, <1>4, <2>1, GoesProper
  <2>3. /\ InPlace(call[c].op, call[c].todo, 1) /\ call[c].todo[1] = "converge"
        /\ Len(call[c].todo) \in Nat \ {0}
        /\ \A k \in 1..Len(Tail(call[c].todo)) : Tail(call[c].todo)[k] = call[c].todo[k + 1]
        /\ Tail(call[c].todo) = <<>> => Len(call[c].todo) = 1
        /\ Tail(call[c].todo) # <<>> => Head(Tail(call[c].todo)) = call[c].todo[2]
    BY <1>1, <1>3, Plan
  <2>4. Tail(call[c].todo) # <<>> /\ Head(Tail(call[c].todo)) = "ready"
    BY <2>3 DEF InPlace
  <2>5. q.todo = Tail(call[c].todo) /\ q.started = 0 /\ q \in Calls
    BY <1>3, <2>2 DEF Calls, Proper
  <2> HIDE DEF q
  <2>6. Proper(r)
    BY <1>4, <2>1, <2>2, <2>4, <2>5, GoesProper
  <2>7. r.started = 0
    BY <2>5 DEF Calls
  <2>8. call' = [call EXCEPT ![c] = r]
    BY <1>3, <1>5 DEF q, Calls, LifecycleInv, CallInv
  <2> HIDE DEF r
  <2>9. CallInv' /\ call'[c] = r /\ \A d \in Callers \ {c} : call'[d] = call[d]
    BY <2>6, <2>8, CallStep DEF LifecycleInv
  <2>10. WorldInv' /\ Born' = Born
    BY <1>5, SameWorld DEF LifecycleInv
  <2>11. OwnerInv'
    BY <1>5, <2>7, <2>9, <2>10, SameOwners DEF LifecycleInv
  <2> QED
    BY <1>5, <2>9, <2>10, <2>11, SameObjects DEF LifecycleInv
<1>6. CASE phase[i] \in Down /\ Boots(c, i)
  <2>1. i \in Holders
    BY <1>4, <1>6 DEF Holders, Down
  <2> QED
    BY <1>1, <1>4, <1>6, <2>1, BootsInv DEF Booting
<1>7. CASE Fails(c)
  BY <1>7, FailsInv DEF Fails
<1> QED
  BY <1>2, <1>5, <1>6, <1>7

LEMMA BootInv == ASSUME LifecycleInv, NEW c \in Callers, Boot(c) PROVE LifecycleInv'
<1>1. call[c].todo # <<>> /\ Head(call[c].todo) \in {"boot", "start"}
  BY DEF Boot, At
<1>2. CASE Fails(c)
  BY <1>2, FailsInv DEF Fails
<1>3. CASE At(c, "boot") /\ phase[Target(c)] \in Down /\ Boots(c, Target(c))
  <2>1. Target(c) \in Ids
    BY <1>1, <1>3, Bound DEF At, Target, Naming
  <2>2. Target(c) \in Holders
    BY <1>3, <2>1 DEF Holders, Down
  <2> QED
    BY <1>1, <1>3, <2>1, <2>2, BootsInv DEF Booting
<1>4. CASE \E i \in Holders : Boots(c, i)
  <2>1. PICK i \in Holders : Boots(c, i)
    BY <1>4
  <2> QED
    BY <1>1, <2>1, HoldersIds, BootsInv DEF Booting
<1> QED
  BY <1>2, <1>3, <1>4 DEF Boot

LEMMA ReadyInv == ASSUME LifecycleInv, NEW c \in Callers, Ready(c) PROVE LifecycleInv'
<1>1. call[c].todo # <<>> /\ Head(call[c].todo) = "ready"
  BY DEF Ready, At
<1>2. Target(c) \in Ids /\ Target(c) = call[c].id /\ Target(c) # 0 /\ Target(c) \in 0..MaxId
  BY <1>1, Bound, LifecycleAssumption DEF Target, Naming, Ids
<1>3. CASE Fails(c)
  BY <1>3, FailsInv DEF Fails
<1>4. CASE /\ phase[Target(c)] = "starting"
           /\ phase' = [phase EXCEPT ![Target(c)] = "running"]
           /\ Goes(c, Target(c))
           /\ UNCHANGED <<run, signals, object, garbage, detached, calls>>
  <2>1. Target(c) \in Holders
    BY <1>2, <1>4 DEF Holders
  <2>2. WorldInv' /\ Born' = Born
    BY <1>4, <2>1, NewPhase DEF LifecycleInv
  <2>3. CallInv' /\ ObjectInv' /\ OwnerInv'
    BY <1>1, <1>2, <1>4, <2>2, GoesOn
  <2> QED
    BY <2>2, <2>3 DEF LifecycleInv
<1> QED
  BY <1>3, <1>4 DEF Ready

LEMMA SignalInv == ASSUME LifecycleInv, NEW c \in Callers, Signal(c) PROVE LifecycleInv'
<1>1. PICK s \in {"term", "kill", "drain"} :
        /\ At(c, s)
        /\ IF Gone(c) THEN Fails(c)
           ELSE /\ IF Alive(Target(c)) /\ s # "drain"
                   THEN signals' = [signals EXCEPT ![Target(c)] = @ \cup {s}]
                   ELSE UNCHANGED signals
                /\ IF phase[Target(c)] = "running" /\ s = "drain"
                   THEN phase' = [phase EXCEPT ![Target(c)] = "draining"] ELSE UNCHANGED phase
                /\ call' = [call EXCEPT ![c].todo = Tail(@), ![c].from = run[Target(c)]]
                /\ UNCHANGED <<run, object, garbage, detached, calls>>
  BY DEF Signal
<1>2. call[c].todo # <<>> /\ Head(call[c].todo) \in {"term", "kill", "drain"}
  BY <1>1 DEF At
<1>3. Target(c) \in Ids /\ Target(c) = call[c].id /\ Target(c) # 0 /\ Target(c) \in 0..MaxId
  BY <1>2, Bound, LifecycleAssumption DEF Target, Naming, Ids
<1>4. CASE Gone(c)
  BY <1>1, <1>4, FailsInv DEF Fails
<1>5. CASE ~Gone(c)
  <2>1. Target(c) \in Holders /\ run[Target(c)] \in 0..MaxRun
    BY <1>3, <1>5 DEF Gone, LifecycleInv, WorldInv
  <2>2. WorldInv' /\ Born' = Born
    <3>1. CASE s = "drain" /\ phase[Target(c)] = "running"
      BY <1>1, <1>5, <2>1, <3>1, NewPhase DEF LifecycleInv
    <3>2. CASE ~(s = "drain" /\ phase[Target(c)] = "running")
      <4>1. signals' \in [Ids -> SUBSET {"term", "kill"}] /\ phase' = phase /\ run' = run
        BY <1>1, <1>3, <1>5, <3>2 DEF LifecycleInv, WorldInv
      <4> QED
        BY <4>1, NewSignals DEF LifecycleInv
    <3> QED
      BY <3>1, <3>2
  <2>3. call' = [call EXCEPT ![c] =
                   [call[c] EXCEPT !.id = call[c].id, !.todo = Tail(@), !.from = run[Target(c)]]]
    <3>1. call \in [Callers -> Calls] /\ call[c] \in Calls
      BY DEF LifecycleInv, CallInv
    <3> QED
      BY <1>1, <1>5, <3>1 DEF Calls
  <2>4. CallInv' /\ ObjectInv' /\ OwnerInv'
    BY <1>1, <1>2, <1>3, <1>5, <2>1, <2>2, <2>3, GoesInv
  <2> QED
    BY <2>2, <2>4 DEF LifecycleInv
<1> QED
  BY <1>4, <1>5

LEMMA EscalateInv == ASSUME LifecycleInv, NEW c \in Callers, Escalate(c) PROVE LifecycleInv'
<1>1. call[c].todo # <<>> /\ Head(call[c].todo) = "fall"
  BY DEF Escalate, At
<1>2. Target(c) \in Ids
  BY <1>1, Bound DEF Target, Naming
<1>3. /\ UNCHANGED <<phase, run, object, garbage, detached, call, calls>>
      /\ signals' = [signals EXCEPT ![Target(c)] = @ \cup {"kill"}]
  BY DEF Escalate
<1>4. signals' \in [Ids -> SUBSET {"term", "kill"}]
  BY <1>2, <1>3 DEF LifecycleInv, WorldInv
<1>5. WorldInv' /\ Born' = Born
  BY <1>3, <1>4, NewSignals DEF LifecycleInv
<1>6. OwnerInv'
  BY <1>3, <1>5, SameOwners DEF LifecycleInv
<1>7. CallInv' /\ ObjectInv'
  BY <1>3, SameObjects DEF LifecycleInv, CallInv
<1> QED
  BY <1>5, <1>6, <1>7 DEF LifecycleInv

LEMMA WaitInv == ASSUME LifecycleInv, NEW c \in Callers, Wait(c) PROVE LifecycleInv'
<1>1. call[c].todo # <<>> /\ Head(call[c].todo) \in {"fall", "down", "status"}
  BY DEF Wait, At
<1>2. Target(c) = call[c].id /\ Target(c) # 0 /\ Target(c) \in 0..MaxId
  BY <1>1, Bound, LifecycleAssumption DEF Target, Naming, Ids
<1>3. CASE Fails(c)
  BY <1>3, FailsInv DEF Fails
<1>4. CASE Goes(c, Target(c)) /\ UNCHANGED <<phase, run, signals, object, garbage, detached, calls>>
  <2>1. WorldInv' /\ Born' = Born
    BY <1>4, SameWorld DEF LifecycleInv
  <2>2. CallInv' /\ ObjectInv' /\ OwnerInv'
    BY <1>1, <1>2, <1>4, <2>1, GoesOn
  <2> QED
    BY <2>1, <2>2 DEF LifecycleInv
<1> QED
  BY <1>3, <1>4 DEF Wait

LEMMA RemoveRecordInv == ASSUME LifecycleInv, NEW c \in Callers, RemoveRecord(c) PROVE LifecycleInv'
<1>1. call[c].todo # <<>> /\ Head(call[c].todo) \in {"remove", "find_and_remove"}
  BY DEF RemoveRecord, At
<1>2. call[c].started = 0 /\ 0 \in 0..MaxId
  BY <1>1, Bound, LifecycleAssumption DEF Late
<1>3. CASE Fails(c)
  BY <1>3, FailsInv DEF Fails
<1>4. CASE ~Fails(c)
  <2>1. /\ \E i \in Holders : phase' = [phase EXCEPT ![i] = "removed"]
        /\ Goes(c, 0) /\ UNCHANGED <<run, signals, object, garbage, detached, calls>>
    <3>1. CASE At(c, "remove")
      <4>1. /\ phase[Target(c)] \in Down
            /\ phase' = [phase EXCEPT ![Target(c)] = "removed"]
            /\ Goes(c, 0) /\ UNCHANGED <<run, signals, object, garbage, detached, calls>>
        BY <1>4, <3>1 DEF RemoveRecord
      <4>2. Target(c) \in Ids
        BY <3>1, Bound DEF At, Target, Naming
      <4>3. Target(c) \in Holders
        BY <4>1, <4>2 DEF Holders, Down
      <4> QED
        BY <4>1, <4>3
    <3>2. CASE ~At(c, "remove")
      BY <1>4, <3>2 DEF RemoveRecord
    <3> QED
      BY <3>1, <3>2
  <2>2. WorldInv' /\ Born' = Born
    BY <2>1, NewPhase DEF LifecycleInv
  <2>3. CallInv' /\ ObjectInv' /\ OwnerInv'
    BY <1>1, <1>2, <2>1, <2>2, GoesOn
  <2> QED
    BY <2>2, <2>3 DEF LifecycleInv
<1> QED
  BY <1>3, <1>4

LEMMA LeaveUnlessOwnedInv ==
    ASSUME LifecycleInv, NEW c \in Callers, LeaveUnlessOwned(c) PROVE LifecycleInv'
<1>1. /\ call[c].todo # <<>> /\ Head(call[c].todo) = "leave_unless_owned"
      /\ UNCHANGED <<phase, run, signals, object, garbage, detached, calls>>
  BY DEF LeaveUnlessOwned, At
<1>2. call[c].id \in Ids /\ call[c].id \in 0..MaxId /\ call[c].id # 0
  BY <1>1, Bound, LifecycleAssumption DEF Naming, Ids
<1>3. WorldInv' /\ Born' = Born
  BY <1>1, SameWorld DEF LifecycleInv
<1>4. CASE Owns(c) /\ Goes(c, call[c].id)
  <2>1. CallInv' /\ ObjectInv' /\ OwnerInv'
    BY <1>1, <1>2, <1>3, <1>4, GoesOn
  <2> QED
    BY <1>3, <2>1 DEF LifecycleInv
<1>5. CASE call' = [call EXCEPT ![c].todo = <<>>]
  <2> DEFINE q == [call[c] EXCEPT !.todo = <<>>]
  <2>1. Proper(call[c]) /\ call[c] \in Calls /\ call \in [Callers -> Calls]
    BY DEF LifecycleInv, CallInv
  <2>2. <<>> \in Seq(Words) /\ Len(<<>>) = 0
    OBVIOUS
  <2>3. /\ q \in Calls /\ q.todo = <<>> /\ q.id = call[c].id /\ q.started = call[c].started
        /\ q.detach = call[c].detach /\ q.op = call[c].op
    BY <2>1, <2>2 DEF Calls
  <2>4. call' = [call EXCEPT ![c] = q]
    BY <1>5, <2>1
  <2> HIDE DEF q
  <2>5. Proper(q)
    BY <1>2, <2>1, <2>2, <2>3 DEF Proper, Begins, WellFormed
  <2>6. CallInv' /\ call'[c] = q /\ \A d \in Callers \ {c} : call'[d] = call[d]
    BY <2>4, <2>5, CallStep DEF LifecycleInv
  <2>7. OwnerInv'
    BY <1>1, <1>3, <2>3, <2>6, SameOwners DEF LifecycleInv
  <2> QED
    BY <1>1, <1>3, <2>6, <2>7, SameObjects DEF LifecycleInv
<1> QED
  BY <1>4, <1>5 DEF LeaveUnlessOwned

LEMMA DetachInv == ASSUME LifecycleInv, NEW c \in Callers, Detach(c) PROVE LifecycleInv'
<1>1. /\ call[c].todo # <<>> /\ Head(call[c].todo) = "detach" /\ Goes(c, Target(c))
      /\ object' = [object EXCEPT ![c].owns = FALSE]
      /\ detached' = detached \cup (IF object[c].owns THEN {Kept(c)} ELSE {})
      /\ UNCHANGED <<phase, run, signals, garbage, calls>>
  BY DEF Detach, At, Kept
<1>2. /\ Target(c) = call[c].id /\ Target(c) # 0 /\ Target(c) \in 0..MaxId /\ call[c].started = 0
      /\ Proper(call[c]) /\ call[c] \in Calls /\ call \in [Callers -> Calls]
      /\ object \in [Callers -> Objects] /\ object[c] \in Objects
  BY <1>1, Bound, LifecycleAssumption
     DEF Target, Naming, Late, Ids, LifecycleInv, CallInv, ObjectInv
<1>3. WorldInv' /\ Born' = Born
  BY <1>1, SameWorld DEF LifecycleInv
<1> DEFINE q == [call[c] EXCEPT !.id = Target(c), !.todo = Tail(@), !.from = call[c].from]
<1>4. Proper(q)
  <2>1. call[c].from \in 0..MaxRun
    BY <1>2 DEF Calls
  <2> QED
    BY <1>1, <1>2, <2>1, GoesProper
<1>5. q.started = 0
  BY <1>2 DEF Calls
<1>6. call' = [call EXCEPT ![c] = q]
  BY <1>1, <1>2 DEF Goes, Calls
<1> HIDE DEF q
<1>7. CallInv' /\ call'[c] = q /\ \A d \in Callers \ {c} : call'[d] = call[d]
  BY <1>4, <1>6, CallStep DEF LifecycleInv
<1>8. /\ object' \in [Callers -> Objects] /\ object'[c].id = object[c].id
      /\ object'[c].run = object[c].run /\ ~object'[c].owns
      /\ \A d \in Callers \ {c} : object'[d] = object[d]
  BY <1>1, <1>2 DEF Objects
<1>9. ObjectInv'
  <2>1. object[c] = NoObject => object'[c] = NoObject
    BY <1>8, NoObjectType DEF Objects
  <2> QED
    BY <1>8, <2>1 DEF LifecycleInv, ObjectInv
<1>10. /\ \A d \in Callers : Kept(d)' = Kept(d)
       /\ \A d \in Callers \ {c} : Started(d)' = Started(d)
  BY <1>7, <1>8 DEF Kept, Started
<1>11. OwnerInv'
  <2>1. /\ (garbage \subseteq Born)' /\ (detached \subseteq Born)'
        /\ (garbage \cap detached = {})'
    BY <1>1, <1>3 DEF LifecycleInv, OwnerInv
  <2>2. ASSUME NEW d \in Callers
        PROVE  /\ (object[d].owns => Kept(d) \in Born \ (garbage \cup detached))'
               /\ (call[d].started # 0 => Started(d) \in Born \ garbage)'
               /\ (Owns(d) => Started(d) \notin detached)'
    BY <1>1, <1>3, <1>5, <1>7, <1>8, <1>10 DEF LifecycleInv, OwnerInv, Owns
  <2>3. ASSUME NEW d \in Callers, NEW e \in Callers
        PROVE  /\ (object[d].owns /\ call[e].started # 0 => Kept(d) # Started(e))'
               /\ (d # e /\ object[d].owns /\ object[e].owns => Kept(d) # Kept(e))'
               /\ (d # e /\ call[d].started # 0 /\ call[e].started # 0 => Started(d) # Started(e))'
    BY <1>5, <1>7, <1>8, <1>10 DEF LifecycleInv, OwnerInv
  <2> QED
    BY <2>1, <2>2, <2>3 DEF OwnerInv
<1> QED
  BY <1>3, <1>7, <1>9, <1>11 DEF LifecycleInv

LEMMA YieldInv == ASSUME LifecycleInv, NEW c \in Callers, Yield(c) PROVE LifecycleInv'
<1>1. PICK detach \in {call[c].detach, TRUE} :
        /\ call' = [call EXCEPT ![c].todo = Tail(@), ![c].detach = detach]
        /\ detached' = detached \cup (IF detach /\ call[c].started # 0 THEN {Started(c)} ELSE {})
  BY DEF Yield, Started
<1>2. /\ call[c].todo # <<>> /\ Head(call[c].todo) = "yield"
      /\ UNCHANGED <<phase, run, signals, object, garbage, calls>>
  BY DEF Yield, At
<1>3. /\ call[c].id \in Ids /\ call[c].id # 0 /\ call[c].id \in 0..MaxId
      /\ Proper(call[c]) /\ call[c] \in Calls /\ call \in [Callers -> Calls]
  BY <1>2, Bound, LifecycleAssumption DEF Naming, Ids, LifecycleInv, CallInv
<1>4. WorldInv' /\ Born' = Born
  BY <1>2, SameWorld DEF LifecycleInv
<1> DEFINE r == [call[c] EXCEPT !.id = call[c].id, !.todo = Tail(@), !.from = call[c].from]
           q == [r EXCEPT !.detach = detach]
<1>5. Proper(r)
  <2>1. call[c].from \in 0..MaxRun
    BY <1>3 DEF Calls
  <2> QED
    BY <1>2, <1>3, <2>1, GoesProper
<1>6. /\ r \in Calls /\ r.todo = Tail(call[c].todo) /\ r.started = call[c].started
      /\ r.id = call[c].id /\ r.op = call[c].op
  BY <1>3, <1>5 DEF Proper, Calls
<1>7. call' = [call EXCEPT ![c] = q]
  BY <1>1, <1>3 DEF Calls
<1> HIDE DEF r
<1>8. detach \in BOOLEAN /\ (call[c].detach => detach)
  BY <1>1, <1>3 DEF Calls
<1>9. /\ q \in Calls /\ q.todo = r.todo /\ q.started = r.started /\ q.id = r.id /\ q.op = r.op
      /\ q.detach = detach
  BY <1>6, <1>8 DEF Calls
<1> HIDE DEF q
<1>10. ~(r.op = "connect_or_create_block" /\ Begins(r, {"term", "kill", "fall"}))
  <2>1. /\ call[c].todo[1] = "yield" /\ Len(call[c].todo) \in Nat \ {0}
        /\ Tail(call[c].todo) # <<>> =>
              /\ Head(Tail(call[c].todo)) = call[c].todo[2]
              /\ InPlace(call[c].op, call[c].todo, 2)
    BY <1>2, <1>3, Plan
  <2> QED
    BY <1>6, <2>1 DEF Begins, InPlace
<1>11. Proper(q)
  BY <1>5, <1>6, <1>9, <1>10 DEF Proper, Begins
<1>12. CallInv' /\ call'[c] = q /\ \A d \in Callers \ {c} : call'[d] = call[d]
  BY <1>7, <1>11, CallStep DEF LifecycleInv
<1>13. /\ \A d \in Callers : Kept(d)' = Kept(d) /\ Started(d)' = Started(d)
       /\ \A d \in Callers : call'[d].started = call[d].started
       /\ \A d \in Callers : Owns(d)' => Owns(d)
       /\ Owns(c)' => ~detach
  BY <1>2, <1>6, <1>8, <1>9, <1>12 DEF Kept, Started, Owns
<1>14. OwnerInv'
  <2>1. /\ (garbage \subseteq Born)' /\ (detached \subseteq Born)'
        /\ (garbage \cap detached = {})'
    BY <1>1, <1>2, <1>4 DEF LifecycleInv, OwnerInv
  <2>2. ASSUME NEW d \in Callers
        PROVE  /\ (object[d].owns => Kept(d) \in Born \ (garbage \cup detached))'
               /\ (call[d].started # 0 => Started(d) \in Born \ garbage)'
               /\ (Owns(d) => Started(d) \notin detached)'
    <3>1. Owns(d) /\ detach /\ call[c].started # 0 /\ d # c => Started(d) # Started(c)
      BY DEF LifecycleInv, OwnerInv, Owns
    <3> QED
      BY <1>1, <1>2, <1>4, <1>13, <3>1 DEF LifecycleInv, OwnerInv
  <2>3. ASSUME NEW d \in Callers, NEW e \in Callers
        PROVE  /\ (object[d].owns /\ call[e].started # 0 => Kept(d) # Started(e))'
               /\ (d # e /\ object[d].owns /\ object[e].owns => Kept(d) # Kept(e))'
               /\ (d # e /\ call[d].started # 0 /\ call[e].started # 0 => Started(d) # Started(e))'
    BY <1>2, <1>13 DEF LifecycleInv, OwnerInv
  <2> QED
    BY <2>1, <2>2, <2>3 DEF OwnerInv
<1> QED
  BY <1>2, <1>4, <1>12, <1>14, SameObjects DEF LifecycleInv

\* The object that a call makes is of the sandbox it is bound to, and owns the run that
\* the call has booted, or none.
LEMMA MadeWell ==
    ASSUME LifecycleInv, NEW c \in Callers, call[c].todo = <<>>, call[c].op \in Gives
    PROVE  /\ Made(c) \in Objects /\ Made(c).id \in Ids
           /\ Made(c).owns => Owns(c) /\ <<Made(c).id, Made(c).run>> = Started(c)
<1>1. Proper(call[c]) /\ call[c] \in Calls
  BY DEF LifecycleInv, CallInv
<1>2. call[c].id \in Ids /\ call[c].id \in 0..MaxId
  BY <1>1, LifecycleAssumption DEF Proper, Begins, Calls, Ids
<1>3. run[call[c].id] \in 0..MaxRun /\ call[c].started \in 0..MaxRun /\ Owns(c) \in BOOLEAN
  BY <1>1, <1>2 DEF LifecycleInv, WorldInv, Calls, Owns
<1>4. CASE call[c].op \in GivesHandle
  BY <1>2, <1>4, NoObjectType DEF Made, Objects
<1>5. CASE call[c].op \notin GivesHandle
  <2> DEFINE n == IF call[c].started # 0 THEN call[c].started ELSE run[call[c].id]
  <2>1. n \in 0..MaxRun /\ (Owns(c) => n = call[c].started)
    BY <1>3 DEF Owns
  <2>2. Made(c) = [id |-> call[c].id, owns |-> Owns(c), run |-> n]
    BY <1>5 DEF Made
  <2> HIDE DEF n
  <2> QED
    BY <1>2, <1>3, <2>1, <2>2 DEF Objects, Started
<1> QED
  BY <1>4, <1>5

\* A call ends: what it owns goes to the caller's object, or to nobody, or is nobody's.
LEMMA FinishInv == ASSUME LifecycleInv, NEW c \in Callers, Finish(c) PROVE LifecycleInv'
<1>1. /\ call[c].todo = <<>> /\ call' = [call EXCEPT ![c] = NoCall]
      /\ UNCHANGED <<phase, run, signals, detached, calls>>
  BY DEF Finish
<1>2. CallInv' /\ call'[c] = NoCall /\ \A d \in Callers \ {c} : call'[d] = call[d]
  BY <1>1, NoCallProper, CallStep DEF LifecycleInv
<1>3. WorldInv' /\ Born' = Born
  BY <1>1, SameWorld DEF LifecycleInv
<1>4. NoCall.started = 0 /\ call'[c].started = 0
  BY <1>2 DEF NoCall
<1>5. /\ \A d \in Callers \ {c} : Started(d)' = Started(d) /\ Owns(d)' = Owns(d)
      /\ ~Owns(c)'
  BY <1>2, <1>4 DEF Started, Owns
<1>6. object \in [Callers -> Objects]
  BY DEF LifecycleInv, ObjectInv
<1>7. CASE /\ call[c].op \in Gives
           /\ object' = [object EXCEPT ![c] = Made(c)]
           /\ garbage' = garbage \cup Discarded(object[c])
  <2>1. /\ Made(c) \in Objects /\ Made(c).id \in Ids
        /\ Made(c).owns => Owns(c) /\ <<Made(c).id, Made(c).run>> = Started(c)
    BY <1>1, <1>7, MadeWell
  <2>2. /\ object' \in [Callers -> Objects] /\ object'[c] = Made(c)
        /\ \A d \in Callers \ {c} : object'[d] = object[d]
    BY <1>6, <1>7, <2>1
  <2>3. ObjectInv'
    BY <2>1, <2>2 DEF LifecycleInv, ObjectInv
  <2>4. garbage' = garbage \cup (IF object[c].owns THEN {Kept(c)} ELSE {})
    BY <1>7 DEF Discarded, Kept
  <2>5. /\ \A d \in Callers \ {c} : Kept(d)' = Kept(d) /\ object'[d].owns = object[d].owns
        /\ object'[c].owns => Kept(c)' = Started(c) /\ Owns(c)
    BY <2>1, <2>2 DEF Kept
  <2>6. Owns(c) => call[c].started # 0
    BY DEF Owns
  <2> HIDE DEF Owns, Kept, Started
  <2>7. /\ (garbage \subseteq Born)' /\ (detached \subseteq Born)'
        /\ (garbage \cap detached = {})'
    BY <1>1, <1>3, <2>4 DEF LifecycleInv, OwnerInv
  <2>8. ASSUME NEW d \in Callers
        PROVE  /\ (object[d].owns => Kept(d) \in Born \ (garbage \cup detached))'
               /\ (call[d].started # 0 => Started(d) \in Born \ garbage)'
               /\ (Owns(d) => Started(d) \notin detached)'
    <3>1. CASE d = c
      BY <1>1, <1>3, <1>4, <1>5, <2>4, <2>5, <2>6, <3>1 DEF LifecycleInv, OwnerInv
    <3>2. CASE d # c
      BY <1>1, <1>2, <1>3, <1>5, <2>4, <2>5, <3>2 DEF LifecycleInv, OwnerInv
    <3> QED
      BY <3>1, <3>2
  <2>9. ASSUME NEW d \in Callers, NEW e \in Callers
        PROVE  /\ (object[d].owns /\ call[e].started # 0 => Kept(d) # Started(e))'
               /\ (d # e /\ object[d].owns /\ object[e].owns => Kept(d) # Kept(e))'
               /\ (d # e /\ call[d].started # 0 /\ call[e].started # 0 => Started(d) # Started(e))'
    <3>1. (object[d].owns /\ call[e].started # 0 => Kept(d) # Started(e))'
      BY <1>2, <1>4, <1>5, <2>5, <2>6 DEF LifecycleInv, OwnerInv
    <3>2. (d # e /\ object[d].owns /\ object[e].owns => Kept(d) # Kept(e))'
      BY <2>5, <2>6 DEF LifecycleInv, OwnerInv
    <3>3. (d # e /\ call[d].started # 0 /\ call[e].started # 0 => Started(d) # Started(e))'
      BY <1>2, <1>4, <1>5 DEF LifecycleInv, OwnerInv
    <3> QED
      BY <3>1, <3>2, <3>3
  <2>10. OwnerInv'
    BY <2>7, <2>8, <2>9 DEF OwnerInv
  <2> QED
    BY <1>2, <1>3, <2>3, <2>10 DEF LifecycleInv
<1>8. CASE /\ call[c].op \in Gives /\ object' = object
           /\ garbage' = garbage \cup Discarded(Made(c))
  <2>1. Discarded(Made(c)) \subseteq IF Owns(c) THEN {Started(c)} ELSE {}
    BY <1>1, <1>8, MadeWell DEF Discarded
  <2>2. \A d \in Callers : Kept(d)' = Kept(d)
    BY <1>8 DEF Kept
  <2>3. Owns(c) => call[c].started # 0
    BY DEF Owns
  <2>4. /\ (garbage \subseteq Born)' /\ (detached \subseteq Born)'
        /\ (garbage \cap detached = {})'
    BY <1>1, <1>3, <1>8, <2>1, <2>3 DEF LifecycleInv, OwnerInv
  <2>5. ASSUME NEW d \in Callers
        PROVE  /\ (object[d].owns => Kept(d) \in Born \ (garbage \cup detached))'
               /\ (call[d].started # 0 => Started(d) \in Born \ garbage)'
               /\ (Owns(d) => Started(d) \notin detached)'
    <3>1. (object[d].owns => Kept(d) \in Born \ (garbage \cup detached))'
      BY <1>1, <1>3, <1>8, <2>1, <2>2, <2>3 DEF LifecycleInv, OwnerInv
    <3>2. (call[d].started # 0 => Started(d) \in Born \ garbage)'
      BY <1>2, <1>3, <1>4, <1>5, <1>8, <2>1, <2>3 DEF LifecycleInv, OwnerInv
    <3>3. (Owns(d) => Started(d) \notin detached)'
      BY <1>1, <1>5 DEF LifecycleInv, OwnerInv
    <3> QED
      BY <3>1, <3>2, <3>3
  <2>6. ASSUME NEW d \in Callers, NEW e \in Callers
        PROVE  /\ (object[d].owns /\ call[e].started # 0 => Kept(d) # Started(e))'
               /\ (d # e /\ object[d].owns /\ object[e].owns => Kept(d) # Kept(e))'
               /\ (d # e /\ call[d].started # 0 /\ call[e].started # 0 => Started(d) # Started(e))'
    BY <1>2, <1>4, <1>5, <1>8, <2>2 DEF LifecycleInv, OwnerInv
  <2>7. OwnerInv'
    BY <2>4, <2>5, <2>6 DEF OwnerInv
  <2> QED
    BY <1>2, <1>3, <1>8, <2>7, SameObjects DEF LifecycleInv
<1>9. CASE UNCHANGED <<object, garbage>>
  <2>1. OwnerInv'
    BY <1>1, <1>2, <1>3, <1>4, <1>9, SameOwners DEF LifecycleInv
  <2> QED
    BY <1>2, <1>3, <1>9, <2>1, SameObjects DEF LifecycleInv
<1> QED
  BY <1>7, <1>8, <1>9 DEF Finish, Gives

LEMMA LetGoInv == ASSUME LifecycleInv, NEW c \in Callers, LetGo(c) PROVE LifecycleInv'
<1>1. /\ object' = [object EXCEPT ![c] = NoObject]
      /\ garbage' = garbage \cup (IF object[c].owns THEN {Kept(c)} ELSE {})
      /\ UNCHANGED <<phase, run, signals, detached, call, calls>>
  BY DEF LetGo, Discarded, Kept
<1>2. WorldInv' /\ Born' = Born
  BY <1>1, SameWorld DEF LifecycleInv
<1>3. CallInv' /\ (\A d \in Callers : Started(d)' = Started(d) /\ Owns(d)' = Owns(d)) /\ call' = call
  BY <1>1 DEF LifecycleInv, CallInv, Started, Owns
<1>4. /\ object' \in [Callers -> Objects] /\ object'[c] = NoObject /\ ~object'[c].owns
      /\ \A d \in Callers \ {c} : object'[d] = object[d] /\ Kept(d)' = Kept(d)
  BY <1>1, NoObjectType DEF LifecycleInv, ObjectInv, Kept
<1>5. ObjectInv'
  BY <1>4 DEF LifecycleInv, ObjectInv
<1>6. /\ (garbage \subseteq Born)' /\ (detached \subseteq Born)'
      /\ (garbage \cap detached = {})'
  BY <1>1, <1>2 DEF LifecycleInv, OwnerInv
<1>7. ASSUME NEW d \in Callers
      PROVE  /\ (object[d].owns => Kept(d) \in Born \ (garbage \cup detached))'
             /\ (call[d].started # 0 => Started(d) \in Born \ garbage)'
             /\ (Owns(d) => Started(d) \notin detached)'
  BY <1>1, <1>2, <1>3, <1>4 DEF LifecycleInv, OwnerInv
<1>8. ASSUME NEW d \in Callers, NEW e \in Callers
      PROVE  /\ (object[d].owns /\ call[e].started # 0 => Kept(d) # Started(e))'
             /\ (d # e /\ object[d].owns /\ object[e].owns => Kept(d) # Kept(e))'
             /\ (d # e /\ call[d].started # 0 /\ call[e].started # 0 => Started(d) # Started(e))'
  BY <1>3, <1>4 DEF LifecycleInv, OwnerInv
<1> QED
  BY <1>2, <1>3, <1>5, <1>6, <1>7, <1>8 DEF LifecycleInv, OwnerInv

LEMMA CollectInv == ASSUME LifecycleInv, NEW g \in garbage, Collect(g) PROVE LifecycleInv'
<1>1. UNCHANGED <<phase, run, object, detached, call, calls>> /\ garbage' \subseteq garbage
  BY DEF Collect
<1>2. g[1] \in Ids
  BY DEF LifecycleInv, OwnerInv, Born
<1>3. signals' \in [Ids -> SUBSET {"term", "kill"}]
  BY <1>2 DEF Collect, LifecycleInv, WorldInv
<1>4. WorldInv' /\ Born' = Born
  BY <1>1, <1>3, NewSignals DEF LifecycleInv
<1>5. OwnerInv'
  BY <1>1, <1>4, SameOwners DEF LifecycleInv
<1> QED
  BY <1>1, <1>4, <1>5, SameObjects DEF LifecycleInv, CallInv

LEMMA EndInv == ASSUME LifecycleInv, NEW i \in Ids, Exit(i) \/ Crash(i) PROVE LifecycleInv'
<1>1. /\ UNCHANGED <<run, signals, object, garbage, detached, call, calls>>
      /\ \E p \in Down : phase' = [phase EXCEPT ![i] = p]
      /\ i \in Holders
  BY DEF Exit, Crash, Down, Alive, Holders
<1>2. WorldInv' /\ Born' = Born
  BY <1>1, NewPhase DEF LifecycleInv
<1>3. OwnerInv'
  BY <1>1, <1>2, SameOwners DEF LifecycleInv
<1> QED
  BY <1>1, <1>2, <1>3, SameObjects DEF LifecycleInv, CallInv

LEMMA LifecycleInitInv == LifecycleInit => LifecycleInv
<1> SUFFICES ASSUME LifecycleInit PROVE LifecycleInv
  OBVIOUS
<1>1. WorldInv
  BY LifecycleAssumption DEF LifecycleInit, WorldInv, Holders
<1>2. CallInv
  <2>1. NoCall \in Calls
    BY NoCallProper DEF Proper
  <2> QED
    BY <2>1, NoCallProper DEF LifecycleInit, CallInv
<1>3. ObjectInv
  BY NoObjectType DEF LifecycleInit, ObjectInv
<1>4. OwnerInv
  <2>1. \A c \in Callers : object[c].owns = FALSE /\ call[c].started = 0
    BY NoObjectType DEF LifecycleInit, NoCall
  <2> QED
    BY <2>1 DEF LifecycleInit, OwnerInv, Owns
<1> QED
  BY <1>1, <1>2, <1>3, <1>4 DEF LifecycleInv

LEMMA LifecycleNextInv == LifecycleInv /\ [LifecycleNext]_lifecycleVars => LifecycleInv'
<1> SUFFICES ASSUME LifecycleInv, [LifecycleNext]_lifecycleVars PROVE LifecycleInv'
  OBVIOUS
<1>1. ASSUME NEW c \in Callers, CallByName(c) \/ CallOnObject(c) PROVE LifecycleInv'
  BY <1>1, CallByNameInv, CallOnObjectInv
<1>2. ASSUME NEW c \in Callers, Step(c) PROVE LifecycleInv'
  BY <1>2, ClaimInv, FindInv, ConvergeInv, BootInv, ReadyInv, SignalInv, WaitInv,
     RemoveRecordInv, DetachInv, LeaveUnlessOwnedInv, FinishInv DEF Step
<1>3. ASSUME NEW c \in Callers, Escalate(c) \/ Yield(c) \/ LetGo(c) PROVE LifecycleInv'
  BY <1>3, EscalateInv, YieldInv, LetGoInv
<1>4. CASE \E g \in garbage : Collect(g)
  BY <1>4, CollectInv
<1>5. CASE \E i \in Ids : Exit(i) \/ Crash(i)
  BY <1>5, EndInv
<1>6. CASE UNCHANGED lifecycleVars
  <2>1. UNCHANGED <<phase, run, signals, object, garbage, detached, call>>
    BY <1>6 DEF lifecycleVars
  <2>2. WorldInv' /\ Born' = Born
    BY <2>1, SameWorld DEF LifecycleInv
  <2>3. OwnerInv'
    BY <2>1, <2>2, SameOwners DEF LifecycleInv
  <2> QED
    BY <2>1, <2>2, <2>3, SameObjects DEF LifecycleInv, CallInv
<1> QED
  BY <1>1, <1>2, <1>3, <1>4, <1>5, <1>6 DEF LifecycleNext

\* The inductive invariant of the sandboxes of one name: every call follows a plan, is
\* bound when the plan needs it to be, and every run has one owner at most
\* (owns_lifecycle in sandbox.rs).
THEOREM LifecycleInvariant == LifecycleSpec => []LifecycleInv
<1> QED
  BY LifecycleInitInv, LifecycleNextInv, PTL DEF LifecycleSpec

\* The state keeps its type, and one sandbox at most has the name, for any number of
\* callers, identities, runs and calls.
THEOREM LifecycleTypeCorrect == LifecycleSpec => []LifecycleTypeOK
<1>1. LifecycleInv => LifecycleTypeOK
  <2> SUFFICES ASSUME LifecycleInv PROVE LifecycleTypeOK
    OBVIOUS
  <2>1. \A c \in Callers : object[c].id \in 0..MaxId /\ object[c].run \in 0..MaxRun
    BY DEF LifecycleInv, ObjectInv, Objects
  <2>2. \A c \in Callers : /\ call[c].id \in 0..MaxId
                           /\ {call[c].from, call[c].started} \subseteq 0..MaxRun
    BY DEF LifecycleInv, CallInv, Calls
  <2>3. garbage \subseteq Ids \X (1..MaxRun) /\ detached \subseteq Ids \X (1..MaxRun)
    BY DEF LifecycleInv, OwnerInv, Born
  <2>4. Cardinality(Holders) <= 1
    <3>1. CASE Holders = {}
      BY <3>1, FS_EmptySet
    <3>2. ASSUME NEW i \in Holders PROVE Cardinality(Holders) = 1
      <4>1. Holders = {i}
        BY <3>2 DEF LifecycleInv, WorldInv
      <4> QED
        BY <4>1, FS_Singleton
    <3> QED
      BY <3>1, <3>2
  <2> QED
    BY <2>1, <2>2, <2>3, <2>4 DEF LifecycleInv, WorldInv, LifecycleTypeOK
<1> QED
  BY LifecycleInvariant, <1>1, PTL

--------------------------------------------------------------------------------
(* What steps leave alone.                                                 *)

\* A sandbox that a step of c leaves as it is, unless c is bound to it.
Spared(c) == \A i \in Ids \ {call[c].id} : phase'[i] = phase[i] /\ signals'[i] = signals[i]

LEMMA EscalateSpares == ASSUME LifecycleInv, NEW c \in Callers, Escalate(c) PROVE Spared(c)
<1>1. phase' = phase /\ signals' = [signals EXCEPT ![call[c].id] = @ \cup {"kill"}]
  BY DEF Escalate, Target
<1> QED
  BY <1>1 DEF Spared, LifecycleInv, WorldInv

\* The steps of a call are its own.
LEMMA OneCaller ==
    ASSUME LifecycleInv, NEW c \in Callers, NEW d \in Callers \ {c},
           \/ CallByName(c) \/ CallOnObject(c) \/ Step(c) \/ Escalate(c) \/ Yield(c) \/ LetGo(c)
    PROVE  call'[d] = call[d]
<1>1. call \in [Callers -> Calls]
  BY DEF LifecycleInv, CallInv
<1>2. CASE CallByName(c) \/ CallOnObject(c)
  BY <1>1, <1>2 DEF CallByName, CallOnObject, Begin
<1>3. CASE Claim(c) \/ Converge(c) \/ Boot(c)
  BY <1>1, <1>3 DEF Claim, Converge, Boot, Boots, Fails
<1>4. CASE Find(c) \/ Ready(c) \/ Signal(c)
  BY <1>1, <1>4 DEF Find, Ready, Signal, Goes, Fails
<1>5. CASE Wait(c) \/ RemoveRecord(c) \/ Detach(c) \/ LeaveUnlessOwned(c)
  BY <1>1, <1>5 DEF Wait, RemoveRecord, Detach, LeaveUnlessOwned, Goes, Fails
<1>6. CASE Finish(c) \/ Escalate(c) \/ Yield(c) \/ LetGo(c)
  BY <1>1, <1>6 DEF Finish, Escalate, Yield, LetGo
<1> QED
  BY <1>2, <1>3, <1>4, <1>5, <1>6 DEF Step

\* A call that is bound to a sandbox spares the others.
LEMMA BoundSpares ==
    ASSUME LifecycleInv, NEW c \in Callers, call[c].id # 0,
           \/ CallByName(c) \/ CallOnObject(c) \/ Step(c) \/ Escalate(c) \/ Yield(c) \/ LetGo(c)
    PROVE  Spared(c)
<1> USE DEF Spared, Target
<1>1. phase \in [Ids -> {"unborn", "starting", "running", "draining", "removed"} \cup Down]
  BY DEF LifecycleInv, WorldInv
<1>2. signals \in [Ids -> SUBSET {"term", "kill"}]
  BY DEF LifecycleInv, WorldInv
<1>3. CASE CallByName(c) \/ CallOnObject(c) \/ Yield(c) \/ LetGo(c)
  BY <1>3 DEF CallByName, CallOnObject, Begin, Yield, LetGo
<1>4. CASE Claim(c)
  BY <1>4, Bound DEF Claim, At, Naming
<1>5. CASE Find(c) \/ Wait(c) \/ Detach(c) \/ LeaveUnlessOwned(c) \/ Finish(c)
  BY <1>5 DEF Find, Wait, Detach, LeaveUnlessOwned, Finish, Fails
<1>6. CASE Converge(c)
  BY <1>1, <1>2, <1>6 DEF Converge, Boots, Fails
<1>7. CASE Boot(c)
  BY <1>1, <1>2, <1>7, Bound DEF Boot, At, Naming, Boots, Fails
<1>8. CASE Ready(c)
  BY <1>1, <1>8 DEF Ready, Fails
<1>9. CASE Signal(c)
  BY <1>1, <1>2, <1>9 DEF Signal, Fails
<1>10. CASE RemoveRecord(c)
  BY <1>1, <1>10, Bound DEF RemoveRecord, At, Naming, Fails
<1>11. CASE Escalate(c)
  BY <1>11, EscalateSpares
<1> QED
  BY <1>3, <1>4, <1>5, <1>6, <1>7, <1>8, <1>9, <1>10, <1>11 DEF Step

\* A call that is bound to a sandbox changes no other one (the methods of Sandbox and
\* SandboxHandle go through their own sandbox, not through its name).
THEOREM OwnIdentitySound == LifecycleSpec => OwnIdentityOnly
<1> DEFINE Own ==
      \A c \in Callers : (call[c].id # 0 /\ (call'[c] # call[c] \/ Escalate(c))) =>
          \A i \in Ids \ {call[c].id} : phase'[i] = phase[i] /\ signals'[i] = signals[i]
<1>1. ASSUME LifecycleInv, [LifecycleNext]_lifecycleVars PROVE [Own]_lifecycleVars
  <2> SUFFICES ASSUME NEW c \in Callers, call[c].id # 0, call'[c] # call[c],
                      lifecycleVars' # lifecycleVars
               PROVE  Spared(c)
    BY <1>1, EscalateSpares DEF Spared
  <2>1. CASE \E d \in Callers : \/ CallByName(d) \/ CallOnObject(d) \/ Step(d)
                                \/ Escalate(d) \/ Yield(d) \/ LetGo(d)
    <3>1. PICK d \in Callers : \/ CallByName(d) \/ CallOnObject(d) \/ Step(d)
                               \/ Escalate(d) \/ Yield(d) \/ LetGo(d)
      BY <2>1
    <3>2. d = c
      BY <1>1, <3>1, OneCaller
    <3> QED
      BY <1>1, <3>1, <3>2, BoundSpares
  <2>2. CASE (\E g \in garbage : Collect(g)) \/ (\E i \in Ids : Exit(i) \/ Crash(i))
    BY <2>2 DEF Collect, Exit, Crash
  <2> QED
    BY <1>1, <2>1, <2>2 DEF LifecycleNext
<1> HIDE DEF Own
<1>2. LifecycleInv /\ [LifecycleNext]_lifecycleVars => [Own]_lifecycleVars
  BY <1>1
<1>3. LifecycleSpec => [][Own]_lifecycleVars
  BY LifecycleInvariant, <1>2, PTL DEF LifecycleSpec
<1> QED
  BY <1>3 DEF OwnIdentityOnly, Own

\* A signal is asked for, by a call on that sandbox that may send it.
LEMMA SignalAsked ==
    ASSUME LifecycleInv, NEW c \in Callers, NEW i \in Ids, signals'[i] # signals[i],
           Signal(c) \/ Escalate(c)
    PROVE  call[c].id = i /\ (call[c].op = "connect_or_create_block" => Owns(c))
<1>1. call[c].todo # <<>> /\ Head(call[c].todo) \in {"term", "kill", "drain", "fall"}
  BY DEF Signal, Escalate, At
<1>2. signals \in [Ids -> SUBSET {"term", "kill"}]
  BY DEF LifecycleInv, WorldInv
<1>3. Head(call[c].todo) # "drain" /\ call[c].id = i
  BY <1>1, <1>2 DEF Signal, Escalate, At, Target, Fails
<1> QED
  BY <1>1, <1>3, Bound

\* Nobody's sandbox is stopped without somebody asking for it (the end of the block of
\* connect_or_create, and the safety net of an object that owns its run).
THEOREM UnaskedStopsSound == LifecycleSpec => UnaskedStops
<1> DEFINE Asked ==
      \A i \in Ids : (signals'[i] # signals[i] /\ signals'[i] # {}) =>
          \/ <<i, run[i]>> \in garbage \ detached
          \/ \E c \in Callers :
                /\ call[c].id = i
                /\ call[c].op = "connect_or_create_block" => Owns(c)
<1>1. ASSUME LifecycleInv, [LifecycleNext]_lifecycleVars PROVE [Asked]_lifecycleVars
  <2> SUFFICES ASSUME NEW i \in Ids, signals'[i] # signals[i], signals'[i] # {},
                      lifecycleVars' # lifecycleVars
               PROVE  \/ <<i, run[i]>> \in garbage \ detached
                      \/ \E c \in Callers :
                            /\ call[c].id = i
                            /\ call[c].op = "connect_or_create_block" => Owns(c)
    BY <1>1
  <2>1. signals \in [Ids -> SUBSET {"term", "kill"}]
    BY <1>1 DEF LifecycleInv, WorldInv
  <2>2. ASSUME NEW c \in Callers, Signal(c) \/ Escalate(c)
        PROVE  call[c].id = i /\ (call[c].op = "connect_or_create_block" => Owns(c))
    BY <1>1, <2>2, SignalAsked
  <2>3. ASSUME NEW c \in Callers, Claim(c) \/ Converge(c) \/ Boot(c) PROVE FALSE
    <3>1. \/ signals' = signals
          \/ \E j \in Ids : signals' = [signals EXCEPT ![j] = {}]
          \/ \E j : signals' = [signals EXCEPT ![j] = {}]
      BY <2>3 DEF Claim, Converge, Boot, Boots, Fails
    <3> QED
      BY <2>1, <3>1
  <2>4. ASSUME NEW c \in Callers,
               \/ CallByName(c) \/ CallOnObject(c) \/ Find(c) \/ Ready(c) \/ Wait(c) \/ RemoveRecord(c)
               \/ Detach(c) \/ LeaveUnlessOwned(c) \/ Finish(c) \/ Yield(c) \/ LetGo(c)
        PROVE  FALSE
    BY <2>4
       DEF CallByName, CallOnObject, Begin, Find, Ready, Wait, RemoveRecord, Detach,
           LeaveUnlessOwned, Finish, Yield, LetGo, Fails
  <2>5. ASSUME NEW g \in garbage, Collect(g) PROVE <<i, run[i]>> \in garbage \ detached
    <3>1. g[1] = i /\ run[g[1]] = g[2]
      BY <2>1, <2>5 DEF Collect
    <3>2. g \in Ids \X (1..MaxRun) /\ g \notin detached
      BY <1>1 DEF LifecycleInv, OwnerInv, Born
    <3>3. g = <<g[1], g[2]>>
      BY <3>2
    <3> QED
      BY <3>1, <3>2, <3>3
  <2>6. ~(\E j \in Ids : Exit(j) \/ Crash(j))
    BY DEF Exit, Crash
  <2> QED
    BY <1>1, <2>2, <2>3, <2>4, <2>5, <2>6 DEF LifecycleNext, Step
<1> HIDE DEF Asked
<1>2. LifecycleInv /\ [LifecycleNext]_lifecycleVars => [Asked]_lifecycleVars
  BY <1>1
<1>3. LifecycleSpec => [][Asked]_lifecycleVars
  BY LifecycleInvariant, <1>2, PTL DEF LifecycleSpec
<1> QED
  BY <1>3 DEF UnaskedStops, Asked
===============================================================================
