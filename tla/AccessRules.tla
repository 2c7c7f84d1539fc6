----------------------------- MODULE AccessRules -----------------------------
(***************************************************************************)
(* The access_control rules generated from Ingress annotations: which      *)
(* annotations yield a rule, the domains a rule gets, and the order of the *)
(* generated list, in which Authelia takes the first match.                *)
(*                                                                         *)
(* The cache lists Ingresses in no particular order, so every reconcile    *)
(* collects them in an order of its own.                                   *)
(*                                                                         *)
(* Data abstraction.  Hosts, Ingress names (namespace/name) and annotation *)
(* keys are numbers in the order of the strings; host 0 is the empty host. *)
(* A sort key is one string, "host/namespace/name/annotation"; here it is  *)
(* the triple, and KeyOrder is the order of the strings.  That need not be *)
(* the order of the triples: "app.example.com/..." is before "app/...".    *)
(* A resource pattern is its length, and the pattern n matches the paths   *)
(* of length n and more.  The other fields of a rule pass through and are  *)
(* left out.                                                               *)
(***************************************************************************)
EXTENDS Integers, SequencesExt, FiniteSetsExt

CONSTANTS
    Names,           \* names of Ingresses
    HostLists,       \* the hosts of an Ingress: rule hosts, then TLS hosts
    WildcardHosts,   \* the hosts that begin with "*"
    RuleKeys,        \* the "heliop/rule" and "heliop/rule-..." annotation keys
    Values,          \* annotation values: [parses, policy, resources]
    Paths,           \* lengths of request paths
    KeyOrder         \* the pairs <<k, l>> of sort keys with k before l

ASSUME HostsAssumption ==
    HostLists \subseteq Seq(Nat) /\ WildcardHosts \subseteq Nat \ {0}
ASSUME ValuesAssumption ==
    \A v \in Values : /\ v.parses \in BOOLEAN
                      /\ v.resources \subseteq Nat /\ IsFiniteSet(v.resources)
ASSUME NamesAssumption ==
    /\ Names \subseteq Nat /\ IsFiniteSet(Names)
    /\ RuleKeys \subseteq Nat /\ IsFiniteSet(RuleKeys)

\* The sort keys there are.  Different keys are different strings, as no host,
\* namespace or name has a slash in it.
Hosts == (UNION {ToSet(h) : h \in HostLists}) \ {0}
Keys  == Hosts \X Names \X RuleKeys

ASSUME KeyOrderAssumption ==
    /\ \A k \in Keys : <<k, k>> \notin KeyOrder
    /\ \A k, l \in Keys : k # l => <<k, l>> \in KeyOrder \/ <<l, k>> \in KeyOrder
    /\ \A k, l, m \in Keys :
           <<k, l>> \in KeyOrder /\ <<l, m>> \in KeyOrder => <<k, m>> \in KeyOrder

\* An Ingress: its hosts and the rule annotations it has.
Ingress == [hosts : HostLists,
            annotations : UNION {[K -> Values] : K \in SUBSET RuleKeys}]

VARIABLES
    ingresses,  \* ingresses[i]: the Ingress i; a name without one is not in it
    rules,      \* the list the last reconcile generated
    collected   \* whether there was one

vars == <<ingresses, rules, collected>>

-----------------------------------------------------------------------------

ValidPolicies == {"bypass", "one_factor", "two_factor", "deny"}

\* ingressDomains: the non-empty hosts, once each.  They are sorted: the first
\* of the list is the least of the set.
IngressDomains(hosts) == ToSet(hosts) \ {0}

\* resourceLen: the longest resource pattern, 0 when there is none.
ResourceLen(v) == Max(v.resources \cup {0})

\* An annotation yields a rule if it parses and its policy is known.
Valid(v) == v.parses /\ v.policy \in ValidPolicies

\* sort.Strings
Ascending(S) ==
    [p \in 1..Cardinality(S) |-> CHOOSE x \in S : Cardinality({y \in S : y < x}) = p - 1]

\* Mutant of UsableKeys: an invalid annotation ends the loop.
KeysUpToInvalid(ing) ==
    Ascending({k \in DOMAIN ing.annotations :
        \A j \in DOMAIN ing.annotations : j <= k => Valid(ing.annotations[j])})

\* The keys of the annotations that yield a rule.
UsableKeys(ing) ==
    Ascending({k \in DOMAIN ing.annotations : Valid(ing.annotations[k])})

\* ingressAccessRules: no domains, no rules.  The domains are the Ingress hosts
\* whatever the annotation says.
IngressAccessRules(i, ing) ==
    LET domains == IngressDomains(ing.hosts)
        keys == UsableKeys(ing)
    IN  IF domains = {} THEN <<>>
        ELSE [n \in DOMAIN keys |->
                [resourceLen |-> ResourceLen(ing.annotations[keys[n]]),
                 wildcard |-> \E d \in domains : d \in WildcardHosts,
                 key      |-> <<Min(domains), i, keys[n]>>,
                 domains  |-> domains,
                 value    |-> ing.annotations[keys[n]]]]

\* The comparison of two keys as strings.
KeyLess(k, l) == <<k, l>> \in KeyOrder

\* Mutants of Less: no key to break a tie; wildcards before exact hosts.
LessWithoutKey(a, b) ==
    IF a.resourceLen # b.resourceLen THEN a.resourceLen > b.resourceLen
    ELSE b.wildcard /\ ~a.wildcard
LessWildcardFirst(a, b) ==
    IF a.resourceLen # b.resourceLen THEN a.resourceLen > b.resourceLen
    ELSE IF a.wildcard # b.wildcard THEN a.wildcard
    ELSE KeyLess(a.key, b.key)

\* The comparison of sortAccessRules.
Less(a, b) ==
    IF a.resourceLen # b.resourceLen THEN a.resourceLen > b.resourceLen
    ELSE IF a.wildcard # b.wildcard THEN ~a.wildcard
    ELSE KeyLess(a.key, b.key)

\* sort.SliceStable: an element goes after the smaller ones, and after those
\* that compare equal and stood before it.
SortAccessRules(s) ==
    LET Rank(n) == 1 + Cardinality({m \in DOMAIN s :
                           Less(s[m], s[n]) \/ (m < n /\ ~Less(s[n], s[m]))})
    IN  [p \in DOMAIN s |-> s[CHOOSE n \in DOMAIN s : Rank(n) = p]]

\* collectIngressRules, for the order in which the cache listed the names.
CollectIngressRules(order) ==
    SortAccessRules(FlattenSeq(
        [n \in DOMAIN order |-> IngressAccessRules(order[n], ingresses[order[n]])]))

-----------------------------------------------------------------------------
Init ==
    /\ ingresses \in UNION {[N -> Ingress] : N \in SUBSET Names}
    /\ rules = <<>> /\ collected = FALSE

Collect ==
    /\ \E order \in SetToSeqs(DOMAIN ingresses) : rules' = CollectIngressRules(order)
    /\ collected' = TRUE
    /\ UNCHANGED ingresses

Next == Collect

Spec == Init /\ [][Next]_vars

-----------------------------------------------------------------------------
(* Properties. *)

\* The generated list depends on the Ingresses only, not on the order in which
\* they were listed: a later reconcile over the same Ingresses generates the
\* same list, and so the same configuration and checksum.
Deterministic == [][collected => UNCHANGED rules]_vars

\* An invalid annotation is skipped and takes no other with it: every valid
\* annotation of an Ingress with a host has exactly one rule in the list.
NoRuleLost ==
    collected =>
        \A i \in DOMAIN ingresses : \A k \in DOMAIN ingresses[i].annotations :
            LET positions == {n \in DOMAIN rules :
                                rules[n].key[2] = i /\ rules[n].key[3] = k}
                usable == /\ Valid(ingresses[i].annotations[k])
                          /\ ToSet(ingresses[i].hosts) # {0}
                          /\ ingresses[i].hosts # <<>>
            IN  Cardinality(positions) = IF usable THEN 1 ELSE 0

\* A request for a host and a path, and the rules that match it.
Requests == (Hosts \ WildcardHosts) \X Paths
Matches(r, q) ==
    /\ q[1] \in r.domains \/ r.domains \cap WildcardHosts # {}
    /\ r.value.resources = {} \/ \E len \in r.value.resources : len <= q[2]
NamesHost(r, q) == q[1] \in r.domains

\* "The most specific match first (Authelia is first-match-wins): longer
\* resource patterns, then exact hosts before wildcards": the first rule that
\* matches a request has the longest pattern of those that do, and among these
\* it names the host of the request if one of them does.
MostSpecificFirst ==
    \A q \in Requests : \A n \in DOMAIN rules :
        LET first == rules[n]
        IN  Matches(first, q) /\ (\A m \in 1..(n - 1) : ~Matches(rules[m], q)) =>
              \A m \in DOMAIN rules : Matches(rules[m], q) =>
                /\ rules[m].resourceLen <= first.resourceLen
                /\ rules[m].resourceLen = first.resourceLen /\ NamesHost(rules[m], q)
                     => NamesHost(first, q)
=============================================================================
