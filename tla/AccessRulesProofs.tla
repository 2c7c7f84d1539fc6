-------------------------- MODULE AccessRulesProofs --------------------------
(***************************************************************************)
(* Proofs about the generated access_control rules, for any Ingresses, any *)
(* annotations and any order in which they are listed.                     *)
(***************************************************************************)
EXTENDS AccessRules, DataProofs, TLAPS

\* sort.Strings keeps the elements, each once.
LEMMA AscendingIs ==
    ASSUME NEW S, S \subseteq Nat, IsFiniteSet(S)
    PROVE  Ascending(S) \in Seq(S) /\ ToSet(Ascending(S)) = S /\ IsInjective(Ascending(S))
  <1> DEFINE f(x) == Rank(Below, S, x)
             n == Cardinality(S)
             a == Ascending(S)
  <1>1. /\ n \in Nat /\ \A x \in S : f(x) \in 1..n
        /\ \A x, y \in S : f(x) = f(y) => x = y
        /\ \A p \in 1..n : \E x \in S : f(x) = p
    BY BelowOrders, Ranks
  <1>2. ASSUME NEW x \in S PROVE Cardinality({y \in S : y < x}) = f(x) - 1
    <2>1. {y \in S : y < x} = Before(Below, S, x)
      BY BelowOrders DEF Before
    <2>2. IsFiniteSet(Before(Below, S, x))
      <3>1. Before(Below, S, x) \subseteq S
        BY DEF Before
      <3> QED
        BY <3>1, FS_Subset
    <2>3. Cardinality(Before(Below, S, x)) \in Nat
      BY <2>2, FS_CardinalityType
    <2> QED
      BY <2>1, <2>3 DEF Rank
  <1>3. a = [p \in 1..n |-> CHOOSE x \in S : Cardinality({y \in S : y < x}) = p - 1]
    BY DEF Ascending
  <1> HIDE DEF f, n, a
  <1>4. \A x \in S : f(x) \in 1..n /\ f(x) \in Nat
    BY <1>1
  <1>5. ASSUME NEW p \in 1..n PROVE a[p] \in S /\ f(a[p]) = p
    <2>1. PICK x \in S : f(x) = p
      BY <1>1
    <2>2. Cardinality({y \in S : y < x}) = p - 1
      BY <1>2, <2>1
    <2>3. a[p] \in S /\ Cardinality({y \in S : y < a[p]}) = p - 1
      <3> DEFINE C(z) == Cardinality({y \in S : y < z})
      <3>1. a[p] = CHOOSE z \in S : C(z) = p - 1
        BY <1>3
      <3>2. C(x) = p - 1
        BY <2>2
      <3> HIDE DEF C
      <3>3. a[p] \in S /\ C(a[p]) = p - 1
        BY <3>1, <3>2
      <3> QED
        BY <3>3 DEF C
    <2> QED
      <3>1. f(a[p]) - 1 = p - 1 /\ f(a[p]) \in Nat /\ p \in Nat
        <4>1. Cardinality({y \in S : y < a[p]}) = f(a[p]) - 1
          BY <2>3, <1>2
        <4>2. f(a[p]) \in Nat
          BY <2>3, <1>4
        <4>3. p \in Nat
          BY <1>1
        <4> HIDE DEF f
        <4> QED
          BY <2>3, <4>1, <4>2, <4>3
      <3> QED
        BY <2>3, <3>1
  <1>6. a \in [1..n -> S]
    BY <1>3, <1>5
  <1>7. IsInjective(a)
    BY <1>5, <1>6 DEF IsInjective
  <1>8. \A x \in S : \E p \in 1..n : a[p] = x
    <2> TAKE x \in S
    <2>1. f(x) \in 1..n /\ a[f(x)] \in S /\ f(a[f(x)]) = f(x)
      BY <1>4, <1>5
    <2>2. a[f(x)] = x
      BY <2>1, <1>1
    <2> QED
      BY <2>1, <2>2
  <1>9. a \in Seq(S) /\ ToSet(a) = S
    <2>1. a \in Seq(S) /\ DOMAIN a = 1..n
      BY <1>1, <1>6
    <2> QED
      BY <2>1, <1>6, <1>8 DEF ToSet
  <1> QED
    BY <1>7, <1>9 DEF a


-----------------------------------------------------------------------------
(* The rules of one Ingress. *)

Usable(ing) == {k \in DOMAIN ing.annotations : Valid(ing.annotations[k])}

\* The rule of the annotation k of an Ingress.
RuleOf(i, ing, k) ==
    [resourceLen |-> ResourceLen(ing.annotations[k]),
     wildcard |-> \E d \in IngressDomains(ing.hosts) : d \in WildcardHosts,
     key      |-> <<Min(IngressDomains(ing.hosts)), i, k>>,
     domains  |-> IngressDomains(ing.hosts),
     value    |-> ing.annotations[k]]

\* The rules of an Ingress, of which there are none without a host.
RulesOf(i, ing) ==
    {RuleOf(i, ing, k) : k \in {x \in Usable(ing) : IngressDomains(ing.hosts) # {}}}

\* What is known of an Ingress.
LEMMA IngressIs ==
    ASSUME NEW ing \in Ingress
    PROVE  /\ ing.hosts \in HostLists /\ ing.hosts \in Seq(Nat)
           /\ IngressDomains(ing.hosts) \subseteq Nat \ {0}
           /\ IngressDomains(ing.hosts) \subseteq Hosts
           /\ Usable(ing) \subseteq RuleKeys /\ Usable(ing) \subseteq Nat
           /\ IsFiniteSet(Usable(ing))
           /\ \A k \in Usable(ing) : ing.annotations[k] \in Values
  <1>1. ing.hosts \in HostLists /\ ing.hosts \in Seq(Nat)
    BY HostsAssumption DEF Ingress
  <1>2. PICK K \in SUBSET RuleKeys : ing.annotations \in [K -> Values]
    BY DEF Ingress
  <1>3. IngressDomains(ing.hosts) \subseteq Nat \ {0}
    BY <1>1 DEF IngressDomains, ToSet
  <1>4. /\ Usable(ing) \subseteq RuleKeys
        /\ \A k \in Usable(ing) : ing.annotations[k] \in Values
    BY <1>2 DEF Usable
  <1>5. IsFiniteSet(Usable(ing)) /\ Usable(ing) \subseteq Nat
    BY <1>4, NamesAssumption, FS_Subset
  <1>6. IngressDomains(ing.hosts) \subseteq Hosts
    BY <1>1 DEF IngressDomains, Hosts
  <1> QED
    BY <1>1, <1>3, <1>4, <1>5, <1>6

\* The key of a rule tells its Ingress and its annotation.
LEMMA RuleKey ==
    \A i, ing, k : RuleOf(i, ing, k).key[2] = i /\ RuleOf(i, ing, k).key[3] = k
  <1>1. \A i, ing, k : RuleOf(i, ing, k).key = <<Min(IngressDomains(ing.hosts)), i, k>>
    BY DEF RuleOf
  <1> QED
    BY <1>1

\* The fields of a rule.
RuleFields(r, i, ing, k) ==
    /\ r.resourceLen \in Nat /\ r.wildcard \in BOOLEAN
    /\ r.key = <<r.key[1], i, k>> /\ r.key[1] \in Hosts
    /\ r.key[2] = i /\ r.key[3] = k
    /\ r.domains = IngressDomains(ing.hosts)
    /\ r.wildcard = (IngressDomains(ing.hosts) \cap WildcardHosts # {})

\* Every rule has them.
LEMMA RuleIs ==
    ASSUME NEW i, NEW ing \in Ingress, NEW k \in Usable(ing),
           IngressDomains(ing.hosts) # {}, NEW r, r = RuleOf(i, ing, k)
    PROVE  RuleFields(r, i, ing, k)
  <1> DEFINE D == IngressDomains(ing.hosts)
             v == ing.annotations[k]
  <1>1. /\ r.resourceLen = ResourceLen(v) /\ r.key = <<Min(D), i, k>>
        /\ r.domains = D /\ r.wildcard = (\E d \in D : d \in WildcardHosts)
    BY DEF RuleOf
  <1>2. Min(D) \in Hosts
    <2>1. D \subseteq Nat /\ D \subseteq Hosts
      BY IngressIs
    <2> HIDE DEF D
    <2>2. \E x \in D : \A y \in D : x <= y
      BY <2>1, Least DEF D
    <2> QED
      BY <2>1, <2>2 DEF Min
  <1>3. ResourceLen(v) \in Nat
    <2> DEFINE T == v.resources \cup {0}
    <2>1. v \in Values
      BY IngressIs
    <2>2. v.resources \subseteq Nat /\ IsFiniteSet(v.resources)
      BY <2>1, ValuesAssumption
    <2>3. T \subseteq Nat /\ T # {} /\ IsFiniteSet(T)
      BY <2>2, FS_AddElement
    <2> HIDE DEF T
    <2>4. Max(T) \in T
      BY <2>3, FiniteMax
    <2> QED
      BY <2>3, <2>4 DEF ResourceLen, T
  <1>6. r.wildcard = (D \cap WildcardHosts # {})
    <2>1. (\E d \in D : d \in WildcardHosts) <=> (D \cap WildcardHosts # {})
      OBVIOUS
    <2> QED
      BY <1>1, <2>1
  <1> HIDE DEF D, v
  <1>4. /\ r.key[1] = Min(D) /\ r.key[2] = i /\ r.key[3] = k
    BY <1>1
  <1>5. r.key = <<r.key[1], i, k>>
    BY <1>1, <1>4
  <1> QED
    BY <1>1, <1>2, <1>3, <1>4, <1>5, <1>6 DEF D, RuleFields

\* ingressAccessRules lists the rules of the Ingress, each once.
LEMMA IngressRulesAre ==
    ASSUME NEW i, NEW ing \in Ingress, NEW s, s = IngressAccessRules(i, ing)
    PROVE  s \in Seq(RulesOf(i, ing)) /\ ToSet(s) = RulesOf(i, ing) /\ IsInjective(s)
  <1> DEFINE D == IngressDomains(ing.hosts)
             keys == UsableKeys(ing)
  <1>1. keys \in Seq(Usable(ing)) /\ ToSet(keys) = Usable(ing) /\ IsInjective(keys)
    BY IngressIs, AscendingIs DEF UsableKeys, Usable
  <1>2. CASE D = {}
    <2>1. s = <<>> /\ RulesOf(i, ing) = {}
      BY <1>2 DEF IngressAccessRules, RulesOf
    <2> QED
      BY <2>1 DEF ToSet, IsInjective
  <1>3. CASE D # {}
    <2>1. s = [n \in DOMAIN keys |-> RuleOf(i, ing, keys[n])]
      BY <1>3 DEF IngressAccessRules, RuleOf
    <2>2. RulesOf(i, ing) = {RuleOf(i, ing, k) : k \in Usable(ing)}
      BY <1>3 DEF RulesOf
    <2> HIDE DEF keys
    <2>3. /\ DOMAIN keys = 1..Len(keys) /\ Len(keys) \in Nat
          /\ \A n \in 1..Len(keys) : keys[n] \in Usable(ing)
      BY <1>1
    <2>4. \A n \in 1..Len(keys) : RuleOf(i, ing, keys[n]) \in RulesOf(i, ing)
      BY <2>2, <2>3
    <2>5. s \in Seq(RulesOf(i, ing)) /\ DOMAIN s = 1..Len(keys)
      BY <2>1, <2>3, <2>4
    <2>6. ToSet(s) = RulesOf(i, ing)
      BY <1>1, <2>1, <2>2, <2>3, <2>4, <2>5 DEF ToSet
    <2>7. \A n \in 1..Len(keys) : s[n].key[3] = keys[n]
      <3> TAKE n \in 1..Len(keys)
      <3>1. s[n] = RuleOf(i, ing, keys[n]) /\ keys[n] \in Usable(ing)
        BY <2>1, <2>3
      <3> QED
        BY <3>1, RuleKey
    <2>8. IsInjective(s)
      BY <1>1, <2>3, <2>5, <2>7 DEF IsInjective
    <2> QED
      BY <2>5, <2>6, <2>8
  <1> QED
    BY <1>2, <1>3


-----------------------------------------------------------------------------
(* The rules of all Ingresses. *)

\* Ingresses with names.
IsIngresses(ings) == DOMAIN ings \subseteq Names /\ \A i \in DOMAIN ings : ings[i] \in Ingress

AllRules(ings) == UNION {RulesOf(i, ings[i]) : i \in DOMAIN ings}

\* Every rule comes from one annotation of one Ingress, and its key tells which.
LEMMA AllRulesAre ==
    ASSUME NEW ings, IsIngresses(ings), NEW r \in AllRules(ings)
    PROVE  \E i \in DOMAIN ings : \E k \in Usable(ings[i]) :
              /\ r = RuleOf(i, ings[i], k) /\ IngressDomains(ings[i].hosts) # {}
              /\ ings[i] \in Ingress
              /\ r.key[2] = i /\ r.key[3] = k /\ r.key \in Keys
              /\ r.resourceLen \in Nat /\ r.wildcard \in BOOLEAN
  <1>1. PICK i \in DOMAIN ings : r \in RulesOf(i, ings[i])
    BY DEF AllRules
  <1>2. PICK k \in Usable(ings[i]) :
           r = RuleOf(i, ings[i], k) /\ IngressDomains(ings[i].hosts) # {}
    BY <1>1 DEF RulesOf
  <1>3. ings[i] \in Ingress /\ i \in Names
    BY DEF IsIngresses
  <1>4. k \in RuleKeys
    BY <1>3, IngressIs
  <1>5. RuleFields(r, i, ings[i], k)
    BY <1>2, <1>3, RuleIs
  <1>6. /\ r.key[2] = i /\ r.key[3] = k
        /\ r.key = <<r.key[1], i, k>> /\ r.key[1] \in Hosts
        /\ r.resourceLen \in Nat /\ r.wildcard \in BOOLEAN
    BY <1>5 DEF RuleFields
  <1>7. r.key \in Keys
    BY <1>3, <1>4, <1>6 DEF Keys
  <1> QED
    BY <1>2, <1>3, <1>6, <1>7

\* Two rules with one key are one rule.
LEMMA KeysApart ==
    ASSUME NEW ings, IsIngresses(ings), NEW r \in AllRules(ings), NEW s \in AllRules(ings),
           r.key[2] = s.key[2], r.key[3] = s.key[3]
    PROVE  r = s
  <1>1. PICK i, k : r = RuleOf(i, ings[i], k) /\ r.key[2] = i /\ r.key[3] = k
    BY AllRulesAre
  <1>2. PICK j, l : s = RuleOf(j, ings[j], l) /\ s.key[2] = j /\ s.key[3] = l
    BY AllRulesAre
  <1> QED
    BY <1>1, <1>2

\* collectIngressRules before the sorting: the rules of all Ingresses, each once,
\* whatever the order in which the cache lists the Ingresses.
Listed(ings, order) ==
    FlattenSeq([n \in DOMAIN order |-> IngressAccessRules(order[n], ings[order[n]])])

\* Listing loses no rule and repeats none.
LEMMA ListedAre ==
    ASSUME NEW ings, IsIngresses(ings), NEW order \in SetToSeqs(DOMAIN ings),
           NEW s, s = Listed(ings, order)
    PROVE  /\ s \in Seq(AllRules(ings)) /\ ToSet(s) = AllRules(ings) /\ IsInjective(s)
           /\ IsFiniteSet(AllRules(ings))
  <1> DEFINE A == AllRules(ings)
             q == [n \in DOMAIN order |-> IngressAccessRules(order[n], ings[order[n]])]
  <1>1. order \in Seq(DOMAIN ings) /\ ToSet(order) = DOMAIN ings /\ IsInjective(order)
    <2>1. IsFiniteSet(DOMAIN ings)
      BY NamesAssumption, FS_Subset DEF IsIngresses
    <2> QED
      BY <2>1, SetToSeqsAre
  <1>2. /\ Len(order) \in Nat /\ DOMAIN order = 1..Len(order)
        /\ \A n \in 1..Len(order) : order[n] \in DOMAIN ings
    BY <1>1
  <1>3. \A n \in 1..Len(order) : q[n] = IngressAccessRules(order[n], ings[order[n]])
    BY <1>2
  <1>4. q = [n \in 1..Len(order) |-> q[n]]
    BY <1>2
  <1> HIDE DEF q
  <1>5. ASSUME NEW n \in 1..Len(order)
        PROVE  /\ q[n] \in Seq(RulesOf(order[n], ings[order[n]]))
               /\ ToSet(q[n]) = RulesOf(order[n], ings[order[n]])
               /\ IsInjective(q[n])
    <2>1. ings[order[n]] \in Ingress
      BY <1>2 DEF IsIngresses
    <2> QED
      BY <1>3, <2>1, IngressRulesAre
  <1>6. \A n \in 1..Len(order) : q[n] \in Seq(A)
    <2> TAKE n \in 1..Len(order)
    <2>1. RulesOf(order[n], ings[order[n]]) \subseteq A
      BY <1>2 DEF AllRules
    <2> QED
      BY <1>5, <2>1, SeqMonotonic
  <1> HIDE DEF A
  <1>7. q \in Seq(Seq(A)) /\ DOMAIN q = 1..Len(order)
    BY <1>2, <1>4, <1>6
  <1>8. ASSUME NEW m \in DOMAIN q, NEW n \in DOMAIN q, m # n
        PROVE  ToSet(q[m]) \cap ToSet(q[n]) = {}
    <2>1. order[m] # order[n]
      BY <1>1, <1>2, <1>7, <1>8 DEF IsInjective
    <2>2. ASSUME NEW i \in DOMAIN ings, NEW x \in RulesOf(i, ings[i]) PROVE x.key[2] = i
      <3>1. PICK k \in Usable(ings[i]) :
               x = RuleOf(i, ings[i], k) /\ IngressDomains(ings[i].hosts) # {}
        BY <2>2 DEF RulesOf
      <3> QED
        BY <3>1, RuleKey
    <2>3. /\ \A x \in ToSet(q[m]) : x.key[2] = order[m]
          /\ \A x \in ToSet(q[n]) : x.key[2] = order[n]
      BY <1>2, <1>5, <1>7, <2>2
    <2> QED
      BY <2>1, <2>3
  <1>9. s = FlattenSeq(q)
    BY DEF Listed, q
  <1>10. /\ s \in Seq(A) /\ IsInjective(s)
         /\ ToSet(s) = UNION {ToSet(q[n]) : n \in DOMAIN q}
    <2>1. \A n \in DOMAIN q : IsInjective(q[n])
      BY <1>5, <1>7
    <2> QED
      BY <2>1, <1>7, <1>8, <1>9, FlattenIs, Zenon
  <1>11. ToSet(s) = A
    <2>1. \A x : x \in ToSet(s) <=> \E n \in 1..Len(order) : x \in RulesOf(order[n], ings[order[n]])
      BY <1>5, <1>7, <1>10
    <2>2. \A x : x \in A <=> \E i \in DOMAIN ings : x \in RulesOf(i, ings[i])
      BY DEF A, AllRules
    <2>3. \A i : i \in DOMAIN ings <=> \E n \in 1..Len(order) : i = order[n]
      BY <1>1, <1>2 DEF ToSet
    <2> QED
      BY <2>1, <2>2, <2>3
  <1> QED
    BY <1>10, <1>11, ToSetFinite DEF A


-----------------------------------------------------------------------------
(* Sorting. *)

\* The comparison of sortAccessRules, spelt out: length, wildcard, key.
Lex(l, w, k, l2, w2, k2) ==
    \/ l > l2
    \/ l = l2 /\ ~w /\ w2
    \/ l = l2 /\ (w <=> w2) /\ <<k, k2>> \in KeyOrder

\* Less is Lex of the fields.
LEMMA LessIs ==
    ASSUME NEW ings, IsIngresses(ings), NEW r \in AllRules(ings), NEW s \in AllRules(ings)
    PROVE  Less(r, s) <=> Lex(r.resourceLen, r.wildcard, r.key,
                              s.resourceLen, s.wildcard, s.key)
  <1> DEFINE l == r.resourceLen
             l2 == s.resourceLen
             w == r.wildcard
             w2 == s.wildcard
  <1>1. l \in Nat /\ l2 \in Nat /\ w \in BOOLEAN /\ w2 \in BOOLEAN
    BY AllRulesAre
  <1>2. Less(r, s) <=> IF l # l2 THEN l > l2
                       ELSE IF w # w2 THEN ~w ELSE <<r.key, s.key>> \in KeyOrder
    BY DEF Less, KeyLess
  <1> HIDE DEF l, l2, w, w2
  <1>3. Less(r, s) <=> Lex(l, w, r.key, l2, w2, s.key)
    BY <1>1, <1>2 DEF Lex
  <1> QED
    BY <1>3 DEF l, l2, w, w2

\* The comparison as a relation on a set of rules.
Comparison(A) == {p \in A \X A : Less(p[1], p[2])}

\* The comparison orders the rules of any Ingresses strictly and totally: the key
\* breaks every tie.
LEMMA LessOrders ==
    ASSUME NEW ings, IsIngresses(ings), NEW A, A = AllRules(ings)
    PROVE  Orders(Comparison(A), A) /\ \A r, s \in A : <<r, s>> \in Comparison(A) <=> Less(r, s)
  <1>1. \A r, s \in A : <<r, s>> \in Comparison(A) <=> Less(r, s)
    BY DEF Comparison
  <1>2. ASSUME NEW r \in A
        PROVE  r.resourceLen \in Nat /\ r.wildcard \in BOOLEAN /\ r.key \in Keys
    BY AllRulesAre
  <1>3. \A r, s \in A :
           Less(r, s) <=> Lex(r.resourceLen, r.wildcard, r.key,
                              s.resourceLen, s.wildcard, s.key)
    BY LessIs
  <1>4. ASSUME NEW r \in A PROVE ~Less(r, r)
    <2>1. r.resourceLen \in Nat /\ r.wildcard \in BOOLEAN /\ <<r.key, r.key>> \notin KeyOrder
      BY <1>2, KeyOrderAssumption
    <2> QED
      BY <1>3, <2>1 DEF Lex
  <1>5. ASSUME NEW r \in A, NEW s \in A, r # s PROVE Less(r, s) \/ Less(s, r)
    <2> DEFINE l == r.resourceLen
               w == r.wildcard
               k == r.key
               l2 == s.resourceLen
               w2 == s.wildcard
               k2 == s.key
    <2>1. l \in Nat /\ w \in BOOLEAN /\ l2 \in Nat /\ w2 \in BOOLEAN
      BY <1>2
    <2>2. <<k, k2>> \in KeyOrder \/ <<k2, k>> \in KeyOrder
      <3>1. k # k2
        BY <1>5, KeysApart
      <3>2. k \in Keys /\ k2 \in Keys
        BY <1>2
      <3> HIDE DEF k, k2
      <3> QED
        BY <3>1, <3>2, KeyOrderAssumption
    <2>3. Less(r, s) <=> Lex(l, w, k, l2, w2, k2)
      BY <1>3
    <2>4. Less(s, r) <=> Lex(l2, w2, k2, l, w, k)
      BY <1>3
    <2> HIDE DEF l, w, k, l2, w2, k2
    <2>5. Lex(l, w, k, l2, w2, k2) \/ Lex(l2, w2, k2, l, w, k)
      BY <2>1, <2>2 DEF Lex
    <2> QED
      BY <2>3, <2>4, <2>5
  <1>6. ASSUME NEW r \in A, NEW s \in A, NEW t \in A, Less(r, s), Less(s, t) PROVE Less(r, t)
    <2> DEFINE l == r.resourceLen
               w == r.wildcard
               k == r.key
               l2 == s.resourceLen
               w2 == s.wildcard
               k2 == s.key
               l3 == t.resourceLen
               w3 == t.wildcard
               k3 == t.key
    <2>1. /\ l \in Nat /\ w \in BOOLEAN /\ l2 \in Nat /\ w2 \in BOOLEAN
          /\ l3 \in Nat /\ w3 \in BOOLEAN
      BY <1>2
    <2>2. <<k, k2>> \in KeyOrder /\ <<k2, k3>> \in KeyOrder => <<k, k3>> \in KeyOrder
      <3>1. k \in Keys /\ k2 \in Keys /\ k3 \in Keys
        BY <1>2
      <3> HIDE DEF k, k2, k3
      <3> QED
        BY <3>1, KeyOrderAssumption
    <2>3. Lex(l, w, k, l2, w2, k2) /\ Lex(l2, w2, k2, l3, w3, k3)
      BY <1>3, <1>6
    <2>4. Less(r, t) <=> Lex(l, w, k, l3, w3, k3)
      BY <1>3
    <2> HIDE DEF l, w, k, l2, w2, k2, l3, w3, k3
    <2>5. Lex(l, w, k, l3, w3, k3)
      BY <2>1, <2>2, <2>3 DEF Lex
    <2> QED
      BY <2>4, <2>5
  <1> QED
    BY <1>1, <1>4, <1>5, <1>6 DEF Orders


\* The rules in the order of the comparison.
SortedRules(A) ==
    [p \in 1..Cardinality(A) |-> CHOOSE x \in A : Rank(Comparison(A), A, x) = p]

\* The rules that stand before position n of s in the order.
SmallerAt(s, n) ==
    {m \in DOMAIN s : Less(s[m], s[n]) \/ (m < n /\ ~Less(s[n], s[m]))}

\* A position's place is the rank of its rule: the sort never has to fall back on
\* the positions.
LEMMA PlaceIsRank ==
    ASSUME NEW A, IsFiniteSet(A), Orders(Comparison(A), A),
           NEW s \in Seq(A), ToSet(s) = A, IsInjective(s), NEW n \in DOMAIN s
    PROVE  1 + Cardinality(SmallerAt(s, n)) = Rank(Comparison(A), A, s[n])
  <1> DEFINE R == Comparison(A)
             P == SmallerAt(s, n)
             B == Before(R, A, s[n])
  <1>1. DOMAIN s = 1..Len(s) /\ Len(s) \in Nat /\ \A m \in DOMAIN s : s[m] \in A
    OBVIOUS
  <1>2. \A x, y \in A : <<x, y>> \in R <=> Less(x, y)
    BY DEF Comparison
  <1>3. \A m, k \in DOMAIN s : m # k => s[m] # s[k]
    BY DEF IsInjective
  <1> HIDE DEF R
  <1>4. Orders(R, A)
    BY DEF R
  <1>5. ASSUME NEW m \in DOMAIN s PROVE m \in P <=> <<s[m], s[n]>> \in R
    <2>1. CASE m = n
      <3>1. <<s[m], s[n]>> \notin R
        BY <1>1, <1>4, <2>1 DEF Orders
      <3>2. ~(m < n)
        BY <1>1, <2>1
      <3> QED
        BY <1>1, <1>2, <3>1, <3>2 DEF SmallerAt
    <2>2. CASE m # n
      <3>1. <<s[m], s[n]>> \in R \/ <<s[n], s[m]>> \in R
        BY <1>1, <1>3, <1>4, <2>2 DEF Orders
      <3> QED
        BY <1>1, <1>2, <3>1 DEF SmallerAt
    <2> QED
      BY <2>1, <2>2
  <1>6. P \subseteq DOMAIN s
    BY DEF SmallerAt
  <1>7. \A y : y \in B <=> \E m \in P : y = s[m]
    <2>1. \A y : y \in A <=> \E m \in DOMAIN s : y = s[m]
      BY DEF ToSet
    <2> QED
      BY <1>5, <1>6, <2>1 DEF Before
  <1> HIDE DEF P, B
  <1> DEFINE f == [m \in P |-> s[m]]
  <1>8. f \in Bijection(P, B)
    <2>1. f \in [P -> B]
      BY <1>7
    <2>2. \A m, k \in P : f[m] = f[k] => m = k
      BY <1>3, <1>6
    <2>3. \A y \in B : \E m \in P : f[m] = y
      BY <1>7
    <2> QED
      BY <2>1, <2>2, <2>3 DEF Bijection, Injection, Surjection, IsInjective
  <1>9. IsFiniteSet(P)
    <2>1. IsFiniteSet(DOMAIN s)
      BY <1>1, FS_Interval
    <2> QED
      BY <2>1, <1>6, FS_Subset
  <1>10. Cardinality(P) = Cardinality(B) /\ Cardinality(P) \in Nat
    <2>1. ExistsBijection(P, B)
      BY <1>8 DEF ExistsBijection
    <2> HIDE DEF f
    <2> QED
      BY <1>9, <2>1, FS_Bijection, FS_CardinalityType
  <1>11. 1 + Cardinality(P) = Cardinality(B) + 1
    BY <1>10
  <1> QED
    BY <1>11 DEF P, B, R, Rank


\* sort.SliceStable returns the rules in the order of the comparison, whatever
\* the order in which they were collected.
LEMMA SortIs ==
    ASSUME NEW A, IsFiniteSet(A), Orders(Comparison(A), A),
           NEW s \in Seq(A), ToSet(s) = A, IsInjective(s)
    PROVE  SortAccessRules(s) = SortedRules(A)
  <1> DEFINE f(x) == Rank(Comparison(A), A, x)
             c == Cardinality(A)
             g(n) == 1 + Cardinality(SmallerAt(s, n))
  <1>1. DOMAIN s = 1..Len(s) /\ Len(s) \in Nat /\ \A m \in DOMAIN s : s[m] \in A
    OBVIOUS
  <1>2. \A y : y \in A <=> \E m \in DOMAIN s : y = s[m]
    BY DEF ToSet
  <1>3. c \in Nat /\ (\A x \in A : f(x) \in 1..c) /\ (\A x, y \in A : f(x) = f(y) => x = y)
        /\ \A p \in 1..c : \E x \in A : f(x) = p
    BY Ranks
  <1>4. \A n \in DOMAIN s : g(n) = f(s[n])
    BY PlaceIsRank
  <1>5. Len(s) = c
    <2>1. s \in Bijection(1..Len(s), A)
      <3>1. s \in [1..Len(s) -> A]
        BY <1>1
      <3>2. \A m, k \in 1..Len(s) : s[m] = s[k] => m = k
        BY <1>1 DEF IsInjective
      <3>3. \A y \in A : \E m \in 1..Len(s) : s[m] = y
        BY <1>1, <1>2
      <3> QED
        BY <3>1, <3>2, <3>3 DEF Bijection, Injection, Surjection, IsInjective
    <2>2. ExistsBijection(1..Len(s), A)
      BY <2>1 DEF ExistsBijection
    <2>3. IsFiniteSet(1..Len(s)) /\ Cardinality(1..Len(s)) = Len(s)
      BY <1>1, FS_Interval
    <2>4. Cardinality(1..Len(s)) = Cardinality(A)
      BY <2>2, <2>3, FS_Bijection
    <2> QED
      BY <2>3, <2>4
  <1>6. SortAccessRules(s) = [p \in DOMAIN s |-> s[CHOOSE n \in DOMAIN s : g(n) = p]]
    BY DEF SortAccessRules, SmallerAt
  <1>7. SortedRules(A) = [p \in 1..c |-> CHOOSE x \in A : f(x) = p]
    BY DEF SortedRules
  <1> HIDE DEF f, c, g
  <1>8. ASSUME NEW p \in 1..c
        PROVE  s[CHOOSE n \in DOMAIN s : g(n) = p] = CHOOSE x \in A : f(x) = p
    <2> DEFINE n0 == CHOOSE n \in DOMAIN s : g(n) = p
               x0 == CHOOSE x \in A : f(x) = p
    <2>1. PICK x \in A : f(x) = p
      BY <1>3
    <2>2. PICK n \in DOMAIN s : x = s[n]
      BY <1>2
    <2>3. g(n) = p
      BY <1>4, <2>1, <2>2
    <2>4. n0 \in DOMAIN s /\ g(n0) = p
      BY <2>3
    <2>5. x0 \in A /\ f(x0) = p
      BY <2>1
    <2> HIDE DEF n0, x0
    <2>6. s[n0] \in A /\ f(s[n0]) = p
      BY <1>1, <1>4, <2>4
    <2>7. s[n0] = x0
      BY <1>3, <2>5, <2>6
    <2> QED
      BY <2>7 DEF n0, x0
  <1> QED
    BY <1>1, <1>5, <1>6, <1>7, <1>8

\* The sorted list has every rule at one place, and no rule before one that
\* compares less.
LEMMA SortedAre ==
    ASSUME NEW A, IsFiniteSet(A), Orders(Comparison(A), A)
    PROVE  /\ DOMAIN SortedRules(A) = 1..Cardinality(A) /\ Cardinality(A) \in Nat
           /\ \A p \in DOMAIN SortedRules(A) : SortedRules(A)[p] \in A
           /\ \A r \in A : \E p \in DOMAIN SortedRules(A) : SortedRules(A)[p] = r
           /\ \A p, q \in DOMAIN SortedRules(A) : SortedRules(A)[p] = SortedRules(A)[q] => p = q
           /\ \A p, q \in DOMAIN SortedRules(A) :
                 p < q => ~Less(SortedRules(A)[q], SortedRules(A)[p])
  <1> DEFINE f(x) == Rank(Comparison(A), A, x)
             c == Cardinality(A)
             t == SortedRules(A)
  <1>1. /\ c \in Nat /\ (\A x \in A : f(x) \in 1..c)
        /\ \A x, y \in A : f(x) = f(y) => x = y
        /\ \A p \in 1..c : \E x \in A : f(x) = p
    BY Ranks
  <1>2. \A x, y \in A : (<<x, y>> \in Comparison(A)) <=> (f(x) < f(y))
    BY Ranks
  <1>3. \A x, y \in A : Less(x, y) <=> (<<x, y>> \in Comparison(A))
    BY DEF Comparison
  <1>4. t = [p \in 1..c |-> CHOOSE x \in A : f(x) = p]
    BY DEF SortedRules
  <1> HIDE DEF f, c, t
  <1>5. DOMAIN t = 1..c /\ \A p \in 1..c : t[p] \in A /\ f(t[p]) = p
    BY <1>1, <1>4
  <1>6. \A x \in A : t[f(x)] = x
    BY <1>1, <1>5
  <1>7. \A p, q \in DOMAIN t : p < q => ~Less(t[q], t[p])
    <2> SUFFICES ASSUME NEW p \in DOMAIN t, NEW q \in DOMAIN t, p < q, Less(t[q], t[p])
                 PROVE  FALSE
      OBVIOUS
    <2>1. f(t[q]) < f(t[p])
      BY <1>2, <1>3, <1>5
    <2>2. q < p
      BY <1>5, <2>1
    <2> QED
      BY <1>1, <1>5, <2>2
  <1>8. \A r \in A : \E p \in DOMAIN t : t[p] = r
    BY <1>1, <1>5, <1>6
  <1>9. \A p, q \in DOMAIN t : t[p] = t[q] => p = q
    BY <1>5
  <1> QED
    BY <1>1, <1>5, <1>7, <1>8, <1>9 DEF t, c


-----------------------------------------------------------------------------
(* The specification. *)

\* Once rules were collected, the list is the one list of the rules of the
\* Ingresses in the order of the comparison.  NoRuleLost and MostSpecificFirst
\* are read off it, and Deterministic as well: the list names no order of
\* collecting.
CollectedInv ==
    /\ IsIngresses(ingresses)
    /\ collected \in BOOLEAN
    /\ IsFiniteSet(AllRules(ingresses))
    /\ rules = IF collected THEN SortedRules(AllRules(ingresses)) ELSE <<>>

\* Finitely many annotations make finitely many rules.
LEMMA AllRulesFinite ==
    ASSUME NEW ings, IsIngresses(ings) PROVE IsFiniteSet(AllRules(ings))
  <1> DEFINE order == SetToSeq(DOMAIN ings)
  <1>1. IsFiniteSet(DOMAIN ings)
    BY NamesAssumption, FS_Subset DEF IsIngresses
  <1>2. /\ order \in Seq(DOMAIN ings) /\ ToSet(order) = DOMAIN ings /\ IsInjective(order)
        /\ Len(order) = Cardinality(DOMAIN ings)
    BY <1>1, SetToSeqIs
  <1> HIDE DEF order
  <1>3. order \in SetToSeqs(DOMAIN ings)
    <2>1. order \in [1..Cardinality(DOMAIN ings) -> DOMAIN ings]
      BY <1>2
    <2> QED
      BY <1>2, <2>1 DEF SetToSeqs, IsInjective
  <1> QED
    BY <1>3, ListedAre

\* A reconcile generates the sorted list whatever the order of collecting.
LEMMA CollectGenerates ==
    ASSUME IsIngresses(ingresses), NEW order \in SetToSeqs(DOMAIN ingresses)
    PROVE  CollectIngressRules(order) = SortedRules(AllRules(ingresses))
  <1> DEFINE A == AllRules(ingresses)
             s == Listed(ingresses, order)
  <1>1. s \in Seq(A) /\ ToSet(s) = A /\ IsInjective(s) /\ IsFiniteSet(A)
    BY ListedAre
  <1>2. Orders(Comparison(A), A)
    BY LessOrders
  <1>3. CollectIngressRules(order) = SortAccessRules(s)
    BY DEF CollectIngressRules, Listed
  <1> HIDE DEF A, s
  <1>4. SortAccessRules(s) = SortedRules(A)
    BY <1>1, <1>2, SortIs
  <1> QED
    BY <1>3, <1>4 DEF A

\* CollectedInv is inductive.
LEMMA Collected == Spec => []CollectedInv
  <1>1. Init => CollectedInv
    <2> SUFFICES ASSUME Init PROVE CollectedInv
      OBVIOUS
    <2>1. IsIngresses(ingresses)
      BY DEF Init, IsIngresses
    <2> QED
      BY <2>1, AllRulesFinite DEF Init, CollectedInv
  <1>2. CollectedInv /\ [Next]_vars => CollectedInv'
    <2> SUFFICES ASSUME CollectedInv, [Next]_vars PROVE CollectedInv'
      OBVIOUS
    <2>1. CASE Collect
      <3>1. ingresses' = ingresses /\ collected' = TRUE
        BY <2>1 DEF Collect
      <3>2. PICK order \in SetToSeqs(DOMAIN ingresses) : rules' = CollectIngressRules(order)
        BY <2>1 DEF Collect
      <3>3. rules' = SortedRules(AllRules(ingresses))
        BY <3>2, CollectGenerates DEF CollectedInv
      <3> QED
        BY <3>1, <3>3 DEF CollectedInv
    <2>2. CASE UNCHANGED vars
      BY <2>2 DEF CollectedInv, vars
    <2> QED
      BY <2>1, <2>2 DEF Next
  <1> QED
    BY <1>1, <1>2, PTL DEF Spec

\* The generated list depends on the Ingresses only, not on the order in which
\* collectIngressRules met them: a later reconcile generates the same list.
THEOREM OrderIrrelevant == Spec => Deterministic
  <1>1. CollectedInv /\ CollectedInv' /\ [Next]_vars => [collected => UNCHANGED rules]_vars
    <2> SUFFICES ASSUME CollectedInv, [Next]_vars, collected PROVE rules' = rules
      BY DEF vars
    <2>1. CASE Collect
      <3>1. PICK order \in SetToSeqs(DOMAIN ingresses) : rules' = CollectIngressRules(order)
        BY <2>1 DEF Collect
      <3> QED
        BY <3>1, CollectGenerates DEF CollectedInv
    <2>2. CASE UNCHANGED vars
      BY <2>2 DEF vars
    <2> QED
      BY <2>1, <2>2 DEF Next
  <1> QED
    BY <1>1, Collected, PTL DEF Spec, Deterministic


\* An Ingress has a domain when one of its hosts is not empty.
LEMMA DomainsExist ==
    ASSUME NEW h \in Seq(Nat)
    PROVE  (IngressDomains(h) # {}) <=> (ToSet(h) # {0} /\ h # <<>>)
  <1>1. ASSUME h # <<>> PROVE ToSet(h) # {}
    <2>1. 1 \in DOMAIN h
      BY <1>1
    <2>2. h[1] \in ToSet(h)
      BY <2>1 DEF ToSet
    <2> QED
      BY <2>2
  <1>2. h = <<>> => ToSet(h) = {}
    BY DEF ToSet
  <1> QED
    BY <1>1, <1>2 DEF IngressDomains

\* Whether an annotation yields a rule of the list.
Yields(ing, k) == Valid(ing.annotations[k]) /\ ToSet(ing.hosts) # {0} /\ ing.hosts # <<>>

\* The rules of the annotation k of the Ingress i.
LEMMA AnnotationRule ==
    ASSUME NEW ings, IsIngresses(ings), NEW i \in DOMAIN ings,
           NEW k \in DOMAIN ings[i].annotations
    PROVE  /\ Yields(ings[i], k) => RuleOf(i, ings[i], k) \in AllRules(ings)
           /\ \A r \in AllRules(ings) :
                 r.key[2] = i /\ r.key[3] = k => r = RuleOf(i, ings[i], k) /\ Yields(ings[i], k)
  <1>1. ings[i] \in Ingress /\ ings[i].hosts \in Seq(Nat)
    BY IngressIs DEF IsIngresses
  <1>2. ASSUME Yields(ings[i], k) PROVE RuleOf(i, ings[i], k) \in AllRules(ings)
    <2>1. k \in Usable(ings[i]) /\ IngressDomains(ings[i].hosts) # {}
      BY <1>1, <1>2, DomainsExist DEF Yields, Usable
    <2>2. RuleOf(i, ings[i], k) \in RulesOf(i, ings[i])
      BY <2>1 DEF RulesOf
    <2> QED
      BY <2>2 DEF AllRules
  <1>3. ASSUME NEW r \in AllRules(ings), r.key[2] = i, r.key[3] = k
        PROVE  r = RuleOf(i, ings[i], k) /\ Yields(ings[i], k)
    <2>0. PICK j \in DOMAIN ings : \E l \in Usable(ings[j]) :
              /\ r = RuleOf(j, ings[j], l) /\ IngressDomains(ings[j].hosts) # {}
              /\ ings[j] \in Ingress
              /\ r.key[2] = j /\ r.key[3] = l /\ r.key \in Keys
              /\ r.resourceLen \in Nat /\ r.wildcard \in BOOLEAN
      BY AllRulesAre
    <2>1. PICK l : /\ l \in Usable(ings[j])
                   /\ r = RuleOf(j, ings[j], l)
                   /\ IngressDomains(ings[j].hosts) # {}
                   /\ r.key[2] = j /\ r.key[3] = l
      BY <2>0
    <2>2. j = i /\ l = k
      BY <1>3, <2>1
    <2>3. k \in Usable(ings[i]) /\ IngressDomains(ings[i].hosts) # {} /\ r = RuleOf(i, ings[i], k)
      BY <2>1, <2>2
    <2> QED
      BY <1>1, <2>3, DomainsExist DEF Yields, Usable
  <1> QED
    BY <1>2, <1>3

\* Every valid annotation of an Ingress with a host has exactly one rule in the
\* list, and no other annotation has one: ingressAccessRules skips an invalid
\* annotation and nothing else, and neither the listing nor the sort loses or
\* repeats a rule.
THEOREM RulesNeverLost == Spec => []NoRuleLost
  <1>1. CollectedInv => NoRuleLost
    <2> SUFFICES ASSUME CollectedInv, collected,
                        NEW i \in DOMAIN ingresses, NEW k \in DOMAIN ingresses[i].annotations
                 PROVE  Cardinality({n \in DOMAIN rules :
                                       rules[n].key[2] = i /\ rules[n].key[3] = k})
                          = IF Yields(ingresses[i], k) THEN 1 ELSE 0
      BY DEF NoRuleLost, Yields
    <2> DEFINE A == AllRules(ingresses)
               P == {n \in DOMAIN rules : rules[n].key[2] = i /\ rules[n].key[3] = k}
    <2>1. rules = SortedRules(A) /\ IsIngresses(ingresses) /\ IsFiniteSet(A)
      BY DEF CollectedInv
    <2>2. Orders(Comparison(A), A)
      BY <2>1, LessOrders
    <2>3. /\ \A p \in DOMAIN rules : rules[p] \in A
          /\ \A r \in A : \E p \in DOMAIN rules : rules[p] = r
          /\ \A p, q \in DOMAIN rules : rules[p] = rules[q] => p = q
      <3> HIDE DEF A
      <3> QED
        BY <2>1, <2>2, SortedAre
    <2>4. \A r \in A : r.key[2] = i /\ r.key[3] = k
                         => r = RuleOf(i, ingresses[i], k) /\ Yields(ingresses[i], k)
      BY <2>1, AnnotationRule
    <2>5. CASE ~Yields(ingresses[i], k)
      <3>1. P = {}
        BY <2>3, <2>4, <2>5
      <3> QED
        BY <2>5, <3>1, FS_EmptySet
    <2>6. CASE Yields(ingresses[i], k)
      <3> DEFINE r == RuleOf(i, ingresses[i], k)
      <3>1. r \in A
        BY <2>1, <2>6, AnnotationRule
      <3>2. r.key[2] = i /\ r.key[3] = k
        BY RuleKey
      <3> HIDE DEF r
      <3>3. PICK p \in DOMAIN rules : rules[p] = r
        BY <2>3, <3>1
      <3>4. P = {p}
        <4>1. \A n \in P : rules[n] = r
          BY <2>3, <2>4 DEF r
        <4> QED
          BY <2>3, <3>2, <3>3, <4>1
      <3> QED
        BY <2>6, <3>4, FS_Singleton
    <2> QED
      BY <2>5, <2>6
  <1> QED
    BY <1>1, Collected, PTL

\* No Ingress has wildcard and exact hosts both.
HostsUnmixed ==
    \A h \in HostLists : ToSet(h) \cap WildcardHosts = {} \/ ToSet(h) \subseteq WildcardHosts \cup {0}

\* A rule that names an exact host has no wildcard.
LEMMA ExactUnmixed ==
    ASSUME HostsUnmixed, NEW ings, IsIngresses(ings), NEW r \in AllRules(ings)
    PROVE  /\ r.wildcard = (r.domains \cap WildcardHosts # {})
           /\ \A d \in r.domains : d \notin WildcardHosts => r.wildcard = FALSE
           /\ r.resourceLen \in Nat /\ r.wildcard \in BOOLEAN
  <1>1. PICK i \in DOMAIN ings : \E k \in Usable(ings[i]) :
              /\ r = RuleOf(i, ings[i], k) /\ IngressDomains(ings[i].hosts) # {}
              /\ ings[i] \in Ingress
    BY AllRulesAre
  <1>2. /\ r.domains = IngressDomains(ings[i].hosts)
        /\ r.wildcard = (IngressDomains(ings[i].hosts) \cap WildcardHosts # {})
        /\ r.resourceLen \in Nat /\ r.wildcard \in BOOLEAN
    <2>1. PICK k : RuleFields(r, i, ings[i], k)
      BY <1>1, RuleIs
    <2> QED
      BY <2>1 DEF RuleFields
  <1>3. ings[i].hosts \in HostLists
    BY <1>1, IngressIs
  <1>4. \A d \in r.domains : d \notin WildcardHosts => r.domains \cap WildcardHosts = {}
    BY <1>2, <1>3, HostsAssumption DEF HostsUnmixed, IngressDomains
  <1> QED
    BY <1>2, <1>4

\* With such Ingresses the first rule that matches a request has the longest
\* pattern of those that match, and among these it names the host of the request
\* if one of them does: the order of sortAccessRules is what its comment says.
THEOREM MostSpecificWins ==
    ASSUME HostsUnmixed PROVE Spec => []MostSpecificFirst
  <1>1. CollectedInv => MostSpecificFirst
    <2> SUFFICES ASSUME CollectedInv, NEW q \in Requests, NEW n \in DOMAIN rules,
                        Matches(rules[n], q), \A m \in 1..(n - 1) : ~Matches(rules[m], q),
                        NEW m \in DOMAIN rules, Matches(rules[m], q)
                 PROVE  /\ rules[m].resourceLen <= rules[n].resourceLen
                        /\ rules[m].resourceLen = rules[n].resourceLen /\ NamesHost(rules[m], q)
                             => NamesHost(rules[n], q)
      BY DEF MostSpecificFirst
    <2> DEFINE A == AllRules(ingresses)
    <2>1. collected /\ rules = SortedRules(A) /\ IsIngresses(ingresses) /\ IsFiniteSet(A)
      BY DEF CollectedInv
    <2>2. Orders(Comparison(A), A)
      BY <2>1, LessOrders
    <2>3. /\ DOMAIN rules = 1..Cardinality(A) /\ Cardinality(A) \in Nat
          /\ \A p \in DOMAIN rules : rules[p] \in A
          /\ \A p1, p2 \in DOMAIN rules : p1 < p2 => ~Less(rules[p2], rules[p1])
      <3> HIDE DEF A
      <3> QED
        BY <2>1, <2>2, SortedAre
    <2> DEFINE x == rules[m]
               f == rules[n]
    <2>4. /\ x.resourceLen \in Nat /\ x.wildcard \in BOOLEAN
          /\ NamesHost(x, q) => x.wildcard = FALSE
      <3>1. x \in A
        BY <2>3
      <3>2. q[1] \notin WildcardHosts
        BY DEF Requests
      <3> QED
        BY <2>1, <3>1, <3>2, ExactUnmixed DEF NamesHost
    <2>5. /\ f.resourceLen \in Nat /\ f.wildcard \in BOOLEAN
          /\ f.wildcard = FALSE => NamesHost(f, q)
      <3>1. f \in A
        BY <2>3
      <3>2. f.wildcard = (f.domains \cap WildcardHosts # {}) /\ f.resourceLen \in Nat
        BY <2>1, <3>1, ExactUnmixed
      <3> QED
        BY <3>2 DEF Matches, NamesHost
    <2>6. CASE m = n
      BY <2>6, <2>4
    <2>7. CASE m # n
      <3>1. n < m
        BY <2>3, <2>7
      <3>2. ~Less(x, f)
        BY <2>3, <3>1
      <3>3. ~(IF x.resourceLen # f.resourceLen THEN x.resourceLen > f.resourceLen
              ELSE IF x.wildcard # f.wildcard THEN ~x.wildcard ELSE KeyLess(x.key, f.key))
        BY <3>2 DEF Less
      <3> HIDE DEF x, f
      <3>4. /\ x.resourceLen <= f.resourceLen
            /\ x.resourceLen = f.resourceLen /\ NamesHost(x, q) => NamesHost(f, q)
        BY <2>4, <2>5, <3>3
      <3> QED
        BY <3>4 DEF x, f
    <2> QED
      BY <2>6, <2>7
  <1> QED
    BY <1>1, Collected, PTL
=============================================================================
