----------------------------- MODULE DataProofs -----------------------------
(***************************************************************************)
(* Facts about numbers, sets and sequences that the proofs about pure      *)
(* algorithms rest on: extremes of bounded sets of numbers, and what a     *)
(* conversion of a set to a sequence keeps.                                *)
(***************************************************************************)
EXTENDS Integers, SequencesExt, FiniteSetTheorems, SequenceTheorems, TLAPS

Below == {p \in Nat \X Nat : p[1] < p[2]}

\* There is no endless descent in the natural numbers.
LEMMA BelowWellFounded == IsWellFoundedOn(Below, Nat)
  BY NatLessThanWellFounded, Zenon DEF OpToRel, Below

\* Every set of natural numbers has a least element: induction for all the
\* proofs that need it.
LEMMA Least ==
    ASSUME NEW T, T \subseteq Nat, T # {}
    PROVE  \E x \in T : \A y \in T : x <= y
  <1>1. PICK x \in T : \A y \in T : ~(<<y, x>> \in Below)
    BY BelowWellFounded, WFMin
  <1>2. \A y \in T : ~(y < x)
    BY <1>1 DEF Below
  <1>3. x \in Nat /\ \A y \in T : y \in Nat
    OBVIOUS
  <1> QED
    BY <1>2, <1>3

\* Min and Max of a bounded set of numbers are in it and bound it.
LEMMA Extremes ==
    ASSUME NEW n \in Nat, NEW T, T \subseteq 0..n, T # {}
    PROVE  /\ Min(T) \in T /\ \A y \in T : Min(T) <= y
           /\ Max(T) \in T /\ \A y \in T : Max(T) >= y
  <1>0. T \subseteq Nat
    OBVIOUS
  <1>1. \E x \in T : \A y \in T : x <= y
    BY <1>0, Least
  <1>2. \E x \in T : \A y \in T : x >= y
    <2> DEFINE U == {m \in 0..n : \A y \in T : y <= m}
    <2>1. n \in U /\ U \subseteq Nat
      OBVIOUS
    <2> HIDE DEF U
    <2>2. PICK m \in U : \A k \in U : m <= k
      BY <2>1, Least
    <2>3. m \in 0..n /\ \A y \in T : y <= m
      BY <2>2 DEF U
    <2>4. m \in T
      <3> SUFFICES ASSUME m \notin T PROVE FALSE
        OBVIOUS
      <3>1. \A y \in T : y \in 0..n /\ y <= m - 1
        BY <2>3
      <3>2. m - 1 \in 0..n
        <4>1. PICK y \in T : TRUE
          OBVIOUS
        <4>2. y \in 0..n /\ y <= m - 1
          BY <3>1
        <4> QED
          BY <4>2, <2>3
      <3>3. m - 1 \in U
        BY <3>1, <3>2 DEF U
      <3> QED
        BY <3>3, <2>2, <2>3
    <2> QED
      BY <2>3, <2>4
  <1> QED
    BY <1>1, <1>2 DEF Min, Max

\* The elements of a sequence are finitely many.
LEMMA ToSetFinite ==
    ASSUME NEW S, NEW s \in Seq(S)
    PROVE  IsFiniteSet(ToSet(s))
  <1>1. s \in Surjection(1..Len(s), ToSet(s))
    BY DEF Surjection, ToSet
  <1>2. IsFiniteSet(1..Len(s))
    BY FS_Interval
  <1> QED
    BY <1>1, <1>2, FS_Surjection

\* A set turned into a sequence: all its elements, each once.
LEMMA SetToSeqIs ==
    ASSUME NEW S, IsFiniteSet(S)
    PROVE  /\ SetToSeq(S) \in Seq(S)
           /\ ToSet(SetToSeq(S)) = S
           /\ IsInjective(SetToSeq(S))
           /\ Len(SetToSeq(S)) = Cardinality(S)
  <1> DEFINE n == Cardinality(S)
             q == SetToSeq(S)
  <1>1. n \in Nat /\ \E f \in [1..n -> S] : IsInjective(f)
    BY FS_CardinalityType DEF ExistsBijection, Bijection, Injection
  <1>2. q \in [1..n -> S] /\ IsInjective(q)
    BY <1>1 DEF SetToSeq
  <1>3. IsFiniteSet(1..n) /\ Cardinality(1..n) = n
    BY <1>1, FS_Interval
  <1> HIDE DEF n, q
  <1>4. q \in Surjection(1..n, S)
    BY <1>2, <1>3, FS_Injection DEF Injection, n
  <1>5. q \in Seq(S) /\ Len(q) = n
    BY <1>1, <1>2
  <1>6. ToSet(q) = S
    BY <1>2, <1>4 DEF ToSet, Surjection
  <1> QED
    BY <1>2, <1>5, <1>6 DEF q, n

\* Where the elements of a concatenation come from.
LEMMA ConcatAt ==
    ASSUME NEW S, NEW s \in Seq(S), NEW t \in Seq(S), NEW u, u = s \o t
    PROVE  /\ Len(s) \in Nat /\ Len(t) \in Nat /\ u \in Seq(S)
           /\ Len(u) = Len(s) + Len(t)
           /\ DOMAIN u = 1..Len(u) /\ DOMAIN s = 1..Len(s) /\ DOMAIN t = 1..Len(t)
           /\ \A i \in 1..Len(s) : u[i] = s[i]
           /\ \A i \in 1..Len(t) : u[Len(s) + i] = t[i]
           /\ \A i \in 1..Len(u) : u[i] = IF i <= Len(s) THEN s[i] ELSE t[i - Len(s)]
  OBVIOUS

\* A concatenation has the elements of both parts.
LEMMA ToSetConcat ==
    ASSUME NEW S, NEW s \in Seq(S), NEW t \in Seq(S)
    PROVE  ToSet(s \o t) = ToSet(s) \cup ToSet(t)
  <1> DEFINE u == s \o t
  <1>1. /\ Len(s) \in Nat /\ Len(t) \in Nat /\ u \in Seq(S)
        /\ Len(u) = Len(s) + Len(t)
        /\ DOMAIN u = 1..Len(u) /\ DOMAIN s = 1..Len(s) /\ DOMAIN t = 1..Len(t)
        /\ \A i \in 1..Len(s) : u[i] = s[i]
        /\ \A i \in 1..Len(t) : u[Len(s) + i] = t[i]
        /\ \A i \in 1..Len(u) : u[i] = IF i <= Len(s) THEN s[i] ELSE t[i - Len(s)]
    BY ConcatAt
  <1> HIDE DEF u
  <1>2. ASSUME NEW i \in DOMAIN u PROVE u[i] \in ToSet(s) \cup ToSet(t)
    <2>1. CASE i <= Len(s)
      BY <1>1, <2>1 DEF ToSet
    <2>2. CASE i > Len(s)
      <3>1. i - Len(s) \in DOMAIN t /\ u[i] = t[i - Len(s)]
        BY <1>1, <2>2
      <3> QED
        BY <3>1 DEF ToSet
    <2> QED
      BY <1>1, <2>1, <2>2
  <1>3. ASSUME NEW i \in DOMAIN s PROVE s[i] \in ToSet(u)
    <2>1. i \in DOMAIN u /\ u[i] = s[i]
      BY <1>1
    <2> QED
      BY <2>1 DEF ToSet
  <1>4. ASSUME NEW i \in DOMAIN t PROVE t[i] \in ToSet(u)
    <2>1. Len(s) + i \in DOMAIN u /\ u[Len(s) + i] = t[i]
      BY <1>1
    <2> QED
      BY <2>1 DEF ToSet
  <1>5. ToSet(u) = ToSet(s) \cup ToSet(t)
    BY <1>2, <1>3, <1>4 DEF ToSet
  <1> QED
    BY <1>5 DEF u


\* The concatenation of two lists without repetition and without a common element
\* has no repetition.
LEMMA ConcatInjective ==
    ASSUME NEW S, NEW s \in Seq(S), NEW t \in Seq(S),
           IsInjective(s), IsInjective(t), ToSet(s) \cap ToSet(t) = {}
    PROVE  IsInjective(s \o t)
  <1> DEFINE u == s \o t
  <1>1. /\ Len(s) \in Nat /\ Len(t) \in Nat /\ u \in Seq(S)
        /\ Len(u) = Len(s) + Len(t)
        /\ DOMAIN u = 1..Len(u) /\ DOMAIN s = 1..Len(s) /\ DOMAIN t = 1..Len(t)
        /\ \A i \in 1..Len(u) : u[i] = IF i <= Len(s) THEN s[i] ELSE t[i - Len(s)]
    BY ConcatAt
  <1> HIDE DEF u
  <1>2. ASSUME NEW i \in DOMAIN u, NEW j \in DOMAIN u, i < j PROVE u[i] # u[j]
    <2>1. CASE j <= Len(s)
      BY <1>1, <1>2, <2>1 DEF IsInjective
    <2>2. CASE i <= Len(s) /\ j > Len(s)
      <3>1. i \in DOMAIN s /\ u[i] = s[i] /\ j - Len(s) \in DOMAIN t /\ u[j] = t[j - Len(s)]
        BY <1>1, <1>2, <2>2
      <3>2. u[i] \in ToSet(s) /\ u[j] \in ToSet(t)
        BY <3>1 DEF ToSet
      <3> QED
        BY <3>2
    <2>3. CASE i > Len(s)
      <3>1. /\ i - Len(s) \in DOMAIN t /\ u[i] = t[i - Len(s)]
            /\ j - Len(s) \in DOMAIN t /\ u[j] = t[j - Len(s)]
            /\ i - Len(s) # j - Len(s)
        BY <1>1, <1>2, <2>3
      <3> QED
        BY <3>1 DEF IsInjective
    <2> QED
      BY <1>1, <1>2, <2>1, <2>2, <2>3
  <1>3. \A i, j \in DOMAIN u : i # j => i < j \/ j < i
    BY <1>1
  <1>4. IsInjective(u)
    BY <1>2, <1>3 DEF IsInjective
  <1> QED
    BY <1>4 DEF u

\* g has the first n partial concatenations of ss.
Partial(ss, g, n) == g = [i \in 1..n |-> IF i = 1 THEN ss[i] ELSE g[i - 1] \o ss[i]]

\* The partial concatenations exist: the recursion in FlattenSeq has a solution.
LEMMA PartialExists ==
    ASSUME NEW ss, NEW n \in Nat
    PROVE  \E g : Partial(ss, g, n)
  <1> DEFINE bad == {m \in Nat : ~\E g : Partial(ss, g, m)}
  <1> SUFFICES ASSUME bad # {} PROVE FALSE
    OBVIOUS
  <1>1. PICK m \in bad : \A k \in bad : m <= k
    BY Least
  <1>2. CASE m = 0
    <2>1. Partial(ss, <<>>, 0)
      BY DEF Partial
    <2> QED
      BY <1>1, <1>2, <2>1
  <1>3. CASE m # 0
    <2>1. PICK g : Partial(ss, g, m - 1)
      <3>1. m - 1 \in Nat /\ m - 1 \notin bad
        BY <1>1, <1>3
      <3> QED
        BY <3>1
    <2> DEFINE h == [i \in 1..m |-> IF i < m THEN g[i]
                                    ELSE IF m = 1 THEN ss[1] ELSE g[m - 1] \o ss[m]]
               e == [i \in 1..m |-> IF i = 1 THEN ss[i] ELSE h[i - 1] \o ss[i]]
    <2>2. m \in Nat /\ g = [i \in 1..(m - 1) |-> IF i = 1 THEN ss[i] ELSE g[i - 1] \o ss[i]]
      BY <2>1 DEF Partial
    <2>3. \A i \in 1..(m - 1) : g[i] = IF i = 1 THEN ss[i] ELSE g[i - 1] \o ss[i]
      BY <2>2, Zenon
    <2>4. ASSUME NEW i \in 1..m
          PROVE  h[i] = IF i = 1 THEN ss[i] ELSE h[i - 1] \o ss[i]
      <3>1. CASE i = 1
        BY <3>1, <2>2, <2>3
      <3>2. CASE i # 1 /\ i < m
        <4>1. h[i] = g[i] /\ h[i - 1] = g[i - 1] /\ i \in 1..(m - 1)
          BY <3>2, <2>2
        <4> QED
          BY <3>2, <4>1, <2>3
      <3>3. CASE i # 1 /\ i = m
        <4>1. m \in 1..m /\ m - 1 \in 1..m /\ m # 1 /\ m - 1 < m /\ ~(m < m)
          BY <3>3, <2>2
        <4>2. h[m] = g[m - 1] \o ss[m] /\ h[m - 1] = g[m - 1]
          BY <4>1, Zenon
        <4> HIDE DEF h
        <4> QED
          BY <3>3, <4>2
      <3> QED
        BY <3>1, <3>2, <3>3, <2>2
    <2>5. h = e
      <3>1. \A i \in 1..m : h[i] = e[i]
        BY <2>4
      <3>2. h = [i \in 1..m |-> h[i]] /\ e = [i \in 1..m |-> e[i]]
        OBVIOUS
      <3> HIDE DEF h, e
      <3> QED
        BY <3>1, <3>2
    <2>6. Partial(ss, h, m)
      BY <2>5 DEF Partial
    <2> QED
      BY <2>6, <1>1
  <1> QED
    BY <1>2, <1>3

\* A list of lists, none with a repetition and no two with a common element,
\* flattened: the elements of all of them, each once.
LEMMA FlattenIs ==
    ASSUME NEW S, NEW ss \in Seq(Seq(S)),
           \A i \in DOMAIN ss : IsInjective(ss[i]),
           \A i, j \in DOMAIN ss : i # j => ToSet(ss[i]) \cap ToSet(ss[j]) = {}
    PROVE  /\ FlattenSeq(ss) \in Seq(S) /\ IsInjective(FlattenSeq(ss))
           /\ ToSet(FlattenSeq(ss)) = UNION {ToSet(ss[i]) : i \in DOMAIN ss}
  <1> DEFINE n == Len(ss)
             Up(i) == UNION {ToSet(ss[j]) : j \in 1..i}
  <1>1. n \in Nat /\ DOMAIN ss = 1..n
    OBVIOUS
  <1>2. CASE n = 0
    <2>1. FlattenSeq(ss) = ss /\ ss = <<>>
      BY <1>2 DEF FlattenSeq
    <2> QED
      BY <2>1 DEF IsInjective, ToSet
  <1>3. CASE n # 0
    <2> DEFINE g == CHOOSE h : Partial(ss, h, n)
    <2>1. FlattenSeq(ss) = g[n]
      BY <1>3 DEF FlattenSeq, Partial
    <2>2. Partial(ss, g, n)
      BY <1>1, PartialExists
    <2> HIDE DEF g, n
    <2>3. \A i \in 1..n : g[i] = IF i = 1 THEN ss[i] ELSE g[i - 1] \o ss[i]
      BY <2>2, Zenon DEF Partial
    <2> DEFINE Good(i) == g[i] \in Seq(S) /\ IsInjective(g[i]) /\ ToSet(g[i]) = Up(i)
               bad == {i \in 1..n : ~Good(i)}
    <2>4. bad = {}
      <3> SUFFICES ASSUME bad # {} PROVE FALSE
        OBVIOUS
      <3>0. bad \subseteq Nat
        BY <1>1
      <3> HIDE DEF bad
      <3>1. PICK i \in bad : \A k \in bad : i <= k
        BY <3>0, Least
      <3>2. i \in 1..n /\ ~Good(i)
        BY <3>1 DEF bad
      <3>3. ss[i] \in Seq(S) /\ IsInjective(ss[i]) /\ i \in Nat
        BY <1>1, <3>2
      <3>4. CASE i = 1
        <4>1. g[i] = ss[i]
          BY <2>3, <3>2, <3>4
        <4>2. Up(i) = ToSet(ss[i])
          BY <3>4
        <4> QED
          BY <3>2, <3>3, <4>1, <4>2
      <3>5. CASE i # 1
        <4>1. i - 1 \in 1..n /\ i - 1 \notin bad
          BY <1>1, <3>1, <3>2, <3>5
        <4>2. Good(i - 1)
          BY <4>1 DEF bad
        <4>3. g[i] = g[i - 1] \o ss[i]
          BY <2>3, <3>2, <3>5
        <4>4. Up(i - 1) \cap ToSet(ss[i]) = {}
          BY <1>1, <3>2
        <4>5. Up(i) = Up(i - 1) \cup ToSet(ss[i])
          <5>1. 1..i = (1..(i - 1)) \cup {i}
            BY <3>3, <4>1, <1>1
          <5> QED
            BY <5>1, Zenon
        <4> HIDE DEF Up
        <4>6. ToSet(g[i - 1] \o ss[i]) = ToSet(g[i - 1]) \cup ToSet(ss[i])
          BY <3>3, <4>2, ToSetConcat
        <4>7. IsInjective(g[i - 1] \o ss[i])
          BY <3>3, <4>2, <4>4, ConcatInjective
        <4>8. g[i - 1] \o ss[i] \in Seq(S)
          BY <3>3, <4>2
        <4>9. Good(i)
          BY <4>2, <4>3, <4>5, <4>6, <4>7, <4>8
        <4> QED
          BY <4>9, <3>2
      <3> QED
        BY <3>4, <3>5
    <2>5. Good(n)
      <3>1. n \in 1..n
        BY <1>1, <1>3
      <3> QED
        BY <3>1, <2>4
    <2> QED
      BY <2>1, <2>5, <1>1
  <1> QED
    BY <1>2, <1>3


\* R orders S strictly and totally.
Orders(R, S) ==
    /\ \A x \in S : <<x, x>> \notin R
    /\ \A x, y, z \in S : <<x, y>> \in R /\ <<y, z>> \in R => <<x, z>> \in R
    /\ \A x, y \in S : x # y => <<x, y>> \in R \/ <<y, x>> \in R

\* The elements of S before x.
Before(R, S, x) == {y \in S : <<y, x>> \in R}
Rank(R, S, x) == Cardinality(Before(R, S, x)) + 1

\* The ranks number a finite ordered set.
LEMMA Ranks ==
    ASSUME NEW S, IsFiniteSet(S), NEW R, Orders(R, S)
    PROVE  /\ Cardinality(S) \in Nat
           /\ \A x \in S : Rank(R, S, x) \in 1..Cardinality(S)
           /\ \A x, y \in S : Rank(R, S, x) = Rank(R, S, y) => x = y
           /\ \A p \in 1..Cardinality(S) : \E x \in S : Rank(R, S, x) = p
           /\ \A x, y \in S : <<x, y>> \in R <=> Rank(R, S, x) < Rank(R, S, y)
  <1> DEFINE n == Cardinality(S)
             f == [x \in S |-> Rank(R, S, x)]
  <1>1. n \in Nat
    BY FS_CardinalityType
  <1>2. ASSUME NEW x \in S PROVE Cardinality(Before(R, S, x)) \in 0..(n - 1)
    <2>1. Before(R, S, x) \subseteq S /\ Before(R, S, x) # S
      BY DEF Before, Orders
    <2>2. IsFiniteSet(Before(R, S, x))
      BY <2>1, FS_Subset
    <2>3. Cardinality(Before(R, S, x)) \in Nat
      BY <2>2, FS_CardinalityType
    <2>4. Cardinality(Before(R, S, x)) <= n /\ Cardinality(Before(R, S, x)) # n
      BY <2>1, FS_Subset
    <2> QED
      BY <1>1, <2>3, <2>4
  <1>3. ASSUME NEW x \in S, NEW y \in S, <<x, y>> \in R
        PROVE  Cardinality(Before(R, S, x)) < Cardinality(Before(R, S, y))
    <2>1. Before(R, S, x) \subseteq Before(R, S, y) /\ Before(R, S, x) # Before(R, S, y)
      BY <1>3 DEF Before, Orders
    <2>2. IsFiniteSet(Before(R, S, y))
      <3>1. Before(R, S, y) \subseteq S
        BY DEF Before
      <3> QED
        BY <3>1, FS_Subset
    <2>3. /\ Cardinality(Before(R, S, x)) <= Cardinality(Before(R, S, y))
          /\ Cardinality(Before(R, S, x)) # Cardinality(Before(R, S, y))
      BY <2>1, <2>2, FS_Subset
    <2> QED
      BY <2>3, <1>2
  <1> HIDE DEF n
  <1>4. f \in [S -> 1..n] /\ \A x \in S : f[x] = Cardinality(Before(R, S, x)) + 1
    BY <1>1, <1>2 DEF Rank
  <1>a. \A x \in S : f[x] = Rank(R, S, x)
    OBVIOUS
  <1> HIDE DEF f
  <1>5. \A x, y \in S : <<x, y>> \in R => f[x] < f[y]
    <2> TAKE x, y \in S
    <2> HAVE <<x, y>> \in R
    <2>1. Cardinality(Before(R, S, x)) < Cardinality(Before(R, S, y))
      BY <1>3
    <2> QED
      BY <2>1, <1>2, <1>4, <1>1
  <1>6. \A x, y \in S : x # y => f[x] < f[y] \/ f[y] < f[x]
    BY <1>5 DEF Orders
  <1>7. \A x, y \in S : f[x] \in Nat /\ (f[x] < f[y] => f[x] # f[y] /\ ~(f[y] < f[x]))
    BY <1>1, <1>4
  <1>8. \A x, y \in S : x # y => f[x] # f[y]
    BY <1>6, <1>7
  <1>9. IsInjective(f)
    BY <1>4, <1>8 DEF IsInjective
  <1>10. \A x, y \in S : <<x, y>> \in R <=> f[x] < f[y]
    BY <1>5, <1>7 DEF Orders
  <1>11. IsFiniteSet(1..n) /\ Cardinality(1..n) = n
    BY <1>1, FS_Interval
  <1>12. f \in Injection(S, 1..n)
    BY <1>4, <1>9 DEF Injection
  <1>13. f \in Surjection(S, 1..n)
    BY <1>11, <1>12, FS_Injection DEF n
  <1> QED
    BY <1>1, <1>4, <1>8, <1>10, <1>13, <1>a DEF Surjection, n


\* The natural numbers are ordered.
LEMMA BelowOrders ==
    ASSUME NEW T, T \subseteq Nat
    PROVE  Orders(Below, T) /\ \A x, y \in T : <<x, y>> \in Below <=> x < y
  <1>1. \A x, y \in T : <<x, y>> \in Below <=> x < y
    BY DEF Below
  <1>2. \A x \in T : x \in Nat
    OBVIOUS
  <1> QED
    BY <1>1, <1>2 DEF Orders

\* A finite set of natural numbers has a greatest element, Max.
LEMMA FiniteMax ==
    ASSUME NEW T, T \subseteq Nat, IsFiniteSet(T), T # {}
    PROVE  Max(T) \in T /\ \A y \in T : Max(T) >= y
  <1> DEFINE f(x) == Rank(Below, T, x)
             n == Cardinality(T)
  <1>0. Orders(Below, T)
    BY BelowOrders
  <1>1. n \in Nat /\ \A x \in T : f(x) \in 1..n
    BY <1>0, Ranks
  <1>2. \A x, y \in T : (<<x, y>> \in Below) <=> (f(x) < f(y))
    BY <1>0, Ranks
  <1> HIDE DEF n, f
  <1> DEFINE U == {n - f(x) : x \in T}
  <1>3. U \subseteq Nat /\ U # {}
    <2>1. \A x \in T : n - f(x) \in Nat
      BY <1>1
    <2> QED
      BY <2>1
  <1>4. PICK u \in U : \A k \in U : u <= k
    <2> HIDE DEF U
    <2> QED
      BY <1>3, Least
  <1>5. PICK x \in T : u = n - f(x)
    BY <1>4
  <1>6. ASSUME NEW y \in T PROVE x >= y
    <2>1. n - f(x) <= n - f(y) /\ f(x) \in 1..n /\ f(y) \in 1..n
      BY <1>1, <1>4, <1>5
    <2>2. ~(f(x) < f(y))
      BY <1>1, <2>1
    <2>3. ~(x < y)
      BY <2>2, <1>2, BelowOrders
    <2>4. x \in Nat /\ y \in Nat
      OBVIOUS
    <2> QED
      BY <2>3, <2>4
  <1> QED
    BY <1>6 DEF Max

\* A listing of a set has all its elements, each once.
LEMMA SetToSeqsAre ==
    ASSUME NEW S, IsFiniteSet(S), NEW q \in SetToSeqs(S)
    PROVE  q \in Seq(S) /\ ToSet(q) = S /\ IsInjective(q)
  <1> DEFINE n == Cardinality(S)
  <1>1. n \in Nat
    BY FS_CardinalityType
  <1>2. q \in [1..n -> S] /\ IsInjective(q)
    BY DEF SetToSeqs, IsInjective
  <1>3. IsFiniteSet(1..n) /\ Cardinality(1..n) = n
    BY <1>1, FS_Interval
  <1> HIDE DEF n
  <1>4. q \in Surjection(1..n, S)
    BY <1>2, <1>3, FS_Injection DEF Injection, n
  <1> QED
    BY <1>1, <1>2, <1>4 DEF Surjection, ToSet
=============================================================================
