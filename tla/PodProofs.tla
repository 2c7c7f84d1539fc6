------------------------------ MODULE PodProofs ------------------------------
(***************************************************************************)
(* Proofs about the rendering and the pod template, for every              *)
(* configuration tree, every hostname and every list of secrets, clients   *)
(* and rules.                                                              *)
(***************************************************************************)
EXTENDS Pod, DataProofs, TLAPS

(* What one assignment into a configuration tree keeps. *)

\* A path; the provers do not know which strings there are.
IsPath(p) == \E S : p \in Seq(S)

\* A prefix with a first key shares it.
LEMMA PrefixHead ==
    ASSUME NEW p, NEW q, IsPath(p), IsPath(q), p # <<>>, IsPrefix(p, q)
    PROVE  q # <<>> /\ q[1] = p[1]
  <1>1. Len(p) \in Nat \ {0} /\ Len(q) \in Nat /\ Len(p) <= Len(q)
    BY DEF IsPrefix, IsPath
  <1>2. SubSeq(p, 1, Len(p))[1] = p[1] /\ SubSeq(q, 1, Len(p))[1] = q[1]
    BY <1>1
  <1> QED
    BY <1>1, <1>2 DEF IsPrefix

\* Two paths that meet begin with the same key.
LEMMA MeetHead ==
    ASSUME NEW p, NEW q, IsPath(p), IsPath(q), p # <<>>, q # <<>>, Meet(p, q)
    PROVE  p[1] = q[1]
  BY PrefixHead DEF Meet

\* A path meets itself.
LEMMA MeetSelf ==
    ASSUME NEW p, IsPath(p)
    PROVE  Meet(p, p)
  BY DEF Meet, IsPrefix, IsPath

\* The places the operator writes to.
LEMMA Places ==
    /\ IsPath(UsersPath) /\ UsersPath # <<>>
    /\ IsPath(CookiesPath) /\ CookiesPath # <<>>
    /\ IsPath(RulesPath) /\ RulesPath # <<>>
    /\ IsPath(ClientsPath) /\ ClientsPath # <<>>
    /\ UsersPath[1] = "authentication_backend" /\ CookiesPath[1] = "session"
    /\ RulesPath[1] = "access_control" /\ ClientsPath[1] = "identity_providers"
  <1>1. \A x, y : <<x, y>> \in Seq({x, y}) /\ <<x, y>> # <<>> /\ <<x, y>>[1] = x
    OBVIOUS
  <1>2. \A x, y, z : /\ <<x, y, z>> \in Seq({x, y, z}) /\ <<x, y, z>> # <<>>
                     /\ <<x, y, z>>[1] = x
    OBVIOUS
  <1>3. \A x, y : IsPath(<<x, y>>)
    BY <1>1 DEF IsPath
  <1>4. \A x, y, z : IsPath(<<x, y, z>>)
    BY <1>2 DEF IsPath
  <1> QED
    BY <1>1, <1>2, <1>3, <1>4 DEF UsersPath, CookiesPath, RulesPath, ClientsPath

\* They are apart: no write of the operator disturbs another.
LEMMA PlacesApart ==
    \A p, q \in {UsersPath, CookiesPath, RulesPath, ClientsPath} :
        p # q => ~Meet(p, q)
  BY Places, MeetHead

\* An assignment puts the value in its place, drops what met that place, and
\* keeps everything else.
LEMMA AssignKeeps ==
    ASSUME NEW t, NEW p, NEW v
    PROVE  /\ \A q : q \in DOMAIN Assign(t, p, v) <=> q = p \/ (q \in DOMAIN t /\ ~Meet(p, q))
           /\ Assign(t, p, v)[p] = v
           /\ \A q \in DOMAIN t : ~Meet(p, q) /\ q # p => Assign(t, p, v)[q] = t[q]
  BY DEF Assign

OperatorPlaces == {UsersPath, CookiesPath, RulesPath, ClientsPath}

\* The tree t is config with the places L layered onto it: what does not meet
\* one of them is as it was, and nothing else was added.
LayeredOn(t, config, L) ==
    /\ \A q \in DOMAIN config :
         (\A p \in L : ~Meet(p, q)) => q \in DOMAIN t /\ t[q] = config[q]
    /\ DOMAIN t \subseteq DOMAIN config \cup L
    /\ L \subseteq DOMAIN t

\* One more assignment layers one more place.
LEMMA LayerOne ==
    ASSUME NEW config, NEW t, NEW v,
           NEW L \in SUBSET OperatorPlaces, NEW p \in OperatorPlaces, p \notin L,
           LayeredOn(t, config, L)
    PROVE  LayeredOn(Assign(t, p, v), config, L \cup {p})
  <1>1. \A q \in L : ~Meet(p, q)
    BY PlacesApart DEF OperatorPlaces
  <1>2. Meet(p, p)
    BY Places, MeetSelf DEF OperatorPlaces
  <1> QED
    BY <1>1, <1>2, AssignKeeps DEF LayeredOn

\* The users file does not change whether the user has session cookies.
LEMMA CookiesUntouched ==
    ASSUME NEW config, \A q \in DOMAIN config : IsPath(q),
           NEW t, NEW L \in SUBSET {UsersPath}, LayeredOn(t, config, L)
    PROVE  (\E q \in DOMAIN t : IsPrefix(CookiesPath, q))
             <=> (\E q \in DOMAIN config : IsPrefix(CookiesPath, q))
  <1>1. ~IsPrefix(CookiesPath, UsersPath)
    BY Places, PrefixHead
  <1>2. ASSUME NEW q \in DOMAIN config, IsPrefix(CookiesPath, q)
        PROVE  ~Meet(UsersPath, q)
    BY <1>2, Places, PrefixHead, MeetHead
  <1> QED
    BY <1>1, <1>2 DEF LayeredOn

\* renderConfig layers its four blocks, in the code's order, onto the user's
\* configuration; each block sees the user's own entries in its place.
LEMMA RenderLayers ==
    ASSUME NEW in, \A q \in DOMAIN in.config : IsPath(q)
    PROVE  /\ LayeredOn(Rendered(in), in.config, Layered(in))
           /\ CookiesPath \in Layered(in) =>
                Rendered(in)[CookiesPath] = List(<<Cookie(in.hostname)>>)
           /\ in.users # NoRef =>
                Rendered(in)[UsersPath] = Scalar(FileUsersPath(in.users))
           /\ /\ in.rules # <<>> /\ RulesPath \in DOMAIN in.config
              /\ in.config[RulesPath].list
              => Rendered(in)[RulesPath].items =
                   in.rules \o in.config[RulesPath].items
  <1> DEFINE c  == in.config
             t1 == ApplyFileBackend(c, in.users # NoRef, FileUsersPath(in.users))
             t2 == ApplySession(t1, in.hostname)
             t3 == ApplyRules(t2, in.rules)
             t4 == ApplyClients(t3, in.clients)
             L1 == IF in.users = NoRef THEN {} ELSE {UsersPath}
             own == \E q \in DOMAIN c : IsPrefix(CookiesPath, q)
             L2 == L1 \cup (IF in.hostname = <<>> \/ own THEN {} ELSE {CookiesPath})
             L3 == L2 \cup (IF in.rules = <<>> THEN {} ELSE {RulesPath})
             L4 == L3 \cup (IF in.clients = {} THEN {} ELSE {ClientsPath})
  <1>a. /\ UsersPath # CookiesPath /\ UsersPath # RulesPath /\ UsersPath # ClientsPath
        /\ CookiesPath # RulesPath /\ CookiesPath # ClientsPath
        /\ RulesPath # ClientsPath
    BY Places
  <1>b. \A p, q \in OperatorPlaces : p # q => ~Meet(p, q)
    BY PlacesApart DEF OperatorPlaces
  <1>0. Rendered(in) = t4 /\ Layered(in) = L4
    BY DEF Rendered, RenderConfig, Layered
  <1>1. LayeredOn(c, c, {})
    BY DEF LayeredOn
  <1>2. LayeredOn(t1, c, L1)
    <2>1. LayeredOn(Assign(c, UsersPath, Scalar(FileUsersPath(in.users))), c,
                    {} \cup {UsersPath})
      BY <1>1, LayerOne DEF OperatorPlaces
    <2> QED
      BY <1>1, <2>1 DEF ApplyFileBackend
  <1>3. (\E q \in DOMAIN t1 : IsPrefix(CookiesPath, q)) <=> own
    <2> HIDE DEF t1
    <2> QED
      BY <1>2, CookiesUntouched
  <1>4. /\ t2 = IF in.hostname = <<>> \/ own THEN t1
                ELSE Assign(t1, CookiesPath, List(<<Cookie(in.hostname)>>))
        /\ LayeredOn(t2, c, L2)
    <2>1. t2 = IF in.hostname = <<>> \/ own THEN t1
               ELSE Assign(t1, CookiesPath, List(<<Cookie(in.hostname)>>))
      BY <1>3 DEF ApplySession
    <2> HIDE DEF t1, t2, own
    <2> QED
      BY <2>1, <1>2, <1>a, LayerOne DEF OperatorPlaces
  <1> DEFINE existing == IF RulesPath \in DOMAIN t2 /\ t2[RulesPath].list
                         THEN t2[RulesPath].items ELSE <<>>
  <1>5. /\ t3 = IF in.rules = <<>> THEN t2
                ELSE Assign(t2, RulesPath, List(in.rules \o existing))
        /\ LayeredOn(t3, c, L3)
    <2>1. t3 = IF in.rules = <<>> THEN t2
               ELSE Assign(t2, RulesPath, List(in.rules \o existing))
      BY DEF ApplyRules
    <2> HIDE DEF t2, t3, own, existing
    <2> QED
      BY <2>1, <1>4, <1>a, LayerOne DEF OperatorPlaces
  <1>6. /\ \E v : t4 = IF in.clients = {} THEN t3 ELSE Assign(t3, ClientsPath, v)
        /\ LayeredOn(t4, c, L4)
    <2>1. \E v : t4 = IF in.clients = {} THEN t3 ELSE Assign(t3, ClientsPath, v)
      BY DEF ApplyClients
    <2> HIDE DEF t3, t4, own
    <2>2. PICK v : t4 = IF in.clients = {} THEN t3 ELSE Assign(t3, ClientsPath, v)
      BY <2>1
    <2>3. ClientsPath \notin L3 /\ L3 \in SUBSET OperatorPlaces
          /\ ClientsPath \in OperatorPlaces
      BY <1>a DEF OperatorPlaces
    <2>4. LayeredOn(Assign(t3, ClientsPath, v), c, L3 \cup {ClientsPath})
      BY <2>3, <1>5, LayerOne
    <2>5. LayeredOn(t4, c, L4)
      BY <2>2, <2>4, <1>5
    <2> QED
      BY <2>1, <2>5
  <1>7. ASSUME CookiesPath \in L4
        PROVE  t4[CookiesPath] = List(<<Cookie(in.hostname)>>)
    <2> HIDE DEF t1, t2, t3, t4, own, existing
    <2>1. t2[CookiesPath] = List(<<Cookie(in.hostname)>>) /\ CookiesPath \in DOMAIN t2
      BY <1>4, <1>7, <1>a, AssignKeeps
    <2>2. t3[CookiesPath] = List(<<Cookie(in.hostname)>>) /\ CookiesPath \in DOMAIN t3
      BY <2>1, <1>5, <1>a, <1>b, AssignKeeps DEF OperatorPlaces
    <2> QED
      BY <2>2, <1>6, <1>a, <1>b, AssignKeeps DEF OperatorPlaces
  <1>8. ASSUME in.users # NoRef
        PROVE  t4[UsersPath] = Scalar(FileUsersPath(in.users))
    <2>1. t1 = Assign(c, UsersPath, Scalar(FileUsersPath(in.users)))
      BY <1>8 DEF ApplyFileBackend
    <2> HIDE DEF t1, t2, t3, t4, own, existing
    <2>2. t1[UsersPath] = Scalar(FileUsersPath(in.users)) /\ UsersPath \in DOMAIN t1
      BY <2>1, AssignKeeps
    <2>3. t2[UsersPath] = Scalar(FileUsersPath(in.users)) /\ UsersPath \in DOMAIN t2
      BY <2>2, <1>4, <1>a, <1>b, AssignKeeps DEF OperatorPlaces
    <2>4. t3[UsersPath] = Scalar(FileUsersPath(in.users)) /\ UsersPath \in DOMAIN t3
      BY <2>3, <1>5, <1>a, <1>b, AssignKeeps DEF OperatorPlaces
    <2> QED
      BY <2>4, <1>6, <1>a, <1>b, AssignKeeps DEF OperatorPlaces
  <1>9. ASSUME in.rules # <<>>, RulesPath \in DOMAIN c, c[RulesPath].list
        PROVE  t4[RulesPath].items = in.rules \o c[RulesPath].items
    <2>1. RulesPath \in DOMAIN t2 /\ t2[RulesPath] = c[RulesPath]
      <3> HIDE DEF t2, own
      <3> QED
        BY <1>4, <1>9, <1>a, <1>b DEF LayeredOn, OperatorPlaces
    <2>2. existing = c[RulesPath].items
      BY <2>1, <1>9
    <2> HIDE DEF t2, t3, t4, existing
    <2>3. t3[RulesPath] = List(in.rules \o c[RulesPath].items) /\ RulesPath \in DOMAIN t3
      BY <2>2, <1>5, <1>9, AssignKeeps
    <2>4. t4[RulesPath] = List(in.rules \o c[RulesPath].items)
      BY <2>3, <1>6, <1>a, <1>b, AssignKeeps DEF OperatorPlaces
    <2>5. \A x : List(x).items = x
      BY DEF List
    <2> QED
      BY <2>4, <2>5
  <1> QED
    BY <1>0, <1>6, <1>7, <1>8, <1>9

-----------------------------------------------------------------------------
(* The ConfigMap. *)

\* The inputs the user may give.
IsInput(in) == DOMAIN in = Fields /\ \A f \in Fields : in[f] \in Options[f]

\* What was written was made from inputs the user has given.
MadeInv ==
    /\ IsInput(input)
    /\ worker.at = "deploy" => IsInput(worker.in)
    /\ cm.made => IsInput(cm.of) /\ cm.is = Rendered(cm.of)
    /\ deploy.made => /\ IsInput(deploy.of) /\ deploy.is = BuildDeployment(deploy.of)
                      /\ Valid(deploy.is)

\* At first nothing was made.
LEMMA MadeInit == Init => MadeInv
  BY OptionsAssumption DEF Init, MadeInv, IsInput, NotYet

\* Every write takes the inputs as they were when the reconcile read them.
LEMMA MadeStep == MadeInv /\ [Next]_vars => MadeInv'
  <1> SUFFICES ASSUME MadeInv, [Next]_vars PROVE MadeInv'
    OBVIOUS
  <1>1. ASSUME NEW f \in Fields, Change(f) PROVE MadeInv'
    <2>1. IsInput(input')
      BY <1>1 DEF Change, MadeInv, IsInput
    <2> QED
      BY <1>1, <2>1 DEF Change, MadeInv
  <1>2. CASE WriteConfigMap
    BY <1>2 DEF WriteConfigMap, MadeInv, Made
  <1>3. CASE WriteDeployment
    <2>1. CASE Valid(BuildDeployment(worker.in))
      BY <1>3, <2>1 DEF WriteDeployment, MadeInv, Made
    <2>2. CASE ~Valid(BuildDeployment(worker.in))
      BY <1>3, <2>2 DEF WriteDeployment, MadeInv
    <2> QED
      BY <2>1, <2>2
  <1>4. CASE UNCHANGED vars
    BY <1>4 DEF vars, MadeInv
  <1> QED
    BY <1>1, <1>2, <1>3, <1>4 DEF Next

\* Inputs are typed.
LEMMA InputTypes ==
    ASSUME NEW in, IsInput(in)
    PROVE  /\ in.config \in Options["config"] /\ in.hostname \in Options["hostname"]
           /\ in.secrets \in Options["secrets"]
           /\ \A q \in DOMAIN in.config : IsPath(q)
           /\ IsPath(in.hostname)
  BY InputsAssumption DEF IsInput, Fields, IsPath

\* Every entry of every additionalConfig is kept, and nothing but the documented
\* layers is added, whatever the tree looks like.
THEOREM ConfigAlwaysKept == Spec => []ConfigKept
  <1>1. MadeInv => ConfigKept
    <2> SUFFICES ASSUME MadeInv, cm.made PROVE ConfigKept
      BY DEF ConfigKept
    <2>1. IsInput(cm.of) /\ cm.is = Rendered(cm.of)
      BY DEF MadeInv
    <2>2. \A q \in DOMAIN cm.of.config : IsPath(q)
      BY <2>1, InputTypes
    <2> QED
      BY <2>1, <2>2, RenderLayers DEF ConfigKept, LayeredOn
  <1> QED
    BY <1>1, MadeInit, MadeStep, PTL DEF Spec

\* What follows the first label of a hostname is a suffix of it, and so is the
\* hostname itself.
LEMMA TailIsSuffix ==
    ASSUME NEW S, NEW h \in Seq(S)
    PROVE  IsSuffix(h, h) /\ (h # <<>> => IsSuffix(Tail(h), h))
  <1>1. IsSuffix(h, h)
    BY DEF IsSuffix, IsPrefix, Reverse
  <1>2. ASSUME h # <<>> PROVE IsSuffix(Tail(h), h)
    <2> DEFINE n == Len(h)
               r == [i \in 1..n |-> h[(n - i) + 1]]
               s == [i \in 1..(n - 1) |-> h[(n - i) + 1]]
    <2>1. /\ n \in Nat \ {0} /\ Tail(h) \in Seq(S) /\ Len(Tail(h)) = n - 1
          /\ \A i \in 1..(n - 1) : Tail(h)[i] = h[i + 1]
      BY <1>2
    <2>2. Reverse(h) = r /\ Len(r) = n
      BY <2>1 DEF Reverse
    <2>3. Reverse(Tail(h)) = s /\ Len(s) = n - 1
      <3>1. \A i \in 1..(n - 1) : Tail(h)[(n - 1 - i) + 1] = h[(n - i) + 1]
        BY <2>1
      <3> HIDE DEF n
      <3> QED
        BY <2>1, <3>1 DEF Reverse
    <2>4. SubSeq(s, 1, n - 1) = SubSeq(r, 1, n - 1)
      <3>1. \A i \in 1..(n - 1) : s[i] = r[i]
        BY <2>1
      <3> HIDE DEF s, r, n
      <3> QED
        BY <2>1, <3>1
    <2> QED
      BY <2>1, <2>2, <2>3, <2>4 DEF IsSuffix, IsPrefix
  <1> QED
    BY <1>1, <1>2

\* Only the last label may be the empty one, e, after another.
Labelled(h, e) == \A i \in DOMAIN h : i = 1 \/ i < Len(h) => h[i] # e

\* The positions of the labels of h that are not e.
Named(h, e) == {i \in DOMAIN h : h[i] # e}

\* The domain parentDomain finds is a suffix of the hostname and, unless it is
\* the hostname, has two labels, if the hostname has not just two itself.
\* (The empty string has a name of its own: the SMT translation has none for it.)
LEMMA ParentCovers ==
    ASSUME NEW S, NEW h \in Seq(S), h # <<>>, NEW e, Labelled(h, e),
           Named(h, e) # {1, 2},
           NEW d, d = IF Len(h) > 1 /\ Tail(h) # <<e>> THEN Tail(h) ELSE h
    PROVE  IsSuffix(d, h) /\ (d = h \/ {1, 2} \subseteq Named(d, e))
  <1>0. Len(h) \in Nat \ {0} /\ DOMAIN h = 1..Len(h)
    OBVIOUS
  <1>1. CASE Len(h) > 1 /\ Tail(h) # <<e>>
    <2>1. d = Tail(h)
      BY <1>1
    <2>2. /\ Tail(h) \in Seq(S) /\ Len(Tail(h)) = Len(h) - 1
          /\ DOMAIN Tail(h) = 1..(Len(h) - 1)
          /\ \A i \in 1..(Len(h) - 1) : Tail(h)[i] = h[i + 1]
      BY <1>0, <1>1
    <2>3. h[1] # e
      BY <1>0 DEF Labelled
    <2>4. Len(h) # 2
      <3> SUFFICES ASSUME Len(h) = 2 PROVE FALSE
        OBVIOUS
      <3>1. h[2] # e
        <4> DEFINE t == Tail(h)
                   u == <<t[1]>>
        <4>1. t \in Seq(S) /\ Len(t) = 1 /\ t[1] \in S /\ t[1] = h[2]
          BY <2>2
        <4>2. u \in Seq(S) /\ Len(u) = 1 /\ u[1] = t[1]
          BY <4>1
        <4>3. t # <<e>>
          BY <1>1
        <4> HIDE DEF t, u
        <4>4. t = u
          BY <4>1, <4>2, SeqEqual
        <4>5. u = <<h[2]>>
          BY <4>1 DEF u
        <4> QED
          BY <4>3, <4>4, <4>5
      <3> QED
        BY <1>0, <2>3, <3>1 DEF Named
    <2>5. h[2] # e
      BY <1>0, <1>1, <2>4 DEF Labelled
    <2>6. h[3] # e
      <3>1. CASE Len(h) = 3
        BY <1>0, <2>3, <2>5, <3>1 DEF Named
      <3>2. CASE Len(h) > 3
        BY <1>0, <3>2 DEF Labelled
      <3> QED
        BY <1>0, <1>1, <2>4, <3>1, <3>2
    <2>7. {1, 2} \subseteq Named(Tail(h), e)
      BY <1>0, <1>1, <2>2, <2>4, <2>5, <2>6 DEF Named
    <2> QED
      BY <2>1, <2>2, <2>7, <1>0, <1>1, TailIsSuffix
  <1>2. CASE ~(Len(h) > 1 /\ Tail(h) # <<e>>)
    BY <1>0, <1>2, TailIsSuffix
  <1> QED
    BY <1>1, <1>2

\* No portal is at a domain of two labels, which parentDomain takes for the
\* subdomain of a top level domain.
NoApexHostname == \A h \in Options["hostname"] : Labels(h) # {1, 2}

\* The default cookie is for the portal's hostname or for a parent domain of two
\* labels or more, for every hostname that has not just two labels itself (the
\* case in which the code does not do what its comment says).
THEOREM CookieAlwaysCovers ==
    ASSUME NoApexHostname PROVE Spec => []CookieCovers
  <1>1. MadeInv => CookieCovers
    <2> SUFFICES ASSUME MadeInv, cm.made, CookiesPath \in Layered(cm.of)
                 PROVE  CookieCovers
      BY DEF CookieCovers
    <2> DEFINE h == cm.of.hostname
    <2>1. IsInput(cm.of) /\ cm.is = Rendered(cm.of)
      BY DEF MadeInv
    <2>2. /\ \A q \in DOMAIN cm.of.config : IsPath(q)
          /\ h \in Options["hostname"]
      BY <2>1, InputTypes
    <2>3. h # <<>>
      BY Places DEF Layered
    <2>4. cm.is[CookiesPath] = List(<<Cookie(h)>>)
      BY <2>1, <2>2, RenderLayers
    <2>5. cm.is[CookiesPath].items[1].domain = ParentDomain(h)
      BY <2>4 DEF List, Cookie
    <2> HIDE DEF h
    <2>6. h \in Seq(STRING) /\ Labelled(h, "")
      BY <2>2, InputsAssumption, Zenon DEF Labelled
    <2>7. ParentDomain(h) = IF Len(h) > 1 /\ Tail(h) # <<"">> THEN Tail(h) ELSE h
      BY Zenon DEF ParentDomain
    <2>8. \A g : Labels(g) = Named(g, "")
      BY Zenon DEF Labels, Named
    <2>9. Named(h, "") # {1, 2}
      BY <2>2, <2>8, Zenon DEF NoApexHostname
    <2>10. /\ IsSuffix(ParentDomain(h), h)
           /\ ParentDomain(h) = h \/ {1, 2} \subseteq Labels(ParentDomain(h))
      BY <2>3, <2>6, <2>7, <2>8, <2>9, ParentCovers, Zenon
    <2> QED
      BY <2>5, <2>10, Zenon DEF CookieCovers, h
  <1> QED
    BY <1>1, MadeInit, MadeStep, PTL DEF Spec


-----------------------------------------------------------------------------
(* Names of volumes. *)

\* strings.Trim: what is left begins and ends with a letter or digit, unless
\* nothing is left; it ends as before, or is as before from the first position
\* on, when there was nothing to cut there.
LEMMA TrimmedIs ==
    ASSUME NEW S, NEW s \in Seq(S), \E i \in DOMAIN s : s[i] # "-",
           NEW t, t = Trimmed(s)
    PROVE  /\ t \in Seq(S) /\ Len(t) \in 1..Len(s)
           /\ t[1] # "-" /\ t[Len(t)] # "-"
           /\ s[Len(s)] # "-" => t[Len(t)] = s[Len(s)]
           /\ s[1] # "-" => \A i \in Nat \ {0} : At(t, i) = At(s, i)
  <1> DEFINE solid == {i \in DOMAIN s : s[i] # "-"}
             a == Min(solid)
             b == Max(solid)
  <1>1. Len(s) \in Nat /\ DOMAIN s = 1..Len(s)
    OBVIOUS
  <1>2. solid # {} /\ solid \subseteq 0..Len(s)
    BY <1>1
  <1>3. /\ a \in solid /\ \A y \in solid : a <= y
        /\ b \in solid /\ \A y \in solid : b >= y
    <2> HIDE DEF solid
    <2> QED
      BY <1>1, <1>2, Extremes
  <1>4. t = SubSeq(s, a, b)
    BY <1>2 DEF Trimmed
  <1>5. /\ a \in 1..Len(s) /\ b \in 1..Len(s) /\ a <= b
        /\ s[a] # "-" /\ s[b] # "-"
        /\ \A i \in 1..Len(s) : s[i] # "-" => a <= i /\ i <= b
    BY <1>1, <1>3
  <1> HIDE DEF solid, a, b
  <1>6. \A i \in a..b : s[i] \in S
    BY <1>5, <1>1
  <1>7. /\ t \in Seq(S) /\ Len(t) = b - a + 1
        /\ \A i \in 1..(b - a + 1) : t[i] = s[a + i - 1]
    BY <1>4, <1>5, <1>6, SubSeqProperties
  <1>8. t[1] = s[a] /\ t[Len(t)] = s[b]
    BY <1>5, <1>7
  <1>9. ASSUME s[Len(s)] # "-" PROVE b = Len(s)
    <2>1. Len(s) \in 1..Len(s)
      BY <1>5, <1>1
    <2> QED
      BY <2>1, <1>5, <1>9
  <1>10. ASSUME s[1] # "-", NEW i \in Nat \ {0} PROVE At(t, i) = At(s, i)
    <2>1. a = 1
      BY <1>5, <1>10
    <2>2. DOMAIN t = 1..b /\ \A j \in 1..b : t[j] = s[j]
      BY <2>1, <1>5, <1>7
    <2>3. CASE i <= b
      BY <2>2, <2>3, <1>1, <1>5 DEF At
    <2>4. CASE i > b
      BY <2>2, <2>4, <1>1, <1>5 DEF At
    <2> QED
      BY <2>3, <2>4, <1>5
  <1>11. Len(t) \in 1..Len(s)
    BY <1>1, <1>5, <1>7
  <1>12. s[Len(s)] # "-" => t[Len(t)] = s[Len(s)]
    BY <1>8, <1>9
  <1> QED
    BY <1>5, <1>7, <1>8, <1>10, <1>11, <1>12

\* A name with the suffix _FILE ends so.
LEMMA FileSuffix ==
    ASSUME NEW S, NEW n \in Seq(S), IsFileSecret(n)
    PROVE  Len(n) >= 2 /\ n[Len(n)] = "FILE"
  <1> DEFINE r == Reverse(n)
             f == Reverse(File)
  <1>1. Len(n) \in Nat /\ r = [i \in 1..Len(n) |-> n[(Len(n) - i) + 1]]
    BY DEF Reverse
  <1>2. f = [i \in 1..2 |-> File[(2 - i) + 1]] /\ File[2] = "FILE"
    BY DEF Reverse, File
  <1>3. Len(f) = 2 /\ f[1] = "FILE" /\ Len(r) = Len(n)
    <2> HIDE DEF f, r
    <2> QED
      BY <1>1, <1>2
  <1> HIDE DEF f, r
  <1>4. IsPrefix(f, r)
    BY DEF IsFileSecret, IsSuffix, f, r
  <1>5. 2 <= Len(n) /\ SubSeq(f, 1, 2) = SubSeq(r, 1, 2)
    BY <1>3, <1>4 DEF IsPrefix
  <1>6. SubSeq(f, 1, 2)[1] = f[1] /\ SubSeq(r, 1, 2)[1] = r[1]
    BY <1>3, <1>5, <1>1, <1>2
  <1> QED
    BY <1>1, <1>3, <1>5, <1>6


\* The normalised name of a _FILE variable begins with a letter or digit and ends
\* with FILE in lower case.
LEMMA NormalisedIs ==
    ASSUME NEW m \in Seq(DOMAIN Normal), IsFileSecret(m)
    PROVE  /\ \E S : Normalised(m) \in Seq(S)
           /\ Len(Normalised(m)) \in Nat \ {0}
           /\ Normalised(m)[1] # "-"
           /\ Normalised(m)[Len(Normalised(m))] = "file"
  <1> DEFINE S == {Normal[ch] : ch \in DOMAIN Normal}
             s == [i \in DOMAIN m |-> Normal[m[i]]]
  <1>1. Len(m) \in Nat /\ Len(m) >= 2 /\ m[Len(m)] = "FILE" /\ DOMAIN m = 1..Len(m)
    BY FileSuffix
  <1>2. s \in Seq(S) /\ Len(s) = Len(m) /\ s[Len(s)] = "file" /\ DOMAIN s = 1..Len(s)
    <2>1. \A i \in 1..Len(m) : Normal[m[i]] \in S
      OBVIOUS
    <2>2. s = [i \in 1..Len(m) |-> Normal[m[i]]]
      BY <1>1
    <2> HIDE DEF s, S
    <2>3. s \in Seq(S) /\ Len(s) = Len(m) /\ DOMAIN s = 1..Len(m)
      BY <1>1, <2>1, <2>2
    <2> QED
      BY <1>1, <2>2, <2>3, NormalAssumption
  <1>3. Normalised(m) = Trimmed(s)
    BY DEF Normalised
  <1> HIDE DEF s, S
  <1>4. Len(s) \in DOMAIN s /\ s[Len(s)] # "-"
    BY <1>1, <1>2
  <1>5. /\ Normalised(m) \in Seq(S) /\ Len(Normalised(m)) \in 1..Len(s)
        /\ Normalised(m)[1] # "-"
        /\ Normalised(m)[Len(Normalised(m))] = "file"
    BY <1>2, <1>3, <1>4, TrimmedIs
  <1> QED
    BY <1>1, <1>2, <1>5

\* secretVolumeName of a _FILE variable is a label; it keeps the normalised name
\* up to the limit, and all of it, FILE at the end included, when it is within.
LEMMA VolumeNameIs ==
    ASSUME NEW m \in Seq(DOMAIN Normal), IsFileSecret(m),
           NEW v, v = SecretVolumeName(m)
    PROVE  /\ Label(v)
           /\ \A i \in 1..NameLimit : At(v, i) = At(Normalised(m), i)
           /\ Len(Normalised(m)) <= NameLimit => v[Len(v)] = "file"
  <1> DEFINE n == Normalised(m)
             c == SubSeq(n, 1, NameLimit)
  <1>1. PICK S : n \in Seq(S)
    BY NormalisedIs
  <1>2. Len(n) \in Nat \ {0} /\ n[1] # "-" /\ n[Len(n)] = "file" /\ DOMAIN n = 1..Len(n)
    BY <1>1, NormalisedIs
  <1>3. NameLimit \in Nat \ {0}
    BY OptionsAssumption
  <1>4. v = IF Len(n) > NameLimit THEN Trimmed(c) ELSE n
    BY DEF SecretVolumeName
  <1> HIDE DEF n
  <1>5. CASE Len(n) <= NameLimit
    <2>1. v = n
      BY <1>2, <1>3, <1>4, <1>5
    <2>2. n # <<>> /\ Head(n) = n[1] /\ Last(n) = n[Len(n)]
      BY <1>1, <1>2 DEF Last
    <2> QED
      BY <1>2, <1>5, <2>1, <2>2 DEF Label, n
  <1>6. CASE Len(n) > NameLimit
    <2>1. /\ c \in Seq(S) /\ Len(c) = NameLimit /\ DOMAIN c = 1..NameLimit
          /\ \A i \in 1..NameLimit : c[i] = n[i]
      BY <1>1, <1>2, <1>3, <1>6
    <2>2. v = Trimmed(c)
      BY <1>4, <1>6
    <2> HIDE DEF c
    <2>3. 1 \in DOMAIN c /\ c[1] # "-"
      BY <2>1, <1>2, <1>3
    <2>4. /\ v \in Seq(S) /\ Len(v) \in 1..NameLimit
          /\ v[1] # "-" /\ v[Len(v)] # "-"
          /\ \A i \in Nat \ {0} : At(v, i) = At(c, i)
      BY <2>1, <2>2, <2>3, TrimmedIs
    <2>5. \A i \in 1..NameLimit : At(c, i) = At(n, i)
      BY <2>1, <1>2, <1>3, <1>6 DEF At
    <2>6. v # <<>> /\ Head(v) = v[1] /\ Last(v) = v[Len(v)]
      BY <2>4, <1>3 DEF Last
    <2>7. Label(v)
      BY <2>4, <2>6, <1>3 DEF Label
    <2> QED
      BY <2>4, <2>5, <2>7, <1>2, <1>3, <1>6 DEF n
  <1> QED
    BY <1>2, <1>3, <1>5, <1>6


-----------------------------------------------------------------------------
(* Volumes and mounts. *)

\* The mounted entries of settings.secrets, each once.
LEMMA FilesAre ==
    ASSUME NEW in, IsInput(in), NEW F, F = FileSecrets(in)
    PROVE  /\ F \in Seq(ToSet(in.secrets))
           /\ ToSet(F) = {s \in ToSet(in.secrets) : IsFileSecret(s.name)}
           /\ \A i \in DOMAIN F : F[i].name \in Seq(DOMAIN Normal) /\ IsFileSecret(F[i].name)
           /\ \A i, j \in DOMAIN F : i # j => F[i].name # F[j].name
  <1> DEFINE T == ToSet(in.secrets)
             A == {s \in T : IsFileSecret(s.name)}
  <1>1. in.secrets \in Options["secrets"]
    BY InputTypes
  <1>2. /\ in.secrets \in Seq(T)
        /\ \A s \in T : s.name \in Seq(DOMAIN Normal)
        /\ \A s, t \in T : s # t => s.name # t.name
    BY <1>1, InputsAssumption DEF ToSet
  <1>3. IsFiniteSet(A)
    BY <1>2, ToSetFinite, FS_Subset
  <1>4. F = SetToSeq(A)
    BY DEF FileSecrets
  <1> HIDE DEF T
  <1>5. A \subseteq T /\ \A s \in A : IsFileSecret(s.name)
    OBVIOUS
  <1> HIDE DEF A
  <1>6. F \in Seq(A) /\ ToSet(F) = A /\ IsInjective(F)
    BY <1>3, <1>4, SetToSeqIs
  <1>7. F \in Seq(T) /\ \A i \in DOMAIN F : F[i] \in A
    BY <1>5, <1>6
  <1>8. \A i, j \in DOMAIN F : i # j => F[i] # F[j]
    BY <1>6 DEF IsInjective
  <1>9. /\ \A i \in DOMAIN F : F[i].name \in Seq(DOMAIN Normal) /\ IsFileSecret(F[i].name)
        /\ \A i, j \in DOMAIN F : i # j => F[i].name # F[j].name
    BY <1>2, <1>5, <1>7, <1>8
  <1> QED
    BY <1>6, <1>7, <1>9 DEF T, A

\* A list of three, perhaps a fourth, and what follows.
LEMMA Listing ==
    ASSUME NEW a, NEW b, NEW c, NEW d, NEW four \in BOOLEAN,
           NEW S, NEW q \in Seq(S),
           NEW u, u = <<a, b, c>> \o (IF four THEN <<d>> ELSE <<>>) \o q,
           NEW k, k = IF four THEN 4 ELSE 3
    PROVE  /\ DOMAIN u = 1..(k + Len(q)) /\ Len(q) \in Nat /\ DOMAIN q = 1..Len(q)
           /\ u[1] = a /\ u[2] = b /\ u[3] = c /\ (four => u[4] = d)
           /\ \A i \in 1..Len(q) : u[k + i] = q[i]
           /\ \A i \in (k + 1)..(k + Len(q)) : i - k \in DOMAIN q /\ u[i] = q[i - k]
  <1> DEFINE U == S \cup {a, b, c, d}
             h == <<a, b, c>>
             g == IF four THEN <<d>> ELSE <<>>
             p == h \o g
  <1>1. /\ h \in Seq(U) /\ Len(h) = 3 /\ h[1] = a /\ h[2] = b /\ h[3] = c
    OBVIOUS
  <1>2. /\ g \in Seq(U) /\ Len(g) = k - 3 /\ (four => g[1] = d) /\ k \in {3, 4}
    <2>1. CASE four
      BY <2>1
    <2>2. CASE ~four
      BY <2>2
    <2> QED
      BY <2>1, <2>2
  <1>3. q \in Seq(U) /\ Len(q) \in Nat /\ DOMAIN q = 1..Len(q)
    OBVIOUS
  <1> HIDE DEF h, g, U
  <1>4. /\ p \in Seq(U) /\ Len(p) = k
        /\ p[1] = a /\ p[2] = b /\ p[3] = c /\ (four => p[4] = d)
    <2>0. /\ Len(h) \in Nat /\ Len(g) \in Nat
          /\ p \in Seq(U) /\ Len(p) = Len(h) + Len(g)
          /\ \A i \in 1..(Len(h) + Len(g)) : p[i] = IF i <= Len(h) THEN h[i] ELSE g[i - Len(h)]
      <3>1. h \in Seq(U) /\ g \in Seq(U) /\ p = h \o g
        BY <1>1, <1>2
      <3> HIDE DEF p
      <3> QED
        BY <3>1, ConcatAt
    <2>1. /\ p \in Seq(U) /\ Len(p) = 3 + Len(g)
          /\ \A i \in 1..(3 + Len(g)) : p[i] = IF i <= 3 THEN h[i] ELSE g[i - 3]
      <3> HIDE DEF p
      <3> QED
        BY <2>0, <1>1
    <2>2. CASE four
      BY <1>1, <1>2, <2>1, <2>2
    <2>3. CASE ~four
      BY <1>1, <1>2, <2>1, <2>3
    <2> QED
      BY <2>2, <2>3
  <1>5. u = p \o q
    BY DEF h, g
  <1> HIDE DEF p
  <1>6. /\ u \in Seq(U) /\ Len(u) = k + Len(q)
        /\ \A i \in 1..k + Len(q) : u[i] = IF i <= k THEN p[i] ELSE q[i - k]
    BY <1>2, <1>3, <1>4, <1>5
  <1> QED
    BY <1>2, <1>3, <1>4, <1>6

FileVolume(s) == Volume(SecretVolumeName(s.name), "secret", s.secret)
FileMount(s)  == Mount(SecretVolumeName(s.name), SecretMountPath(s.name))

\* After the first k, the volumes v and the mounts m are those of F.
FilesFollow(v, m, k, F) ==
    \A i \in (k + 1)..(k + Len(F)) :
        i - k \in DOMAIN F /\ v[i] = FileVolume(F[i - k]) /\ m[i] = FileMount(F[i - k])

\* The lists of volumes and of mounts: the operator's own, then those of the
\* mounted entries, in the same order.
LEMMA TemplateLists ==
    ASSUME NEW in, IsInput(in), NEW F, F = FileSecrets(in),
           NEW k, k = IF in.users # NoRef THEN 4 ELSE 3,
           NEW v, v = Volumes(in), NEW m, m = Mounts(in)
    PROVE  /\ Len(F) \in Nat /\ DOMAIN F = 1..Len(F)
           /\ DOMAIN v = 1..(k + Len(F)) /\ DOMAIN m = 1..(k + Len(F))
           /\ v[1] = Volume(CoreVolume, "secret", CoreSecretName(in))
           /\ v[2] = Volume(ConfigVolume, "configMap", "config")
           /\ v[3] = Volume(DataVolume, IF in.claim THEN "claim" ELSE "emptyDir", "data")
           /\ in.users # NoRef => v[4] = Volume(UsersVolume, "secret", in.users.secret)
           /\ m[1] = Mount(ConfigVolume, Dir("/configuration.yaml", <<>>))
           /\ m[2] = Mount(CoreVolume, CoreDir)
           /\ m[3] = Mount(DataVolume, Dir("/data", <<>>))
           /\ in.users # NoRef => m[4] = Mount(UsersVolume, UsersDir)
           /\ \A i \in DOMAIN F : v[k + i] = FileVolume(F[i]) /\ m[k + i] = FileMount(F[i])
           /\ FilesFollow(v, m, k, F)
  <1> DEFINE four == in.users # NoRef
             qv == [i \in DOMAIN F |-> FileVolume(F[i])]
             qm == [i \in DOMAIN F |-> FileMount(F[i])]
             SV == {FileVolume(F[i]) : i \in DOMAIN F}
             SM == {FileMount(F[i]) : i \in DOMAIN F}
             v1 == Volume(CoreVolume, "secret", CoreSecretName(in))
             v2 == Volume(ConfigVolume, "configMap", "config")
             v3 == Volume(DataVolume, IF in.claim THEN "claim" ELSE "emptyDir", "data")
             v4 == Volume(UsersVolume, "secret", in.users.secret)
             m1 == Mount(ConfigVolume, Dir("/configuration.yaml", <<>>))
             m2 == Mount(CoreVolume, CoreDir)
             m3 == Mount(DataVolume, Dir("/data", <<>>))
             m4 == Mount(UsersVolume, UsersDir)
  <1>1. Len(F) \in Nat /\ DOMAIN F = 1..Len(F)
    BY FilesAre
  <1>2. qv \in Seq(SV) /\ Len(qv) = Len(F) /\ qm \in Seq(SM) /\ Len(qm) = Len(F)
    <2>1. \A i \in 1..Len(F) : FileVolume(F[i]) \in SV /\ FileMount(F[i]) \in SM
      BY <1>1
    <2>2. qv = [i \in 1..Len(F) |-> FileVolume(F[i])] /\ qm = [i \in 1..Len(F) |-> FileMount(F[i])]
      BY <1>1
    <2> HIDE DEF qv, qm, SV, SM
    <2> QED
      BY <1>1, <2>1, <2>2
  <1>3. \A i \in DOMAIN F : qv[i] = FileVolume(F[i]) /\ qm[i] = FileMount(F[i])
    OBVIOUS
  <1>4. v = <<v1, v2, v3>> \o (IF four THEN <<v4>> ELSE <<>>) \o qv
    BY DEF Volumes, FileVolume
  <1>5. m = <<m1, m2, m3>> \o (IF four THEN <<m4>> ELSE <<>>) \o qm
    BY DEF Mounts, FileMount
  <1>6. four \in BOOLEAN /\ k = (IF four THEN 4 ELSE 3) /\ k \in Nat
    OBVIOUS
  <1> HIDE DEF qv, qm, four, SV, SM, v1, v2, v3, v4, m1, m2, m3, m4
  <1>7. /\ DOMAIN v = 1..(k + Len(F))
        /\ v[1] = v1 /\ v[2] = v2 /\ v[3] = v3 /\ (four => v[4] = v4)
        /\ \A i \in 1..Len(F) : v[k + i] = qv[i]
        /\ \A i \in (k + 1)..(k + Len(F)) : i - k \in DOMAIN qv /\ v[i] = qv[i - k]
        /\ DOMAIN qv = 1..Len(F)
    BY <1>2, <1>4, <1>6, Listing
  <1>8. /\ DOMAIN m = 1..(k + Len(F))
        /\ m[1] = m1 /\ m[2] = m2 /\ m[3] = m3 /\ (four => m[4] = m4)
        /\ \A i \in 1..Len(F) : m[k + i] = qm[i]
        /\ \A i \in (k + 1)..(k + Len(F)) : i - k \in DOMAIN qm /\ m[i] = qm[i - k]
        /\ DOMAIN qm = 1..Len(F)
    BY <1>2, <1>5, <1>6, Listing
  <1>9. /\ \A i \in DOMAIN F : v[k + i] = FileVolume(F[i]) /\ m[k + i] = FileMount(F[i])
        /\ FilesFollow(v, m, k, F)
    <2>1. \A i \in DOMAIN F : v[k + i] = FileVolume(F[i]) /\ m[k + i] = FileMount(F[i])
      BY <1>1, <1>3, <1>7, <1>8
    <2>2. ASSUME NEW i \in (k + 1)..(k + Len(F))
          PROVE  i - k \in DOMAIN F /\ v[i] = FileVolume(F[i - k]) /\ m[i] = FileMount(F[i - k])
      <3> DEFINE j == i - k
      <3>1. j \in DOMAIN qv /\ v[i] = qv[j] /\ m[i] = qm[j]
        BY <1>7, <1>8
      <3>2. j \in DOMAIN F
        BY <3>1, <1>1, <1>7
      <3> HIDE DEF j
      <3>3. v[i] = FileVolume(F[j]) /\ m[i] = FileMount(F[j])
        BY <1>3, <3>1, <3>2
      <3> QED
        BY <3>2, <3>3 DEF j
    <2> QED
      BY <2>1, <2>2 DEF FilesFollow
  <1> QED
    BY <1>1, <1>7, <1>8, <1>9 DEF four, v1, v2, v3, v4, m1, m2, m3, m4


OwnNames == {CoreVolume, ConfigVolume, DataVolume, UsersVolume}

\* The names of the operator's own volumes are labels, distinct, and none of them
\* ends as the name of a variable's volume does.
LEMMA OwnNamesAre ==
    /\ \A v \in OwnNames : Label(v) /\ v[Len(v)] # "file"
    /\ CoreVolume # ConfigVolume /\ CoreVolume # DataVolume /\ CoreVolume # UsersVolume
    /\ ConfigVolume # DataVolume /\ ConfigVolume # UsersVolume /\ DataVolume # UsersVolume
  <1>0. NameLimit \in Nat /\ NameLimit >= 3
    BY OptionsAssumption, NormalAssumption
  <1>1. /\ CoreVolume # <<>> /\ Len(CoreVolume) = 3
        /\ Head(CoreVolume) = "authelia" /\ CoreVolume[3] = "secret"
    BY DEF CoreVolume
  <1>2. /\ ConfigVolume # <<>> /\ Len(ConfigVolume) = 1
        /\ Head(ConfigVolume) = "config" /\ ConfigVolume[1] = "config"
    BY DEF ConfigVolume
  <1>3. /\ DataVolume # <<>> /\ Len(DataVolume) = 1
        /\ Head(DataVolume) = "data" /\ DataVolume[1] = "data"
    BY DEF DataVolume
  <1>4. /\ UsersVolume # <<>> /\ Len(UsersVolume) = 3
        /\ Head(UsersVolume) = "file" /\ UsersVolume[3] = "backend"
    BY DEF UsersVolume
  <1>5. \A v \in OwnNames : Label(v) /\ v[Len(v)] # "file"
    <2>1. Label(CoreVolume) /\ CoreVolume[Len(CoreVolume)] # "file"
      BY <1>0, <1>1 DEF Label, Last
    <2>2. Label(ConfigVolume) /\ ConfigVolume[Len(ConfigVolume)] # "file"
      BY <1>0, <1>2 DEF Label, Last
    <2>3. Label(DataVolume) /\ DataVolume[Len(DataVolume)] # "file"
      BY <1>0, <1>3 DEF Label, Last
    <2>4. Label(UsersVolume) /\ UsersVolume[Len(UsersVolume)] # "file"
      BY <1>0, <1>4 DEF Label, Last
    <2> QED
      BY <2>1, <2>2, <2>3, <2>4 DEF OwnNames
  <1> QED
    BY <1>1, <1>2, <1>3, <1>4, <1>5

\* A template is valid unless two of its variables are alike or one of them looks
\* like a volume of the operator's own.
LEMMA RefusedWhy ==
    ASSUME NEW in, IsInput(in), ~Valid(BuildDeployment(in))
    PROVE  LET files == {s.name : s \in ToSet(FileSecrets(in))}
           IN  \/ \E m, n \in files : m # n /\ Alike(m, n)
               \/ \E n \in files : LooksOwn(n)
  <1> DEFINE F == FileSecrets(in)
             files == {s.name : s \in ToSet(F)}
             d == BuildDeployment(in)
             v == Volumes(in)
             m == Mounts(in)
             k == IF in.users # NoRef THEN 4 ELSE 3
             V(i) == SecretVolumeName(F[i].name)
  <1> SUFFICES ASSUME \A p, n \in files : p # n => ~Alike(p, n),
                      \A n \in files : ~LooksOwn(n)
               PROVE  FALSE
    OBVIOUS
  <1>1. d.volumes = v /\ d.mounts = m
    BY DEF BuildDeployment
  <1>2. /\ \A i \in DOMAIN F : F[i].name \in Seq(DOMAIN Normal) /\ IsFileSecret(F[i].name)
        /\ \A i, j \in DOMAIN F : i # j => F[i].name # F[j].name
        /\ \A i \in DOMAIN F : F[i].name \in files
    BY FilesAre DEF ToSet
  <1>3. /\ k \in {3, 4} /\ (in.users # NoRef <=> k = 4)
    OBVIOUS
  <1>4. /\ Len(F) \in Nat /\ DOMAIN F = 1..Len(F)
        /\ DOMAIN v = 1..(k + Len(F)) /\ DOMAIN m = 1..(k + Len(F))
        /\ v[1].name = CoreVolume /\ v[2].name = ConfigVolume
        /\ v[3].name = DataVolume /\ (k = 4 => v[4].name = UsersVolume)
        /\ m[1].dir = Dir("/configuration.yaml", <<>>) /\ m[2].dir = CoreDir
        /\ m[3].dir = Dir("/data", <<>>) /\ (k = 4 => m[4].dir = UsersDir)
    <2>1. \A x, y, z : Volume(x, y, z).name = x /\ Mount(x, y).dir = y
      BY DEF Volume, Mount
    <2>2. /\ Len(F) \in Nat /\ DOMAIN F = 1..Len(F)
          /\ DOMAIN v = 1..(k + Len(F)) /\ DOMAIN m = 1..(k + Len(F))
      BY TemplateLists
    <2>3. /\ v[1] = Volume(CoreVolume, "secret", CoreSecretName(in))
          /\ v[2] = Volume(ConfigVolume, "configMap", "config")
          /\ v[3] = Volume(DataVolume, IF in.claim THEN "claim" ELSE "emptyDir", "data")
          /\ in.users # NoRef => v[4] = Volume(UsersVolume, "secret", in.users.secret)
          /\ m[1] = Mount(ConfigVolume, Dir("/configuration.yaml", <<>>))
          /\ m[2] = Mount(CoreVolume, CoreDir)
          /\ m[3] = Mount(DataVolume, Dir("/data", <<>>))
          /\ in.users # NoRef => m[4] = Mount(UsersVolume, UsersDir)
      BY TemplateLists
    <2> HIDE DEF v, m, k, F
    <2> QED
      BY <1>3, <2>1, <2>2, <2>3
  <1>5. \A i \in (k + 1)..(k + Len(F)) :
           i - k \in DOMAIN F /\ v[i].name = V(i - k) /\ m[i].dir = Dir("/authelia/secrets", V(i - k))
    <2>0. /\ F = FileSecrets(in) /\ v = Volumes(in) /\ m = Mounts(in)
          /\ k = IF in.users # NoRef THEN 4 ELSE 3
      OBVIOUS
    <2> HIDE DEF v, m, k, F
    <2>1. FilesFollow(v, m, k, F)
      BY <2>0, TemplateLists
    <2>2. \A s : /\ FileVolume(s).name = SecretVolumeName(s.name)
                 /\ FileMount(s).dir = Dir("/authelia/secrets", SecretVolumeName(s.name))
      BY DEF FileVolume, FileMount, Volume, Mount, SecretMountPath
    <2> QED
      BY <2>1, <2>2 DEF FilesFollow
  <1> HIDE DEF F, v, m, k, d, files
  <1>6. ASSUME NEW i \in DOMAIN F
        PROVE  Label(V(i)) /\ V(i) \notin OwnNames
    <2> DEFINE n == F[i].name
    <2>1. n \in Seq(DOMAIN Normal) /\ IsFileSecret(n) /\ ~LooksOwn(n)
      BY <1>2
    <2> HIDE DEF n
    <2>2. /\ Label(SecretVolumeName(n))
          /\ \A x \in 1..NameLimit : At(SecretVolumeName(n), x) = At(Normalised(n), x)
          /\ Len(Normalised(n)) <= NameLimit =>
               SecretVolumeName(n)[Len(SecretVolumeName(n))] = "file"
      BY <2>1, VolumeNameIs
    <2>3. Len(Normalised(n)) \in Nat /\ NameLimit \in Nat
      BY <2>1, NormalisedIs, OptionsAssumption
    <2>4. SecretVolumeName(n) \notin OwnNames
      BY <2>1, <2>2, <2>3, OwnNamesAre DEF LooksOwn, OwnNames
    <2> QED
      BY <2>2, <2>4 DEF n
  <1>7. ASSUME NEW i \in DOMAIN F, NEW j \in DOMAIN F, i # j
        PROVE  V(i) # V(j)
    <2>1. ~Alike(F[i].name, F[j].name)
      BY <1>2, <1>7
    <2> QED
      BY <2>1, <1>2, VolumeNameIs DEF Alike
  <1> HIDE DEF V
  <1>8. \A i \in DOMAIN v : i <= k => v[i].name \in OwnNames
    BY <1>3, <1>4 DEF OwnNames
  <1>9. ASSUME NEW i \in DOMAIN v PROVE Label(v[i].name)
    <2>1. CASE i <= k
      BY <2>1, <1>8, OwnNamesAre
    <2>2. CASE i > k
      BY <2>2, <1>3, <1>4, <1>5, <1>6
    <2> QED
      BY <2>1, <2>2, <1>3, <1>4
  <1>10. ASSUME NEW i \in DOMAIN v, NEW j \in DOMAIN v, i < j
         PROVE  v[i].name # v[j].name
    <2>1. CASE j <= k
      BY <2>1, <1>3, <1>4, <1>10, OwnNamesAre
    <2>2. CASE i <= k /\ j > k
      <3>1. v[i].name \in OwnNames
        BY <2>2, <1>8
      <3>2. j \in (k + 1)..(k + Len(F))
        BY <2>2, <1>3, <1>4
      <3> QED
        BY <3>1, <3>2, <1>5, <1>6
    <2>3. CASE i > k
      <3>1. i \in (k + 1)..(k + Len(F)) /\ j \in (k + 1)..(k + Len(F)) /\ i - k # j - k
        BY <2>3, <1>3, <1>4, <1>10
      <3> QED
        BY <3>1, <1>5, <1>7
    <2> QED
      BY <2>1, <2>2, <2>3, <1>3, <1>4, <1>10
  <1>11. ASSUME NEW i \in DOMAIN m, NEW j \in DOMAIN m, i < j
         PROVE  m[i].dir # m[j].dir
    <2>1. \A x, y, z, w : Dir(x, y) = Dir(z, w) => x = z /\ y = w
      BY DEF Dir
    <2>2. CASE j <= k
      BY <2>1, <2>2, <1>3, <1>4, <1>11 DEF CoreDir, UsersDir
    <2>3. CASE i <= k /\ j > k
      <3>1. j \in (k + 1)..(k + Len(F))
        BY <2>3, <1>3, <1>4
      <3>2. m[j].dir = Dir("/authelia/secrets", V(j - k))
        BY <3>1, <1>5
      <3> QED
        BY <2>1, <2>3, <3>2, <1>3, <1>4 DEF CoreDir, UsersDir
    <2>4. CASE i > k
      <3>1. i \in (k + 1)..(k + Len(F)) /\ j \in (k + 1)..(k + Len(F)) /\ i - k # j - k
        BY <2>4, <1>3, <1>4, <1>11
      <3> QED
        BY <2>1, <3>1, <1>5, <1>7
    <2> QED
      BY <2>2, <2>3, <2>4, <1>3, <1>4, <1>11
  <1>12. /\ \A i, j \in DOMAIN v : i # j => v[i].name # v[j].name
         /\ \A i, j \in DOMAIN m : i # j => m[i].dir # m[j].dir
    <2>1. \A i, j \in DOMAIN v : i # j => i < j \/ j < i
      BY <1>3, <1>4
    <2>2. \A i, j \in DOMAIN m : i # j => i < j \/ j < i
      BY <1>3, <1>4
    <2> QED
      BY <2>1, <2>2, <1>10, <1>11
  <1>13. Valid(d)
    BY <1>1, <1>9, <1>12 DEF Valid
  <1> QED
    BY <1>13 DEF d


\* Between reconciles, a refusal was of the template made from what the ConfigMap
\* was made from.
RefusedInv ==
    /\ worker.at = "deploy" => cm.made /\ cm.of = worker.in
    /\ refused /\ worker.at = "idle" => cm.made /\ ~Valid(BuildDeployment(cm.of))

\* RefusedInv is kept by every step.
LEMMA RefusedStep == RefusedInv /\ [Next]_vars => RefusedInv'
  <1> SUFFICES ASSUME RefusedInv, [Next]_vars PROVE RefusedInv'
    OBVIOUS
  <1>1. ASSUME NEW f \in Fields, Change(f) PROVE RefusedInv'
    BY <1>1 DEF Change, RefusedInv
  <1>2. CASE WriteConfigMap
    BY <1>2 DEF WriteConfigMap, RefusedInv, Made
  <1>3. CASE WriteDeployment
    BY <1>3 DEF WriteDeployment, RefusedInv
  <1>4. CASE UNCHANGED vars
    BY <1>4 DEF vars, RefusedInv
  <1> QED
    BY <1>1, <1>2, <1>3, <1>4 DEF Next

\* The API server refuses a Deployment only because of alike names or a name cut
\* down to one of the operator's own, whatever names the user chooses and whatever
\* the limit is.
THEOREM OnlyAlikeRefused == Spec => []RefusedOnlyAlike
  <1>1. Init => RefusedInv
    BY DEF Init, RefusedInv
  <1>2. MadeInv /\ RefusedInv => RefusedOnlyAlike
    <2> SUFFICES ASSUME MadeInv, RefusedInv, refused, worker.at = "idle"
                 PROVE  RefusedOnlyAlike
      BY DEF RefusedOnlyAlike
    <2>1. IsInput(cm.of) /\ ~Valid(BuildDeployment(cm.of))
      BY DEF MadeInv, RefusedInv
    <2> QED
      BY <2>1, RefusedWhy DEF RefusedOnlyAlike
  <1> QED
    BY <1>1, <1>2, RefusedStep, MadeInit, MadeStep, PTL DEF Spec

-----------------------------------------------------------------------------
(* Files and variables. *)

\* In a valid template a directory shows one volume: that of its mount.
LEMMA SeenOnly ==
    ASSUME NEW d, Valid(d), NEW i \in DOMAIN d.mounts, NEW j \in DOMAIN d.volumes,
           d.mounts[i].name = d.volumes[j].name
    PROVE  SeenIn(d, d.mounts[i].dir) = {d.volumes[j]}
  <1>1. ASSUME NEW x \in DOMAIN d.volumes, NEW y \in DOMAIN d.mounts,
               d.mounts[y].dir = d.mounts[i].dir, d.mounts[y].name = d.volumes[x].name
        PROVE  x = j
    <2>1. y = i
      BY <1>1 DEF Valid
    <2> QED
      BY <1>1, <2>1 DEF Valid
  <1> QED
    BY <1>1 DEF SeenIn, ToSet

\* Of several variables with one name, the container sees the last one.
LEMMA VarLast ==
    ASSUME NEW d, NEW S, d.env \in Seq(S), NEW n, HasVar(d, n)
    PROVE  \E k \in DOMAIN d.env :
              /\ VarOf(d, n) = d.env[k] /\ d.env[k].name = n
              /\ \A j \in DOMAIN d.env : d.env[j].name = n => j <= k
  <1> DEFINE e == d.env
             I == {i \in 1..Len(e) : e[i].name = n}
  <1>1. Len(e) \in Nat /\ DOMAIN e = 1..Len(e)
    OBVIOUS
  <1>2. I # {} /\ I \subseteq 0..Len(e)
    BY <1>1 DEF HasVar
  <1>3. Max(I) \in I /\ \A y \in I : Max(I) >= y
    <2> HIDE DEF I
    <2> QED
      BY <1>1, <1>2, Extremes
  <1>4. VarOf(d, n) = e[Max(I)]
    BY <1>2 DEF VarOf, SelectLastInSeq
  <1>5. /\ Max(I) \in DOMAIN e /\ e[Max(I)].name = n
        /\ \A j \in DOMAIN e : e[j].name = n => j <= Max(I)
    BY <1>1, <1>3
  <1> QED
    BY <1>4, <1>5


\* What a variable holds, field by field.
LEMMA VarFields ==
    ASSUME NEW n, NEW x, NEW y
    PROVE  /\ PathVar(n, x, y).name = n /\ PathVar(n, x, y).file
           /\ PathVar(n, x, y).dir = x /\ PathVar(n, x, y).key = y
           /\ ValueVar(n, x, y).name = n /\ ~ValueVar(n, x, y).file
           /\ ValueVar(n, x, y).secret = x /\ ValueVar(n, x, y).key = y
  BY Zenon DEF PathVar, ValueVar

\* The variables the operator sets itself, and their paths, are finitely many.
LEMMA CoreFinite ==
    ASSUME NEW C, C \in {CoreVars, OIDCVars}
    PROVE  IsFiniteSet({PathVar(v.name, CoreDir, v.key) : v \in C})
  <1> DEFINE P == {PathVar(v.name, CoreDir, v.key) : v \in C}
             f == [v \in C |-> PathVar(v.name, CoreDir, v.key)]
  <1>1. \A x, y : IsFiniteSet({x, y})
    <2> TAKE x, y
    <2>1. <<x, y>> \in Seq({x, y}) /\ ToSet(<<x, y>>) = {x, y}
      BY DEF ToSet
    <2> QED
      BY <2>1, ToSetFinite
  <1>2. IsFiniteSet(C)
    BY <1>1 DEF CoreVars, OIDCVars
  <1>3. f \in Surjection(C, P)
    BY DEF Surjection
  <1> QED
    BY <1>2, <1>3, FS_Surjection

\* No two variables of the operator share a name.
LEMMA CoreNamesApart ==
    \A v, w \in CoreVars \cup OIDCVars : v.name = w.name => v = w
  <1> DEFINE a == CoreVar(<<"SESSION_SECRET", "_", "FILE">>, "SESSION_ENCRYPTION_KEY")
             b == CoreVar(<<"STORAGE_ENCRYPTION_KEY", "_", "FILE">>, "STORAGE_ENCRYPTION_KEY")
             c == CoreVar(<<"OIDC_HMAC_SECRET", "_", "FILE">>, "OIDC_HMAC_SECRET")
             d == CoreVar(<<"OIDC_ISSUER_PRIVATE_KEY", "_", "FILE">>, "OIDC_PRIVATE_KEY")
  <1>1. /\ a.name[1] = "SESSION_SECRET" /\ b.name[1] = "STORAGE_ENCRYPTION_KEY"
        /\ c.name[1] = "OIDC_HMAC_SECRET" /\ d.name[1] = "OIDC_ISSUER_PRIVATE_KEY"
    BY DEF CoreVar
  <1>2. CoreVars \cup OIDCVars = {a, b, c, d}
    BY DEF CoreVars, OIDCVars
  <1> HIDE DEF a, b, c, d
  <1> QED
    BY <1>1, <1>2

\* The entry of settings.secrets as a variable.
EntryVar(s) ==
    IF IsFileSecret(s.name)
    THEN PathVar(s.name, SecretMountPath(s.name), s.key)
    ELSE ValueVar(s.name, s.secret, s.key)

\* A list that consists of k paths of core secrets and the variables of secrets.
EnvParts(e, secrets, core, k, S) ==
    /\ e \in Seq(S) /\ DOMAIN e = 1..(k + Len(secrets))
    /\ Len(secrets) \in Nat
    /\ {e[i] : i \in 1..k} = {PathVar(v.name, CoreDir, v.key) : v \in core}
    /\ \A i \in 1..Len(secrets) : e[k + i] = EntryVar(secrets[i])

\* The environment: the operator's variables, and after them the user's.
LEMMA EnvIs ==
    ASSUME NEW in, IsInput(in), NEW oidc \in BOOLEAN, NEW e, e = AutheliaFileEnv(in, oidc),
           NEW core, core = CoreVars \cup (IF oidc THEN OIDCVars ELSE {})
    PROVE  \E k \in Nat : \E S : EnvParts(e, in.secrets, core, k, S)
  <1> DEFINE P(C) == {PathVar(v.name, CoreDir, v.key) : v \in C}
             T == ToSet(in.secrets)
             q == [i \in DOMAIN in.secrets |-> EntryVar(in.secrets[i])]
             S == P(core) \cup {EntryVar(s) : s \in T}
             a == SetToSeq(P(CoreVars))
             b == IF oidc THEN SetToSeq(P(OIDCVars)) ELSE <<>>
             u == a \o b
  <1>1. in.secrets \in Seq(T) /\ Len(in.secrets) \in Nat /\ DOMAIN in.secrets = 1..Len(in.secrets)
    <2>1. in.secrets \in Options["secrets"]
      BY InputTypes
    <2>2. in.secrets \in Seq(T)
      BY <2>1, InputsAssumption
    <2> HIDE DEF T
    <2> QED
      BY <2>2
  <1>2. e = u \o q
    BY Zenon DEF AutheliaFileEnv, EntryVar
  <1>3. a \in Seq(S) /\ ToSet(a) = P(CoreVars)
    <2>1. IsFiniteSet(P(CoreVars)) /\ P(CoreVars) \subseteq S
      BY CoreFinite
    <2> HIDE DEF P, S
    <2>2. SetToSeq(P(CoreVars)) \in Seq(P(CoreVars)) /\ ToSet(SetToSeq(P(CoreVars))) = P(CoreVars)
      BY <2>1, SetToSeqIs
    <2> QED
      BY <2>1, <2>2, SeqMonotonic
  <1>4. b \in Seq(S) /\ ToSet(b) = IF oidc THEN P(OIDCVars) ELSE {}
    <2>1. CASE oidc
      <3>1. IsFiniteSet(P(OIDCVars)) /\ P(OIDCVars) \subseteq S
        BY <2>1, CoreFinite
      <3> HIDE DEF P, S
      <3>2. SetToSeq(P(OIDCVars)) \in Seq(P(OIDCVars)) /\ ToSet(SetToSeq(P(OIDCVars))) = P(OIDCVars)
        BY <3>1, SetToSeqIs
      <3> QED
        BY <2>1, <3>1, <3>2, SeqMonotonic
    <2>2. CASE ~oidc
      BY <2>2 DEF ToSet
    <2> QED
      BY <2>1, <2>2
  <1>5. P(core) = P(CoreVars) \cup (IF oidc THEN P(OIDCVars) ELSE {})
    BY Zenon
  <1>6. q \in Seq(S) /\ Len(q) = Len(in.secrets) /\ \A i \in 1..Len(in.secrets) : q[i] = EntryVar(in.secrets[i])
    <2>1. \A i \in 1..Len(in.secrets) : EntryVar(in.secrets[i]) \in S
      BY <1>1 DEF ToSet
    <2>2. q = [i \in 1..Len(in.secrets) |-> EntryVar(in.secrets[i])]
      BY <1>1
    <2> HIDE DEF q, S
    <2> QED
      BY <1>1, <2>1, <2>2
  <1> HIDE DEF a, b, q, S, P
  <1>7. u \in Seq(S) /\ Len(u) \in Nat /\ DOMAIN u = 1..Len(u) /\ ToSet(u) = P(core)
    <2>1. ToSet(u) = ToSet(a) \cup ToSet(b) /\ u \in Seq(S)
      BY <1>3, <1>4, ToSetConcat
    <2>2. ToSet(u) = P(core)
      BY <2>1, <1>3, <1>4, <1>5, Zenon
    <2> HIDE DEF u
    <2>3. Len(u) \in Nat /\ DOMAIN u = 1..Len(u)
      BY <2>1
    <2> QED
      BY <2>1, <2>2, <2>3, Zenon
  <1> HIDE DEF u
  <1>8. /\ e \in Seq(S) /\ DOMAIN e = 1..(Len(u) + Len(in.secrets))
        /\ \A i \in 1..Len(u) : e[i] = u[i]
        /\ \A i \in 1..Len(in.secrets) : e[Len(u) + i] = q[i]
    <2>1. u \in Seq(S) /\ q \in Seq(S)
      BY <1>6, <1>7
    <2> QED
      BY <2>1, <1>2, <1>6, ConcatAt
  <1>9. {e[i] : i \in 1..Len(u)} = P(core)
    BY <1>7, <1>8 DEF ToSet
  <1>10. EnvParts(e, in.secrets, core, Len(u), S)
    BY <1>1, <1>6, <1>8, <1>9 DEF P, EnvParts
  <1> QED
    BY <1>7, <1>10


\* A file is shown by the mount of its directory and the volume of that mount.
LEMMA ShownBy ==
    ASSUME NEW d, Valid(d), NEW i \in DOMAIN d.mounts, NEW j \in DOMAIN d.volumes,
           NEW name, NEW dir, NEW secret, NEW key,
           d.mounts[i] = Mount(name, dir), d.volumes[j] = Volume(name, "secret", secret)
    PROVE  \A file : file.dir = dir /\ file.key = key => FileShows(d, file, secret, key)
  <1>1. d.mounts[i].name = d.volumes[j].name /\ d.mounts[i].dir = dir
    BY DEF Mount, Volume
  <1>2. SeenIn(d, dir) = {d.volumes[j]}
    BY <1>1, SeenOnly
  <1>3. d.volumes[j].kind = "secret" /\ d.volumes[j].source = secret
    BY DEF Volume
  <1> QED
    BY <1>2, <1>3 DEF FileShows

\* In a valid template every path leads to its Secret.
LEMMA TemplateResolves ==
    ASSUME NEW in, IsInput(in), NEW d, d = BuildDeployment(in), Valid(d)
    PROVE  /\ in.users # NoRef =>
                FileShows(d, d.checksum[UsersPath].items[1], in.users.secret, in.users.key)
           /\ \A s \in ToSet(in.secrets) : VarShows(d, s.name, s.secret, s.key)
           /\ \A v \in CoreVars \cup (IF in.clients = {} THEN {} ELSE OIDCVars) :
                v.name \notin {s.name : s \in ToSet(in.secrets)} =>
                   VarShows(d, v.name, CoreSecretName(in), v.key)
  <1> DEFINE F == FileSecrets(in)
             k == IF in.users # NoRef THEN 4 ELSE 3
             oidc == in.clients # {}
             core == CoreVars \cup (IF oidc THEN OIDCVars ELSE {})
             T == ToSet(in.secrets)
  <1>1. /\ d.volumes = Volumes(in) /\ d.mounts = Mounts(in)
        /\ d.env = AutheliaFileEnv(in, oidc) /\ d.checksum = Rendered(in)
    BY DEF BuildDeployment
  <1>2. k \in {3, 4} /\ (in.users # NoRef <=> k = 4)
    OBVIOUS
  <1>3. /\ Len(F) \in Nat /\ DOMAIN F = 1..Len(F)
        /\ DOMAIN d.volumes = 1..(k + Len(F)) /\ DOMAIN d.mounts = 1..(k + Len(F))
        /\ d.volumes[1] = Volume(CoreVolume, "secret", CoreSecretName(in))
        /\ in.users # NoRef => d.volumes[4] = Volume(UsersVolume, "secret", in.users.secret)
        /\ d.mounts[2] = Mount(CoreVolume, CoreDir)
        /\ in.users # NoRef => d.mounts[4] = Mount(UsersVolume, UsersDir)
        /\ \A i \in DOMAIN F : /\ d.volumes[k + i] = FileVolume(F[i])
                               /\ d.mounts[k + i] = FileMount(F[i])
    BY <1>1, TemplateLists
  <1> HIDE DEF k, F
  <1>4. ASSUME in.users # NoRef
        PROVE  FileShows(d, d.checksum[UsersPath].items[1], in.users.secret, in.users.key)
    <2>1. Rendered(in)[UsersPath] = Scalar(FileUsersPath(in.users))
      BY <1>4, InputTypes, RenderLayers
    <2>2. d.checksum[UsersPath].items[1] = FileUsersPath(in.users)
      BY <1>1, <2>1 DEF Scalar
    <2>3. FileUsersPath(in.users).dir = UsersDir /\ FileUsersPath(in.users).key = in.users.key
      BY DEF FileUsersPath
    <2>4. 4 \in DOMAIN d.mounts /\ 4 \in DOMAIN d.volumes
      BY <1>2, <1>3, <1>4
    <2> QED
      BY <1>3, <1>4, <2>2, <2>3, <2>4, ShownBy
  <1>5. \A file : file.dir = CoreDir => FileShows(d, file, CoreSecretName(in), file.key)
    <2>1. 2 \in DOMAIN d.mounts /\ 1 \in DOMAIN d.volumes
      BY <1>2, <1>3
    <2> QED
      BY <1>3, <2>1, ShownBy
  <1>6. ASSUME NEW s \in T, IsFileSecret(s.name)
        PROVE  \A file : file.dir = SecretMountPath(s.name) /\ file.key = s.key
                            => FileShows(d, file, s.secret, s.key)
    <2>1. PICK i \in DOMAIN F : F[i] = s
      <3>1. s \in ToSet(F)
        BY <1>6, FilesAre DEF F
      <3> QED
        BY <3>1 DEF ToSet
    <2>2. /\ k + i \in DOMAIN d.mounts /\ k + i \in DOMAIN d.volumes
          /\ d.volumes[k + i] = Volume(SecretVolumeName(s.name), "secret", s.secret)
          /\ d.mounts[k + i] = Mount(SecretVolumeName(s.name), SecretMountPath(s.name))
      BY <1>2, <1>3, <2>1 DEF FileVolume, FileMount
    <2> QED
      BY <2>2, ShownBy
  <1>a. PICK c \in Nat : \E S : EnvParts(d.env, in.secrets, core, c, S)
    <2>1. oidc \in BOOLEAN
      OBVIOUS
    <2>2. core = CoreVars \cup (IF oidc THEN OIDCVars ELSE {})
      OBVIOUS
    <2> HIDE DEF oidc, core
    <2> QED
      BY <1>1, <2>1, <2>2, EnvIs
  <1>b. PICK S : EnvParts(d.env, in.secrets, core, c, S)
    BY <1>a
  <1>7. /\ d.env \in Seq(S) /\ DOMAIN d.env = 1..(c + Len(in.secrets))
        /\ Len(in.secrets) \in Nat
        /\ {d.env[i] : i \in 1..c} = {PathVar(v.name, CoreDir, v.key) : v \in core}
        /\ \A i \in 1..Len(in.secrets) : d.env[c + i] = EntryVar(in.secrets[i])
    BY <1>b DEF EnvParts
  <1>8. /\ DOMAIN in.secrets = 1..Len(in.secrets)
        /\ \A i, j \in 1..Len(in.secrets) : i # j => in.secrets[i].name # in.secrets[j].name
    <2>1. in.secrets \in Options["secrets"]
      BY InputTypes
    <2>2. in.secrets \in Seq(T) /\ \A i, j \in DOMAIN in.secrets : i # j => in.secrets[i].name # in.secrets[j].name
      BY <2>1, InputsAssumption
    <2> HIDE DEF T
    <2> QED
      BY <2>2
  <1>9. \A s : EntryVar(s).name = s.name
    BY VarFields DEF EntryVar
  <1> HIDE DEF core, T
  <1>10. ASSUME NEW s \in T PROVE VarShows(d, s.name, s.secret, s.key)
    <2>1. PICK i \in 1..Len(in.secrets) : in.secrets[i] = s
      BY <1>8 DEF T, ToSet
    <2>2. c + i \in DOMAIN d.env /\ d.env[c + i].name = s.name
      BY <1>7, <1>9, <2>1
    <2>3. HasVar(d, s.name)
      BY <2>2 DEF HasVar
    <2>4. PICK x \in DOMAIN d.env : /\ VarOf(d, s.name) = d.env[x] /\ d.env[x].name = s.name
                                    /\ c + i <= x
      BY <1>7, <2>2, <2>3, VarLast
    <2>5. x = c + i
      <3>1. x - c \in 1..Len(in.secrets) /\ x = c + (x - c)
        BY <1>7, <2>1, <2>4
      <3>2. d.env[c + (x - c)] = EntryVar(in.secrets[x - c])
        BY <3>1, <1>7
      <3>3. in.secrets[x - c].name = in.secrets[i].name
        BY <3>1, <3>2, <2>1, <2>4, <1>9
      <3>4. x - c = i
        BY <3>1, <3>3, <1>8
      <3> QED
        BY <3>1, <3>4
    <2>6. VarOf(d, s.name) = EntryVar(s)
      BY <2>1, <2>4, <2>5, <1>7
    <2> DEFINE w == VarOf(d, s.name)
    <2>7. CASE IsFileSecret(s.name)
      <3>1. w.file /\ w.dir = SecretMountPath(s.name) /\ w.key = s.key
        BY <2>6, <2>7, VarFields DEF EntryVar
      <3> HIDE DEF w
      <3>2. FileShows(d, [dir |-> w.dir, key |-> w.key], s.secret, s.key)
        BY <3>1, <2>7, <1>6
      <3> QED
        BY <2>3, <3>1, <3>2 DEF VarShows, w
    <2>8. CASE ~IsFileSecret(s.name)
      <3>1. ~w.file /\ w.secret = s.secret /\ w.key = s.key
        BY <2>6, <2>8, VarFields DEF EntryVar
      <3> QED
        BY <2>3, <3>1, Zenon DEF VarShows
    <2> QED
      BY <2>7, <2>8
  <1>11. ASSUME NEW v \in core, v.name \notin {s.name : s \in T}
         PROVE  VarShows(d, v.name, CoreSecretName(in), v.key)
    <2>1. PICK i \in 1..c : d.env[i] = PathVar(v.name, CoreDir, v.key)
      BY <1>7
    <2>2. HasVar(d, v.name)
      <3>1. i \in DOMAIN d.env /\ d.env[i].name = v.name
        BY <1>7, <2>1, VarFields
      <3> QED
        BY <3>1 DEF HasVar
    <2>3. PICK x \in DOMAIN d.env : VarOf(d, v.name) = d.env[x] /\ d.env[x].name = v.name
      <3>1. d.env \in Seq(S)
        BY <1>7
      <3> QED
        BY <3>1, <2>2, VarLast
    <2>4. x \in 1..c
      <3> SUFFICES ASSUME x \notin 1..c PROVE FALSE
        OBVIOUS
      <3>1. x - c \in 1..Len(in.secrets) /\ x = c + (x - c)
        BY <1>7
      <3>2. d.env[x] = EntryVar(in.secrets[x - c])
        BY <3>1, <1>7
      <3>3. in.secrets[x - c].name = v.name /\ in.secrets[x - c] \in T
        BY <3>1, <3>2, <2>3, <1>8, <1>9 DEF T, ToSet
      <3> QED
        BY <3>3, <1>11
    <2>5. PICK w \in core : d.env[x] = PathVar(w.name, CoreDir, w.key)
      BY <2>4, <1>7
    <2>6. w = v
      <3>1. w.name = v.name
        BY <2>3, <2>5, VarFields
      <3> QED
        BY <3>1, CoreNamesApart DEF core
    <2> DEFINE y == VarOf(d, v.name)
    <2>7. y.file /\ y.dir = CoreDir /\ y.key = v.key
      BY <2>3, <2>5, <2>6, VarFields
    <2> HIDE DEF y
    <2>8. FileShows(d, [dir |-> y.dir, key |-> y.key], CoreSecretName(in), v.key)
      <3>1. [dir |-> y.dir, key |-> y.key].dir = CoreDir /\ [dir |-> y.dir, key |-> y.key].key = v.key
        BY <2>7
      <3> QED
        BY <3>1, <1>5
    <2> QED
      BY <2>2, <2>7, <2>8 DEF VarShows, y
  <1>12. core = CoreVars \cup (IF in.clients = {} THEN {} ELSE OIDCVars)
    BY DEF core
  <1> QED
    BY <1>4, <1>10, <1>11, <1>12 DEF T

\* Every file and variable of an accepted Deployment leads to the Secret and the
\* key it was meant for, for every configuration, list of secrets and set of
\* clients.
THEOREM FilesAlwaysResolve == Spec => []FilesResolve
  <1>1. MadeInv => FilesResolve
    <2> SUFFICES ASSUME MadeInv, deploy.made PROVE FilesResolve
      BY DEF FilesResolve
    <2>1. /\ IsInput(deploy.of) /\ deploy.is = BuildDeployment(deploy.of)
          /\ Valid(deploy.is)
      BY DEF MadeInv
    <2> QED
      BY <2>1, TemplateResolves, Zenon DEF FilesResolve
  <1> QED
    BY <1>1, MadeInit, MadeStep, PTL DEF Spec
=============================================================================
