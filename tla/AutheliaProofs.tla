--------------------------- MODULE AutheliaProofs ---------------------------
(***************************************************************************)
(* Proofs about the Authelia controller in the whole operator, for every   *)
(* set of Authelias, clients, Ingresses and specs and without the bounds   *)
(* TLC needs: its state is well typed, its core Secrets are a keyring, and *)
(* it never rests on a configuration that is out of date.                  *)
(***************************************************************************)
EXTENDS HeliopProofs, FiniteSetTheorems

AObj == AutheliaObj \cup {Absent}
IObj == IngressSpecs \cup {Absent}
Claim == {"claim", Absent}

-----------------------------------------------------------------------------
(* What the reconcile computes is well typed. *)

\* The clients to render are finitely many.
LEMMA CollectedFinite ==
    ASSUME NEW specs, NEW secrets, DOMAIN specs \subseteq Clients
    PROVE  Cardinality(DOMAIN Collected(specs, secrets)) \in Nat
  <1>1. DOMAIN Collected(specs, secrets) \subseteq Clients
    BY DEF Collected
  <1>2. IsFiniteSet(DOMAIN Collected(specs, secrets))
    BY <1>1, HeliopAssumption, FS_Subset
  <1> QED
    BY <1>2, FS_CardinalityType

\* A Secret's digest is a digest, also when there is no Secret.
LEMMA DigestType ==
    ASSUME NEW s \in SObj
    PROVE  DigestIn(s) \in Digest
  BY DEF SObj, SecretObj, DigestIn, NoDigest, Digest

\* A rendered client has an ID and a digest.
LEMMA CollectedType ==
    ASSUME NEW specs, DOMAIN specs \subseteq Clients,
           \A c \in DOMAIN specs : specs[c] \in ClientSpecs,
           NEW secrets \in [Clients -> SObj]
    PROVE  \A c \in DOMAIN Collected(specs, secrets) :
             Collected(specs, secrets)[c] \in Entry
  <1> SUFFICES ASSUME NEW c \in DOMAIN specs
               PROVE  ClientEntry(c, specs[c], secrets[c]) \in Entry
    BY DEF Collected
  <1>1. /\ c \in Clients /\ c \in Nat \ {0}
        /\ specs[c].public \in BOOLEAN /\ specs[c].id \in Nat
        /\ specs[c].copied \in Copied
    BY ConstantsAssumption DEF Copied
  <1>2. DigestIn(secrets[c]) \in Digest /\ NoDigest \in Digest
    BY <1>1, DigestType DEF NoDigest, Digest
  <1> QED
    BY <1>1, <1>2 DEF ClientEntry, Entry, ClientID

\* An ordering of the clients is a list of entries.
LEMMA SortedType ==
    ASSUME NEW f, \A c \in DOMAIN f : f[c] \in Entry,
           Cardinality(DOMAIN f) \in Nat, NEW l \in SortedByID(f)
    PROVE  l \in Seq(Entry)
  <1> DEFINE n == Cardinality(DOMAIN f)
  <1>1. PICK q \in [1..n -> DOMAIN f] : l = [i \in DOMAIN q |-> f[q[i]]]
    BY DEF SortedByID
  <1>2. DOMAIN q = 1..n /\ \A i \in 1..n : f[q[i]] \in Entry
    BY <1>1
  <1>3. l \in [1..n -> Entry]
    BY <1>1, <1>2
  <1> QED
    BY <1>3

\* The rules of the Ingresses name Ingresses.
LEMMA RulesType ==
    ASSUME NEW ingresses \in [Ingresses -> IObj]
    PROVE  Rules(ingresses) \in SUBSET (Ingresses \X Nat)
  <1>1. ASSUME NEW i \in Ingresses, ingresses[i] # Absent
        PROVE  <<i, ingresses[i].rule>> \in Ingresses \X Nat
    <2>1. ingresses[i] \in IngressSpecs
      BY <1>1 DEF IObj
    <2> QED
      BY <2>1, HeliopAssumption
  <1> QED
    BY <1>1 DEF Rules

\* What renderConfig returns is a configuration.
LEMMA RenderType ==
    ASSUME NEW spec \in AutheliaSpecs,
           NEW specs, DOMAIN specs \subseteq Clients,
           \A c \in DOMAIN specs : specs[c] \in ClientSpecs,
           NEW secrets \in [Clients -> SObj], NEW ingresses \in [Ingresses -> IObj],
           NEW config \in Renderings(spec, specs, secrets, ingresses)
    PROVE  config \in Config
  <1>1. spec.settings \in Settings
    BY DEF Settings
  <1>2. PICK q \in SortedByID(Collected(specs, secrets)) :
          config = [settings |-> spec.settings, rules |-> Rules(ingresses), clients |-> q]
    BY DEF Renderings
  <1>3. q \in Seq(Entry)
    BY CollectedFinite, CollectedType, SortedType
  <1> QED
    BY <1>1, <1>2, <1>3, RulesType DEF Config

\* The pod template made from a configuration is well typed.
LEMMA TemplateType ==
    ASSUME NEW spec \in AutheliaSpecs, NEW config \in Config
    PROVE  Template(spec, config) \in TemplateObj
  BY HeliopAssumption DEF Template, TemplateObj, Config

\* So is the status made from it: the IDs it reports are never empty.
LEMMA StatusType ==
    ASSUME NEW config \in Config, NEW ready \in BOOLEAN
    PROVE  StatusOf(config, ready) \in Status
  <1>1. config.clients \in Seq(Entry) /\ config.rules \in SUBSET (Ingresses \X Nat)
    BY DEF Config
  <1>2. [i \in DOMAIN config.clients |-> config.clients[i].id] \in Seq(Nat \ {0})
    <2> DEFINE q == config.clients
               ids == [i \in 1..Len(q) |-> q[i].id]
    <2>1. Len(q) \in Nat /\ DOMAIN q = 1..Len(q) /\ \A i \in 1..Len(q) : q[i] \in Entry
      BY <1>1
    <2>2. \A i \in 1..Len(q) : q[i].id \in Nat \ {0}
      BY <2>1 DEF Entry
    <2>3. ids \in [1..Len(q) -> Nat \ {0}]
      BY <2>2
    <2> HIDE DEF ids
    <2>4. ids \in Seq(Nat \ {0})
      BY <2>1, <2>3
    <2> QED
      BY <2>1, <2>4 DEF ids
  <1> QED
    BY <1>1, <1>2 DEF StatusOf, Status

-----------------------------------------------------------------------------
(* Every step keeps the types. *)

\* The worker that collects, and the worker that applies.
LEMMA AWorkerType ==
    ASSUME HeliopTypeOK, aworker # Idle
    PROVE  /\ aworker.a \in Authelias /\ aworker.obj \in AutheliaObj
           /\ aworker.obj # Absent
           /\ aworker.at = "collect" => Collecting(aworker)
           /\ aworker.at # "collect" => Applying(aworker)
  BY HeliopAbsentAssumption DEF HeliopTypeOK, Collecting, Applying, Kinds

\* A worker that has named its step is busy.
LEMMA AtType ==
    ASSUME HeliopTypeOK, NEW a \in Authelias, NEW step, At(a, step)
    PROVE  /\ aworker # Idle /\ aworker.a = a /\ aworker.at = step
           /\ aworker.obj \in AutheliaObj /\ aworker.obj # Absent
           /\ step = "collect" => Collecting(aworker)
           /\ step # "collect" => Applying(aworker)
  BY AWorkerType DEF At, AWorking

OwnShape(f) == f = [a \in Authelias |-> [k \in Kinds |-> f[a][k]]]

\* The objects as the cache and the API server hold them.
LEMMA ObjectTypes ==
    ASSUME HeliopTypeOK
    PROVE  /\ au \in [Authelias -> Rep(AObj)] /\ ing \in [Ingresses -> Rep(IObj)]
           /\ pvc \in [Authelias -> Rep(Claim)] /\ OwnShape(own)
           /\ \A a \in Authelias : au[a].live \in AObj /\ au[a].seen \in AObj
           /\ \A i \in Ingresses : ing[i].live \in IObj /\ ing[i].seen \in IObj
           /\ \A a \in Authelias, k \in Kinds :
                 /\ own[a][k] \in Rep(OwnedObj(k))
                 /\ own[a][k].live \in OwnedObj(k) /\ own[a][k].seen \in OwnedObj(k)
  BY DEF HeliopTypeOK, AObj, IObj, Claim, OwnShape, Rep

\* A write that may change nothing keeps the record of an object well typed.
LEMMA PutType ==
    ASSUME NEW S, NEW r \in Rep(S), NEW v \in S
    PROVE  Put(r, v) \in Rep(S)
  BY WriteType DEF Put

\* The core Secret is filled from what was found or from fresh entropy.
LEMMA CoreType ==
    ASSUME NEW found \in OwnedObj("core"), NEW n \in Draws
    PROVE  CoreData(found, n) \in [CoreKeys -> Nat \ {0}]
  <1>1. n \in Nat \ {0}
    BY ConstantsAssumption
  <1>2. found # Absent => found.content \in [CoreKeys -> Nat \ {0}]
    BY DEF OwnedObj, Owned, Content
  <1> QED
    BY <1>1, <1>2 DEF CoreData

\* The mutate functions yield objects that belong to the Authelia.
LEMMA DesiredType ==
    ASSUME HeliopTypeOK, NEW a \in Authelias, NEW k \in Kinds, At(a, k),
           NEW n \in Draw(k)
    PROVE  /\ Desired(a, k, n) \in Owned(Content(k))
           /\ Desired(a, k, n) # Absent
           /\ Desired(a, k, n).owner = aworker.obj.uid
  <1> DEFINE found == own[a][k].seen
             content == CASE k = "core"   -> CoreData(found, n)
                          [] k = "cm"     -> aworker.config
                          [] k = "svc"    -> "http"
                          [] k = "deploy" -> Template(aworker.obj.spec, aworker.config)
  <1>1. found \in OwnedObj(k)
    BY ObjectTypes
  <1>2. Applying(aworker)
    BY AtType DEF Kinds
  <1>3. /\ aworker.obj.uid \in Nat \ {0} /\ aworker.obj.spec \in AutheliaSpecs
        /\ aworker.config \in Config
    BY <1>2 DEF Applying, AutheliaObj
  <1>4. (found # Absent /\ found.ready) \in BOOLEAN
    OBVIOUS
  <1>5. content \in Content(k)
    <2>1. CASE k = "core"
      BY <2>1, <1>1, CoreType DEF Draw, Content
    <2>2. CASE k = "cm"
      BY <2>2, <1>3 DEF Content
    <2>3. CASE k = "svc"
      BY <2>3 DEF Content
    <2>4. CASE k = "deploy"
      BY <2>4, <1>3, TemplateType DEF Content
    <2> QED
      BY <2>1, <2>2, <2>3, <2>4 DEF Kinds
  <1>6. Desired(a, k, n) = [owner |-> aworker.obj.uid, content |-> content,
                            ready |-> found # Absent /\ found.ready]
    BY DEF Desired
  <1> HIDE DEF content, found
  <1>7. Desired(a, k, n) \in Owned(Content(k))
    BY <1>3, <1>4, <1>5, <1>6 DEF Owned
  <1> QED
    BY <1>6, <1>7, HeliopAbsentAssumption

\* A step leaves an owned object alone, delivers its next event, lists it
\* afresh, or is one of the four writes: a collection, a deletion by the user,
\* the kubelet's report that the pods are ready, and the reconcile's
\* CreateOrUpdate.
OwnWritten(a, k) ==
    \/ AOrphaned(a, k) /\ own'[a][k] = Write(own[a][k], Absent)
    \/ DeleteOwned(a, k) /\ own'[a][k] = Write(own[a][k], Absent)
    \/ /\ k = "deploy" /\ own[a][k].live # Absent
       /\ own'[a][k] = Put(own[a][k], [own[a][k].live EXCEPT !.ready = TRUE])
    \/ /\ At(a, k)
       /\ \E n \in Draw(k) : /\ ~ARefused(a, k, n) /\ Sends(a, k, n)
                             /\ own'[a][k] = Put(own[a][k], Desired(a, k, n))

OwnMoved(a, k) ==
    \/ own'[a][k] = own[a][k]
    \/ Lagging(own[a][k]) /\ own'[a][k] = Observe(own[a][k]) /\ a \in aqueue'
    \/ HeliopRestart /\ own'[a][k] = Relist(own[a][k])
    \/ OwnWritten(a, k)

\* The steps that touch owned objects.
LEMMA OwnSteps ==
    ASSUME [HeliopNext]_allVars
    PROVE  \/ own' = own
           \/ HeliopRestart
           \/ \E b \in Authelias : PodStart(b)
           \/ \E b \in Authelias, j \in Kinds :
                 AApply(b, j) \/ DeliverOwned(b, j) \/ ACollectGarbage(b, j)
                 \/ DeleteOwned(b, j)
  <1>1. ASSUME NEW b \in Authelias,
               \/ AStart(b) \/ ACollect(b) \/ APVC(b) \/ AStatus(b)
               \/ \E j \in Kinds : AApplyRefused(b, j)
               \/ AReconcileError(b)
        PROVE  own' = own
    BY <1>1 DEF AStart, ACollect, APVC, AStatus, AApplyRefused, AReconcileError
  <1>2. ASSUME NEW b \in Authelias,
               \/ DeliverAuthelia(b) \/ DeliverPVC(b) \/ PodStop(b)
               \/ CreateAuthelia(b) \/ EditAuthelia(b) \/ DeleteAuthelia(b)
        PROVE  own' = own
    BY <1>2 DEF DeliverAuthelia, DeliverPVC, PodStop, CreateAuthelia, EditAuthelia,
                DeleteAuthelia
  <1>3. ASSUME NEW c \in Clients, ClientSide(c) \/ DeliverClientToBoth(c)
        PROVE  own' = own
    BY <1>3 DEF ClientSide, DeliverClientToBoth, avars
  <1>4. ASSUME NEW i \in Ingresses, DeliverIngress(i) \/ WriteIngress(i)
        PROVE  own' = own
    BY <1>4 DEF DeliverIngress, WriteIngress
  <1>5. CASE UNCHANGED allVars
    BY <1>5 DEF allVars, avars
  <1> QED
    BY <1>1, <1>2, <1>3, <1>4, <1>5 DEF HeliopNext, AReconcile, ACluster, AUser

\* No other change of an owned object is possible.
LEMMA OwnMoves ==
    ASSUME HeliopTypeOK, [HeliopNext]_allVars
    PROVE  OwnShape(own') /\ \A a \in Authelias, k \in Kinds : OwnMoved(a, k)
  <1>t. OwnShape(own)
    BY ObjectTypes
  <1>x. ASSUME NEW b \in Authelias, NEW j \in Kinds, NEW v,
               own' = [own EXCEPT ![b][j] = v],
               own'[b][j] = v => OwnMoved(b, j)
        PROVE  OwnShape(own') /\ \A a \in Authelias, k \in Kinds : OwnMoved(a, k)
    <2>1. /\ OwnShape(own') /\ own'[b][j] = v
          /\ \A a \in Authelias, k \in Kinds : a # b \/ k # j => own'[a][k] = own[a][k]
      BY <1>x, <1>t DEF OwnShape
    <2>2. ASSUME NEW a \in Authelias, NEW k \in Kinds PROVE OwnMoved(a, k)
      <3>1. CASE a = b /\ k = j
        BY <3>1, <2>1, <1>x
      <3>2. CASE a # b \/ k # j
        BY <3>2, <2>1 DEF OwnMoved
      <3> QED
        BY <3>1, <3>2
    <2> QED
      BY <2>1, <2>2
  <1>1. ASSUME NEW b \in Authelias, PodStart(b)
        PROVE  OwnShape(own') /\ \A a \in Authelias, k \in Kinds : OwnMoved(a, k)
    <2> DEFINE v == Put(own[b]["deploy"], [own[b]["deploy"].live EXCEPT !.ready = TRUE])
    <2>1. own' = [own EXCEPT ![b]["deploy"] = v]
      BY <1>1 DEF PodStart
    <2>2. own'[b]["deploy"] = v => OwnMoved(b, "deploy")
      BY <1>1 DEF PodStart, PodDue, OwnMoved, OwnWritten
    <2>3. "deploy" \in Kinds
      BY DEF Kinds
    <2> HIDE DEF v
    <2> QED
      BY <2>1, <2>2, <2>3, <1>x
  <1>2. ASSUME NEW b \in Authelias, NEW j \in Kinds, AApply(b, j)
        PROVE  OwnShape(own') /\ \A a \in Authelias, k \in Kinds : OwnMoved(a, k)
    <2>1. PICK n \in Draw(j) :
            /\ ~ARefused(b, j, n)
            /\ own' = [own EXCEPT ![b][j] =
                         IF Sends(b, j, n) THEN Put(@, Desired(b, j, n)) ELSE @]
      BY <1>2 DEF AApply
    <2> DEFINE v == IF Sends(b, j, n) THEN Put(own[b][j], Desired(b, j, n)) ELSE own[b][j]
    <2>2. own'[b][j] = v => OwnMoved(b, j)
      BY <1>2, <2>1 DEF AApply, OwnMoved, OwnWritten
    <2>3. own' = [own EXCEPT ![b][j] = v]
      BY <2>1
    <2> HIDE DEF v
    <2> QED
      BY <2>2, <2>3, <1>x
  <1>3. ASSUME NEW b \in Authelias, NEW j \in Kinds,
               DeliverOwned(b, j) \/ ACollectGarbage(b, j) \/ DeleteOwned(b, j)
        PROVE  OwnShape(own') /\ \A a \in Authelias, k \in Kinds : OwnMoved(a, k)
    <2>1. CASE DeliverOwned(b, j)
      <3>1. /\ own' = [own EXCEPT ![b][j] = Observe(own[b][j])] /\ Lagging(own[b][j])
            /\ b \in aqueue'
        BY <2>1 DEF DeliverOwned
      <3> QED
        BY <3>1, <1>x DEF OwnMoved
    <2>2. CASE ACollectGarbage(b, j)
      <3>1. own' = [own EXCEPT ![b][j] = Write(own[b][j], Absent)] /\ AOrphaned(b, j)
        BY <2>2 DEF ACollectGarbage
      <3> QED
        BY <3>1, <1>x DEF OwnMoved, OwnWritten
    <2>3. CASE DeleteOwned(b, j)
      <3>1. own' = [own EXCEPT ![b][j] = Write(own[b][j], Absent)]
        BY <2>3 DEF DeleteOwned
      <3> QED
        BY <2>3, <3>1, <1>x DEF OwnMoved, OwnWritten
    <2> QED
      BY <1>3, <2>1, <2>2, <2>3
  <1>4. CASE HeliopRestart
    <2>1. own' = [a \in Authelias |-> [k \in Kinds |-> Relist(own[a][k])]]
      BY <1>4 DEF HeliopRestart
    <2> QED
      BY <1>4, <2>1 DEF OwnShape, OwnMoved
  <1>5. CASE own' = own
    BY <1>5, <1>t DEF OwnMoved
  <1> QED
    BY <1>1, <1>2, <1>3, <1>4, <1>5, OwnSteps

\* Every write of an owned object keeps its type.
LEMMA OwnTypeStep ==
    ASSUME HeliopTypeOK, [HeliopNext]_allVars
    PROVE  /\ OwnShape(own')
           /\ \A a \in Authelias, k \in Kinds : own'[a][k] \in Rep(OwnedObj(k))
  <1> SUFFICES ASSUME NEW a \in Authelias, NEW k \in Kinds, OwnMoved(a, k)
               PROVE  own'[a][k] \in Rep(OwnedObj(k))
    BY OwnMoves
  <1>t. own[a][k] \in Rep(OwnedObj(k)) /\ own[a][k].live \in OwnedObj(k)
    BY ObjectTypes
  <1>a. Absent \in OwnedObj(k)
    BY DEF OwnedObj
  <1>1. CASE own'[a][k] = Write(own[a][k], Absent)
    BY <1>1, <1>t, <1>a, WriteType
  <1>2. CASE /\ k = "deploy" /\ own[a][k].live # Absent
             /\ own'[a][k] = Put(own[a][k], [own[a][k].live EXCEPT !.ready = TRUE])
    <2>1. own[a][k].live \in Owned(Content(k))
      BY <1>2, <1>t DEF OwnedObj
    <2>2. [own[a][k].live EXCEPT !.ready = TRUE] \in Owned(Content(k))
      BY <2>1 DEF Owned
    <2>3. [own[a][k].live EXCEPT !.ready = TRUE] \in OwnedObj(k)
      BY <2>2 DEF OwnedObj
    <2> QED
      BY <1>2, <2>3, <1>t, PutType
  <1>3. ASSUME At(a, k), NEW n \in Draw(k),
               own'[a][k] = Put(own[a][k], Desired(a, k, n))
        PROVE  own'[a][k] \in Rep(OwnedObj(k))
    <2>1. Desired(a, k, n) \in OwnedObj(k)
      BY <1>3, DesiredType DEF OwnedObj
    <2> QED
      BY <1>3, <2>1, <1>t, PutType
  <1> QED
    BY <1>t, <1>1, <1>2, <1>3, ObserveType, RelistType DEF OwnMoved, OwnWritten

\* What the steps of the Authelia reconcile do to the rest of the state.
LEMMA ReconcileTypeStep ==
    ASSUME HeliopTypeOK, NEW a \in Authelias, AReconcile(a) \/ AReconcileError(a)
    PROVE  /\ au' \in [Authelias -> Rep(AObj)] /\ ing' = ing
           /\ pvc' \in [Authelias -> Rep(Claim)]
           /\ pod' = pod /\ data' = data
           /\ aqueue' \subseteq Authelias
           /\ aworker' = Idle \/ Collecting(aworker') \/ Applying(aworker')
           /\ aedits' \in Nat /\ afaults' \in Nat
  <1> DEFINE AT == au' \in [Authelias -> Rep(AObj)]
             VT == pvc' \in [Authelias -> Rep(Claim)]
             WT == aworker' = Idle \/ Collecting(aworker') \/ Applying(aworker')
             RT == /\ ing' = ing /\ pod' = pod /\ data' = data
                   /\ aqueue' \subseteq Authelias
                   /\ aedits' \in Nat /\ afaults' \in Nat
  <1> SUFFICES AT /\ VT /\ WT /\ RT
    OBVIOUS
  <1>t. /\ au \in [Authelias -> Rep(AObj)] /\ pvc \in [Authelias -> Rep(Claim)]
        /\ aqueue \subseteq Authelias /\ aedits \in Nat /\ afaults \in Nat
        /\ au[a].seen \in AObj
    BY ObjectTypes DEF HeliopTypeOK
  <1>1. CASE AStart(a)
    <2>1. ASSUME au[a].seen # Absent PROVE Collecting(aworker')
      <3>1. au[a].seen \in AutheliaObj
        BY <2>1, <1>t DEF AObj
      <3>2. \A c \in Clients : client[c].seen # Absent => client[c].seen.spec \in ClientSpecs
        BY DEF HeliopTypeOK, TypeOK, Rep, ClientObj
      <3> QED
        BY <1>1, <2>1, <3>1, <3>2 DEF AStart, Collecting
    <2> QED
      BY <1>1, <1>t, <2>1 DEF AStart
  <1>2. CASE ACollect(a)
    <2> DEFINE secrets == [c \in Clients |-> secret[c].seen]
               ingresses == [i \in Ingresses |-> ing[i].seen]
    <2>1. /\ Collecting(aworker) /\ aworker.obj \in AutheliaObj
          /\ aworker.obj.spec \in AutheliaSpecs
      BY <1>2, AtType DEF ACollect, AutheliaObj
    <2>2. secrets \in [Clients -> SObj] /\ ingresses \in [Ingresses -> IObj]
      BY ObjectTypes DEF HeliopTypeOK, TypeOK, Rep, SObj
    <2> HIDE DEF secrets, ingresses
    <2>3. PICK config \in Renderings(aworker.obj.spec, aworker.specs, secrets, ingresses) :
            aworker' = [at |-> IF aworker.obj.spec.existing THEN "cm" ELSE "core",
                        a |-> a, obj |-> aworker.obj, config |-> config,
                        missing |-> Waiting(aworker.specs, secrets) # {},
                        ready |-> FALSE]
      BY <1>2 DEF ACollect, secrets, ingresses
    <2>4. config \in Config
      BY <2>1, <2>2, RenderType DEF Collecting
    <2>5. Applying(aworker')
      BY <2>1, <2>3, <2>4 DEF Applying, Kinds
    <2> QED
      BY <1>2, <1>t, <2>5 DEF ACollect
  <1>3. CASE APVC(a)
    <2>1. Applying(aworker)
      BY <1>3, AtType DEF APVC
    <2>2. CASE pvc[a].seen = Absent /\ pvc[a].live # Absent
      BY <1>3, <1>t, <2>2 DEF APVC, ARequeue
    <2>3. CASE ~(pvc[a].seen = Absent /\ pvc[a].live # Absent)
      <3>1. Write(pvc[a], "claim") \in Rep(Claim)
        BY <1>t, WriteType DEF Claim
      <3>2. VT
        BY <1>3, <1>t, <2>3, <3>1 DEF APVC
      <3>3. Applying(aworker')
        BY <1>3, <2>1, <2>3 DEF APVC, Proceed, Applying, Kinds
      <3> QED
        BY <1>3, <1>t, <2>3, <3>2, <3>3 DEF APVC
    <2> QED
      BY <2>2, <2>3
  <1>4. CASE AStatus(a)
    <2> DEFINE status == StatusOf(aworker.config, aworker.ready)
               new == WithStatus(aworker.obj, status)
    <2>1. Applying(aworker) /\ aworker.obj \in AutheliaObj
      BY <1>4, AtType DEF AStatus
    <2>2. status \in Status
      BY <2>1, StatusType DEF Applying
    <2>3. aworker.obj.rv \in Nat /\ MaxLag + MaxAEdits + 1 \in Nat \ {0}
      BY <2>1, ConstantsAssumption, HeliopAssumption DEF AutheliaObj
    <2>4. NextRV(aworker.obj.rv) \in Nat
      BY <2>3 DEF NextRV
    <2>5. new \in AObj
      BY <2>1, <2>2, <2>4 DEF WithStatus, AObj, AutheliaObj
    <2>6. Write(au[a], new) \in Rep(AObj)
      BY <2>5, <1>t, WriteType
    <2>7. au' = au \/ au' = [au EXCEPT ![a] = Write(au[a], new)] \/ au' = [au EXCEPT ![a] = au[a]]
      BY <1>4 DEF AStatus
    <2> HIDE DEF new
    <2>8. AT
      BY <2>6, <2>7, <1>t
    <2> QED
      BY <1>4, <1>t, <2>8 DEF AStatus, ARequeue
  <1>5. ASSUME NEW k \in Kinds, AApply(a, k) PROVE AT /\ VT /\ WT /\ RT
    <2>1. Applying(aworker) /\ aworker.at = k
      BY <1>5, AtType DEF AApply, Kinds
    <2>2. After(k) \in Kinds \cup {"pvc", "status"}
      BY DEF After, Kinds
    <2>3. PICK n \in Draw(k) :
            aworker' = [aworker EXCEPT !.at = After(k), !.ready = Desired(a, k, n).ready]
      BY <1>5 DEF AApply
    <2>4. Desired(a, k, n).ready \in BOOLEAN
      BY <1>5, DesiredType DEF AApply, Owned
    <2>5. Applying(aworker')
      BY <2>1, <2>2, <2>3, <2>4 DEF Applying
    <2> QED
      BY <1>5, <1>t, <2>5 DEF AApply
  <1>6. ASSUME NEW k \in Kinds, AApplyRefused(a, k) PROVE AT /\ VT /\ WT /\ RT
    BY <1>6, <1>t DEF AApplyRefused, ARequeue
  <1>7. CASE AReconcileError(a)
    BY <1>7, <1>t DEF AReconcileError, ARequeue
  <1> QED
    BY <1>1, <1>2, <1>3, <1>4, <1>5, <1>6, <1>7 DEF AReconcile

\* What the watches, the cluster and the user do to the rest of the state.
LEMMA OtherTypeStep ==
    ASSUME HeliopTypeOK, NEW a \in Authelias, ACluster(a) \/ AUser(a)
    PROVE  /\ au' \in [Authelias -> Rep(AObj)] /\ ing' = ing
           /\ pvc' \in [Authelias -> Rep(Claim)]
           /\ pod' \in [Authelias -> PodObj \cup {NoPod}] /\ data' \in [Authelias -> Nat]
           /\ aqueue' \subseteq Authelias /\ aworker' = aworker
           /\ aedits' \in Nat /\ afaults' \in Nat
  <1> DEFINE AT == au' \in [Authelias -> Rep(AObj)]
             VT == pvc' \in [Authelias -> Rep(Claim)]
             PT == pod' \in [Authelias -> PodObj \cup {NoPod}] /\ data' \in [Authelias -> Nat]
             RT == /\ ing' = ing /\ aworker' = aworker /\ aqueue' \subseteq Authelias
                   /\ aedits' \in Nat /\ afaults' \in Nat
  <1> SUFFICES AT /\ VT /\ PT /\ RT
    OBVIOUS
  <1>t. /\ au \in [Authelias -> Rep(AObj)] /\ pvc \in [Authelias -> Rep(Claim)]
        /\ pod \in [Authelias -> PodObj \cup {NoPod}] /\ data \in [Authelias -> Nat]
        /\ aqueue \subseteq Authelias /\ aedits \in Nat /\ afaults \in Nat
        /\ au[a].live \in AObj
    BY ObjectTypes DEF HeliopTypeOK
  <1>w. ASSUME NEW v \in AObj, au' = [au EXCEPT ![a] = Write(au[a], v)] PROVE AT
    <2>1. Write(au[a], v) \in Rep(AObj)
      BY <1>w, <1>t, WriteType
    <2> QED
      BY <1>w, <1>t, <2>1
  <1>1. CASE DeliverAuthelia(a)
    <2>1. Observe(au[a]) \in Rep(AObj)
      BY <1>1, <1>t, ObserveType DEF DeliverAuthelia
    <2> QED
      BY <1>1, <1>t, <2>1 DEF DeliverAuthelia
  <1>2. CASE DeliverPVC(a)
    <2>1. Observe(pvc[a]) \in Rep(Claim)
      BY <1>2, <1>t, ObserveType DEF DeliverPVC
    <2> QED
      BY <1>2, <1>t, <2>1 DEF DeliverPVC
  <1>3. CASE PodStart(a)
    <2> DEFINE template == own[a]["deploy"].live.content
               config == own[a]["cm"].live.content
    <2>1. template \in TemplateObj /\ config \in Config
      <3>1. "deploy" \in Kinds /\ "cm" \in Kinds
        BY DEF Kinds
      <3>2. own[a]["deploy"].live \in Owned(TemplateObj) /\ own[a]["cm"].live \in Owned(Config)
        BY <1>3, <3>1, ObjectTypes DEF PodStart, PodDue, OwnedObj, Content
      <3> QED
        BY <3>2 DEF Owned
    <2>2. StorageKey(a) \in Nat
      <3>1. CASE template.existing
        BY <3>1 DEF StorageKey
      <3>2. CASE ~template.existing
        <4>1. "core" \in Kinds /\ own[a]["core"].live # Absent
          BY <1>3, <3>2 DEF PodStart, PodDue, Kinds
        <4>2. own[a]["core"].live \in Owned([CoreKeys -> Nat \ {0}])
          BY <4>1, ObjectTypes DEF OwnedObj, Content
        <4> QED
          BY <3>2, <4>2 DEF StorageKey, Owned, CoreKeys
      <3> QED
        BY <3>1, <3>2
    <2> HIDE DEF template, config
    <2>3. [on |-> TRUE, template |-> template, key |-> StorageKey(a), config |-> config]
             \in PodObj
      BY <2>1, <2>2 DEF PodObj
    <2>4. PT
      BY <1>3, <1>t, <2>2, <2>3 DEF PodStart, template, config
    <2> QED
      BY <1>3, <1>t, <2>4 DEF PodStart
  <1>4. CASE PodStop(a)
    BY <1>4, <1>t DEF PodStop
  <1>5. ASSUME NEW k \in Kinds, DeliverOwned(a, k) \/ ACollectGarbage(a, k) \/ DeleteOwned(a, k)
        PROVE  AT /\ VT /\ PT /\ RT
    BY <1>5, <1>t DEF DeliverOwned, ACollectGarbage, DeleteOwned, AUserDoes
  <1>6. CASE CreateAuthelia(a)
    <2>1. EmptyStatus \in Status
      BY DEF EmptyStatus, Status
    <2>2. PICK s \in AutheliaSpecs :
            au' = [au EXCEPT ![a] = Write(au[a], [uid |-> aedits + 1, rv |-> 0, spec |-> s,
                                                  status |-> EmptyStatus])]
      BY <1>6 DEF CreateAuthelia
    <2>3. [uid |-> aedits + 1, rv |-> 0, spec |-> s, status |-> EmptyStatus] \in AObj
      BY <2>1, <1>t DEF AObj, AutheliaObj
    <2>4. AT
      BY <2>2, <2>3, <1>w
    <2> QED
      BY <1>6, <1>t, <2>4 DEF CreateAuthelia, AUserDoes
  <1>7. CASE EditAuthelia(a)
    <2>1. PICK s \in AutheliaSpecs :
            au' = [au EXCEPT ![a] = Write(au[a], WithSpec(au[a].live, s))]
      BY <1>7 DEF EditAuthelia
    <2>2. au[a].live \in AutheliaObj
      BY <1>7, <1>t DEF EditAuthelia, AObj
    <2>3. au[a].live.rv \in Nat /\ MaxLag + MaxAEdits + 1 \in Nat \ {0}
      BY <2>2, ConstantsAssumption, HeliopAssumption DEF AutheliaObj
    <2>4. NextRV(au[a].live.rv) \in Nat
      BY <2>3 DEF NextRV
    <2>5. WithSpec(au[a].live, s) \in AObj
      BY <2>2, <2>4 DEF WithSpec, AObj, AutheliaObj
    <2>6. AT
      BY <2>1, <2>5, <1>w
    <2> QED
      BY <1>7, <1>t, <2>6 DEF EditAuthelia, AUserDoes
  <1>8. CASE DeleteAuthelia(a)
    <2>1. AT
      BY <1>8, <1>w DEF DeleteAuthelia, AObj
    <2> QED
      BY <1>8, <1>t, <2>1 DEF DeleteAuthelia, AUserDoes
  <1> QED
    BY <1>1, <1>2, <1>3, <1>4, <1>5, <1>6, <1>7, <1>8 DEF ACluster, AUser

\* Every step of the operator keeps the types.
LEMMA HeliopTypeStep == HeliopTypeOK /\ [HeliopNext]_allVars => HeliopTypeOK'
  <1> SUFFICES ASSUME HeliopTypeOK, [HeliopNext]_allVars PROVE HeliopTypeOK'
    OBVIOUS
  <1> DEFINE RT == /\ au' \in [Authelias -> Rep(AObj)] /\ ing' \in [Ingresses -> Rep(IObj)]
                   /\ pvc' \in [Authelias -> Rep(Claim)]
                   /\ pod' \in [Authelias -> PodObj \cup {NoPod}]
                   /\ data' \in [Authelias -> Nat]
                   /\ aqueue' \subseteq Authelias
                   /\ aworker' = Idle \/ Collecting(aworker') \/ Applying(aworker')
                   /\ aedits' \in Nat /\ afaults' \in Nat
  <1>c. TypeOK'
    BY TypeStep, HeliopStep DEF HeliopTypeOK
  <1>o. OwnShape(own') /\ \A a \in Authelias, k \in Kinds : own'[a][k] \in Rep(OwnedObj(k))
    BY OwnTypeStep
  <1> SUFFICES RT
    BY <1>c, <1>o DEF HeliopTypeOK, AObj, IObj, Claim, OwnShape
  <1>t. /\ au \in [Authelias -> Rep(AObj)] /\ ing \in [Ingresses -> Rep(IObj)]
        /\ pvc \in [Authelias -> Rep(Claim)]
        /\ pod \in [Authelias -> PodObj \cup {NoPod}] /\ data \in [Authelias -> Nat]
        /\ aqueue \subseteq Authelias
        /\ aworker = Idle \/ Collecting(aworker) \/ Applying(aworker)
        /\ aedits \in Nat /\ afaults \in Nat
    BY ObjectTypes DEF HeliopTypeOK
  <1>1. ASSUME NEW a \in Authelias, AReconcile(a) \/ AReconcileError(a) PROVE RT
    BY <1>1, <1>t, ReconcileTypeStep
  <1>2. ASSUME NEW a \in Authelias, ACluster(a) \/ AUser(a) PROVE RT
    BY <1>2, <1>t, OtherTypeStep
  <1>3. ASSUME NEW c \in Clients, ClientSide(c) PROVE RT
    BY <1>3, <1>t DEF ClientSide, avars
  <1>4. ASSUME NEW c \in Clients, DeliverClientToBoth(c) PROVE RT
    <2>1. \A obj : MapClient(c, obj) \subseteq Authelias
      BY Zenon DEF MapClient
    <2> QED
      BY <1>4, <2>1, <1>t DEF DeliverClientToBoth
  <1>5. ASSUME NEW i \in Ingresses, DeliverIngress(i) PROVE RT
    <2>1. Observe(ing[i]) \in Rep(IObj)
      BY <1>5, <1>t, ObserveType DEF DeliverIngress
    <2>2. \A obj : MapIngress(obj) \subseteq Authelias
      BY DEF MapIngress
    <2> QED
      BY <1>5, <2>1, <2>2, <1>t DEF DeliverIngress
  <1>6. ASSUME NEW i \in Ingresses, WriteIngress(i) PROVE RT
    <2>1. PICK g \in IObj : ing' = [ing EXCEPT ![i] = Write(@, g)]
      BY <1>6 DEF WriteIngress, IObj
    <2>2. Write(ing[i], g) \in Rep(IObj)
      BY <1>t, WriteType
    <2> QED
      BY <1>6, <2>1, <2>2, <1>t DEF WriteIngress, AUserDoes
  <1>7. CASE HeliopRestart
    <2>1. /\ \A a \in Authelias : Relist(au[a]) \in Rep(AObj) /\ Relist(pvc[a]) \in Rep(Claim)
          /\ \A i \in Ingresses : Relist(ing[i]) \in Rep(IObj)
      BY <1>t, RelistType
    <2>2. /\ au' \in [Authelias -> Rep(AObj)] /\ ing' \in [Ingresses -> Rep(IObj)]
          /\ pvc' \in [Authelias -> Rep(Claim)]
      BY <1>7, <2>1 DEF HeliopRestart
    <2>3. aqueue' \subseteq Authelias
      BY <1>7 DEF HeliopRestart
    <2> QED
      BY <1>7, <2>2, <2>3, <1>t DEF HeliopRestart
  <1>8. CASE UNCHANGED allVars
    BY <1>8, <1>t DEF allVars, avars
  <1> QED
    BY <1>1, <1>2, <1>3, <1>4, <1>5, <1>6, <1>7, <1>8 DEF HeliopNext

\* The initial state of the operator is well typed.
LEMMA HeliopTypeInit == HeliopInit => HeliopTypeOK
  <1> SUFFICES ASSUME HeliopInit PROVE HeliopTypeOK
    OBVIOUS
  <1>1. TypeOK
    BY TypeInit DEF HeliopInit
  <1>2. ASSUME NEW S PROVE NeverWritten \in Rep(S \cup {Absent})
    BY DEF NeverWritten, Rep
  <1>3. \A k \in Kinds : NeverWritten \in Rep(OwnedObj(k))
    BY <1>2 DEF OwnedObj
  <1>4. NeverWritten \in Rep({"claim", Absent})
    BY DEF NeverWritten, Rep
  <1> QED
    BY <1>1, <1>2, <1>3, <1>4 DEF HeliopInit, HeliopTypeOK

\* Every object, request and reconcile of the Authelia controller stays well
\* typed in every behaviour of the operator: whatever was edited, refused,
\* collected or restarted, a rendered client has an ID, an owned object an
\* owner, a core Secret all its keys.
THEOREM HeliopTypeCorrect == HeliopSpec => []HeliopTypeOK
  BY HeliopTypeInit, HeliopTypeStep, PTL DEF HeliopSpec

-----------------------------------------------------------------------------
(* What one step can do to an Authelia, a claim and an Ingress. *)

\* The steps that touch Authelias.
LEMMA AuSteps ==
    ASSUME [HeliopNext]_allVars
    PROVE  \/ au' = au
           \/ HeliopRestart
           \/ \E b \in Authelias :
                 DeliverAuthelia(b) \/ AStatus(b) \/ CreateAuthelia(b)
                 \/ EditAuthelia(b) \/ DeleteAuthelia(b)
  <1>1. ASSUME NEW b \in Authelias,
               \/ AStart(b) \/ ACollect(b) \/ APVC(b) \/ AReconcileError(b)
               \/ \E k \in Kinds : AApply(b, k) \/ AApplyRefused(b, k)
        PROVE  au' = au
    BY <1>1 DEF AStart, ACollect, APVC, AApply, AApplyRefused, AReconcileError
  <1>2. ASSUME NEW b \in Authelias,
               \/ DeliverPVC(b) \/ PodStart(b) \/ PodStop(b)
               \/ \E k \in Kinds : DeliverOwned(b, k) \/ ACollectGarbage(b, k)
                                     \/ DeleteOwned(b, k)
        PROVE  au' = au
    BY <1>2 DEF DeliverPVC, PodStart, PodStop, DeliverOwned, ACollectGarbage, DeleteOwned
  <1>3. ASSUME NEW c \in Clients, ClientSide(c) \/ DeliverClientToBoth(c)
        PROVE  au' = au
    BY <1>3 DEF ClientSide, DeliverClientToBoth, avars
  <1>4. ASSUME NEW i \in Ingresses, DeliverIngress(i) \/ WriteIngress(i)
        PROVE  au' = au
    BY <1>4 DEF DeliverIngress, WriteIngress
  <1>5. CASE UNCHANGED allVars
    BY <1>5 DEF allVars, avars
  <1> QED
    BY <1>1, <1>2, <1>3, <1>4, <1>5 DEF HeliopNext, AReconcile, ACluster, AUser

\* The writes of an Authelia: the user's, which are counted, and the status
\* update of the reconcile, which keeps the uid.
AuWritten(a) ==
    \E v \in AObj :
        /\ au'[a] = Write(au[a], v)
        /\ \/ aedits' = aedits + 1
           \/ /\ At(a, "status") /\ au[a].live # Absent /\ v # Absent
              /\ v.uid = au[a].live.uid

\* A step leaves an Authelia alone, delivers its next event, lists it afresh,
\* or writes it.
LEMMA AuMoves ==
    ASSUME HeliopTypeOK, HeliopTypeOK', [HeliopNext]_allVars, NEW a \in Authelias
    PROVE  \/ au'[a] = au[a]
           \/ Lagging(au[a]) /\ au'[a] = Observe(au[a]) /\ a \in aqueue'
           \/ HeliopRestart /\ au'[a] = Relist(au[a])
           \/ AuWritten(a)
  <1>t. au \in [Authelias -> Rep(AObj)] /\ au' \in [Authelias -> Rep(AObj)]
    BY DEF HeliopTypeOK, AObj
  <1>l. \A b \in Authelias : au[b].live \in AObj /\ au'[b].live \in AObj
    BY <1>t DEF Rep
  <1>v. ASSUME NEW b \in Authelias, NEW v, au' = [au EXCEPT ![b] = Write(au[b], v)]
        PROVE  /\ v \in AObj
               /\ au'[a] = au[a] \/ (a = b /\ au'[a] = Write(au[a], v))
    <2>1. v = au'[b].live
      BY <1>v, <1>t DEF Write
    <2> QED
      BY <1>v, <1>t, <1>l, <2>1
  <1>1. ASSUME NEW b \in Authelias,
               CreateAuthelia(b) \/ EditAuthelia(b) \/ DeleteAuthelia(b)
        PROVE  au'[a] = au[a] \/ AuWritten(a)
    <2>1. \E v : au' = [au EXCEPT ![b] = Write(au[b], v)]
      BY <1>1 DEF CreateAuthelia, EditAuthelia, DeleteAuthelia
    <2>2. aedits' = aedits + 1
      BY <1>1 DEF CreateAuthelia, EditAuthelia, DeleteAuthelia, AUserDoes
    <2> QED
      BY <2>1, <2>2, <1>v DEF AuWritten
  <1>2. ASSUME NEW b \in Authelias, AStatus(b)
        PROVE  au'[a] = au[a] \/ AuWritten(a)
    <2> DEFINE v == WithStatus(aworker.obj, StatusOf(aworker.config, aworker.ready))
    <2>1. \/ au' = au \/ au' = [au EXCEPT ![b] = au[b]]
          \/ /\ au' = [au EXCEPT ![b] = Write(au[b], v)]
             /\ au[b].live # Absent /\ au[b].live = aworker.obj
      BY <1>2 DEF AStatus
    <2>2. v.uid = aworker.obj.uid
      BY DEF WithStatus
    <2>3. DOMAIN v = {"uid", "rv", "spec", "status"}
      BY DEF WithStatus
    <2>4. At(b, "status")
      BY <1>2 DEF AStatus
    <2>5. CASE au[b].live # Absent /\ au[b].live = aworker.obj
      <3>1. v \in AutheliaObj
        <4>1. Applying(aworker) /\ aworker.obj \in AutheliaObj
          BY <2>4, AtType
        <4>2. StatusOf(aworker.config, aworker.ready) \in Status
          BY <4>1, StatusType DEF Applying
        <4>3. aworker.obj.rv \in Nat /\ MaxLag + MaxAEdits + 1 \in Nat \ {0}
          BY <4>1, ConstantsAssumption, HeliopAssumption DEF AutheliaObj
        <4>4. NextRV(aworker.obj.rv) \in Nat
          BY <4>3 DEF NextRV
        <4> QED
          BY <4>1, <4>2, <4>4 DEF WithStatus, AutheliaObj
      <3> HIDE DEF v
      <3>2. v # Absent
        BY <3>1, HeliopAbsentAssumption
      <3> QED
        BY <2>1, <2>2, <2>4, <2>5, <3>1, <3>2, <1>t, <1>v DEF AuWritten, AObj
    <2> QED
      BY <2>1, <2>5, <1>t
  <1>3. ASSUME NEW b \in Authelias, DeliverAuthelia(b)
        PROVE  \/ au'[a] = au[a]
               \/ Lagging(au[a]) /\ au'[a] = Observe(au[a]) /\ a \in aqueue'
    BY <1>3, <1>t DEF DeliverAuthelia
  <1>4. CASE HeliopRestart
    BY <1>4, <1>t DEF HeliopRestart
  <1> QED
    BY <1>1, <1>2, <1>3, <1>4, AuSteps

\* A claim is created, delivered, listed, and never removed.
LEMMA ClaimMoves ==
    ASSUME HeliopTypeOK, [HeliopNext]_allVars, NEW a \in Authelias
    PROVE  \/ pvc'[a] = pvc[a]
           \/ Lagging(pvc[a]) /\ pvc'[a] = Observe(pvc[a])
           \/ pvc'[a] = Relist(pvc[a])
           \/ pvc'[a] = Write(pvc[a], "claim")
  <1>t. pvc \in [Authelias -> Rep(Claim)]
    BY ObjectTypes
  <1>1. ASSUME NEW b \in Authelias, APVC(b)
        PROVE  pvc'[a] = pvc[a] \/ pvc'[a] = Write(pvc[a], "claim")
    <2>1. CASE pvc[b].seen = Absent /\ pvc[b].live # Absent
      BY <1>1, <2>1 DEF APVC
    <2>2. CASE ~(pvc[b].seen = Absent /\ pvc[b].live # Absent)
      BY <1>1, <2>2, <1>t DEF APVC
    <2> QED
      BY <2>1, <2>2
  <1>2. ASSUME NEW b \in Authelias, DeliverPVC(b)
        PROVE  pvc'[a] = pvc[a] \/ (Lagging(pvc[a]) /\ pvc'[a] = Observe(pvc[a]))
    BY <1>2, <1>t DEF DeliverPVC
  <1>3. CASE HeliopRestart
    BY <1>3 DEF HeliopRestart
  <1>4. ASSUME NEW b \in Authelias,
               \/ AStart(b) \/ ACollect(b) \/ AStatus(b) \/ AReconcileError(b)
               \/ \E k \in Kinds : AApply(b, k) \/ AApplyRefused(b, k)
        PROVE  pvc' = pvc
    BY <1>4 DEF AStart, ACollect, AStatus, AApply, AApplyRefused, AReconcileError
  <1>5. ASSUME NEW b \in Authelias,
               \/ DeliverAuthelia(b) \/ PodStart(b) \/ PodStop(b) \/ AUser(b)
               \/ \E k \in Kinds : DeliverOwned(b, k) \/ ACollectGarbage(b, k)
        PROVE  pvc' = pvc
    BY <1>5 DEF DeliverAuthelia, PodStart, PodStop, DeliverOwned, ACollectGarbage,
                AUser, CreateAuthelia, EditAuthelia, DeleteAuthelia, DeleteOwned
  <1>6. ASSUME NEW c \in Clients, ClientSide(c) \/ DeliverClientToBoth(c)
        PROVE  pvc' = pvc
    BY <1>6 DEF ClientSide, DeliverClientToBoth, avars
  <1>7. ASSUME NEW i \in Ingresses, DeliverIngress(i) \/ WriteIngress(i)
        PROVE  pvc' = pvc
    BY <1>7 DEF DeliverIngress, WriteIngress
  <1>8. CASE UNCHANGED allVars
    BY <1>8 DEF allVars, avars
  <1> QED
    BY <1>1, <1>2, <1>3, <1>4, <1>5, <1>6, <1>7, <1>8
       DEF HeliopNext, AReconcile, ACluster

\* An Ingress is written by the user, delivered, listed.
LEMMA IngressMoves ==
    ASSUME HeliopTypeOK, [HeliopNext]_allVars, NEW i \in Ingresses
    PROVE  \/ ing'[i] = ing[i]
           \/ Lagging(ing[i]) /\ ing'[i] = Observe(ing[i])
           \/ ing'[i] = Relist(ing[i])
           \/ \E g \in IObj : ing'[i] = Write(ing[i], g)
  <1>t. ing \in [Ingresses -> Rep(IObj)]
    BY ObjectTypes
  <1>1. ASSUME NEW j \in Ingresses, DeliverIngress(j)
        PROVE  ing'[i] = ing[i] \/ (Lagging(ing[i]) /\ ing'[i] = Observe(ing[i]))
    BY <1>1, <1>t DEF DeliverIngress
  <1>2. ASSUME NEW j \in Ingresses, WriteIngress(j)
        PROVE  ing'[i] = ing[i] \/ \E g \in IObj : ing'[i] = Write(ing[i], g)
    BY <1>2, <1>t DEF WriteIngress, IObj
  <1>3. CASE HeliopRestart
    BY <1>3 DEF HeliopRestart
  <1>4. ASSUME NEW b \in Authelias, AReconcile(b) \/ AReconcileError(b)
        PROVE  ing' = ing
    BY <1>4, ReconcileTypeStep
  <1>5. ASSUME NEW b \in Authelias, ACluster(b) \/ AUser(b)
        PROVE  ing' = ing
    BY <1>5, OtherTypeStep
  <1>6. ASSUME NEW c \in Clients, ClientSide(c) \/ DeliverClientToBoth(c)
        PROVE  ing' = ing
    BY <1>6 DEF ClientSide, DeliverClientToBoth, avars
  <1>7. CASE UNCHANGED allVars
    BY <1>7 DEF allVars, avars
  <1> QED
    BY <1>1, <1>2, <1>3, <1>4, <1>5, <1>6, <1>7 DEF HeliopNext

-----------------------------------------------------------------------------
(* The caches follow the API server. *)

\* A claim somebody saw is there.
ClaimStays(r) == \A v \in Versions(r) : v # Absent => r.live # Absent

CacheInv ==
    /\ LinkedInv
    /\ \A a \in Authelias : /\ Linked(au[a]) /\ ClaimStays(pvc[a])
                            /\ \A k \in Kinds : Linked(own[a][k])
    /\ \A i \in Ingresses : Linked(ing[i])

\* A write of what is already there leaves everything as it is, any other write
\* leaves the cache behind.
LEMMA PutLinked ==
    ASSUME NEW S, NEW r \in Rep(S), NEW v \in S, Linked(r)
    PROVE  /\ Linked(Put(r, v)) /\ Put(r, v).live = v
           /\ Put(r, v) = r \/ Lagging(Put(r, v))
  BY WriteLinked DEF Put

\* What a step writes is of the object's type.
LEMMA WrittenType ==
    ASSUME NEW S, NEW r, NEW v, Put(r, v) \in Rep(S) \/ Write(r, v) \in Rep(S)
    PROVE  v \in S
  BY DEF Put, Write, Rep

\* A step leaves an owned object alone, delivers, lists, or writes one that may
\* differ.
LEMMA OwnPuts ==
    ASSUME HeliopTypeOK, HeliopTypeOK', NEW a \in Authelias, NEW k \in Kinds,
           OwnWritten(a, k)
    PROVE  \E v \in OwnedObj(k) : own'[a][k] = Put(own[a][k], v) \/ own'[a][k] = Write(own[a][k], v)
  <1>1. own'[a][k] \in Rep(OwnedObj(k))
    BY DEF HeliopTypeOK
  <1>2. PICK v : own'[a][k] = Put(own[a][k], v) \/ own'[a][k] = Write(own[a][k], v)
    BY DEF OwnWritten
  <1>3. v \in OwnedObj(k)
    BY <1>1, <1>2, WrittenType
  <1> QED
    BY <1>2, <1>3

\* Writes append to the feeds, deliveries consume them, a restart empties them.
LEMMA CacheStep ==
    HeliopTypeOK /\ HeliopTypeOK' /\ CacheInv /\ [HeliopNext]_allVars => CacheInv'
  <1> SUFFICES ASSUME HeliopTypeOK, HeliopTypeOK', CacheInv, [HeliopNext]_allVars
               PROVE  CacheInv'
    OBVIOUS
  <1>1. LinkedInv'
    BY LinkedStep, HeliopStep DEF CacheInv, HeliopTypeOK
  <1>2. ASSUME NEW a \in Authelias PROVE Linked(au'[a])
    <2>1. au[a] \in Rep(AObj) /\ Linked(au[a])
      BY ObjectTypes DEF CacheInv
    <2> QED
      BY <2>1, AuMoves, WriteLinked, ObserveLinked, RelistLinked DEF AuWritten
  <1>3. ASSUME NEW a \in Authelias PROVE ClaimStays(pvc'[a])
    <2>1. pvc[a] \in Rep(Claim) /\ "claim" \in Claim /\ ClaimStays(pvc[a])
      BY ObjectTypes DEF CacheInv, Claim
    <2>2. CASE pvc'[a] = Write(pvc[a], "claim")
      BY <2>1, <2>2, WriteLinked, HeliopAbsentAssumption DEF ClaimStays
    <2>3. CASE Lagging(pvc[a]) /\ pvc'[a] = Observe(pvc[a])
      <3>1. pvc'[a].live = pvc[a].live
        BY <2>3 DEF Observe
      <3> QED
        BY <2>1, <2>3, <3>1, ObserveVersions DEF ClaimStays
    <2>4. CASE pvc'[a] = Relist(pvc[a])
      BY <2>1, <2>4, RelistVersions, RelistLinked DEF ClaimStays
    <2> QED
      BY <2>1, <2>2, <2>3, <2>4, ClaimMoves
  <1>4. ASSUME NEW a \in Authelias, NEW k \in Kinds PROVE Linked(own'[a][k])
    <2>1. own[a][k] \in Rep(OwnedObj(k)) /\ Linked(own[a][k]) /\ OwnMoved(a, k)
      BY ObjectTypes, OwnMoves DEF CacheInv
    <2>2. OwnWritten(a, k) => Linked(own'[a][k])
      BY <2>1, OwnPuts, PutLinked, WriteLinked
    <2> QED
      BY <2>1, <2>2, ObserveLinked, RelistLinked DEF OwnMoved
  <1>5. ASSUME NEW i \in Ingresses PROVE Linked(ing'[i])
    <2>1. ing[i] \in Rep(IObj) /\ Linked(ing[i])
      BY ObjectTypes DEF CacheInv
    <2> QED
      BY <2>1, IngressMoves, WriteLinked, ObserveLinked, RelistLinked
  <1> QED
    BY <1>1, <1>2, <1>3, <1>4, <1>5 DEF CacheInv

\* Nothing was written yet.
LEMMA CacheInit == HeliopInit => CacheInv
  <1>1. Linked(NeverWritten) /\ ClaimStays(NeverWritten)
    BY DEF NeverWritten, Linked, Lagging, ClaimStays, Versions
  <1> QED
    BY <1>1, LinkedInit DEF HeliopInit, CacheInv

-----------------------------------------------------------------------------
(* The core Secrets are a keyring. *)

\* No key of a core Secret that is there is generated again.
LEMMA CoreKept ==
    ASSUME NEW s \in Owned([CoreKeys -> Nat \ {0}]), s # Absent, NEW n
    PROVE  CoreData(s, n) = s.content
  <1>1. s.content \in [CoreKeys -> Nat \ {0}]
    BY DEF Owned
  <1>2. CoreData(s, n) = [k \in CoreKeys |-> s.content[k]]
    BY <1>1 DEF CoreData
  <1> QED
    BY <1>1, <1>2

\* A step of the operator or the cluster leaves a core Secret alone, issues one
\* where there was none, or removes one whose Authelia is gone.
LEMMA CoreStep ==
    ASSUME HeliopTypeOK, CacheInv, [HeliopNext]_allVars, NEW a \in Authelias,
           ~DeleteOwned(a, "core")
    PROVE  LET old == CoreHeld(own[a]["core"].live)
               new == CoreHeld(own'[a]["core"].live)
           IN  \/ new = old \/ old = Absent
               \/ new = Absent /\ old.owner # Uid(au[a].live)
  <1> DEFINE s == own[a]["core"].live
             old == CoreHeld(s)
             new == CoreHeld(own'[a]["core"].live)
  <1> SUFFICES ASSUME s # Absent
               PROVE  new = old \/ (new = Absent /\ old.owner # Uid(au[a].live))
    BY DEF CoreHeld
  <1>k. "core" \in Kinds
    BY DEF Kinds
  <1>t. /\ own[a]["core"] \in Rep(OwnedObj("core")) /\ Linked(own[a]["core"])
        /\ s \in Owned([CoreKeys -> Nat \ {0}]) /\ s.owner \in Nat \ {0}
        /\ old = [owner |-> s.owner, value |-> s.content]
    BY <1>k, ObjectTypes DEF CacheInv, OwnedObj, Content, Owned, CoreHeld
  <1>1. ASSUME AOrphaned(a, "core"), own'[a]["core"] = Write(own[a]["core"], Absent)
        PROVE  new = Absent /\ old.owner # Uid(au[a].live)
    <2>1. own'[a]["core"].live = Absent
      BY <1>1 DEF Write
    <2> QED
      BY <1>1, <1>t, <2>1 DEF AOrphaned, Uid, CoreHeld
  <1>2. ASSUME At(a, "core"), NEW n \in Draw("core"), ~ARefused(a, "core", n),
               Sends(a, "core", n),
               own'[a]["core"] = Put(own[a]["core"], Desired(a, "core", n))
        PROVE  new = old
    <2>1. own[a]["core"].seen = s
      BY <1>2, <1>t DEF ARefused, Accepts, Linked
    <2>2. aworker.obj.uid = s.owner
      BY <1>2, <1>t, <2>1 DEF ARefused, AlreadyOwned
    <2>3. Desired(a, "core", n).content = s.content /\ Desired(a, "core", n).owner = s.owner
      BY <2>1, <2>2, <1>t, CoreKept DEF Desired
    <2>4. Desired(a, "core", n) \in OwnedObj("core") /\ Desired(a, "core", n) # Absent
      BY <1>2, <1>k, DesiredType DEF OwnedObj
    <2>5. own'[a]["core"].live = Desired(a, "core", n)
      BY <1>2, <2>4, <1>t, PutLinked
    <2> QED
      BY <2>3, <2>4, <2>5, <1>t DEF CoreHeld
  <1>3. own'[a]["core"].live = s => new = old
    OBVIOUS
  <1>4. OwnMoved(a, "core")
    BY <1>k, OwnMoves
  <1> HIDE DEF new, old
  <1> QED
    BY <1>t, <1>1, <1>2, <1>3, <1>4, ObserveLinked, RelistLinked DEF OwnMoved, OwnWritten

\* What the user does is counted, and he touches core Secrets only by deleting
\* them; nobody else changes the uid of an Authelia.
LEMMA CoreUserStep ==
    ASSUME HeliopTypeOK, HeliopTypeOK', [HeliopNext]_allVars
    PROVE  \/ /\ aedits' = aedits + 1
              /\ \A a \in Authelias : own'[a]["core"] = own[a]["core"]
           \/ /\ aedits' = aedits + 1 /\ au' = au
              /\ \E b \in Authelias :
                   /\ own[b]["core"].live # Absent /\ own'[b]["core"].live = Absent
                   /\ \A a \in Authelias : a # b => own'[a]["core"] = own[a]["core"]
           \/ /\ aedits' = aedits
              /\ \A a \in Authelias : /\ Uid(au'[a].live) = Uid(au[a].live)
                                      /\ ~DeleteOwned(a, "core")
  <1>t. aedits \in Nat /\ OwnShape(own) /\ \A a \in Authelias : au[a] \in Rep(AObj)
    BY ObjectTypes DEF HeliopTypeOK
  <1>1. ASSUME NEW b \in Authelias, CreateAuthelia(b) \/ EditAuthelia(b) \/ DeleteAuthelia(b)
        PROVE  aedits' = aedits + 1 /\ own' = own
    BY <1>1 DEF CreateAuthelia, EditAuthelia, DeleteAuthelia, AUserDoes
  <1>2. ASSUME NEW i \in Ingresses, WriteIngress(i)
        PROVE  aedits' = aedits + 1 /\ own' = own
    BY <1>2 DEF WriteIngress, AUserDoes
  <1>3. ASSUME NEW b \in Authelias, NEW k \in Kinds, DeleteOwned(b, k)
        PROVE  /\ aedits' = aedits + 1 /\ au' = au
               /\ own' = [own EXCEPT ![b][k] = Write(own[b][k], Absent)]
               /\ own[b][k].live # Absent
    BY <1>3 DEF DeleteOwned, AUserDoes
  <1>4. ASSUME NEW b \in Authelias, DeleteOwned(b, "core")
        PROVE  \E d \in Authelias :
                   /\ own[d]["core"].live # Absent /\ own'[d]["core"].live = Absent
                   /\ \A a \in Authelias : a # d => own'[a]["core"] = own[a]["core"]
    <2>1. own' = [own EXCEPT ![b]["core"] = Write(own[b]["core"], Absent)]
          /\ own[b]["core"].live # Absent
      BY <1>4 DEF DeleteOwned
    <2> QED
      BY <2>1, <1>t DEF OwnShape, Kinds, Write
  <1>5. ASSUME NEW b \in Authelias, NEW k \in Kinds, k # "core", DeleteOwned(b, k)
        PROVE  \A a \in Authelias : own'[a]["core"] = own[a]["core"]
    <2>1. own' = [own EXCEPT ![b][k] = Write(own[b][k], Absent)]
      BY <1>5 DEF DeleteOwned
    <2> QED
      BY <2>1, <1>5, <1>t DEF OwnShape, Kinds
  <1>6. ASSUME aedits' = aedits
        PROVE  \A a \in Authelias : /\ Uid(au'[a].live) = Uid(au[a].live)
                                   /\ ~DeleteOwned(a, "core")
    <2> TAKE a \in Authelias
    <2>1. ~DeleteOwned(a, "core")
      BY <1>6, <1>t DEF DeleteOwned, AUserDoes
    <2>2. AuWritten(a) => Uid(au'[a].live) = Uid(au[a].live)
      BY <1>6, <1>t, WriteLinked DEF AuWritten, Uid
    <2>3. au'[a].live = au[a].live => Uid(au'[a].live) = Uid(au[a].live)
      OBVIOUS
    <2>4. Lagging(au[a]) /\ au'[a] = Observe(au[a]) => au'[a].live = au[a].live
      BY DEF Observe
    <2>5. au'[a] = Relist(au[a]) => au'[a].live = au[a].live
      BY DEF Relist
    <2> QED
      BY <2>1, <2>2, <2>3, <2>4, <2>5, AuMoves
  <1>7. \/ aedits' = aedits \/ \E i \in Ingresses : WriteIngress(i)
        \/ \E b \in Authelias : \/ CreateAuthelia(b) \/ EditAuthelia(b) \/ DeleteAuthelia(b)
                               \/ \E k \in Kinds : DeleteOwned(b, k)
    <2>1. ASSUME NEW b \in Authelias, AReconcile(b) \/ AReconcileError(b) PROVE aedits' = aedits
      BY <2>1 DEF AReconcile, AStart, ACollect, APVC, AStatus, AApply, AApplyRefused,
                  AReconcileError
    <2>2. ASSUME NEW b \in Authelias, ACluster(b) PROVE aedits' = aedits
      BY <2>2 DEF ACluster, DeliverAuthelia, DeliverPVC, PodStart, PodStop, DeliverOwned,
                  ACollectGarbage
    <2>3. ASSUME NEW c \in Clients, ClientSide(c) \/ DeliverClientToBoth(c)
          PROVE  aedits' = aedits
      BY <2>3 DEF ClientSide, DeliverClientToBoth, avars
    <2>4. ASSUME NEW i \in Ingresses, DeliverIngress(i) PROVE aedits' = aedits
      BY <2>4 DEF DeliverIngress
    <2>5. CASE HeliopRestart
      BY <2>5 DEF HeliopRestart
    <2>6. CASE UNCHANGED allVars
      BY <2>6 DEF allVars, avars
    <2> QED
      BY <2>1, <2>2, <2>3, <2>4, <2>5, <2>6 DEF HeliopNext, AUser
  <1> QED
    BY <1>1, <1>2, <1>3, <1>4, <1>5, <1>6, <1>7

\* Every step is a step of the keyring or leaves it alone.
LEMMA CoreKeyringStep ==
    ASSUME HeliopTypeOK, HeliopTypeOK', CacheInv, [HeliopNext]_allVars
    PROVE  [CoreKeyring!KNext]_(CoreKeyring!kvars)
  <1> USE DEF CoreKeyring!KNext, CoreKeyring!Amend, CoreKeyring!Revoke,
              CoreKeyring!Serve, CoreKeyring!Entitled
  <1>1. CASE /\ aedits' = aedits + 1
             /\ \A a \in Authelias : own'[a]["core"] = own[a]["core"]
    BY <1>1
  <1>2. ASSUME aedits' = aedits + 1, au' = au, NEW b \in Authelias,
               own[b]["core"].live # Absent, own'[b]["core"].live = Absent,
               \A a \in Authelias : a # b => own'[a]["core"] = own[a]["core"]
        PROVE  CoreKeyring!KNext
    <2>1. own[b]["core"].live \in Owned([CoreKeys -> Nat \ {0}])
      BY <1>2, ObjectTypes DEF Kinds, OwnedObj, Content
    <2>2. CoreHeld(own'[b]["core"].live) = Absent
      BY <1>2 DEF CoreHeld
    <2>3. CASE CoreHeld(own[b]["core"].live) = Absent
      BY <1>2, <2>2, <2>3
    <2>4. CASE CoreHeld(own[b]["core"].live) # Absent
      BY <1>2, <2>2, <2>4
    <2> QED
      BY <2>3, <2>4
  <1>3. CASE /\ aedits' = aedits
             /\ \A a \in Authelias : /\ Uid(au'[a].live) = Uid(au[a].live)
                                     /\ ~DeleteOwned(a, "core")
    BY <1>3, CoreStep
  <1> QED
    BY <1>1, <1>2, <1>3, CoreUserStep

\* The Authelia controller implements the abstract keyring for its core
\* Secrets: session, storage, HMAC and signing keys are generated once for one
\* incarnation of an Authelia and no reconcile, whatever it read and however
\* often it was refused, interrupted or restarted, changes them or hands them
\* to another incarnation.
THEOREM CoreKeyringImplemented == HeliopSpec => CoreImplementsKeyring
  <1>1. HeliopInit => CoreKeyring!KInit
    <2>1. ASSUME HeliopInit, NEW a \in Authelias
          PROVE  Uid(au[a].live) = 0 /\ CoreHeld(own[a]["core"].live) = Absent
      BY <2>1 DEF HeliopInit, NeverWritten, Uid, CoreHeld, Kinds
    <2> QED
      BY <2>1 DEF HeliopInit, CoreKeyring!KInit
  <1>2. HeliopTypeOK /\ HeliopTypeOK' /\ CacheInv /\ [HeliopNext]_allVars
          => [CoreKeyring!KNext]_(CoreKeyring!kvars)
    BY CoreKeyringStep
  <1> QED
    BY <1>1, <1>2, HeliopTypeCorrect, CacheInit, CacheStep, PTL
       DEF HeliopSpec, CoreImplementsKeyring, CoreKeyring!KSpec
=============================================================================
