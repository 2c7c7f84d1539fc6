-------------------------------- MODULE Heliop --------------------------------
(***************************************************************************)
(* The operator: the Authelia controller composed with the                 *)
(* AutheliaOAuthClient controller of module OAuthClient, in one manager    *)
(* with one informer cache.  The Authelia controller renders a             *)
(* configuration from the Authelia resource, the OAuth clients that target *)
(* it, the digests in their Secrets and the annotated Ingresses, and       *)
(* maintains a core Secret, a ConfigMap, a Service, a PersistentVolume-    *)
(* Claim and a Deployment whose pod template carries the checksum of the   *)
(* configuration.                                                          *)
(*                                                                         *)
(* Every step of this module is a step of OAuthClient or leaves its        *)
(* variables alone.                                                        *)
(*                                                                         *)
(* Data abstraction.  The settings and hostname of an Authelia are one     *)
(* number, its deployment-only fields another, and so are the fields of a  *)
(* client that go into its entry as they are.  A checksum is the           *)
(* configuration it was computed from (SHA-256 is taken to be injective).  *)
(* An Ingress has one rule, a number that stands for its hosts; an order   *)
(* among rules is total (their sort keys are distinct), so a list of rules *)
(* is a set.                                                               *)
(***************************************************************************)
EXTENDS OAuthClient

CONSTANTS
    Authelias,      \* the Authelia resources, as [name, ns] records
    AutheliaSpecs,  \* specs: [settings, image : Nat, existing, vct : BOOLEAN]
    Ingresses,      \* names of Ingresses
    IngressSpecs,   \* [annotated, yields : BOOLEAN, rule : Nat]
    NamespaceOf,    \* NamespaceOf[c]: the namespace of client c
    MaxAEdits,      \* bound on user operations on Authelias and Ingresses
    MaxFailures,    \* bound on failed API calls of both controllers and restarts
    MaxBehind       \* bound on objects the cache is behind on at one time

CoreKeys == {"session", "storage", "hmac", "rsa"}
Kinds    == {"core", "cm", "svc", "deploy"}   \* what an Authelia owns

VARIABLES
    au,       \* au[a]: the Authelia resource a
    ing,      \* ing[i]: the Ingress i
    own,      \* own[a][k]: the object of kind k that a owns
    pvc,      \* pvc[a]: the PersistentVolumeClaim "<a>-data"
    pod,      \* pod[a]: what the running pods of a were started from
    data,     \* data[a]: the storage key the contents of the claim are under
    aqueue,   \* requests waiting for the Authelia controller's worker
    aworker,  \* the Authelia reconcile in progress
    aedits,   \* user operations so far; numbers the uids of Authelias
    afaults   \* failed API calls of the Authelia controller so far

avars == <<au, ing, own, pvc, pod, data, aqueue, aworker, aedits, afaults>>
allVars == <<vars, avars>>

\* resourceVersions of Authelias wrap around, with more values than versions
\* can pass while a copy of the object is in use: MaxLag of them undelivered
\* when it is read from the cache, MaxAEdits written afterwards.
NextRV(n) == (n + 1) % (MaxLag + MaxAEdits + 1)

\* The resource after a status write and after an edit of its spec.
WithStatus(obj, status) ==
    [uid |-> obj.uid, rv |-> NextRV(obj.rv), spec |-> obj.spec, status |-> status]
WithSpec(obj, s) ==
    [uid |-> obj.uid, rv |-> NextRV(obj.rv), spec |-> s, status |-> obj.status]

EmptyStatus == [ready |-> FALSE, ids |-> <<>>, rules |-> {}]
NoPod == [on |-> FALSE]

Settings == {s.settings : s \in AutheliaSpecs}
Copied   == {s.copied : s \in ClientSpecs}
Entry    == [id : Nat \ {0}, public : BOOLEAN, digest : Digest, copied : Copied]
Config   == [settings : Settings, clients : Seq(Entry),
             rules : SUBSET (Ingresses \X Nat)]
TemplateObj == [checksum : Config, oidc : BOOLEAN, image : Nat,
                existing : BOOLEAN, vct : BOOLEAN]
Status   == [ready : BOOLEAN, ids : Seq(Nat \ {0}), rules : SUBSET (Ingresses \X Nat)]
AutheliaObj == [uid : Nat \ {0}, rv : Nat, spec : AutheliaSpecs, status : Status]

Owned(S)   == [owner : Nat \ {0}, content : S, ready : BOOLEAN]
Content(k) == CASE k = "core"   -> [CoreKeys -> Nat \ {0}]
                [] k = "cm"     -> Config
                [] k = "svc"    -> {"http"}
                [] k = "deploy" -> TemplateObj

Collecting(w) ==
    /\ w.at = "collect" /\ w.a \in Authelias /\ w.obj \in AutheliaObj
    /\ DOMAIN w.specs \subseteq Clients
    /\ \A c \in DOMAIN w.specs : w.specs[c] \in ClientSpecs
Applying(w) ==
    w \in [at : Kinds \cup {"pvc", "status"}, a : Authelias, obj : AutheliaObj,
           config : Config, missing : BOOLEAN, ready : BOOLEAN]

OwnedObj(k) == Owned(Content(k)) \cup {Absent}
PodObj == [on : {TRUE}, template : TemplateObj, key : Nat, config : Config]

ASSUME HeliopAssumption ==
    /\ IsFiniteSet(Clients)
    /\ \A s \in AutheliaSpecs : /\ s.image \in Nat
                                /\ s.existing \in BOOLEAN /\ s.vct \in BOOLEAN
    /\ \A g \in IngressSpecs : /\ g.annotated \in BOOLEAN /\ g.yields \in BOOLEAN
                               /\ g.rule \in Nat
    /\ MaxAEdits \in Nat /\ MaxFailures \in Nat
ASSUME HeliopNamesAssumption == \A a \in Authelias : a.name # ""
ASSUME HeliopAbsentAssumption ==
    /\ Absent # "claim" /\ Absent \notin AutheliaObj /\ Absent \notin IngressSpecs
    /\ \A k \in Kinds : Absent \notin Owned(Content(k))

\* The types of the Authelia controller's state: a rendered client always has
\* an ID, an owned object an owner, a core Secret all its keys.
HeliopTypeOK ==
    /\ TypeOK
    /\ au \in [Authelias -> Rep(AutheliaObj \cup {Absent})]
    /\ ing \in [Ingresses -> Rep(IngressSpecs \cup {Absent})]
    /\ pvc \in [Authelias -> Rep({"claim", Absent})]
    /\ own = [a \in Authelias |-> [k \in Kinds |-> own[a][k]]]
    /\ \A a \in Authelias, k \in Kinds : own[a][k] \in Rep(OwnedObj(k))
    /\ pod \in [Authelias -> PodObj \cup {NoPod}]
    /\ data \in [Authelias -> Nat]
    /\ aqueue \subseteq Authelias
    /\ aworker = Idle \/ Collecting(aworker) \/ Applying(aworker)
    /\ aedits \in Nat /\ afaults \in Nat

HeliopInit ==
    /\ Init
    /\ au  = [a \in Authelias |-> NeverWritten]
    /\ ing = [i \in Ingresses |-> NeverWritten]
    /\ own = [a \in Authelias |-> [k \in Kinds |-> NeverWritten]]
    /\ pvc = [a \in Authelias |-> NeverWritten]
    /\ pod = [a \in Authelias |-> NoPod]
    /\ data = [a \in Authelias |-> 0]
    /\ aqueue = {} /\ aworker = Idle
    /\ aedits = 0 /\ afaults = 0

\* The objects whose watch is behind, besides the clients' Secrets: one of these
\* may always be late together with its client or another object.  Bound is the
\* bound on that, and on failures; a step that writes an object waits until it
\* holds.
Behind ==
    {<<"client", c>> : c \in {d \in Clients : Lagging(client[d])}}
    \cup {<<"au", a>> : a \in {b \in Authelias : Lagging(au[b])}}
    \cup {<<"ing", i>> : i \in {j \in Ingresses : Lagging(ing[j])}}
    \cup {<<"pvc", a>> : a \in {b \in Authelias : Lagging(pvc[b])}}
    \cup {<<"own", x>> : x \in {y \in Authelias \X Kinds : Lagging(own[y[1]][y[2]])}}

Bound ==
    /\ faults + afaults <= MaxFailures
    /\ Cardinality(Behind) <= MaxBehind
    /\ \A c \in Clients : Len(client[c].feed) <= MaxLag /\ Len(secret[c].feed) <= MaxLag
    /\ \A i \in Ingresses : Len(ing[i].feed) <= MaxLag
    /\ \A a \in Authelias : /\ Len(au[a].feed) <= MaxLag
                            /\ \A k \in Kinds : Len(own[a][k].feed) <= MaxLag

-----------------------------------------------------------------------------
(* What the reconcile computes. *)

\* The Authelia a client refers to; the namespace defaults to the client's own.
RefTarget(c, spec) ==
    [name |-> spec.ref.name,
     ns   |-> IF spec.ref.ns = "" THEN NamespaceOf[c] ELSE spec.ref.ns]

\* clientTargets
ClientTargets(c, spec, a) == RefTarget(c, spec) = a

\* clientSecretDigest: "" when there is no Secret yet.
DigestIn(s) == IF s = Absent THEN NoDigest ELSE s.digest

\* collectClients, given the specs that target the Authelia and the Secrets:
\* the clients to render, and those still waiting for their digest.
Waiting(specs, secrets) ==
    {c \in DOMAIN specs : ~specs[c].public /\ DigestIn(secrets[c]) = NoDigest}
\* Mutant of ClientEntry: the ID is not defaulted.
EntryWithoutDefault(c, spec, s) ==
    [id |-> spec.id, public |-> spec.public, copied |-> spec.copied,
     digest |-> IF spec.public THEN NoDigest ELSE DigestIn(s)]

\* clientToMap: the resource's name is not in the entry but as a default ID.
ClientEntry(c, spec, s) ==
    [id |-> ClientID(c, spec), public |-> spec.public, copied |-> spec.copied,
     digest |-> IF spec.public THEN NoDigest ELSE DigestIn(s)]
Collected(specs, secrets) ==
    [c \in DOMAIN specs \ Waiting(specs, secrets) |->
        ClientEntry(c, specs[c], secrets[c])]

\* sort.Slice by client ID is not stable and the cache lists in any order:
\* clients that share an ID come out either way around.
SortedByID(entries) ==
    LET S == DOMAIN entries
        orders == {q \in [1..Cardinality(S) -> S] :
                     \A i, j \in DOMAIN q :
                       i < j => q[i] # q[j] /\ entries[q[i]].id <= entries[q[j]].id}
    IN  {[i \in DOMAIN q |-> entries[q[i]]] : q \in orders}

\* collectIngressRules: an annotated Ingress with hosts and a valid policy.
Rules(ingresses) ==
    {<<i, ingresses[i].rule>> : i \in
        {j \in DOMAIN ingresses : /\ ingresses[j] # Absent
                                  /\ ingresses[j].annotated
                                  /\ ingresses[j].yields}}

\* renderConfig
Renderings(spec, specs, secrets, ingresses) ==
    {[settings |-> spec.settings, rules |-> Rules(ingresses), clients |-> q] :
        q \in SortedByID(Collected(specs, secrets))}

\* buildDeployment, as far as the pods depend on it.
Template(spec, config) ==
    [checksum |-> config, oidc |-> config.clients # <<>>, image |-> spec.image,
     existing |-> spec.existing, vct |-> spec.vct]

\* Mutant of CoreData: the storage key is generated on every reconcile.
CoreRegenerates(found, n) ==
    [k \in CoreKeys |-> IF k # "storage" /\ found # Absent /\ found.content[k] # 0
                        THEN found.content[k] ELSE n]

\* generatedCoreSecretData fills the keys that are missing.
CoreData(found, n) ==
    [k \in CoreKeys |-> IF found # Absent /\ found.content[k] # 0
                        THEN found.content[k] ELSE n]

StatusOf(config, ready) ==
    [ready |-> ready, rules |-> config.rules,
     ids |-> [i \in DOMAIN config.clients |-> config.clients[i].id]]

-----------------------------------------------------------------------------
(* The reconcile function. *)

AWorking(a) == aworker # Idle /\ aworker.a = a
At(a, step) == AWorking(a) /\ aworker.at = step
Proceed(step) == aworker' = [aworker EXCEPT !.at = step]

\* Mutant of ARequeue: the error is logged and not returned.
SwallowsError(a) == aworker' = Idle /\ UNCHANGED aqueue

ARequeue(a) == aworker' = Idle /\ aqueue' = aqueue \cup {a}

\* Get the resource and list the clients that target it.
AStart(a) ==
    /\ aworker = Idle /\ a \in aqueue
    /\ aqueue' = aqueue \ {a}
    /\ aworker' =
         IF au[a].seen = Absent THEN Idle
         ELSE LET targeting == {c \in Clients : client[c].seen # Absent
                                  /\ ClientTargets(c, client[c].seen.spec, a)}
              IN  [at |-> "collect", a |-> a, obj |-> au[a].seen,
                   specs |-> [c \in targeting |-> client[c].seen.spec]]
    /\ UNCHANGED <<vars, au, ing, own, pvc, pod, data, aedits, afaults>>

\* Read their digests, list the Ingresses, render.  The core Secret is skipped
\* when the user supplies one.
ACollect(a) ==
    /\ At(a, "collect")
    /\ LET spec == aworker.obj.spec
           secrets == [c \in Clients |-> secret[c].seen]
       IN  \E config \in Renderings(spec, aworker.specs, secrets,
                                    [i \in Ingresses |-> ing[i].seen]) :
             aworker' = [at |-> IF spec.existing THEN "cm" ELSE "core",
                         a |-> a, obj |-> aworker.obj, config |-> config,
                         missing |-> Waiting(aworker.specs, secrets) # {},
                         ready |-> FALSE]
    /\ UNCHANGED <<vars, au, ing, own, pvc, pod, data, aqueue, aedits, afaults>>

\* The mutate functions passed to CreateOrUpdate; n is fresh entropy.
Desired(a, k, n) ==
    LET found == own[a][k].seen
    IN  [owner   |-> aworker.obj.uid,
         content |-> CASE k = "core"   -> CoreData(found, n)
                       [] k = "cm"     -> aworker.config
                       [] k = "svc"    -> "http"
                       [] k = "deploy" -> Template(aworker.obj.spec, aworker.config),
         ready   |-> found # Absent /\ found.ready]

\* CreateOrUpdate sends nothing when the mutated copy equals the cached one.
\* The Deployment's never does: the desired spec lacks the server's defaults.
Sends(a, k, n) == k = "deploy" \/ Desired(a, k, n) # own[a][k].seen
ARefused(a, k, n) ==
    \/ AlreadyOwned(own[a][k].seen, aworker.obj)
    \/ Sends(a, k, n) /\ ~Accepts(own[a][k])

Draw(k) == IF k = "core" THEN Draws ELSE {0}

After(k) == CASE k = "core"   -> "cm"
              [] k = "cm"     -> "svc"
              [] k = "svc"    -> IF aworker.obj.spec.vct THEN "pvc" ELSE "deploy"
              [] k = "deploy" -> "status"

\* reconcileCoreSecret, reconcileConfigMap, reconcileService and
\* reconcileDeployment: the write succeeds or there is nothing to write.  The
\* Deployment that comes back tells how many replicas are ready.
AApply(a, k) ==
    /\ At(a, k)
    /\ \E n \in Draw(k) :
         /\ ~ARefused(a, k, n)
         /\ own' = [own EXCEPT ![a][k] =
                      IF Sends(a, k, n) THEN Put(@, Desired(a, k, n)) ELSE @]
         /\ aworker' = [aworker EXCEPT !.at = After(k),
                                       !.ready = Desired(a, k, n).ready]
    /\ UNCHANGED <<vars, au, ing, pvc, pod, data, aqueue, aedits, afaults>>
    /\ Bound'

\* The write is refused.
AApplyRefused(a, k) ==
    /\ At(a, k)
    /\ \E n \in Draw(k) : ARefused(a, k, n)
    /\ ARequeue(a)
    /\ UNCHANGED <<vars, au, ing, own, pvc, pod, data, aedits, afaults>>

\* reconcileDataPVC creates the claim when the cache has none; it has no owner
\* and is never updated.  Nobody deletes it: a deletion would wake no one.
APVC(a) ==
    /\ At(a, "pvc")
    /\ IF pvc[a].seen = Absent /\ pvc[a].live # Absent
       THEN ARequeue(a) /\ UNCHANGED pvc
       ELSE /\ pvc' = [pvc EXCEPT ![a] =
                         IF @.seen = Absent THEN Write(@, "claim") ELSE @]
            /\ Proceed("deploy") /\ UNCHANGED aqueue
    /\ UNCHANGED <<vars, au, ing, own, pod, data, aedits, afaults>>
    /\ Bound'

\* Mutant of AStatus: no RequeueAfter while a digest is missing.
AStatusForgetsMissing(a) ==
    /\ At(a, "status")
    /\ LET status == StatusOf(aworker.config, aworker.ready)
           obj == aworker.obj
       IN  IF au[a].live # Absent /\ au[a].live = obj
           THEN /\ au' = [au EXCEPT ![a] =
                            IF obj.status = status THEN @
                            ELSE Write(@, WithStatus(obj, status))]
                /\ aworker' = Idle
                /\ UNCHANGED aqueue
           ELSE ARequeue(a) /\ UNCHANGED au
    /\ UNCHANGED <<vars, ing, own, pvc, pod, data, aedits, afaults>>
    /\ Bound'

\* updateStatus, accepted for the version the reconcile started from.  With
\* clients still waiting for a digest the request comes back after a delay.
AStatus(a) ==
    /\ At(a, "status")
    /\ LET status == StatusOf(aworker.config, aworker.ready)
           obj == aworker.obj
       IN  IF au[a].live # Absent /\ au[a].live = obj
           THEN /\ au' = [au EXCEPT ![a] =
                            IF obj.status = status THEN @
                            ELSE Write(@, WithStatus(obj, status))]
                /\ aworker' = Idle
                /\ aqueue' = IF aworker.missing THEN aqueue \cup {a} ELSE aqueue
           ELSE ARequeue(a) /\ UNCHANGED au
    /\ UNCHANGED <<vars, ing, own, pvc, pod, data, aedits, afaults>>
    /\ Bound'

AReconcileError(a) ==
    /\ afaults' = afaults + 1
    /\ AWorking(a)
    /\ ARequeue(a)
    /\ UNCHANGED <<vars, au, ing, own, pvc, pod, data, aedits>>
    /\ Bound'

-----------------------------------------------------------------------------
(* Watches. *)

\* For(Authelia)
DeliverAuthelia(a) ==
    /\ Lagging(au[a])
    /\ au' = [au EXCEPT ![a] = Observe(@)]
    /\ aqueue' = aqueue \cup {a}
    /\ UNCHANGED <<vars, ing, own, pvc, pod, data, aworker, aedits, afaults>>

\* Mutant of DeliverOwned: Owns(ConfigMap) is missing.
UnwatchedConfigMap(a, k) ==
    /\ Lagging(own[a][k])
    /\ own' = [own EXCEPT ![a][k] = Observe(@)]
    /\ aqueue' = IF k = "cm" THEN aqueue ELSE aqueue \cup {a}
    /\ UNCHANGED <<vars, au, ing, pvc, pod, data, aworker, aedits, afaults>>

\* Owns(Deployment), Owns(Service), Owns(ConfigMap), Owns(Secret)
DeliverOwned(a, k) ==
    /\ Lagging(own[a][k])
    /\ own' = [own EXCEPT ![a][k] = Observe(@)]
    /\ aqueue' = aqueue \cup {a}
    /\ UNCHANGED <<vars, au, ing, pvc, pod, data, aworker, aedits, afaults>>

\* The cache follows the claims it reads, but no handler listens.
DeliverPVC(a) ==
    /\ Lagging(pvc[a])
    /\ pvc' = [pvc EXCEPT ![a] = Observe(@)]
    /\ UNCHANGED <<vars, au, ing, own, pod, data, aqueue, aworker, aedits, afaults>>

\* mapClientToAuthelia, applied to the old and the new version of a client.
MapClient(c, obj) ==
    IF obj = Absent \/ obj.spec.ref.name = "" THEN {}
    ELSE {a \in Authelias : RefTarget(c, obj.spec) = a}

\* Mutant of DeliverClientToBoth: only the new version is mapped.
MapsNewClientOnly(c) ==
    /\ DeliverClient(c)
    /\ aqueue' = aqueue \cup MapClient(c, client'[c].seen)
    /\ UNCHANGED <<au, ing, own, pvc, pod, data, aworker, aedits, afaults>>

\* One event about a client reaches both controllers.
DeliverClientToBoth(c) ==
    /\ DeliverClient(c)
    /\ aqueue' = aqueue \cup MapClient(c, client[c].seen)
                        \cup MapClient(c, client'[c].seen)
    /\ UNCHANGED <<au, ing, own, pvc, pod, data, aworker, aedits, afaults>>

\* mapIngressToAuthelia enqueues every Authelia in the cache, if the old or the
\* new version of the Ingress has rule annotations.
MapIngress(obj) ==
    IF obj = Absent THEN {}
    ELSE {a \in Authelias : obj.annotated /\ au[a].seen # Absent}

\* Mutant of DeliverIngress: only the new version is mapped.
MapsNewIngressOnly(i) ==
    /\ Lagging(ing[i])
    /\ ing' = [ing EXCEPT ![i] = Observe(@)]
    /\ aqueue' = aqueue \cup MapIngress(ing'[i].seen)
    /\ UNCHANGED <<vars, au, own, pvc, pod, data, aworker, aedits, afaults>>

DeliverIngress(i) ==
    /\ Lagging(ing[i])
    /\ ing' = [ing EXCEPT ![i] = Observe(@)]
    /\ aqueue' = aqueue \cup MapIngress(ing[i].seen) \cup MapIngress(ing'[i].seen)
    /\ UNCHANGED <<vars, au, own, pvc, pod, data, aworker, aedits, afaults>>

-----------------------------------------------------------------------------
(* The cluster. *)

\* An object whose controlling Authelia is gone.  The claim has no controller.
AOrphaned(a, k) ==
    /\ own[a][k].live # Absent
    /\ ~(au[a].live # Absent /\ au[a].live.uid = own[a][k].live.owner)

ACollectGarbage(a, k) ==
    /\ AOrphaned(a, k)
    /\ own' = [own EXCEPT ![a][k] = Write(@, Absent)]
    /\ UNCHANGED <<vars, au, ing, pvc, pod, data, aqueue, aworker, aedits, afaults>>
    /\ Bound'

\* The pods are replaced when the Deployment's template changes.  A pod reads
\* the ConfigMap (mounted by subPath, so once) and the storage key when it
\* starts; the first pod on a claim encrypts its contents under that key.  A
\* user-supplied Secret holds the same key, 9, for ever.
StorageKey(a) == IF own[a]["deploy"].live.content.existing THEN 9
                 ELSE own[a]["core"].live.content["storage"]

PodDue(a) ==
    /\ own[a]["deploy"].live # Absent /\ own[a]["cm"].live # Absent
    /\ own[a]["deploy"].live.content.existing \/ own[a]["core"].live # Absent
    /\ own[a]["deploy"].live.content.vct => pvc[a].live # Absent
    /\ pod[a].on => pod[a].template # own[a]["deploy"].live.content

PodStart(a) ==
    /\ PodDue(a)
    /\ LET template == own[a]["deploy"].live.content
       IN  /\ pod' = [pod EXCEPT ![a] =
                        [on |-> TRUE, template |-> template, key |-> StorageKey(a),
                         config |-> own[a]["cm"].live.content]]
           /\ data' = [data EXCEPT ![a] = IF template.vct /\ @ = 0
                                          THEN StorageKey(a) ELSE @]
    /\ own' = [own EXCEPT ![a]["deploy"] = Put(@, [@.live EXCEPT !.ready = TRUE])]
    /\ UNCHANGED <<vars, au, ing, pvc, aqueue, aworker, aedits, afaults>>
    /\ Bound'

\* The pods of a Deployment that is gone.
PodStop(a) ==
    /\ pod[a].on /\ own[a]["deploy"].live = Absent
    /\ pod' = [pod EXCEPT ![a] = NoPod]
    /\ UNCHANGED <<vars, au, ing, own, pvc, data, aqueue, aworker, aedits, afaults>>

-----------------------------------------------------------------------------
(* The user. *)

AUserDoes(op) == op \in UserOps /\ aedits < MaxAEdits /\ aedits' = aedits + 1

CreateAuthelia(a) ==
    /\ AUserDoes("createAuthelia")
    /\ au[a].live = Absent
    /\ \E s \in AutheliaSpecs :
         au' = [au EXCEPT ![a] = Write(@, [uid |-> aedits + 1, rv |-> 0, spec |-> s,
                                           status |-> EmptyStatus])]
    /\ UNCHANGED <<vars, ing, own, pvc, pod, data, aqueue, aworker, afaults>>
    /\ Bound'

EditAuthelia(a) ==
    /\ AUserDoes("editAuthelia")
    /\ au[a].live # Absent
    /\ \E s \in AutheliaSpecs \ {au[a].live.spec} :
         au' = [au EXCEPT ![a] = Write(@, WithSpec(@.live, s))]
    /\ UNCHANGED <<vars, ing, own, pvc, pod, data, aqueue, aworker, afaults>>
    /\ Bound'

DeleteAuthelia(a) ==
    /\ AUserDoes("deleteAuthelia")
    /\ au[a].live # Absent
    /\ au' = [au EXCEPT ![a] = Write(@, Absent)]
    /\ UNCHANGED <<vars, ing, own, pvc, pod, data, aqueue, aworker, afaults>>
    /\ Bound'

DeleteOwned(a, k) ==
    /\ AUserDoes("deleteOwned")
    /\ own[a][k].live # Absent
    /\ own' = [own EXCEPT ![a][k] = Write(@, Absent)]
    /\ UNCHANGED <<vars, au, ing, pvc, pod, data, aqueue, aworker, afaults>>
    /\ Bound'

\* Create, edit or delete an Ingress.
WriteIngress(i) ==
    /\ AUserDoes("ingress")
    /\ \E g \in (IngressSpecs \cup {Absent}) \ {ing[i].live} :
         ing' = [ing EXCEPT ![i] = Write(@, g)]
    /\ UNCHANGED <<vars, au, own, pvc, pod, data, aqueue, aworker, afaults>>
    /\ Bound'

-----------------------------------------------------------------------------
\* The manager restarts: both controllers start from fresh lists.
HeliopRestart ==
    /\ Restart
    /\ au'  = [a \in Authelias |-> Relist(au[a])]
    /\ ing' = [i \in Ingresses |-> Relist(ing[i])]
    /\ own' = [a \in Authelias |-> [k \in Kinds |-> Relist(own[a][k])]]
    /\ pvc' = [a \in Authelias |-> Relist(pvc[a])]
    /\ aqueue' = {a \in Authelias :
                     \/ au[a].live # Absent
                     \/ \E k \in Kinds : own[a][k].live # Absent
                     \/ \E c \in Clients : a \in MapClient(c, client[c].live)}
    /\ aworker' = Idle
    /\ UNCHANGED <<pod, data, aedits, afaults>>
    /\ Bound'

AReconcile(a) ==
    \/ AStart(a) \/ ACollect(a) \/ APVC(a) \/ AStatus(a)
    \/ \E k \in Kinds : AApply(a, k) \/ AApplyRefused(a, k)

ACluster(a) ==
    \/ DeliverAuthelia(a) \/ DeliverPVC(a) \/ PodStart(a) \/ PodStop(a)
    \/ \E k \in Kinds : DeliverOwned(a, k) \/ ACollectGarbage(a, k)

AUser(a) ==
    \/ CreateAuthelia(a) \/ EditAuthelia(a) \/ DeleteAuthelia(a)
    \/ \E k \in Kinds : DeleteOwned(a, k)

ClientSide(c) ==
    /\ Reconcile(c) \/ DeliverSecret(c) \/ GarbageCollect(c) \/ User(c)
         \/ ReconcileError(c)
    /\ UNCHANGED avars
    /\ Bound'

HeliopNext ==
    \/ \E c \in Clients : ClientSide(c) \/ DeliverClientToBoth(c)
    \/ \E a \in Authelias : AReconcile(a) \/ ACluster(a) \/ AUser(a)
                              \/ AReconcileError(a)
    \/ \E i \in Ingresses : DeliverIngress(i) \/ WriteIngress(i)
    \/ HeliopRestart

HeliopSpec == HeliopInit /\ [][HeliopNext]_allVars

\* The workers, the informers, the garbage collector and the kubelets keep
\* running.  The user and the failures are under no obligation.
HeliopFairness ==
    /\ \A c \in Clients :
         /\ WF_allVars(Reconcile(c) /\ ClientSide(c))
         /\ WF_allVars(DeliverSecret(c) /\ ClientSide(c))
         /\ WF_allVars(GarbageCollect(c) /\ ClientSide(c))
         /\ WF_allVars(DeliverClientToBoth(c))
    /\ \A a \in Authelias :
         /\ WF_allVars(AReconcile(a))
         /\ WF_allVars(DeliverAuthelia(a)) /\ WF_allVars(DeliverPVC(a))
         /\ WF_allVars(PodStart(a)) /\ WF_allVars(PodStop(a))
         /\ \A k \in Kinds : /\ WF_allVars(DeliverOwned(a, k))
                             /\ WF_allVars(ACollectGarbage(a, k))
    /\ \A i \in Ingresses : WF_allVars(DeliverIngress(i))

HeliopFairSpec == HeliopSpec /\ HeliopFairness

-----------------------------------------------------------------------------
(* Properties. *)

LiveSpecs(a) ==
    [c \in {d \in Clients : client[d].live # Absent
                /\ ClientTargets(d, client[d].live.spec, a)} |-> client[c].live.spec]
LiveSecrets == [c \in Clients |-> secret[c].live]
LiveIngresses == [i \in Ingresses |-> ing[i].live]
LiveRenderings(a) ==
    Renderings(au[a].live.spec, LiveSpecs(a), LiveSecrets, LiveIngresses)

\* The objects of a are what its resource asks, with these clients, Secrets and
\* Ingresses.
DeployedFrom(a, specs, secrets, ingresses) ==
    LET obj == au[a].live
        o(k) == own[a][k].live
    IN  IF obj = Absent THEN \A k \in Kinds : o(k) = Absent
        ELSE /\ \A k \in Kinds \ {"core"} : o(k) # Absent
             /\ o("cm").content \in Renderings(obj.spec, specs, secrets, ingresses)
             /\ o("deploy").content = Template(obj.spec, o("cm").content)
             /\ obj.spec.existing \/ o("core") # Absent
             /\ obj.spec.vct => pvc[a].live # Absent
             /\ obj.status = StatusOf(o("cm").content, o("deploy").ready)

Deployed(a) == DeployedFrom(a, LiveSpecs(a), LiveSecrets, LiveIngresses)

\* Nothing that concerns a is outstanding, in either controller.
Quiet(a) ==
    /\ a \notin aqueue /\ ~AWorking(a)
    /\ ~Lagging(au[a])
    /\ \A k \in Kinds : ~Lagging(own[a][k]) /\ ~AOrphaned(a, k)
    /\ \A i \in Ingresses : ~Lagging(ing[i])
    /\ \A c \in Clients : ~Pending(c)

\* When nothing is outstanding for an Authelia, its ConfigMap is the rendering
\* of what is at the API server now, its Deployment carries the checksum of
\* that ConfigMap, and its status lists what was rendered.
NoStaleConfig == \A a \in Authelias : Quiet(a) => Deployed(a)

\* The pods that run when nothing is outstanding run the configuration in the
\* ConfigMap.
PodsCurrent ==
    \A a \in Authelias :
        Quiet(a) /\ ~PodDue(a) /\ pod[a].on /\ own[a]["cm"].live # Absent
            => pod[a].config = own[a]["cm"].live.content

\* "Sort by client ID so output is deterministic regardless of list order": the
\* ConfigMap never changes from one rendering of what is at the API server to
\* another.
StableConfig ==
    [][\A a \in Authelias :
          LET old == own[a]["cm"].live
              new == own'[a]["cm"].live
          IN  /\ au[a].live # Absent /\ old # Absent /\ new # Absent
              /\ old.content \in LiveRenderings(a)
              /\ new.content \in LiveRenderings(a)
              => new.content = old.content]_allVars

\* The credential in a core Secret, with the incarnation it belongs to.
CoreHeld(s) == IF s = Absent THEN Absent ELSE [owner |-> s.owner, value |-> s.content]

\* The core Secrets, seen as credentials of the Authelias.
CoreKeyring == INSTANCE Keyring WITH
    Names  <- Authelias,
    holder <- [a \in Authelias |-> Uid(au[a].live)],
    wants  <- [a \in Authelias |-> TRUE],
    held   <- [a \in Authelias |-> CoreHeld(own[a]["core"].live)],
    asked  <- aedits

\* The core secrets are generated once and preserved: no step changes a value
\* of a core Secret or hands the Secret to another incarnation of its Authelia,
\* and while the Authelia lives only the user's deletion removes it, whichever
\* reconcile, from whichever version of the resource and of the Secret, is
\* under way.
CoreImplementsKeyring == CoreKeyring!KSpec

\* The pods can read the data on the claim.
DataReadable ==
    \A a \in Authelias :
        pod[a].on /\ pod[a].template.vct => pod[a].key = data[a]

\* Once the user and the failures stop, every Authelia is deployed as asked.
HeliopConverges == <>[](\A a \in Authelias : Deployed(a))
=============================================================================
