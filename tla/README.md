# A TLA+ development of heliop

heliop is a Kubernetes operator for [Authelia](https://www.authelia.com).  Two
controllers in one manager turn three kinds of input, `Authelia` resources,
`AutheliaOAuthClient` resources and annotated `Ingress` objects, into a running
Authelia.  This directory models the operator in TLA+, checks it with TLC and
proves the central results with TLAPS.

## 1. The system

| part | source | state | operations |
|---|---|---|---|
| AutheliaOAuthClient controller | `internal/controller/autheliaoauthclient_controller.go` | per client a Secret `<name>-oauth-secret` (client_id, client_secret, client_secret_digest), `status.secretName`; a work queue | `Reconcile`: Get, CreateOrUpdate of the Secret, Status().Update |
| Authelia controller | `authelia_controller.go` | per Authelia a core Secret, ConfigMap, Service, PVC, Deployment, status; a work queue | `Reconcile`: Get, List clients, Get each digest, List Ingresses, render, five writes, Status().Update; two map functions for watches |
| secrets | `secrets.go` | none | generate-if-missing of core keys, PBKDF2 digest |
| Ingress rules | `ingress.go` | none | annotations to access_control rules, their order |
| rendering | `render.go` | none | additionalConfig + session + clients + rules to YAML, checksum |
| resource builders | `resources.go` | none | ConfigMap, Service, PVC, Deployment |
| manager | `cmd/main.go` | informer cache, queues (in memory) | start; everything is rebuilt on a restart |
| API server, garbage collector, Deployment controller, kubelet, the user | not in the repository | the objects | modelled from how the operator uses them |

The controllers never call each other.  They meet in the API objects: the
client controller writes a digest into a Secret, the Authelia controller reads
it there.  Both read from the informer cache, which lags behind the API
server; both write to the API server, which refuses a write computed from an
old version.  Each has one worker, so reconciles of one controller do not
overlap, but those of the two controllers, the user's edits, watch deliveries,
garbage collection and pod starts interleave with every API call.

What is hard here: stale reads (a decision made from a cached Secret that is
already gone or replaced), a reconcile half done when a call fails or the
manager restarts, lost wake-ups (a change no watch maps to the right request),
the order of ConfigMap and Deployment writes against pod starts, incarnations
(the same name deleted and created again), and output that depends on the order
of a list.  `PROJECT.json` lists these as hazards, at the lines where they bite.

What makes each part correct:

* client controller: secret and digest belong together; both are generated once
  and never rotated; whatever happens, an unfinished client is reconciled again;
* Authelia controller: when everything has come to rest the ConfigMap is the
  rendering of what is stored, the Deployment carries its checksum, the status
  tells it; a living Authelia's core secrets never change; the operator gets
  there;
* rendering and pod template: what the user wrote into additionalConfig is
  there, except where something documented is layered on it; every file the
  configuration or the environment names is there and shows the right Secret;
* Ingress rules: independent of list order, none lost to another's mistake, the
  most specific match first.

## 2. The modules

    Kube                    one API object: live, cached, undelivered events
      OAuthClient           the client controller, user, collector, failures;
                            implements Keyring
        MCOAuthClient       instances for TLC
        Heliop              + the Authelia controller: the whole operator;
                            its core Secrets implement Keyring
          MCHeliop          instances for TLC
    Keyring                 abstract: credentials issued once, to one incarnation
    Rendering               additionalConfig and what is layered on it
      Pod                   ConfigMap and pod template of one Authelia, in detail
        MCPod               instance for TLC
    AccessRules             Ingress annotations to ordered rules
      MCAccessRules         instances for TLC
    KubeProofs              lemmas about Kube's operators
      OAuthClientProofs     theorems about OAuthClient
        HeliopProofs        Heliop implements OAuthClient
          AutheliaProofs    types and core Secrets of Heliop
            FreshnessProofs the configuration follows what is stored
    DataProofs              lemmas about finite sets, sequences and orders
      PodProofs             theorems about Pod and Rendering
      AccessRulesProofs     theorems about AccessRules

**Kube** (external).  An object is a record `live`, `seen`, `feed`: the API
server's version, the cache's, and the versions written since, which are the
watch events still to be delivered.  `Accepts` is optimistic concurrency: a
Create succeeds if the name is free, an Update if the cached version is the
current one.  A watch that resumes skips nothing; a fresh list happens only at a
restart.

**OAuthClient.**  `client`, `secret` are the resources and their Secrets;
`queue` and `worker` are the controller's.  `ReconcileStart` is the Get,
`ReconcileSecret`/`ReconcileSecretRefused` are CreateOrUpdate succeeding or
failing, `ReconcileStatus` is the status write.  `MutateSecret` is the function
given to CreateOrUpdate.  CreateOrUpdate's read and write are one step: the read
is from the cache, and a write that happens later than its read is a write
against a cache whose deliveries come later, which the model allows anyway.
An error requeues the request; the delay of the requeue is left to the
interleaving.  `ReconcileError` covers a call that fails before it takes effect
and, taken at the following step, one whose answer was lost.
`SetControllerReference` compares uids (`AlreadyOwned`), so a new incarnation
cannot take over its predecessor's Secret.

**Heliop** extends OAuthClient with the Authelia controller.  `own[a][k]` are
the four kinds of objects an Authelia owns, `pvc[a]` its claim (no owner, never
collected), `pod[a]` what the pods were started from, `data[a]` the storage key
the claim's contents are encrypted with.  A reconcile is `AStart` (Get and List
of clients), `ACollect` (digests, Ingresses, rendering), then `AApply` for core
Secret, ConfigMap, Service, `APVC`, `AApply` for the Deployment, and `AStatus`.
The list of clients and the digests are read in two steps because deliveries
come between them.  `DeliverClientToBoth` and `DeliverIngress` map the old and the
new version of an object, as `EnqueueRequestsFromMapFunc` does.  RequeueAfter
puts the request back into the queue.  An update of the Deployment is always
sent (the desired spec lacks the server's defaults, so it never equals the
cached one), and the server drops it when nothing changes.  A status update is
sent always; it is refused for any version but the one the reconcile read.

Abstractions: strings are numbers in string order; settings and hostname are one
number, the deployment-only fields another; a checksum is what it was computed
from; a digest records its secret and salt; random draws come from `Draws` and
may coincide.  All fields of a client that `clientToMap` copies as they are (name,
redirect URIs, scopes, policy and so on) are one number, `copied`; a rendered client
carries its ID, its digest and these, and no resource name, so two clients that agree
in them render alike.  An Ingress has one rule, a number that stands for the hosts the
status reports.  resourceVersions of Authelias wrap around at a size no copy in
use can outlive (`NextRV`).

**AccessRules** has the generation of rules as operators, and one action:
`Collect`, a reconcile that lists the Ingresses in an order of its own.  The
domains of an Ingress are a set: they are sorted, so the first of the list, which
the key of a rule takes, is the least.  That key is one concatenated string in the
code; here it is a tuple, compared by the constant `KeyOrder`, any strict total
order, since string order differs from that of tuples when one domain is a prefix
of another.  `Ascending` is `sort.Strings`;
`SortAccessRules` is a stable sort given by the place each rule goes to.

**Keyring** is the abstract specification of what the operator promises about
the secrets it generates, with no cache, queue, retry or restart in it.  `held[n]`
is the credential of a name with the incarnation it was issued to.  A step of the
operator or the cluster may issue one where there is none and remove one nobody
is entitled to (`Serve`); the user may do what he likes with the resources
(`Amend`) and take a credential away (`Revoke`).  No step changes a value or an
owner in place.  OAuthClient maps the pair (client_secret, digest) of a live
Secret to `held`, the uid of the live resource to `holder`, "no version in use is
public" to `wants` and `edits` to `asked` (`ClientKeyring`); Heliop does the same
for the core Secrets, which are always wanted (`CoreKeyring`).

**Rendering** is `renderConfig` on a tree given as a function from paths to
leaves.  `Assign` is a chain of `childMap` calls and the assignment at its end: it
drops a leaf that stood on the way and whatever stood at the path.  Each `Apply...`
operator is one block or helper of the function, in the code's order.  An empty
object is a leaf of its own (`EmptyObject`): it has no keys, but it is present, and
`applySession` tests for presence.

**Pod** has what one reconcile of an Authelia puts into the ConfigMap and the pod
template.  Its inputs (settings, hostname, Secret, claim, clients, rules) change
one at a time (`Change`); a reconcile is `WriteConfigMap`, then `WriteDeployment`,
which leaves the old Deployment in place when the API server finds the new one
invalid.  `cm` and `deploy` carry the inputs they were made from, for the
properties.  `Valid` (distinct labels, distinct mount paths), `VarOf` (the last of
several variables counts) and `FileShows` (mount, volume, Secret) are
Kubernetes'.  Volumes, mounts and the core variables are put in some order
(`SetToSeq`), as nothing depends on it; that the variables of settings.secrets come
after the core ones does matter and is kept.  Caches and retries are left to
Heliop, where settings are one number: what Heliop says of a configuration holds whatever it contains, as
rendering is a function of the inputs modelled there.

## 3. The runs

Passing runs:

| run | instance | properties | what it shows |
|---|---|---|---|
| OAuthClient | 1 client, confidential or public, with or without an ID, 4 user operations (also deleting its Secret, or both entries of it), 2 draws, 1 failure or restart; 241 k states | TypeOK, NoLostWakeup, DigestMatches, NeverRotated, ImplementsKeyring, Converges | secret and digest are paired in every version through regeneration and recreation; the controller never rotates, and hands nothing from one incarnation to the next; nothing unfinished is forgotten; the client settles and the Secret of a deleted one goes |
| Heliop_clients | 1 client that moves between two Authelias, 1 Authelia with a claim, 2 operations on the client, 1 failure in either controller or a restart; 0.47 M states | HeliopTypeOK, NoStaleConfig, HeliopConverges | a retargeted or deleted client leaves no trace; RequeueAfter alone bridges the gap until the digest is there, a retry the one until the claim reaches the cache |
| Heliop_authelia | 1 Authelia, own or supplied core Secret, with or without claim, 1 Ingress with a valid, an invalid or no annotation, 3 user operations; 2.5 M states | NoStaleConfig, CoreImplementsKeyring | deleted objects are restored, core secrets kept, never handed on; the rules follow an annotation added, removed or made invalid |
| AccessRules_order | all pairs of Ingresses with 5 host lists and up to 2 annotations of 4 values; 31 k states | NoRuleLost, MostSpecificFirst, Deterministic | the generated list |
| Pod | 5 configurations, 8 lists of secrets, 3 users files, 4 hostnames, own or generated Secret, claim, rules, clients; 4 changes; 0.79 M states | ConfigKept, CookieCovers, FilesResolve, RefusedOnlyAlike | nothing of the user's configuration is lost; every path leads to its Secret; names that clash are refused, never mixed up, and clash only when they are alike or look like a name of the operator's |

Runs that find the code and its documentation in disagreement:

| run | property | what happens |
|---|---|---|
| OAuthClient_cleared | DigestMatches | the user removes the client_secret entry of a Secret and leaves the digest; the two are filled one by one (`autheliaoauthclient_controller.go:79-92`), so a new secret is stored beside the old digest |
| Heliop_regenerated | NoStaleConfig | a client Secret is deleted and regenerated; the Authelia controller is not told and the old digest stays in the configuration until something else happens (the cache's resync, ten hours by default, is not modelled) |
| Heliop_reverted | PodsCurrent | a pod starts between the ConfigMap and the Deployment write, the settings are reverted, the checksum never changes and the pod keeps the other configuration |
| Heliop_recreated | DataReadable | an Authelia is deleted and created again; its claim was kept, its storage key was not |
| Heliop_duplicates | StableConfig | two clients with one client ID that differ in a copied field are rendered in either order, with nothing else changed |
| AccessRules_mixed | MostSpecificFirst | an Ingress with an exact and a wildcard host is sorted as a wildcard for its exact host too |
| Pod_apex | CookieCovers | `parentDomain` is documented to return a hostname "unchanged when it has no subdomain" (`render.go:189-191`) and makes `example.com` into `com` |

`NoStaleConfig`, `DigestMatches`, `MostSpecificFirst` and `CookieCovers` are the same
formulas in the passing and in the violated runs; what differs is what the user does,
and the theorem about each has that as a named hypothesis.

`NoStaleConfig` fails when the Secret of a client is generated a second time: because
the Secret or its entries were deleted (the run shows this), because the client was
made public and confidential again, or because the client was deleted and created
again.  The last case came to light in the proof of `ConfigFresh`:
`clientSecretDigest` (`authelia_controller.go:159-172`) takes any cached Secret of
the client's name without looking at its owner, so with the Secrets' watch behind
the new client is rendered with its predecessor's digest, and the arrival of its own
Secret wakes nobody.  TLC finds it with Heliop_regenerated's constants, `UserOps =
{"create", "delete", "createAuthelia"}`, `MaxEdits = 3` and `MaxLag = 3` (4.5 M
states); in Heliop_clients two user operations leave no second generation.  The
hypothesis `ClientsStay` of `ConfigFresh` rules out the three cases by name.  It asks
for more than they need: it excludes every deletion of a client, also of one that is
never created again.  The branch of `NoStaleConfig` for a deleted Authelia says
little, as a state with objects left to collect is not quiet.

`DigestMatches` passes while the user removes no client_secret entry alone, deleting the
Secret or both entries instead (`DigestCorrect`).
`MostSpecificFirst` passes when no Ingress mixes exact and wildcard hosts
(`HostsUnmixed`).  `CookieCovers` passes when no hostname is a domain of two
labels (`NoApexHostname`); the run Pod keeps it for the boundary cases that remain, one
label and an empty last one.

`RefusedOnlyAlike` has two disjuncts since the proof showed the first not to be
enough: `secretVolumeName` (`resources.go:64-79`) cuts and trims a name over the
limit, and the variable CONFIG, 58 underscores and FILE becomes `config`, the name
of the operator's own volume (`LooksOwn`).  The Deployment is refused then, as it
is for two alike names.  The comment of secretVolumeName promises nothing about
clashes, so this is no disagreement.

One more disagreement has no run of its own: `authelia_types.go:63-64` still
announces the "removal of any ldap password", which `CHANGELOG.md` 0.8.0 says was
dropped and `ConfigKept` shows does not happen.

**Bounds.**  `MaxEdits`, `MaxAEdits`: user operations; four suffice for create,
edit, delete and recreate of one client (the safety properties are proved without
the bound), three for create, delete and
recreate of an Authelia or for an edit and its reversal.  `MaxFaults`,
`MaxFailures` (of both controllers together): one failure at any point, since a
retry starts from scratch.
`MaxLag`, `MaxBehind` bound how many events of one object and how many objects
the cache is behind on; two of each let a stale read meet a newer write, of the
same or of another object.  The Secrets of clients are not counted among the objects:
the gap that RequeueAfter bridges needs a Secret late beyond the event of its
client's status.  Heliop_authelia allows one event of an object and two objects,
Heliop_clients one of each and the client's Secret, as its liveness property is
costly; the safety properties are proved for all bounds.  `MaxChanges`: four inputs
of Pod, which has eight, differ from the first ones at a time, enough for every operator path to meet a configuration, a refused
Deployment to follow an accepted one and clients to come and go.  `NameLimit`
stands for 63: five characters, where `FILE` or `BACKEND` count as one, so that
names over the limit, at it, with a cut beside a separator and with nothing but
`config` left all occur, while the operator's own volume names stay below it, as
they do in the code.
In Heliop `Bound` delays a write until there is room, which delivery always makes.  Clients, Authelias and Ingresses interact
only through the queue of their worker and through the rendering, so one or two
clients and Ingresses and one Authelia are used; that several Authelias do not
disturb each other is in the theorems, which are for any number.  No symmetry is
declared: names are ordered.

**Deadlock.**  A system in which the user has used up his operations and
everything has settled stops; deadlock checking is off except in AccessRules and
Pod, whose reconcile can always run again.

**Fairness.**  Weak fairness of each controller's steps for each request (a
worker that does not stop and a queue that starves nobody), of watch delivery,
of garbage collection and of pod starts.  The user and the failures have none,
and their number is finite, which is what "once they stop" means.  Weak fairness
is enough: an action of the operator, once enabled, stays enabled until it is
taken or made unnecessary.

## 4. The proofs

| theorem | statement |
|---|---|
| `TypeCorrect` | `Spec => []TypeOK` |
| `DigestCorrect` | `Spec => []DigestMatches`, if the user does not remove client_secret entries alone |
| `CredentialsKept` | `Spec => NeverRotated` |
| `WakeupKept` | `Spec => []NoLostWakeup` |
| `KeyringImplemented` | `Spec => ImplementsKeyring`: the client controller implements Keyring |
| `HeliopImplementsOAuthClient` | `HeliopSpec => Spec`: the whole operator implements the client controller's specification |
| `HeliopKeepsClients` | `HeliopSpec => []NoLostWakeup /\ NeverRotated /\ ImplementsKeyring` |
| `HeliopTypeCorrect` | `HeliopSpec => []HeliopTypeOK` |
| `CoreKeyringImplemented` | `HeliopSpec => CoreImplementsKeyring`: the core Secrets implement Keyring |
| `ConfigFollows` | `HeliopSpec => []FreshUpToDigests` |
| `ConfigFresh` | `HeliopSpec => []NoStaleConfig`, if `ClientsStay` |
| `OrderIrrelevant` | AccessRules: `Spec => Deterministic` |
| `RulesNeverLost` | AccessRules: `Spec => []NoRuleLost` |
| `MostSpecificWins` | AccessRules: `Spec => []MostSpecificFirst`, if `HostsUnmixed` |
| `ConfigAlwaysKept` | Pod: `Spec => []ConfigKept` |
| `CookieAlwaysCovers` | Pod: `Spec => []CookieCovers`, if `NoApexHostname` |
| `FilesAlwaysResolve` | Pod: `Spec => []FilesResolve` |
| `OnlyAlikeRefused` | Pod: `Spec => []RefusedOnlyAlike` |

They hold for all values of the constants and bounds that satisfy the assumptions
named in the modules, which TLC evaluates on every run:

* `OAuthClient` (`ConstantsAssumption`, `AbsentAssumption`): names are positive
  numbers, a spec has a boolean `public` and a number `id`, there is something to
  draw, and `Absent` is not an object;
* `Heliop` (`HeliopAssumption`, `HeliopNamesAssumption`,
  `HeliopAbsentAssumption`): there are finitely many clients, the fields of specs
  have their types, an Authelia has a name, and `Absent` is no object here either;
* `Pod` (`OptionsAssumption`, `InputsAssumption`, `NormalAssumption`):
  additionalConfig is an object with string keys; settings.secrets has one entry
  for a name (`+listMapKey=name`); only the last label of a hostname may be empty,
  after another; `FILE` in lower case is `file`; and the limit has room for the
  operator's own volume names, of at most three parts here;
* `AccessRules` (`HostsAssumption`, `ValuesAssumption`, `NamesAssumption`,
  `KeyOrderAssumption`): there are finitely many Ingress names and annotation keys,
  an annotation has finitely many resource patterns, and `KeyOrder` is a strict total
  order of keys.

### The client controller

*One step, two lemmas.*  `ClientMoves` and `SecretMoves` say all that a step can
do to a resource or a Secret: nothing, deliver, relist, or one of a few writes.
The invariants below are proved from these instead of from the actions.

*LinkedInv*: a history ends in the live object.  So an accepted write was
computed from the live Secret, which is why a stale cache cannot rotate
anything (`CredentialsKept`; a reconcile on behalf of an earlier incarnation is
stopped by the owner's uid).

*DigestInv* strengthens DigestMatches.  DigestMatches alone is not inductive: a
version with no secret but a digest satisfies it, and the next reconcile would
generate a secret beside that digest.  DigestInv adds that a Secret without a
secret has no digest, in every version, since the reconcile computes its write
from a cached one.  This is the part removing the secret alone breaks, and the theorem
assumes it away by name.

*WakeInv* strengthens NoLostWakeup.  It adds what a busy worker knows: the
resource it works for is the current one or an event is on its way, and past
the Secret's write the Secret serves it or there is a request or an event for
it.  Without that, finishing a reconcile could leave nothing behind.

*KeyringImplemented*: initial states map to initial states.  `UidStep` splits the
steps: the user's count an operation and either leave all Secrets alone (`Amend`) or
take one credential (`Revoke`, or `Amend` if there was none); all others keep every
uid, and `CredentialStep` shows they `Serve`.  Its one real case is CreateOrUpdate:
by LinkedInv it was computed from the live Secret, by the owner check for the uid
that owns it, so it keeps the value, or clears it for a version of that same
incarnation that is public, which then did not want it.

*HeliopImplementsOAuthClient*: each action of Heliop is an OAuthClient action or
leaves `vars` unchanged, by the way the actions are composed; the initial states
agree on these variables.  The mapping is the identity.

### The Authelia controller

*HeliopTypeOK* is inductive as it stands.  Its part that says something is that a
rendered client has an ID although the resource may have none.

*CacheInv* is LinkedInv for the Authelia controller's own objects, the claims and
the Ingresses.  As `ClientMoves` does for the clients, `OwnMoves`, `AuMoves`,
`ClaimMoves` and `IngressMoves` say all that a step can do to an object of each
kind, and the later proofs use these.

*CoreKeyringImplemented* follows the argument of KeyringImplemented: by CacheInv an
accepted write of the core Secret was computed from the live one, by the owner check
for the uid that owns it, and `CoreData` keeps every key that is there; the user's
steps are `Amend` or `Revoke`.

*FreshInv* strengthens NoStaleConfig.  NoStaleConfig speaks only of states in which
nothing is outstanding, and the last step into such a state tells nothing about the
reads that led to it.  FreshInv says of every Authelia in every state that either
something is outstanding that ends in a reconcile (`Stir`: a request, an event of
the Authelia or of an object it owns, an object to be collected), or the reconcile
under way works from the resource as it is and the clients and Ingresses as the
cache has them, and the objects it has been over already carry its configuration
(`Track`, `Passed`), or none is under way and the last one left everything so
(`Done`).  `FrameStep` covers all steps that are not the controller's: a delivery of
a client or an Ingress that changes what Authelia a renders queues a.  The events of
clients and Ingresses are not part of `Stir`: the invariant speaks of what the
cache holds, and `QuietCaches` replaces it by what the API server holds once all is
delivered.

The digests are the one thing that is read and not watched.  FreshInv lets them be
any digests, none missing (`Known`), which gives `ConfigFollows`: at rest everything
is what the stored resource, clients and Ingresses ask for, with some digest for
each confidential client.  *OnceInv* says what makes them right: under `ClientsStay`
no Secret is generated a second time, so every version of a client's Secret, in the API server,
the cache and the feed, has one and the same digest, and so has whatever was read.
That gives `ConfigFresh`.  Without the hypothesis it is false, as
Heliop_regenerated shows.

### Access rules

`Less` is a strict total order on the rules of any Ingresses (`LessOrders`): the key
has the Ingress and the annotation in it, so no two rules share one, and `KeyOrder`
is total.  `ListedAre` shows
that listing and concatenating loses and repeats nothing, `PlaceIsRank` that the
place the stable sort gives a rule is its rank in that order, whatever position it
had, and `SortIs` that the sorted list is therefore the one list of the set in that
order.  *CollectedInv*, that a collected list is this one, is inductive, and the three
properties are read off it.

### Rendering and the pod template

*MadeInv*: what was written was made from some inputs the user gave, and an accepted
Deployment is valid; *RefusedInv* adds that a refusal between reconciles was of the
template for the ConfigMap's inputs.  The rest is about the operators.  `RenderLayers`
shows that the places the operator writes to do not meet, so that each layer
leaves the ones before it alone and `AssignKeeps` applies to each.
`ParentCovers` does the cookie: the label cut off is one of at least three, so the
domain keeps the two that name a site.  `VolumeNameIs` and `RefusedWhy` trace a clash of
two volume names, or of one with the operator's own, back to the variables;
`TemplateResolves` goes from a variable to its last definition, to a mount, to the
volumes of that name, of which validity leaves one, to the Secret.

*DataProofs* has what these two need about data.  Facts about lists of any length
are proved from a least counterexample (`Least`, from the well-foundedness of the
natural numbers), as the induction theorems of the library cannot be instantiated
by the provers at hand: what `FlattenSeq` returns (`FlattenIs`), that the ranks of a
finite ordered set number it (`Ranks`), that `Max` and `SetToSeq` do what they
are defined to do.

### Only model-checked

`Converges` and `HeliopConverges`: liveness needs fairness and ENABLED, which the
prover does not handle.  The properties of the runs that find a violation are false
without their hypotheses, where they have a theorem at all; `PodsCurrent`,
`DataReadable` and `StableConfig` have no theorem.

## 5. Not modelled

* A user who deletes a claim.  The code does not watch claims, so nothing would
  restore it before the next reconcile for another reason; that a claim is there in
  `NoStaleConfig`, `FreshUpToDigests` and `HeliopConverges` rests on nobody deleting
  it (Kubernetes keeps a claim that is in use).
* A user who removes single keys of a core Secret.  `CoreData` fills in what is
  missing key by key as `secrets.go` does, but a core Secret here has all its keys
  or does not exist.
* The single fields `clientToMap` copies, the encoding as YAML, and additionalConfig that
  is not an object (the CRD does not admit it).
* Labels, probes, ports, image, replicas and compute resources of the Deployment:
  copied or constant.  A template that is invalid for another reason than its
  volumes and mounts.
* A failing List inside `mapIngressToAuthelia`: it is served by the cache and
  fails only when the manager is being stopped.
* Random generation and hashing failing: an error like any other, covered by
  `ReconcileError` and `AReconcileError`.
* Two managers at once: one replica with leader election
  (`config/manager/manager.yaml`).
* The periodic resync; foreground deletion (an object with a deletionTimestamp
  is treated by the code as alive; deletion is one step here).
* Flags, metrics, TLS, CRDs, RBAC, generated deep copies, tests, tooling.

## 6. Plan

1. done: Kube, OAuthClient and its proofs; Heliop; AccessRules.
2. done: Keyring and the two refinements; Rendering and Pod.
3. done: every safety property of a passing run has a theorem.
4. next: the conditions under which the violated properties hold, as theorems:
   `StableConfig` when no two clients share an ID, `DataReadable` when no Authelia is
   deleted, `PodsCurrent` when no configuration is reverted.
