-------------------------- MODULE FreshnessProofs --------------------------
(***************************************************************************)
(* The Authelia controller never rests on a configuration that is out of   *)
(* date.                                                                   *)
(*                                                                         *)
(* The controller is woken by the Authelia, by the objects it owns, by the *)
(* clients and by the Ingresses, but by no event of a client's Secret: it  *)
(* reads the digest of a Secret when it renders, and comes back by itself  *)
(* only while a digest is missing.  So when nothing is outstanding the     *)
(* configuration is the rendering of what is at the API server, up to the  *)
(* digests, which may be those of earlier Secrets; and the digests are     *)
(* right, too, if clients stay and their Secrets are generated once.       *)
(***************************************************************************)
EXTENDS AutheliaProofs

\* The user deletes no client, no Secret of one and no digest in it, and turns no
\* client from confidential to public or back.  So no Secret is generated a second time; the
\* hypothesis asks for more than that, as it rules out the deletion of a client
\* that is never created again.
ClientsStay ==
    /\ UserOps \cap {"delete", "deleteSecret", "clearBoth"} = {}
    /\ "edit" \in UserOps => \A s, t \in ClientSpecs : s.public = t.public

-----------------------------------------------------------------------------
(* The Secret of a client is generated once. *)

\* Two versions of a client that ask for the same kind of Secret.
Alike(v, w) == w # Absent /\ v.uid = w.uid /\ v.spec.public = w.spec.public

\* Every version of a client in use is a version of the one that lives.
ClientOnce(c) ==
    /\ \A v \in Versions(client[c]) : v # Absent => Alike(v, client[c].live)
    /\ worker # Idle /\ worker.c = c => Alike(worker.obj, client[c].live)

\* Every version of its Secret has its digest, for good.
SecretOnce(c) ==
    \A v \in Versions(secret[c]) : v # Absent =>
        /\ secret[c].live # Absent /\ client[c].live # Absent
        /\ v.owner = client[c].live.uid
        /\ v.digest = secret[c].live.digest
        /\ client[c].live.spec.public <=> v.digest = NoDigest

OnceInv == ClientsStay => \A c \in Clients : ClientOnce(c) /\ SecretOnce(c)

\* A client that lives stays alive, and asks for the same kind of Secret.
LEMMA ClientWrites ==
    ASSUME ClientsStay, TypeOK, TypeOK', [Next]_vars, NEW c \in Clients
    PROVE  /\ client[c].live # Absent => Alike(client[c].live, client'[c].live)
           /\ \/ client'[c] = client[c]
              \/ Lagging(client[c]) /\ client'[c] = Observe(client[c])
              \/ client'[c] = Relist(client[c])
              \/ \E v \in ClientObj : /\ client'[c] = Write(client[c], v)
                                      /\ client[c].live # Absent => Alike(client[c].live, v)
  <1> DEFINE W == \E v \in ClientObj : /\ client'[c] = Write(client[c], v)
                                       /\ client[c].live # Absent => Alike(client[c].live, v)
  <1>t. client \in [Clients -> Rep(CObj)]
    BY DEF TypeOK, CObj
  <1>l. \A d \in Clients : client[d] \in Rep(CObj) /\ client[d].live \in CObj
    BY <1>t DEF Rep
  <1>v. ASSUME NEW d \in Clients, NEW v \in ClientObj,
               client' = [client EXCEPT ![d] = Write(client[d], v)],
               client[d].live # Absent => Alike(client[d].live, v)
        PROVE  client'[c] = client[c] \/ W
    BY <1>v, <1>t
  <1>1. ASSUME NEW d \in Clients, CreateClient(d) PROVE client'[c] = client[c] \/ W
    <2>1. PICK s \in ClientSpecs :
            client' = [client EXCEPT ![d] = Write(client[d],
                         [uid |-> uids + 1, rv |-> 0, spec |-> s, status |-> FALSE])]
      BY <1>1 DEF CreateClient
    <2>2. [uid |-> uids + 1, rv |-> 0, spec |-> s, status |-> FALSE] \in ClientObj
      BY DEF TypeOK, ClientObj
    <2>3. client[d].live = Absent
      BY <1>1 DEF CreateClient
    <2> QED
      BY <2>1, <2>2, <2>3, <1>v
  <1>2. ASSUME NEW d \in Clients, EditClient(d) PROVE client'[c] = client[c] \/ W
    <2>1. PICK s \in ClientSpecs :
            client' = [client EXCEPT ![d] = Write(client[d], Respecified(client[d].live, s))]
      BY <1>2 DEF EditClient
    <2>2. client[d].live \in ClientObj /\ "edit" \in UserOps
      BY <1>2, <1>l DEF EditClient, UserDoes, CObj
    <2>3. Respecified(client[d].live, s) \in ClientObj
      BY <2>2 DEF ClientObj, Respecified
    <2>4. client[d].live.spec \in ClientSpecs
      BY <2>2 DEF ClientObj
    <2>5. client[d].live.spec.public = s.public
      BY <2>2, <2>4 DEF ClientsStay
    <2>6. Alike(client[d].live, Respecified(client[d].live, s))
      BY <2>3, <2>5, AbsentAssumption DEF Alike, Respecified
    <2> QED
      BY <2>1, <2>3, <2>6, <1>v
  <1>3. ASSUME NEW d \in Clients, DeleteClient(d) PROVE FALSE
    BY <1>3 DEF DeleteClient, UserDoes, ClientsStay
  <1>4. ASSUME NEW d \in Clients, ReconcileStatus(d) PROVE client'[c] = client[c] \/ W
    <2>1. CASE client[d].live # Absent /\ client[d].live = worker.obj
      <3>1. client' = [client EXCEPT ![d] = Write(client[d], StatusNamed(client[d].live))]
        BY <1>4, <2>1 DEF ReconcileStatus
      <3>2. StatusNamed(client[d].live) \in ClientObj
        BY <2>1, <1>l DEF CObj, ClientObj, StatusNamed
      <3>3. Alike(client[d].live, StatusNamed(client[d].live))
        BY <3>2, AbsentAssumption DEF Alike, StatusNamed
      <3> QED
        BY <3>1, <3>2, <3>3, <1>v
    <2>2. CASE ~(client[d].live # Absent /\ client[d].live = worker.obj)
      BY <1>4, <2>2 DEF ReconcileStatus
    <2> QED
      BY <2>1, <2>2
  <1>5. ASSUME NEW d \in Clients, DeliverClient(d)
        PROVE  \/ client'[c] = client[c]
               \/ Lagging(client[c]) /\ client'[c] = Observe(client[c])
    BY <1>5, <1>t DEF DeliverClient
  <1>6. ASSUME NEW d \in Clients,
               \/ ReconcileStart(d) \/ ReconcileSecret(d) \/ ReconcileError(d)
               \/ ReconcileSecretRefused(d) \/ DeliverSecret(d) \/ GarbageCollect(d)
               \/ DeleteSecret(d) \/ ClearClientSecret(d)
        PROVE  client' = client
    BY <1>6 DEF ReconcileStart, ReconcileSecret, ReconcileError, DeleteSecret,
                ReconcileSecretRefused, DeliverSecret, GarbageCollect, ClearClientSecret
  <1>7. Restart => client'[c] = Relist(client[c])
    BY DEF Restart
  <1>8. UNCHANGED vars => client' = client
    BY DEF vars
  <1> HIDE DEF W
  <1>9. \/ client'[c] = client[c]
        \/ Lagging(client[c]) /\ client'[c] = Observe(client[c])
        \/ client'[c] = Relist(client[c])
        \/ W
    BY <1>1, <1>2, <1>3, <1>4, <1>5, <1>6, <1>7, <1>8 DEF Next, Reconcile, Cluster, User
  <1>10. client'[c].live = client[c].live
           => (client[c].live # Absent => Alike(client[c].live, client'[c].live))
    BY DEF Alike
  <1>11. W => (client[c].live # Absent => Alike(client[c].live, client'[c].live))
    BY DEF W, Write
  <1>12. \/ client'[c].live = client[c].live \/ W
    BY <1>9 DEF Observe, Relist
  <1> QED
    BY <1>9, <1>10, <1>11, <1>12 DEF W

\* What the worker holds was read from the cache.
LEMMA WorkerReads ==
    ASSUME TypeOK, [Next]_vars, NEW c \in Clients, worker' # Idle, worker'.c = c
    PROVE  \/ worker # Idle /\ worker.c = c /\ worker'.obj = worker.obj
           \/ worker'.obj = client[c].seen /\ client[c].seen # Absent
  <1>t. worker # Idle => worker \in Busy
    BY WorkerBusy
  <1>1. ASSUME NEW d \in Clients, ReconcileStart(d)
        PROVE  worker'.obj = client[c].seen /\ client[c].seen # Absent
    BY <1>1 DEF ReconcileStart
  <1>2. ASSUME NEW d \in Clients, ReconcileSecret(d)
        PROVE  worker # Idle /\ worker.c = c /\ worker'.obj = worker.obj
    <2>1. worker # Idle
      BY <1>2, WorkerAt DEF ReconcileSecret
    <2> QED
      BY <1>2, <2>1, <1>t DEF ReconcileSecret, Busy
  <1>3. ASSUME NEW d \in Clients,
               ReconcileSecretRefused(d) \/ ReconcileStatus(d) \/ ReconcileError(d)
        PROVE  FALSE
    BY <1>3 DEF ReconcileSecretRefused, ReconcileStatus, ReconcileError, Requeue
  <1>4. ASSUME NEW d \in Clients, Cluster(d) \/ User(d)
        PROVE  worker' = worker
    BY <1>4 DEF Cluster, DeliverClient, DeliverSecret, GarbageCollect, User, CreateClient,
                EditClient, DeleteClient, DeleteSecret, ClearClientSecret
  <1>5. Restart => worker' = Idle
    BY DEF Restart
  <1>6. UNCHANGED vars => worker' = worker
    BY DEF vars
  <1> QED
    BY <1>1, <1>2, <1>3, <1>4, <1>5, <1>6 DEF Next, Reconcile

\* No version of another incarnation comes into use.
LEMMA ClientOnceStep ==
    ASSUME ClientsStay, TypeOK, TypeOK', [Next]_vars, NEW c \in Clients,
           ClientOnce(c)
    PROVE  ClientOnce(c)'
  <1>t. client[c] \in Rep(CObj) /\ client[c].live \in Versions(client[c])
        /\ client[c].seen \in Versions(client[c])
    BY VersionsType DEF TypeOK, CObj
  <1>a. ASSUME NEW v, Alike(v, client[c].live) PROVE Alike(v, client'[c].live)
    <2>1. Alike(client[c].live, client'[c].live)
      BY <1>a, ClientWrites DEF Alike
    <2> QED
      BY <1>a, <2>1 DEF Alike
  <1>1. ASSUME NEW v \in Versions(client'[c]), v # Absent PROVE Alike(v, client'[c].live)
    <2>1. CASE v \in Versions(client[c])
      BY <2>1, <1>1, <1>a DEF ClientOnce
    <2>2. CASE \E x \in ClientObj : client'[c] = Write(client[c], x)
      <3>1. PICK x \in CObj : client'[c] = Write(client[c], x) /\ x \in ClientObj
        BY <2>2 DEF CObj
      <3>2. client'[c].live = x /\ Versions(client'[c]) \subseteq Versions(client[c]) \cup {x}
        BY <3>1, <1>t, WriteVersions, WriteLinked
      <3> QED
        BY <1>1, <2>1, <3>1, <3>2, AbsentAssumption DEF Alike
    <2> QED
      BY <1>1, <1>t, <2>1, <2>2, ClientWrites, ObserveVersions, RelistVersions
  <1>2. ASSUME worker' # Idle, worker'.c = c PROVE Alike(worker'.obj, client'[c].live)
    <2>1. Alike(worker'.obj, client[c].live)
      BY <1>2, <1>t, WorkerReads DEF ClientOnce
    <2> QED
      BY <2>1, <1>a
  <1> QED
    BY <1>1, <1>2 DEF ClientOnce

\* The Secret the reconcile stores has the digest of the one it found.
LEMMA WantedOnce ==
    ASSUME TypeOK, LinkedInv, NEW c \in Clients, ClientOnce(c), SecretOnce(c),
           worker.at = "secret", worker.c = c, NEW n \in Draws,
           ~SecretRefused(c, n), Wanted(c, n) # secret[c].seen
    PROVE  /\ Wanted(c, n) \in SecretObj
           /\ client[c].live # Absent /\ Wanted(c, n).owner = client[c].live.uid
           /\ secret[c].live # Absent => Wanted(c, n).digest = secret[c].live.digest
           /\ client[c].live.spec.public <=> Wanted(c, n).digest = NoDigest
  <1>1. /\ worker # Idle /\ worker.obj \in ClientObj /\ Alike(worker.obj, client[c].live)
        /\ worker.obj.spec.public \in BOOLEAN
    BY WorkerAt, WorkerBusy, ConstantsAssumption DEF ClientOnce, ClientObj
  <1>t. /\ secret[c] \in Rep(SObj) /\ secret[c].seen \in SObj /\ Linked(secret[c])
        /\ secret[c].live \in Versions(secret[c])
    BY VersionsType DEF TypeOK, SObj, LinkedInv, Rep
  <1>2. secret[c].seen = secret[c].live
    BY <1>t DEF SecretRefused, Accepts, Linked
  <1>3. Wanted(c, n) \in SecretObj
    BY <1>1, <1>t, MutateType DEF Wanted
  <1>4. Wanted(c, n).owner = worker.obj.uid
    BY DEF Wanted, MutateSecret
  <1>5. n # 0
    BY ConstantsAssumption
  <1>6. CASE worker.obj.spec.public
    <2>1. Wanted(c, n).digest = NoDigest
      BY <1>6 DEF Wanted, MutateSecret
    <2> QED
      BY <1>1, <1>3, <1>4, <1>6, <1>t, <2>1 DEF Alike, SecretOnce
  <1>7. CASE ~worker.obj.spec.public /\ secret[c].live # Absent
    <2>1. secret[c].live.digest # NoDigest
      BY <1>1, <1>7, <1>t DEF Alike, SecretOnce
    <2>2. Wanted(c, n).digest = secret[c].live.digest
      BY <1>2, <1>7, <2>1 DEF Wanted, MutateSecret
    <2> QED
      BY <1>1, <1>3, <1>4, <1>7, <2>1, <2>2 DEF Alike
  <1>8. CASE ~worker.obj.spec.public /\ secret[c].live = Absent
    <2>1. Wanted(c, n).digest = [of |-> n, salt |-> n]
      BY <1>2, <1>8 DEF Wanted, MutateSecret, EmptySecret, GenerateSecret, HashClientSecret
    <2>2. Wanted(c, n).digest # NoDigest
      BY <2>1, <1>5 DEF NoDigest
    <2> QED
      BY <1>1, <1>3, <1>4, <1>8, <2>2 DEF Alike
  <1> QED
    BY <1>6, <1>7, <1>8

\* A Secret that is there stays, with its digest.
LEMMA SecretWrites ==
    ASSUME ClientsStay, TypeOK, TypeOK', LinkedInv, [Next]_vars,
           NEW c \in Clients, ClientOnce(c), SecretOnce(c)
    PROVE  \/ secret'[c] = secret[c]
           \/ Lagging(secret[c]) /\ secret'[c] = Observe(secret[c])
           \/ secret'[c] = Relist(secret[c])
           \/ \E v \in SecretObj :
                /\ secret'[c] = Write(secret[c], v)
                /\ client[c].live # Absent /\ v.owner = client[c].live.uid
                /\ secret[c].live # Absent => v.digest = secret[c].live.digest
                /\ client[c].live.spec.public <=> v.digest = NoDigest
  <1>t. secret[c] \in Rep(SObj) /\ secret[c].live \in SObj
        /\ secret[c].live \in Versions(secret[c])
    BY VersionsType DEF TypeOK, SObj, Rep
  <1>1. ~Orphaned(c)
    BY <1>t DEF Orphaned, OwnerLives, SecretOnce
  <1>2. ~DeleteSecret(c)
    BY DEF DeleteSecret, UserDoes, ClientsStay
  <1>3. ASSUME ClearClientSecret(c), NEW op \in UserOps
        PROVE  /\ Cleared(op, secret[c].live) \in SecretObj
               /\ client[c].live # Absent /\ secret[c].live # Absent
               /\ Cleared(op, secret[c].live).owner = client[c].live.uid
               /\ Cleared(op, secret[c].live).digest = secret[c].live.digest
               /\ client[c].live.spec.public <=> Cleared(op, secret[c].live).digest = NoDigest
    <2>1. secret[c].live # Absent /\ secret[c].live \in SecretObj
      BY <1>3, <1>t DEF ClearClientSecret, SObj
    <2> QED
      BY <2>1, <1>t DEF SecretOnce, Cleared, SecretObj, ClientsStay
  <1>4. SecretWritten(c) =>
           \E v \in SecretObj :
                /\ secret'[c] = Write(secret[c], v)
                /\ client[c].live # Absent /\ v.owner = client[c].live.uid
                /\ secret[c].live # Absent => v.digest = secret[c].live.digest
                /\ client[c].live.spec.public <=> v.digest = NoDigest
    BY <1>1, <1>2, <1>3, WantedOnce DEF SecretWritten
  <1> QED
    BY <1>4, SecretMoves

\* No version with another digest comes into being.
LEMMA SecretOnceStep ==
    ASSUME ClientsStay, TypeOK, TypeOK', LinkedInv, [Next]_vars,
           NEW c \in Clients, ClientOnce(c), SecretOnce(c)
    PROVE  /\ SecretOnce(c)'
           /\ secret[c].live # Absent => /\ secret'[c].live # Absent
                                         /\ secret'[c].live.digest = secret[c].live.digest
  <1>t. secret[c] \in Rep(SObj) /\ secret[c].live \in Versions(secret[c])
    BY VersionsType DEF TypeOK, SObj
  <1>c. client[c].live # Absent => Alike(client[c].live, client'[c].live)
    BY ClientWrites
  <1>1. CASE /\ Versions(secret'[c]) \subseteq Versions(secret[c])
             /\ secret'[c].live = secret[c].live
    BY <1>1, <1>c DEF SecretOnce, Alike
  <1>2. ASSUME NEW v \in SecretObj, secret'[c] = Write(secret[c], v),
               client[c].live # Absent, v.owner = client[c].live.uid,
               secret[c].live # Absent => v.digest = secret[c].live.digest,
               client[c].live.spec.public <=> v.digest = NoDigest
        PROVE  /\ SecretOnce(c)'
               /\ secret[c].live # Absent => /\ secret'[c].live # Absent
                                             /\ secret'[c].live.digest = secret[c].live.digest
    <2>1. v \in SObj /\ v # Absent
      BY AbsentAssumption DEF SObj
    <2>2. secret'[c].live = v /\ Versions(secret'[c]) \subseteq Versions(secret[c]) \cup {v}
      BY <1>2, <2>1, <1>t, WriteVersions, WriteLinked
    <2>3. ASSUME NEW x \in Versions(secret'[c]), x # Absent
          PROVE  /\ x.owner = client'[c].live.uid /\ client'[c].live # Absent
                 /\ x.digest = v.digest
                 /\ client'[c].live.spec.public <=> x.digest = NoDigest
      <3>1. x \in Versions(secret[c]) \/ x = v
        BY <2>2, <2>3
      <3> QED
        BY <1>2, <1>c, <2>3, <3>1 DEF SecretOnce, Alike
    <2> QED
      BY <1>2, <2>1, <2>2, <2>3 DEF SecretOnce
  <1>3. Lagging(secret[c]) /\ secret'[c] = Observe(secret[c])
          => secret'[c].live = secret[c].live /\ Versions(secret'[c]) \subseteq Versions(secret[c])
    BY <1>t, ObserveVersions DEF Observe
  <1>4. secret'[c] = Relist(secret[c])
          => secret'[c].live = secret[c].live /\ Versions(secret'[c]) \subseteq Versions(secret[c])
    BY <1>t, RelistVersions, RelistLinked
  <1>5. \/ secret'[c] = secret[c]
        \/ Lagging(secret[c]) /\ secret'[c] = Observe(secret[c])
        \/ secret'[c] = Relist(secret[c])
        \/ \E v \in SecretObj :
             /\ secret'[c] = Write(secret[c], v)
             /\ client[c].live # Absent /\ v.owner = client[c].live.uid
             /\ secret[c].live # Absent => v.digest = secret[c].live.digest
             /\ client[c].live.spec.public <=> v.digest = NoDigest
    BY SecretWrites
  <1> QED
    BY <1>1, <1>2, <1>3, <1>4, <1>5

\* Every step keeps the Secrets generated once.
LEMMA OnceStep ==
    TypeOK /\ TypeOK' /\ LinkedInv /\ OnceInv /\ [Next]_vars => OnceInv'
  BY ClientOnceStep, SecretOnceStep DEF OnceInv, ClientsStay

\* There are no clients yet.
LEMMA OnceInit == Init => OnceInv
  BY DEF Init, OnceInv, ClientOnce, SecretOnce, NeverWritten, Versions

-----------------------------------------------------------------------------
(* The inductive invariant. *)

\* What the cache holds of the clients and the Ingresses.
SeenSpecs(a) ==
    [c \in {d \in Clients : client[d].seen # Absent
                /\ ClientTargets(d, client[d].seen.spec, a)} |-> client[c].seen.spec]
SeenIngresses == [i \in Ingresses |-> ing[i].seen]

\* Something outstanding will make the controller reconcile a once more.
Stir(a) ==
    \/ a \in aqueue \/ Lagging(au[a])
    \/ \E k \in Kinds : Lagging(own[a][k]) \/ AOrphaned(a, k)

\* Digests that are right for good.
Known(D) ==
    ClientsStay =>
        \A c \in Clients : D[c] # Absent =>
            secret[c].live # Absent /\ D[c].digest = secret[c].live.digest

\* The configuration is what the cache asks for, with digests read some time.
Renders(a, config, missing) ==
    \E D \in [Clients -> SObj] :
        /\ Known(D)
        /\ missing \/ Waiting(SeenSpecs(a), D) = {}
        /\ config \in Renderings(au[a].live.spec, SeenSpecs(a), D, SeenIngresses)

\* The objects that a reconcile of a has been over when it is at a step.
Passed(a, w) ==
    LET o(k) == own[a][k].live
    IN  /\ w.at = "core" \/ w.obj.spec.existing \/ o("core") # Absent
        /\ w.at \in {"svc", "pvc", "deploy", "status"} =>
             o("cm") # Absent /\ o("cm").content = w.config
        /\ w.at \in {"pvc", "deploy", "status"} => o("svc") # Absent
        /\ w.at \in {"deploy", "status"} /\ w.obj.spec.vct => pvc[a].live # Absent
        /\ w.at = "status" => /\ o("deploy") # Absent
                              /\ o("deploy").content = Template(w.obj.spec, w.config)
                              /\ o("deploy").ready = w.ready

\* The reconcile under way works from what the cache holds.
Track(a) ==
    /\ aworker.obj = au[a].live
    /\ IF aworker.at = "collect" THEN aworker.specs = SeenSpecs(a)
       ELSE Renders(a, aworker.config, aworker.missing) /\ Passed(a, aworker)

\* The objects of a carry the configuration.
Built(a, config) ==
    LET obj == au[a].live
        o(k) == own[a][k].live
    IN  /\ \A k \in Kinds \ {"core"} : o(k) # Absent
        /\ o("cm").content = config
        /\ o("deploy").content = Template(obj.spec, config)
        /\ obj.spec.existing \/ o("core") # Absent
        /\ obj.spec.vct => pvc[a].live # Absent
        /\ obj.status = StatusOf(config, o("deploy").ready)

\* The last reconcile of a worked from what the cache holds.
Done(a) ==
    au[a].live # Absent =>
        \E config : Built(a, config) /\ Renders(a, config, FALSE)

Fresh(a) == Stir(a) \/ (IF AWorking(a) THEN Track(a) ELSE Done(a))

FreshInv == \A a \in Authelias : Fresh(a)

-----------------------------------------------------------------------------
(* A step that leaves nothing outstanding leaves the objects alone. *)

\* A request for a waits until a reconcile takes it.
LEMMA QueueStays ==
    ASSUME [HeliopNext]_allVars, NEW a \in Authelias, a \in aqueue,
           ~AStart(a), ~HeliopRestart
    PROVE  a \in aqueue'
  <1>1. ASSUME NEW b \in Authelias, AReconcile(b) \/ AReconcileError(b) PROVE a \in aqueue'
    <2>1. ASSUME AStart(b) PROVE a \in aqueue'
      BY <2>1 DEF AStart
    <2>2. ACollect(b) => aqueue' = aqueue
      BY DEF ACollect
    <2>3. APVC(b) \/ AStatus(b) => a \in aqueue'
      BY DEF APVC, AStatus, ARequeue
    <2>4. ASSUME NEW k \in Kinds, AApply(b, k) \/ AApplyRefused(b, k) PROVE a \in aqueue'
      BY <2>4 DEF AApply, AApplyRefused, ARequeue
    <2>5. AReconcileError(b) => a \in aqueue'
      BY DEF AReconcileError, ARequeue
    <2> QED
      BY <1>1, <2>1, <2>2, <2>3, <2>4, <2>5 DEF AReconcile
  <1>2. ASSUME NEW b \in Authelias, ACluster(b) \/ AUser(b) PROVE a \in aqueue'
    BY <1>2 DEF ACluster, DeliverAuthelia, DeliverPVC, PodStart, PodStop, DeliverOwned,
                ACollectGarbage, AUser, CreateAuthelia, EditAuthelia, DeleteAuthelia,
                DeleteOwned
  <1>3. ASSUME NEW c \in Clients, ClientSide(c) \/ DeliverClientToBoth(c) PROVE a \in aqueue'
    BY <1>3 DEF ClientSide, DeliverClientToBoth, avars
  <1>4. ASSUME NEW i \in Ingresses, DeliverIngress(i) \/ WriteIngress(i) PROVE a \in aqueue'
    BY <1>4 DEF DeliverIngress, WriteIngress
  <1>5. UNCHANGED allVars => aqueue' = aqueue
    BY DEF allVars, avars
  <1> QED
    BY <1>1, <1>2, <1>3, <1>4, <1>5 DEF HeliopNext

\* Whatever happens to the Authelia or its objects stirs the controller, and
\* only a reconcile that takes the last request stills it.
LEMMA StillStep ==
    ASSUME HeliopTypeOK, HeliopTypeOK', CacheInv, [HeliopNext]_allVars,
           ~HeliopRestart, NEW a \in Authelias, ~Stir(a)'
    PROVE  /\ au'[a] = au[a] /\ \A k \in Kinds : own'[a][k] = own[a][k]
           /\ ~Lagging(au[a]) /\ \A k \in Kinds : ~Lagging(own[a][k]) /\ ~AOrphaned(a, k)
           /\ ~Stir(a) \/ AStart(a)
  <1>1. au'[a] = au[a]
    <2>1. au[a] \in Rep(AObj) /\ a \notin aqueue' /\ ~Lagging(au'[a])
      BY ObjectTypes DEF Stir
    <2> QED
      BY <2>1, AuMoves, WriteLinked DEF AuWritten
  <1>2. ASSUME NEW k \in Kinds PROVE own'[a][k] = own[a][k]
    <2>1. /\ own[a][k] \in Rep(OwnedObj(k)) /\ Linked(own[a][k]) /\ OwnMoved(a, k)
          /\ a \notin aqueue' /\ ~Lagging(own'[a][k])
      BY ObjectTypes, OwnMoves DEF Stir, CacheInv
    <2>2. OwnWritten(a, k) => own'[a][k] = own[a][k]
      BY <2>1, OwnPuts, PutLinked, WriteLinked
    <2> QED
      BY <2>1, <2>2 DEF OwnMoved
  <1>3. ~Lagging(au[a]) /\ \A k \in Kinds : ~Lagging(own[a][k]) /\ ~AOrphaned(a, k)
    BY <1>1, <1>2 DEF Stir, AOrphaned
  <1>4. a \in aqueue => AStart(a)
    BY QueueStays DEF Stir
  <1> QED
    BY <1>1, <1>2, <1>3, <1>4 DEF Stir

-----------------------------------------------------------------------------
(* What the other steps leave alone. *)

\* Nobody but the reconcile of a changes the reconcile of a.
LEMMA WorkerFrame ==
    ASSUME HeliopTypeOK, [HeliopNext]_allVars, ~HeliopRestart, NEW a \in Authelias,
           ~AReconcile(a), ~AReconcileError(a)
    PROVE  /\ AWorking(a)' <=> AWorking(a)
           /\ AWorking(a) => aworker' = aworker
  <1>s. aworker' = aworker => /\ AWorking(a)' <=> AWorking(a)
                              /\ AWorking(a) => aworker' = aworker
    BY DEF AWorking
  <1>1. ASSUME NEW b \in Authelias, b # a, AReconcile(b) \/ AReconcileError(b)
        PROVE  ~AWorking(a) /\ ~AWorking(a)'
    <2>1. CASE AStart(b)
      BY <1>1, <2>1 DEF AStart, AWorking
    <2>2. CASE ACollect(b)
      BY <1>1, <2>2 DEF ACollect, At, AWorking
    <2>3. CASE APVC(b)
      <3>1. Applying(aworker) /\ aworker.a = b
        BY <2>3, AtType DEF APVC
      <3> QED
        BY <1>1, <2>3, <3>1 DEF APVC, ARequeue, Proceed, Applying, AWorking
    <2>4. CASE AStatus(b)
      BY <1>1, <2>4 DEF AStatus, At, AWorking, ARequeue
    <2>5. ASSUME NEW k \in Kinds, AApply(b, k) PROVE ~AWorking(a) /\ ~AWorking(a)'
      <3>1. Applying(aworker) /\ aworker.a = b
        BY <2>5, AtType DEF AApply, Kinds
      <3> QED
        BY <1>1, <2>5, <3>1 DEF AApply, Applying, AWorking
    <2>6. ASSUME NEW k \in Kinds, AApplyRefused(b, k) PROVE ~AWorking(a) /\ ~AWorking(a)'
      BY <1>1, <2>6 DEF AApplyRefused, At, AWorking, ARequeue
    <2>7. CASE AReconcileError(b)
      BY <1>1, <2>7 DEF AReconcileError, AWorking, ARequeue
    <2> QED
      BY <1>1, <2>1, <2>2, <2>3, <2>4, <2>5, <2>6, <2>7 DEF AReconcile
  <1>2. ASSUME NEW b \in Authelias, ACluster(b) \/ AUser(b) PROVE aworker' = aworker
    BY <1>2, OtherTypeStep
  <1>3. ASSUME NEW c \in Clients, ClientSide(c) \/ DeliverClientToBoth(c)
        PROVE  aworker' = aworker
    BY <1>3 DEF ClientSide, DeliverClientToBoth, avars
  <1>4. ASSUME NEW i \in Ingresses, DeliverIngress(i) \/ WriteIngress(i)
        PROVE  aworker' = aworker
    BY <1>4 DEF DeliverIngress, WriteIngress
  <1>5. UNCHANGED allVars => aworker' = aworker
    BY DEF allVars, avars
  <1> QED
    BY <1>s, <1>1, <1>2, <1>3, <1>4, <1>5 DEF HeliopNext

\* A client is mapped to the Authelia it targets.
LEMMA MapsTarget ==
    ASSUME NEW c, NEW obj, obj # Absent, NEW a \in Authelias,
           ClientTargets(c, obj.spec, a)
    PROVE  a \in MapClient(c, obj)
  <1>1. RefTarget(c, obj.spec) = a
    BY DEF ClientTargets
  <1>2. RefTarget(c, obj.spec).name = obj.spec.ref.name
    BY Zenon DEF RefTarget
  <1>3. obj.spec.ref.name # ""
    BY <1>1, <1>2, HeliopNamesAssumption, Zenon
  <1> QED
    BY <1>1, <1>3, Zenon DEF MapClient

\* The client's own side changes no cached client.
LEMMA ClientSideSeen ==
    ASSUME TypeOK, NEW c \in Clients, ClientSide(c), NEW d \in Clients
    PROVE  client'[d].seen = client[d].seen
  <1>t. client \in [Clients -> Rep(CObj)]
    BY DEF TypeOK, CObj
  <1>1. ASSUME ReconcileStatus(c) \/ User(c)
        PROVE  client' = client \/ \E v : client' = [client EXCEPT ![c] = Write(@, v)]
    BY <1>1 DEF ReconcileStatus, User, CreateClient, EditClient, DeleteClient,
                DeleteSecret, ClearClientSecret
  <1>2. ASSUME \/ ReconcileStart(c) \/ ReconcileSecret(c) \/ ReconcileError(c)
               \/ ReconcileSecretRefused(c) \/ DeliverSecret(c) \/ GarbageCollect(c)
        PROVE  client' = client
    BY <1>2 DEF ReconcileStart, ReconcileSecret, ReconcileError,
                ReconcileSecretRefused, DeliverSecret, GarbageCollect
  <1> QED
    BY <1>t, <1>1, <1>2 DEF ClientSide, Reconcile, Write

\* The specs that target a depend on the cached clients that do.
LEMMA SeenSpecsSame ==
    ASSUME NEW a,
           \A d \in Clients :
              \/ client'[d].seen = client[d].seen
              \/ /\ ~(client[d].seen # Absent /\ ClientTargets(d, client[d].seen.spec, a))
                 /\ ~(client'[d].seen # Absent /\ ClientTargets(d, client'[d].seen.spec, a))
    PROVE  SeenSpecs(a)' = SeenSpecs(a)
  <1> DEFINE T == {d \in Clients : client[d].seen # Absent
                       /\ ClientTargets(d, client[d].seen.spec, a)}
             U == {d \in Clients : client'[d].seen # Absent
                       /\ ClientTargets(d, client'[d].seen.spec, a)}
  <1>1. T = U /\ \A d \in T : client'[d].seen = client[d].seen
    OBVIOUS
  <1>2. SeenSpecs(a) = [d \in T |-> client[d].seen.spec]
    BY DEF SeenSpecs
  <1>3. SeenSpecs(a)' = [d \in U |-> client'[d].seen.spec]
    BY DEF SeenSpecs, ClientTargets, RefTarget
  <1> HIDE DEF T, U
  <1> QED
    BY <1>1, <1>2, <1>3

\* The rules depend on the cached Ingresses that are annotated.
LEMMA RulesSame ==
    ASSUME \A i \in Ingresses :
              \/ ing'[i].seen = ing[i].seen
              \/ /\ ing[i].seen # Absent => ~ing[i].seen.annotated
                 /\ ing'[i].seen # Absent => ~ing'[i].seen.annotated
    PROVE  Rules(SeenIngresses)' = Rules(SeenIngresses)
  BY DEF Rules, SeenIngresses

\* What a reads from the cache changes only with an event that puts a into the
\* queue, or while there is no a in the cache.
LEMMA InputFrame ==
    ASSUME HeliopTypeOK, [HeliopNext]_allVars, ~HeliopRestart, NEW a \in Authelias,
           a \notin aqueue', au[a].seen # Absent
    PROVE  SeenSpecs(a)' = SeenSpecs(a) /\ Rules(SeenIngresses)' = Rules(SeenIngresses)
  <1>v. client' = client => SeenSpecs(a)' = SeenSpecs(a)
    BY SeenSpecsSame
  <1>i. ing' = ing => Rules(SeenIngresses)' = Rules(SeenIngresses)
    BY RulesSame
  <1>1. ASSUME NEW c \in Clients, DeliverClientToBoth(c)
        PROVE  SeenSpecs(a)' = SeenSpecs(a) /\ ing' = ing
    <2>1. /\ client' = [client EXCEPT ![c] = Observe(@)] /\ ing' = ing
          /\ aqueue' = aqueue \cup MapClient(c, client[c].seen) \cup MapClient(c, client'[c].seen)
      BY <1>1 DEF DeliverClientToBoth, DeliverClient
    <2>2. /\ ~(client[c].seen # Absent /\ ClientTargets(c, client[c].seen.spec, a))
          /\ ~(client'[c].seen # Absent /\ ClientTargets(c, client'[c].seen.spec, a))
      BY <2>1, MapsTarget
    <2>3. \A d \in Clients : d # c => client'[d].seen = client[d].seen
      BY <2>1 DEF HeliopTypeOK, TypeOK
    <2>4. SeenSpecs(a)' = SeenSpecs(a)
      BY <2>2, <2>3, SeenSpecsSame
    <2> QED
      BY <2>1, <2>4
  <1>2. ASSUME NEW c \in Clients, ClientSide(c)
        PROVE  SeenSpecs(a)' = SeenSpecs(a) /\ ing' = ing
    BY <1>2, ClientSideSeen, SeenSpecsSame DEF HeliopTypeOK, ClientSide, avars
  <1>3. ASSUME NEW i \in Ingresses, DeliverIngress(i)
        PROVE  Rules(SeenIngresses)' = Rules(SeenIngresses) /\ client' = client
    <2>1. /\ ing' = [ing EXCEPT ![i] = Observe(@)] /\ client' = client
          /\ aqueue' = aqueue \cup MapIngress(ing[i].seen) \cup MapIngress(ing'[i].seen)
      BY <1>3 DEF DeliverIngress, vars
    <2>2. /\ ing[i].seen # Absent => ~ing[i].seen.annotated
          /\ ing'[i].seen # Absent => ~ing'[i].seen.annotated
      BY <2>1 DEF MapIngress
    <2>3. \A j \in Ingresses : j # i => ing'[j].seen = ing[j].seen
      BY <2>1, ObjectTypes
    <2> QED
      BY <2>1, <2>2, <2>3, RulesSame
  <1>4. ASSUME NEW i \in Ingresses, WriteIngress(i)
        PROVE  Rules(SeenIngresses)' = Rules(SeenIngresses) /\ client' = client
    <2>1. client' = client /\ \E g : ing' = [ing EXCEPT ![i] = Write(@, g)]
      BY <1>4 DEF WriteIngress, vars
    <2>2. \A j \in Ingresses : ing'[j].seen = ing[j].seen
      BY <2>1, ObjectTypes DEF Write
    <2> QED
      BY <2>1, <2>2, RulesSame
  <1>5. ASSUME NEW b \in Authelias, AReconcile(b) \/ AReconcileError(b)
        PROVE  client' = client /\ ing' = ing
    BY <1>5, AutheliaReconcileSteps, ReconcileTypeStep DEF vars
  <1>6. ASSUME NEW b \in Authelias, ACluster(b) \/ AUser(b)
        PROVE  client' = client /\ ing' = ing
    BY <1>6, AutheliaOtherSteps, OtherTypeStep DEF vars
  <1>7. UNCHANGED allVars => client' = client /\ ing' = ing
    BY DEF allVars, avars, vars
  <1> QED
    BY <1>v, <1>i, <1>1, <1>2, <1>3, <1>4, <1>5, <1>6, <1>7 DEF HeliopNext

\* Digests that are right stay right.
LEMMA KnownStep ==
    ASSUME HeliopTypeOK, HeliopTypeOK', CacheInv, OnceInv, [HeliopNext]_allVars,
           NEW D, Known(D)
    PROVE  Known(D)'
  <1> SUFFICES ASSUME ClientsStay, NEW c \in Clients, D[c] # Absent
               PROVE  secret'[c].live # Absent /\ D[c].digest = secret'[c].live.digest
    BY DEF Known, ClientsStay
  <1>1. secret[c].live # Absent /\ D[c].digest = secret[c].live.digest
    BY DEF Known
  <1>2. TypeOK /\ TypeOK' /\ LinkedInv /\ [Next]_vars /\ ClientOnce(c) /\ SecretOnce(c)
    BY HeliopStep DEF HeliopTypeOK, CacheInv, OnceInv
  <1> QED
    BY <1>1, <1>2, SecretOnceStep

\* A claim that is there stays.
LEMMA ClaimKept ==
    ASSUME HeliopTypeOK, [HeliopNext]_allVars, NEW a \in Authelias,
           pvc[a].live # Absent
    PROVE  pvc'[a].live # Absent
  <1>1. pvc'[a] = Observe(pvc[a]) => pvc'[a].live = pvc[a].live
    BY DEF Observe
  <1>2. pvc'[a] = Relist(pvc[a]) => pvc'[a].live = pvc[a].live
    BY DEF Relist
  <1>3. pvc'[a] = Write(pvc[a], "claim") => pvc'[a].live = "claim"
    BY DEF Write
  <1> QED
    BY <1>1, <1>2, <1>3, ClaimMoves, HeliopAbsentAssumption

\* While what a reads stays the same, so does what it is to be rendered from.
LEMMA RendersKept ==
    ASSUME HeliopTypeOK, HeliopTypeOK', CacheInv, OnceInv, [HeliopNext]_allVars,
           NEW a, au'[a] = au[a], SeenSpecs(a)' = SeenSpecs(a),
           Rules(SeenIngresses)' = Rules(SeenIngresses),
           NEW config, NEW missing, Renders(a, config, missing)
    PROVE  Renders(a, config, missing)'
  <1>1. PICK D \in [Clients -> SObj] :
          /\ Known(D)
          /\ missing \/ Waiting(SeenSpecs(a), D) = {}
          /\ config \in Renderings(au[a].live.spec, SeenSpecs(a), D, SeenIngresses)
    BY DEF Renders
  <1>2. Known(D)'
    BY <1>1, KnownStep
  <1>3. missing \/ Waiting(SeenSpecs(a)', D) = {}
    BY <1>1
  <1>4. config \in Renderings(au'[a].live.spec, SeenSpecs(a)', D, SeenIngresses')
    BY <1>1 DEF Renderings, Rules
  <1> QED
    BY <1>1, <1>2, <1>3, <1>4 DEF Renders, Waiting, Renderings, Collected, SortedByID

-----------------------------------------------------------------------------
(* Every step keeps every Authelia fresh. *)

\* A step of somebody else.
LEMMA FrameStep ==
    ASSUME HeliopTypeOK, HeliopTypeOK', CacheInv, OnceInv, [HeliopNext]_allVars,
           ~HeliopRestart, NEW a \in Authelias, ~AReconcile(a), ~AReconcileError(a),
           Fresh(a)
    PROVE  Fresh(a)'
  <1> SUFFICES ASSUME ~Stir(a)' PROVE IF AWorking(a)' THEN Track(a)' ELSE Done(a)'
    BY DEF Fresh
  <1>1. /\ au'[a] = au[a] /\ \A k \in Kinds : own'[a][k] = own[a][k]
        /\ ~Lagging(au[a]) /\ ~Stir(a)
    BY StillStep DEF AReconcile
  <1>2. a \notin aqueue' /\ au[a].seen = au[a].live
    BY <1>1 DEF Stir, CacheInv, Linked
  <1>3. /\ AWorking(a)' <=> AWorking(a)
        /\ AWorking(a) => aworker' = aworker
    BY WorkerFrame
  <1>4. pvc[a].live # Absent => pvc'[a].live # Absent
    BY ClaimKept
  <1>5. CASE AWorking(a)
    <2>1. Track(a)
      BY <1>1, <1>5 DEF Fresh
    <2>2. au[a].live # Absent /\ aworker' = aworker
      BY <2>1, <1>3, <1>5, AWorkerType DEF Track, AWorking
    <2>3. SeenSpecs(a)' = SeenSpecs(a) /\ Rules(SeenIngresses)' = Rules(SeenIngresses)
      BY <1>2, <2>2, InputFrame
    <2>4. Renders(a, aworker.config, aworker.missing)
             => Renders(a, aworker.config, aworker.missing)'
      <3> DEFINE config == aworker.config
                 missing == aworker.missing
      <3>1. config' = config /\ missing' = missing
        BY <2>2
      <3>2. \A x, y : Renders(a, x, y) => Renders(a, x, y)'
        BY <1>1, <2>3, RendersKept
      <3> QED
        BY <3>1, <3>2 DEF Renders
    <2>5. Passed(a, aworker) => Passed(a, aworker)'
      BY <1>1, <1>4, <2>2 DEF Passed, Kinds, Template
    <2>6. Track(a)'
      BY <2>1, <2>2, <2>3, <2>4, <2>5, <1>1 DEF Track
    <2> QED
      BY <2>6, <1>3, <1>5
  <1>6. CASE ~AWorking(a)
    <2>1. Done(a)
      BY <1>1, <1>6 DEF Fresh
    <2>2. Done(a)'
      <3> SUFFICES ASSUME au'[a].live # Absent
                   PROVE  \E config : Built(a, config)' /\ Renders(a, config, FALSE)'
        BY DEF Done
      <3>1. PICK config : Built(a, config) /\ Renders(a, config, FALSE)
        BY <1>1, <2>1 DEF Done
      <3>2. SeenSpecs(a)' = SeenSpecs(a) /\ Rules(SeenIngresses)' = Rules(SeenIngresses)
        BY <1>1, <1>2, InputFrame
      <3>3. Renders(a, config, FALSE)'
        BY <3>1, <3>2, <1>1, RendersKept
      <3>4. Built(a, config)'
        BY <3>1, <1>1, <1>4 DEF Built, Kinds, Template, StatusOf
      <3> QED
        BY <3>3, <3>4
    <2> QED
      BY <2>2, <1>3, <1>6
  <1> QED
    BY <1>5, <1>6

\* A reconcile that starts has read what the cache holds.
LEMMA StartStep ==
    ASSUME HeliopTypeOK, HeliopTypeOK', CacheInv, CacheInv', [HeliopNext]_allVars,
           ~HeliopRestart, NEW a \in Authelias, AStart(a)
    PROVE  Fresh(a)'
  <1> SUFFICES ASSUME ~Stir(a)' PROVE IF AWorking(a)' THEN Track(a)' ELSE Done(a)'
    BY DEF Fresh
  <1>1. au'[a] = au[a] /\ au[a].seen = au[a].live
    BY StillStep DEF CacheInv, Linked
  <1>2. CASE au[a].seen = Absent
    <2>1. aworker' = Idle
      BY <1>2 DEF AStart
    <2> QED
      BY <1>1, <1>2, <2>1 DEF AWorking, Done
  <1>3. CASE au[a].seen # Absent
    <2>1. /\ client' = client
          /\ aworker' = [at |-> "collect", a |-> a, obj |-> au[a].seen, specs |-> SeenSpecs(a)]
      BY <1>3 DEF AStart, SeenSpecs, vars
    <2>2. SeenSpecs(a)' = SeenSpecs(a)
      BY <2>1, SeenSpecsSame
    <2>3. aworker'.at = "collect" /\ aworker'.obj = au'[a].live /\ aworker'.specs = SeenSpecs(a)'
          /\ aworker'.a = a
      BY <2>1, <2>2, <1>1
    <2>4. AWorking(a)'
      BY <2>3 DEF AWorking, Idle
    <2> QED
      BY <2>3, <2>4 DEF Track
  <1> QED
    BY <1>2, <1>3

\* A step of the reconcile of a that is under way and writes nothing.
LEMMA StillReconcile ==
    ASSUME HeliopTypeOK, HeliopTypeOK', CacheInv, OnceInv, [HeliopNext]_allVars,
           ~HeliopRestart, NEW a \in Authelias, AReconcile(a), AWorking(a),
           Fresh(a), ~Stir(a)'
    PROVE  /\ Track(a) /\ au'[a] = au[a] /\ \A k \in Kinds : own'[a][k] = own[a][k]
           /\ au[a].seen = au[a].live /\ au[a].live # Absent
           /\ \A k \in Kinds : own[a][k].seen = own[a][k].live
           /\ SeenSpecs(a)' = SeenSpecs(a) /\ SeenIngresses' = SeenIngresses
           /\ \A config, missing :
                Renders(a, config, missing) => Renders(a, config, missing)'
  <1>1. ~AStart(a)
    BY DEF AStart, AWorking
  <1>2. /\ au'[a] = au[a] /\ \A k \in Kinds : own'[a][k] = own[a][k]
        /\ ~Lagging(au[a]) /\ ~Stir(a) /\ \A k \in Kinds : ~Lagging(own[a][k])
    BY <1>1, StillStep
  <1>3. Track(a)
    BY <1>2 DEF Fresh
  <1>4. /\ au[a].seen = au[a].live /\ \A k \in Kinds : own[a][k].seen = own[a][k].live
        /\ au[a].live # Absent
    BY <1>2, <1>3, AWorkerType DEF CacheInv, Linked, Track, AWorking
  <1>5. client' = client /\ ing' = ing
    BY AutheliaReconcileSteps, ReconcileTypeStep DEF vars
  <1>6. SeenSpecs(a)' = SeenSpecs(a) /\ SeenIngresses' = SeenIngresses
        /\ Rules(SeenIngresses)' = Rules(SeenIngresses)
    BY <1>5, SeenSpecsSame, RulesSame DEF SeenIngresses
  <1>7. \A config, missing : Renders(a, config, missing) => Renders(a, config, missing)'
    BY <1>2, <1>6, RendersKept
  <1> QED
    BY <1>2, <1>3, <1>4, <1>6, <1>7

\* What is collected is rendered from what the cache holds.
LEMMA CollectStep ==
    ASSUME HeliopTypeOK, HeliopTypeOK', CacheInv, OnceInv, OnceInv', [HeliopNext]_allVars,
           ~HeliopRestart, NEW a \in Authelias, ACollect(a), Fresh(a)
    PROVE  Fresh(a)'
  <1> SUFFICES ASSUME ~Stir(a)' PROVE AWorking(a)' /\ Track(a)'
    BY DEF Fresh
  <1>w. /\ AReconcile(a) /\ AWorking(a) /\ aworker.at = "collect" /\ aworker # Idle
        /\ Collecting(aworker)
    BY AtType DEF AReconcile, ACollect, At, AWorking
  <1>1. /\ Track(a) /\ au'[a] = au[a]
        /\ SeenSpecs(a)' = SeenSpecs(a)
    BY <1>w, StillReconcile
  <1>2. /\ aworker.obj = au[a].live /\ aworker.specs = SeenSpecs(a)
    BY <1>1, <1>w DEF Track
  <1> DEFINE D == [c \in Clients |-> secret[c].seen]
  <1>3. PICK config \in Renderings(aworker.obj.spec, aworker.specs, D, SeenIngresses) :
            aworker' = [at |-> IF aworker.obj.spec.existing THEN "cm" ELSE "core",
                        a |-> a, obj |-> aworker.obj, config |-> config,
                        missing |-> Waiting(aworker.specs, D) # {},
                        ready |-> FALSE]
    BY DEF ACollect, SeenIngresses
  <1>4. D \in [Clients -> SObj]
    BY DEF HeliopTypeOK, TypeOK, Rep, SObj
  <1>5. Known(D)
    <2> SUFFICES ASSUME ClientsStay, NEW c \in Clients, secret[c].seen # Absent
                 PROVE  /\ secret[c].live # Absent
                        /\ secret[c].seen.digest = secret[c].live.digest
      BY DEF Known
    <2>1. SecretOnce(c) /\ secret[c].seen \in Versions(secret[c])
      BY DEF OnceInv, Versions
    <2> QED
      BY <2>1 DEF SecretOnce
  <1> HIDE DEF D
  <1>6. PICK missing : missing = (Waiting(aworker.specs, D) # {})
    OBVIOUS
  <1>7. Renders(a, config, missing)
    BY <1>2, <1>3, <1>4, <1>5, <1>6 DEF Renders
  <1>8. Renders(a, config, missing)'
    BY <1>7, <1>w, StillReconcile
  <1>9. /\ aworker'.config = config /\ aworker'.missing = missing
        /\ aworker'.obj = au'[a].live /\ aworker'.a = a
        /\ aworker'.at = IF aworker.obj.spec.existing THEN "cm" ELSE "core"
        /\ aworker'.obj = aworker.obj
    BY <1>1, <1>2, <1>3, <1>6
  <1>10. Renders(a, aworker.config, aworker.missing)'
    BY <1>8, <1>9 DEF Renders
  <1>11. Passed(a, aworker)'
    BY <1>9 DEF Passed
  <1>12. AWorking(a)'
    BY <1>9 DEF AWorking, Idle
  <1> QED
    BY <1>9, <1>10, <1>11, <1>12 DEF Track

\* An object the reconcile leaves as it is is the desired one.
LEMMA ApplyStep ==
    ASSUME HeliopTypeOK, HeliopTypeOK', CacheInv, OnceInv, [HeliopNext]_allVars,
           ~HeliopRestart, NEW a \in Authelias, NEW k \in Kinds, AApply(a, k), Fresh(a)
    PROVE  Fresh(a)'
  <1> SUFFICES ASSUME ~Stir(a)' PROVE AWorking(a)' /\ Track(a)'
    BY DEF Fresh
  <1>w. /\ AReconcile(a) /\ AWorking(a) /\ At(a, k) /\ aworker.at = k /\ k # "collect"
        /\ Applying(aworker) /\ aworker.a = a
    BY AtType DEF AReconcile, AApply, At, AWorking, Kinds
  <1>1. /\ Track(a) /\ au'[a] = au[a] /\ \A j \in Kinds : own'[a][j] = own[a][j]
        /\ own[a][k].seen = own[a][k].live
        /\ \A config, missing : Renders(a, config, missing) => Renders(a, config, missing)'
    BY <1>w, StillReconcile
  <1>2. /\ aworker.obj = au[a].live
        /\ Renders(a, aworker.config, aworker.missing) /\ Passed(a, aworker)
    BY <1>1, <1>w DEF Track
  <1>3. PICK n \in Draw(k) :
          /\ own' = [own EXCEPT ![a][k] =
                       IF Sends(a, k, n) THEN Put(@, Desired(a, k, n)) ELSE @]
          /\ aworker' = [aworker EXCEPT !.at = After(k), !.ready = Desired(a, k, n).ready]
    BY DEF AApply
  <1>4. /\ Desired(a, k, n) \in OwnedObj(k) /\ Desired(a, k, n) # Absent
    BY <1>w, DesiredType DEF OwnedObj
  <1>5. own[a][k].live = Desired(a, k, n)
    <2>1. CASE Sends(a, k, n)
      <3>1. own[a][k] \in Rep(OwnedObj(k)) /\ Linked(own[a][k]) /\ OwnShape(own)
        BY ObjectTypes DEF CacheInv
      <3>2. own'[a][k] = Put(own[a][k], Desired(a, k, n))
        BY <1>3, <2>1, <3>1 DEF OwnShape
      <3> QED
        BY <1>1, <1>4, <3>1, <3>2, PutLinked
    <2>2. CASE ~Sends(a, k, n)
      BY <1>1, <2>2 DEF Sends
    <2> QED
      BY <2>1, <2>2
  <1>6. /\ aworker'.at = After(k) /\ aworker'.ready = Desired(a, k, n).ready
        /\ aworker'.config = aworker.config /\ aworker'.missing = aworker.missing
        /\ aworker'.obj = aworker.obj /\ aworker'.a = a
    BY <1>3, <1>w DEF Applying
  <1>7. Passed(a, aworker)'
    <2> DEFINE o(j) == own[a][j].live
    <2>1. \A j \in Kinds : own'[a][j].live = o(j)
      BY <1>1
    <2>2. o(k) # Absent
      BY <1>4, <1>5
    <2>3. CASE k = "core"
      BY <2>1, <2>2, <2>3, <1>6 DEF Passed, After, Kinds
    <2>4. CASE k = "cm"
      <3>1. o("cm").content = aworker.config
        BY <1>5, <2>4 DEF Desired
      <3>2. aworker.obj.spec.existing \/ o("core") # Absent
        BY <1>2, <1>w, <2>4 DEF Passed
      <3> QED
        BY <2>1, <2>2, <2>4, <3>1, <3>2, <1>6 DEF Passed, After, Kinds
    <2>5. CASE k = "svc"
      <3>1. /\ aworker.obj.spec.existing \/ o("core") # Absent
            /\ o("cm") # Absent /\ o("cm").content = aworker.config
        BY <1>2, <1>w, <2>5 DEF Passed
      <3>2. aworker'.at = IF aworker.obj.spec.vct THEN "pvc" ELSE "deploy"
        BY <1>6, <2>5 DEF After
      <3> QED
        BY <2>1, <2>2, <2>5, <3>1, <3>2, <1>6 DEF Passed, Kinds
    <2>6. CASE k = "deploy"
      <3>1. /\ aworker.obj.spec.existing \/ o("core") # Absent
            /\ o("cm") # Absent /\ o("cm").content = aworker.config
            /\ o("svc") # Absent
            /\ aworker.obj.spec.vct => pvc[a].live # Absent
        BY <1>2, <1>w, <2>6 DEF Passed
      <3>2. o("deploy").content = Template(aworker.obj.spec, aworker.config)
            /\ o("deploy").ready = aworker'.ready
        BY <1>5, <1>6, <2>6 DEF Desired
      <3>3. pvc[a].live # Absent => pvc'[a].live # Absent
        BY ClaimKept
      <3>4. aworker'.at = "status"
        BY <1>6, <2>6 DEF After
      <3> HIDE DEF o
      <3>5. Template(aworker.obj.spec, aworker.config)' = Template(aworker.obj.spec, aworker.config)
        BY <1>6 DEF Template
      <3> QED
        BY <2>1, <2>2, <2>6, <3>1, <3>2, <3>3, <3>4, <3>5, <1>6 DEF Passed, Kinds
    <2> QED
      BY <2>3, <2>4, <2>5, <2>6 DEF Kinds
  <1>8. Renders(a, aworker.config, aworker.missing)'
    BY <1>1, <1>2, <1>6 DEF Renders
  <1>9. AWorking(a)' /\ aworker'.at # "collect"
    BY <1>6 DEF AWorking, Idle, After, Kinds
  <1> QED
    BY <1>1, <1>2, <1>6, <1>7, <1>8, <1>9 DEF Track

\* The claim is there when the reconcile goes on.
LEMMA ClaimStep ==
    ASSUME HeliopTypeOK, HeliopTypeOK', CacheInv, OnceInv, [HeliopNext]_allVars,
           ~HeliopRestart, NEW a \in Authelias, APVC(a), Fresh(a)
    PROVE  Fresh(a)'
  <1> SUFFICES ASSUME ~Stir(a)' PROVE AWorking(a)' /\ Track(a)'
    BY DEF Fresh
  <1>w. /\ AReconcile(a) /\ AWorking(a) /\ aworker.at = "pvc" /\ Applying(aworker)
        /\ aworker.a = a
    BY AtType DEF AReconcile, APVC, At, AWorking
  <1>1. /\ Track(a) /\ au'[a] = au[a] /\ \A j \in Kinds : own'[a][j] = own[a][j]
        /\ \A config, missing : Renders(a, config, missing) => Renders(a, config, missing)'
    BY <1>w, StillReconcile
  <1>2. /\ aworker.obj = au[a].live
        /\ Renders(a, aworker.config, aworker.missing) /\ Passed(a, aworker)
    BY <1>1, <1>w DEF Track
  <1>3. ~(pvc[a].seen = Absent /\ pvc[a].live # Absent)
    BY DEF APVC, ARequeue, Stir
  <1>4. pvc' = [pvc EXCEPT ![a] = IF @.seen = Absent THEN Write(@, "claim") ELSE @]
        /\ aworker' = [aworker EXCEPT !.at = "deploy"]
    BY <1>3 DEF APVC, Proceed
  <1>5. pvc'[a].live # Absent
    <2>1. pvc \in [Authelias -> Rep(Claim)] /\ ClaimStays(pvc[a])
      BY ObjectTypes DEF CacheInv
    <2>2. CASE pvc[a].seen = Absent
      BY <1>4, <2>1, <2>2, HeliopAbsentAssumption DEF Write
    <2>3. CASE pvc[a].seen # Absent
      BY <1>4, <2>1, <2>3 DEF ClaimStays, Versions
    <2> QED
      BY <2>2, <2>3
  <1>6. /\ aworker'.at = "deploy" /\ aworker'.obj = aworker.obj /\ aworker'.a = a
        /\ aworker'.config = aworker.config /\ aworker'.missing = aworker.missing
    BY <1>4, <1>w DEF Applying
  <1>7. Passed(a, aworker)'
    BY <1>1, <1>2, <1>5, <1>6, <1>w DEF Passed, Kinds
  <1>8. Renders(a, aworker.config, aworker.missing)'
    BY <1>1, <1>2, <1>6 DEF Renders
  <1>9. AWorking(a)'
    BY <1>6 DEF AWorking, Idle
  <1> QED
    BY <1>1, <1>2, <1>6, <1>7, <1>8, <1>9 DEF Track

\* The reconcile that ends without writing the status has built everything.
LEMMA StatusStep ==
    ASSUME HeliopTypeOK, HeliopTypeOK', CacheInv, OnceInv, [HeliopNext]_allVars,
           ~HeliopRestart, NEW a \in Authelias, AStatus(a), Fresh(a)
    PROVE  Fresh(a)'
  <1> SUFFICES ASSUME ~Stir(a)' PROVE ~AWorking(a)' /\ Done(a)'
    BY DEF Fresh
  <1>w. /\ AReconcile(a) /\ AWorking(a) /\ aworker.at = "status" /\ Applying(aworker)
    BY AtType DEF AReconcile, AStatus, At, AWorking
  <1>1. /\ Track(a) /\ au'[a] = au[a] /\ \A j \in Kinds : own'[a][j] = own[a][j]
        /\ au[a].live # Absent
        /\ \A config, missing : Renders(a, config, missing) => Renders(a, config, missing)'
    BY <1>w, StillReconcile
  <1>2. /\ aworker.obj = au[a].live
        /\ Renders(a, aworker.config, aworker.missing) /\ Passed(a, aworker)
    BY <1>1, <1>w DEF Track
  <1>3. aworker' = Idle /\ ~aworker.missing
    BY <1>1, <1>2 DEF AStatus, Stir
  <1>4. aworker.obj.status = StatusOf(aworker.config, aworker.ready)
    <2> DEFINE status == StatusOf(aworker.config, aworker.ready)
    <2>1. SUFFICES ASSUME aworker.obj.status # status PROVE FALSE
      OBVIOUS
    <2>2. au' = [au EXCEPT ![a] = Write(au[a], WithStatus(aworker.obj, status))]
      BY <1>1, <1>2, <2>1 DEF AStatus
    <2>3. au'[a] = Write(au[a], WithStatus(aworker.obj, status)) /\ au[a] \in Rep(AObj)
          /\ au'[a] \in Rep(AObj)
      BY <2>2, ObjectTypes DEF HeliopTypeOK, AObj
    <2>4. WithStatus(aworker.obj, status) \in AObj
      BY <2>3, WrittenType
    <2>5. Lagging(au'[a])
      BY <2>3, <2>4, WriteLinked
    <2> QED
      BY <2>5 DEF Stir
  <1>5. Built(a, aworker.config)
    BY <1>2, <1>4, <1>w DEF Built, Passed, Kinds
  <1>6. PICK config : config = aworker.config
    OBVIOUS
  <1>7. Built(a, config)'
    <2>1. pvc[a].live # Absent => pvc'[a].live # Absent
      BY ClaimKept
    <2> QED
      BY <1>1, <1>5, <1>6, <2>1 DEF Built, Kinds, Template, StatusOf
  <1>8. Renders(a, config, FALSE)
    BY <1>2, <1>3, <1>6 DEF Renders
  <1>9. Renders(a, config, FALSE)'
    BY <1>1, <1>8
  <1> QED
    BY <1>3, <1>7, <1>9 DEF Done, AWorking

\* Every step keeps every Authelia stirred, or tracked, or done.
LEMMA FreshStep ==
    HeliopTypeOK /\ HeliopTypeOK' /\ CacheInv /\ CacheInv' /\ OnceInv /\ OnceInv'
      /\ FreshInv /\ [HeliopNext]_allVars => FreshInv'
  <1> SUFFICES ASSUME HeliopTypeOK, HeliopTypeOK', CacheInv, CacheInv', OnceInv, OnceInv',
                      FreshInv, [HeliopNext]_allVars, NEW a \in Authelias
               PROVE  Fresh(a)'
    BY DEF FreshInv
  <1>f. Fresh(a)
    BY DEF FreshInv
  <1>1. CASE HeliopRestart
    <2>1. a \notin aqueue' => au[a].live = Absent
      BY <1>1 DEF HeliopRestart
    <2>2. au'[a].live = au[a].live /\ aworker' = Idle
      BY <1>1 DEF HeliopRestart, Relist
    <2> QED
      BY <2>1, <2>2 DEF Fresh, Stir, AWorking, Done
  <1>2. CASE ~HeliopRestart /\ AStart(a)
    BY <1>2, StartStep
  <1>3. CASE ~HeliopRestart /\ (ACollect(a) \/ APVC(a) \/ AStatus(a))
    BY <1>3, <1>f, CollectStep, ClaimStep, StatusStep
  <1>4. ASSUME ~HeliopRestart, NEW k \in Kinds, AApply(a, k) PROVE Fresh(a)'
    BY <1>4, <1>f, ApplyStep
  <1>5. ASSUME NEW k \in Kinds, AApplyRefused(a, k) PROVE Fresh(a)'
    BY <1>5 DEF AApplyRefused, ARequeue, Fresh, Stir
  <1>6. CASE AReconcileError(a)
    BY <1>6 DEF AReconcileError, ARequeue, Fresh, Stir
  <1>7. CASE ~HeliopRestart /\ ~AReconcile(a) /\ ~AReconcileError(a)
    BY <1>7, <1>f, FrameStep
  <1> QED
    BY <1>1, <1>2, <1>3, <1>4, <1>5, <1>6, <1>7 DEF AReconcile

\* There are no Authelias yet.
LEMMA FreshInit == HeliopInit => FreshInv
  <1> SUFFICES ASSUME HeliopInit, NEW a \in Authelias PROVE ~AWorking(a) /\ Done(a)
    BY DEF FreshInv, Fresh
  <1>1. aworker = Idle /\ au[a].live = Absent
    BY DEF HeliopInit, NeverWritten
  <1> QED
    BY <1>1 DEF AWorking, Done

\* The invariants hold in every behaviour of the operator.
LEMMA FreshCorrect == HeliopSpec => [](HeliopTypeOK /\ CacheInv /\ OnceInv /\ FreshInv)
  <1>1. HeliopInit => CacheInv /\ OnceInv /\ FreshInv
    BY CacheInit, OnceInit, FreshInit DEF HeliopInit
  <1>2. HeliopTypeOK /\ HeliopTypeOK' /\ CacheInv /\ OnceInv /\ [HeliopNext]_allVars => OnceInv'
    BY OnceStep, HeliopStep DEF HeliopTypeOK, CacheInv
  <1> QED
    BY <1>1, <1>2, HeliopTypeCorrect, CacheStep, FreshStep, PTL DEF HeliopSpec

-----------------------------------------------------------------------------
(* When nothing is outstanding. *)

\* When nothing is outstanding for an Authelia, its objects are what the API
\* server's resource, clients and Ingresses ask, with some digest for each
\* confidential client, though not always the newest.
FreshUpToDigests ==
    \A a \in Authelias : Quiet(a) =>
        \E D \in [Clients -> SObj] :
            /\ Known(D)
            /\ au[a].live # Absent => Waiting(LiveSpecs(a), D) = {}
            /\ DeployedFrom(a, LiveSpecs(a), D, LiveIngresses)

\* The caches are current when nothing is outstanding.
LEMMA QuietCaches ==
    ASSUME CacheInv, NEW a \in Authelias, Quiet(a)
    PROVE  /\ SeenSpecs(a) = LiveSpecs(a) /\ SeenIngresses = LiveIngresses
           /\ ~Stir(a) /\ ~AWorking(a)
  <1>1. \A c \in Clients : client[c].seen = client[c].live
    BY DEF Quiet, Pending, CacheInv, LinkedInv, Linked
  <1>2. \A i \in Ingresses : ing[i].seen = ing[i].live
    BY DEF Quiet, CacheInv, Linked
  <1>3. {d \in Clients : client[d].seen # Absent /\ ClientTargets(d, client[d].seen.spec, a)}
        = {d \in Clients : client[d].live # Absent /\ ClientTargets(d, client[d].live.spec, a)}
    BY <1>1
  <1>4. SeenSpecs(a) = LiveSpecs(a)
    BY <1>1, <1>3 DEF SeenSpecs, LiveSpecs
  <1>5. SeenIngresses = LiveIngresses
    BY <1>2 DEF SeenIngresses, LiveIngresses
  <1>6. ~Stir(a) /\ ~AWorking(a)
    BY DEF Quiet, Stir
  <1> QED
    BY <1>4, <1>5, <1>6

\* The invariant says what the quiet state is.
LEMMA QuietFresh == CacheInv /\ FreshInv => FreshUpToDigests
  <1> SUFFICES ASSUME CacheInv, FreshInv, NEW a \in Authelias, Quiet(a)
               PROVE  \E D \in [Clients -> SObj] :
                         /\ Known(D)
                         /\ au[a].live # Absent => Waiting(LiveSpecs(a), D) = {}
                         /\ DeployedFrom(a, LiveSpecs(a), D, LiveIngresses)
    BY DEF FreshUpToDigests
  <1>1. Done(a) /\ SeenSpecs(a) = LiveSpecs(a) /\ SeenIngresses = LiveIngresses
    BY QuietCaches DEF FreshInv, Fresh
  <1>2. CASE au[a].live = Absent
    <2> DEFINE D == [c \in Clients |-> Absent]
    <2>1. D \in [Clients -> SObj] /\ Known(D)
      BY DEF SObj, Known
    <2>2. \A k \in Kinds : own[a][k].live = Absent
      BY <1>2 DEF Quiet, AOrphaned
    <2>3. DeployedFrom(a, LiveSpecs(a), D, LiveIngresses)
      BY <1>2, <2>2 DEF DeployedFrom
    <2> QED
      BY <1>2, <2>1, <2>3
  <1>3. CASE au[a].live # Absent
    <2>1. PICK config : Built(a, config) /\ Renders(a, config, FALSE)
      BY <1>1, <1>3 DEF Done
    <2>2. PICK D \in [Clients -> SObj] :
            /\ Known(D) /\ Waiting(LiveSpecs(a), D) = {}
            /\ config \in Renderings(au[a].live.spec, LiveSpecs(a), D, LiveIngresses)
      BY <1>1, <2>1 DEF Renders
    <2>3. DeployedFrom(a, LiveSpecs(a), D, LiveIngresses)
      BY <1>3, <2>1, <2>2 DEF Built, DeployedFrom
    <2> QED
      BY <2>2, <2>3
  <1> QED
    BY <1>2, <1>3

\* The configuration depends on the digests of the confidential clients only.
LEMMA SameRenderings ==
    ASSUME NEW spec, NEW specs, NEW D, NEW E, NEW ingresses,
           Waiting(specs, D) = {},
           \A c \in DOMAIN specs : ~specs[c].public => DigestIn(D[c]) = DigestIn(E[c])
    PROVE  Renderings(spec, specs, D, ingresses) = Renderings(spec, specs, E, ingresses)
  <1>1. Waiting(specs, E) = {}
    BY DEF Waiting
  <1>2. \A c \in DOMAIN specs : ClientEntry(c, specs[c], D[c]) = ClientEntry(c, specs[c], E[c])
    BY DEF ClientEntry
  <1>3. Collected(specs, D) = Collected(specs, E)
    BY <1>1, <1>2 DEF Collected
  <1> QED
    BY <1>3 DEF Renderings

\* Digests that are right are those of the Secrets at the API server.
LEMMA QuietCorrect ==
    ASSUME ClientsStay, FreshUpToDigests PROVE NoStaleConfig
  <1> SUFFICES ASSUME NEW a \in Authelias, Quiet(a) PROVE Deployed(a)
    BY DEF NoStaleConfig
  <1>1. PICK D \in [Clients -> SObj] :
          /\ Known(D)
          /\ au[a].live # Absent => Waiting(LiveSpecs(a), D) = {}
          /\ DeployedFrom(a, LiveSpecs(a), D, LiveIngresses)
    BY DEF FreshUpToDigests
  <1>2. CASE au[a].live = Absent
    BY <1>1, <1>2 DEF DeployedFrom, Deployed
  <1>3. CASE au[a].live # Absent
    <2>1. DOMAIN LiveSpecs(a) \subseteq Clients
      BY DEF LiveSpecs
    <2>2. ASSUME NEW c \in DOMAIN LiveSpecs(a), ~LiveSpecs(a)[c].public
          PROVE  DigestIn(D[c]) = DigestIn(LiveSecrets[c])
      <3>1. c \in Clients /\ DigestIn(D[c]) # NoDigest
        BY <1>1, <1>3, <2>1, <2>2 DEF Waiting
      <3>2. D[c] # Absent
        BY <3>1 DEF DigestIn
      <3>3. secret[c].live # Absent /\ D[c].digest = secret[c].live.digest
        BY <1>1, <3>1, <3>2 DEF Known
      <3> QED
        BY <3>1, <3>2, <3>3 DEF DigestIn, LiveSecrets
    <2>3. Renderings(au[a].live.spec, LiveSpecs(a), D, LiveIngresses)
            = Renderings(au[a].live.spec, LiveSpecs(a), LiveSecrets, LiveIngresses)
      BY <1>1, <1>3, <2>2, SameRenderings
    <2> QED
      BY <1>1, <1>3, <2>3 DEF DeployedFrom, Deployed
  <1> QED
    BY <1>2, <1>3

\* Whatever is edited, deleted, refused, delayed or restarted, the Authelia
\* controller does not come to rest while the ConfigMap, the Deployment, the
\* Service, the core Secret, the claim or the status differ from what the
\* resource, the clients and the Ingresses at the API server ask for, other
\* than in the value of a client's digest.
THEOREM ConfigFollows == HeliopSpec => []FreshUpToDigests
  BY FreshCorrect, QuietFresh, PTL

\* As long as clients stay and keep their kind and their Secret, no stale
\* configuration is left behind: when nothing is outstanding for an Authelia, its
\* objects are what the resource, the clients, their Secrets and the Ingresses at
\* the API server ask for.
THEOREM ConfigFresh ==
    ASSUME ClientsStay PROVE HeliopSpec => []NoStaleConfig
  <1>1. FreshUpToDigests => NoStaleConfig
    BY QuietCorrect
  <1> QED
    BY <1>1, ConfigFollows, PTL
=============================================================================
