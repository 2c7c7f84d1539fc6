-------------------------- MODULE OAuthClientProofs --------------------------
(***************************************************************************)
(* Proofs about the AutheliaOAuthClient controller, for every set of       *)
(* clients and specs and without the bounds TLC needs.                     *)
(***************************************************************************)
EXTENDS OAuthClient, KubeProofs

CObj == ClientObj \cup {Absent}
SObj == SecretObj \cup {Absent}

\* A busy worker is at one of the two API calls of the reconcile.
LEMMA WorkerBusy ==
    ASSUME TypeOK, worker # Idle
    PROVE  /\ worker \in Busy /\ worker.c \in Clients /\ worker.obj \in ClientObj
           /\ worker.at \in {"secret", "status"}
  BY DEF TypeOK, Busy

\* A worker that has named its step is busy.
LEMMA WorkerAt ==
    ASSUME TypeOK, worker.at \in {"secret", "status"}
    PROVE  worker # Idle
  BY DEF Idle

\* The function passed to CreateOrUpdate yields a Secret owned by the client.
LEMMA MutateType ==
    ASSUME NEW found \in SObj, NEW c \in Clients, NEW obj \in ClientObj,
           NEW n \in Draws
    PROVE  MutateSecret(found, c, obj, n) \in SecretObj
  <1>1. n \in Nat /\ c \in Nat \ {0} /\ obj.uid \in Nat \ {0}
        /\ obj.spec.public \in BOOLEAN /\ obj.spec.id \in Nat
    BY ConstantsAssumption DEF ClientObj
  <1> DEFINE base == IF found = Absent THEN EmptySecret ELSE found
  <1>2. base.secret \in Nat /\ base.digest \in Digest
    BY DEF SObj, EmptySecret, SecretObj, Digest, NoDigest
  <1> QED
    BY <1>1, <1>2 DEF MutateSecret, SecretObj, Digest, NoDigest, ClientID,
                      GenerateSecret, HashClientSecret

\* A Secret the user has taken entries from still is one, with no client_secret.
LEMMA ClearedType ==
    ASSUME NEW s \in SecretObj, NEW op
    PROVE  /\ Cleared(op, s) \in SecretObj /\ Cleared(op, s).secret = 0
           /\ op = "clearBoth" => Cleared(op, s).digest = NoDigest
  <1> DEFINE d == IF op = "clearBoth" THEN NoDigest ELSE s.digest
  <1>1. d \in Digest
    BY DEF SecretObj, Digest, NoDigest
  <1>2. Cleared(op, s) = [owner |-> s.owner, id |-> s.id, secret |-> 0, digest |-> d]
    BY DEF Cleared
  <1>3. op = "clearBoth" => d = NoDigest
    OBVIOUS
  <1> HIDE DEF d
  <1> QED
    BY <1>1, <1>2, <1>3 DEF SecretObj

\* Every step keeps the types.
LEMMA TypeStep == TypeOK /\ [Next]_vars => TypeOK'
  <1> SUFFICES ASSUME TypeOK, [Next]_vars PROVE TypeOK'
    OBVIOUS
  <1> DEFINE CT == client' \in [Clients -> Rep(CObj)]
             ST == secret' \in [Clients -> Rep(SObj)]
             RT == /\ queue' \subseteq Clients
                   /\ worker' \in Busy \cup {Idle}
                   /\ uids' \in Nat /\ edits' \in Nat /\ faults' \in Nat
  <1> SUFFICES CT /\ ST /\ RT
    BY DEF TypeOK, CObj, SObj
  <1>t. /\ client \in [Clients -> Rep(CObj)] /\ secret \in [Clients -> Rep(SObj)]
        /\ queue \subseteq Clients /\ worker \in Busy \cup {Idle}
        /\ uids \in Nat /\ edits \in Nat /\ faults \in Nat
    BY DEF TypeOK, CObj, SObj
  <1>w. \A c \in Clients : \A v \in CObj : Write(client[c], v) \in Rep(CObj)
    BY <1>t, WriteType
  <1>s. \A c \in Clients : \A v \in SObj : Write(secret[c], v) \in Rep(SObj)
    BY <1>t, WriteType
  <1>l. \A c \in Clients : client[c].live \in CObj /\ client[c].seen \in CObj
                           /\ secret[c].live \in SObj /\ secret[c].seen \in SObj
    BY <1>t DEF Rep
  <1>1. ASSUME NEW c \in Clients, ReconcileStart(c) PROVE CT /\ ST /\ RT
    BY <1>1, <1>t, <1>l DEF ReconcileStart, Busy, CObj
  <1>2. ASSUME NEW c \in Clients, ReconcileSecret(c) PROVE CT /\ ST /\ RT
    <2>1. worker \in Busy
      BY <1>2, WorkerAt, WorkerBusy DEF ReconcileSecret
    <2>2. \A n \in Draws : Wanted(c, n) \in SObj
      BY <2>1, <1>l, MutateType DEF Wanted, Busy, SObj
    <2>3. ST
      BY <1>2, <2>2, <1>t, <1>s DEF ReconcileSecret
    <2> QED
      BY <1>2, <2>1, <2>3, <1>t DEF ReconcileSecret, Busy
  <1>3. ASSUME NEW c \in Clients, ReconcileSecretRefused(c) PROVE CT /\ ST /\ RT
    BY <1>3, <1>t DEF ReconcileSecretRefused, Requeue
  <1>4. ASSUME NEW c \in Clients, ReconcileStatus(c) PROVE CT /\ ST /\ RT
    <2>1. CASE client[c].live # Absent /\ client[c].live = worker.obj
      <3>1. StatusNamed(client[c].live) \in CObj
        BY <2>1, <1>l DEF CObj, ClientObj, StatusNamed
      <3>2. CT
        BY <1>4, <2>1, <3>1, <1>t, <1>w DEF ReconcileStatus
      <3> QED
        BY <1>4, <2>1, <3>2, <1>t DEF ReconcileStatus
    <2>2. CASE ~(client[c].live # Absent /\ client[c].live = worker.obj)
      BY <1>4, <2>2, <1>t DEF ReconcileStatus, Requeue
    <2> QED
      BY <2>1, <2>2
  <1>5. ASSUME NEW c \in Clients, DeliverClient(c) PROVE CT /\ ST /\ RT
    <2>1. Observe(client[c]) \in Rep(CObj)
      BY <1>5, <1>t, ObserveType DEF DeliverClient
    <2> QED
      BY <1>5, <1>t, <2>1 DEF DeliverClient
  <1>6. ASSUME NEW c \in Clients, DeliverSecret(c) PROVE CT /\ ST /\ RT
    <2>1. Observe(secret[c]) \in Rep(SObj)
      BY <1>6, <1>t, ObserveType DEF DeliverSecret
    <2> QED
      BY <1>6, <1>t, <2>1 DEF DeliverSecret
  <1>7. ASSUME NEW c \in Clients, GarbageCollect(c) PROVE CT /\ ST /\ RT
    BY <1>7, <1>t, <1>s DEF GarbageCollect, SObj
  <1>8. ASSUME NEW c \in Clients, CreateClient(c) PROVE CT /\ ST /\ RT
    <2>1. \A s \in ClientSpecs :
             [uid |-> uids + 1, rv |-> 0, spec |-> s, status |-> FALSE] \in CObj
      BY <1>t DEF CObj, ClientObj
    <2> QED
      BY <1>8, <2>1, <1>t, <1>w DEF CreateClient, UserDoes
  <1>9. ASSUME NEW c \in Clients, EditClient(c) PROVE CT /\ ST /\ RT
    <2>1. \A s \in ClientSpecs :
             Respecified(client[c].live, s) \in CObj
      BY <1>9, <1>l DEF EditClient, CObj, ClientObj, Respecified
    <2> QED
      BY <1>9, <2>1, <1>t, <1>w DEF EditClient, UserDoes
  <1>10. ASSUME NEW c \in Clients, DeleteClient(c) PROVE CT /\ ST /\ RT
    BY <1>10, <1>t, <1>w DEF DeleteClient, UserDoes, CObj
  <1>11. ASSUME NEW c \in Clients, DeleteSecret(c) PROVE CT /\ ST /\ RT
    <2>1. Absent \in SObj
      BY DEF SObj
    <2> QED
      BY <1>11, <2>1, <1>t, <1>s DEF DeleteSecret, UserDoes
  <1>12. ASSUME NEW c \in Clients, ClearClientSecret(c) PROVE CT /\ ST /\ RT
    <2>1. \A op : Cleared(op, secret[c].live) \in SObj
      BY <1>12, <1>l, ClearedType DEF ClearClientSecret, SObj
    <2> QED
      BY <1>12, <2>1, <1>t, <1>s DEF ClearClientSecret, UserDoes
  <1>13. ASSUME NEW c \in Clients, ReconcileError(c) PROVE CT /\ ST /\ RT
    BY <1>13, <1>t DEF ReconcileError, Requeue, Fault
  <1>14. CASE Restart
    BY <1>14, <1>t, RelistType DEF Restart, Fault
  <1>15. CASE UNCHANGED vars
    BY <1>15, <1>t DEF vars
  <1> QED
    BY <1>1, <1>2, <1>3, <1>4, <1>5, <1>6, <1>7, <1>8, <1>9, <1>10, <1>11,
       <1>12, <1>13, <1>14, <1>15 DEF Next, Reconcile, Cluster, User

\* The initial state is well typed.
LEMMA TypeInit == Init => TypeOK
  BY DEF Init, TypeOK, Rep, NeverWritten

\* The resources, Secrets, queue and worker stay well typed in every behaviour.
THEOREM TypeCorrect == Spec => []TypeOK
  BY TypeInit, TypeStep, PTL DEF Spec

-----------------------------------------------------------------------------
(* What one step can do to a resource and to its Secret. *)

\* A step leaves a resource alone, delivers its next event, lists it afresh,
\* or writes it.
LEMMA ClientMoves ==
    ASSUME TypeOK, TypeOK', [Next]_vars, NEW c \in Clients
    PROVE  \/ client'[c] = client[c]
           \/ Lagging(client[c]) /\ client'[c] = Observe(client[c])
           \/ client'[c] = Relist(client[c])
           \/ \E v \in CObj : client'[c] = Write(client[c], v)
  <1>t. client \in [Clients -> Rep(CObj)] /\ client' \in [Clients -> Rep(CObj)]
    BY DEF TypeOK, CObj
  <1>l. \A d \in Clients : client[d].live \in CObj /\ client'[d].live \in CObj
    BY <1>t DEF Rep
  <1>v. ASSUME NEW d \in Clients, NEW v,
               client' = [client EXCEPT ![d] = Write(@, v)]
        PROVE  client'[c] = client[c] \/ \E x \in CObj : client'[c] = Write(client[c], x)
    <2>1. v = client'[d].live
      BY <1>v, <1>t DEF Write
    <2> QED
      BY <1>v, <1>t, <1>l, <2>1
  <1>1. ASSUME NEW d \in Clients, ReconcileStatus(d) \/ User(d)
        PROVE  client' = client \/ \E v : client' = [client EXCEPT ![d] = Write(@, v)]
    BY <1>1 DEF ReconcileStatus, User, CreateClient, EditClient, DeleteClient,
                DeleteSecret, ClearClientSecret
  <1>2. ASSUME NEW d \in Clients, DeliverClient(d)
        PROVE  \/ client'[c] = client[c]
               \/ Lagging(client[c]) /\ client'[c] = Observe(client[c])
    BY <1>2, <1>t DEF DeliverClient
  <1>3. ASSUME NEW d \in Clients,
               \/ ReconcileStart(d) \/ ReconcileSecret(d) \/ ReconcileError(d)
               \/ ReconcileSecretRefused(d) \/ DeliverSecret(d) \/ GarbageCollect(d)
        PROVE  client' = client
    BY <1>3 DEF ReconcileStart, ReconcileSecret, ReconcileError,
                ReconcileSecretRefused, DeliverSecret, GarbageCollect
  <1>4. CASE Restart
    BY <1>4, <1>t DEF Restart
  <1>5. CASE UNCHANGED vars
    BY <1>5 DEF vars
  <1> QED
    BY <1>v, <1>1, <1>2, <1>3, <1>4, <1>5 DEF Next, Reconcile, Cluster

\* A step leaves a Secret alone, delivers its next event, lists it afresh, or
\* is one of the four writes: a collection, a deletion, the user's clearing of
\* the client_secret, and the reconcile's CreateOrUpdate.
SecretWritten(c) ==
    \/ Orphaned(c) /\ secret'[c] = Write(secret[c], Absent)
    \/ DeleteSecret(c) /\ secret'[c] = Write(secret[c], Absent)
    \/ /\ ClearClientSecret(c)
       /\ \E op \in UserOps : secret'[c] = Write(secret[c], Cleared(op, secret[c].live))
    \/ /\ worker.at = "secret" /\ worker.c = c
       /\ \E n \in Draws : /\ ~SecretRefused(c, n) /\ Wanted(c, n) # secret[c].seen
                           /\ secret'[c] = Write(secret[c], Wanted(c, n))

\* No other change of a Secret is possible.
LEMMA SecretMoves ==
    ASSUME TypeOK, [Next]_vars, NEW c \in Clients
    PROVE  \/ secret'[c] = secret[c]
           \/ Lagging(secret[c]) /\ secret'[c] = Observe(secret[c])
           \/ secret'[c] = Relist(secret[c])
           \/ SecretWritten(c)
  <1>t. secret \in [Clients -> Rep(SObj)]
    BY DEF TypeOK, SObj
  <1>1. ASSUME NEW d \in Clients, ReconcileSecret(d)
        PROVE  secret'[c] = secret[c] \/ SecretWritten(c)
    BY <1>1, <1>t DEF ReconcileSecret, SecretWritten
  <1>2. ASSUME NEW d \in Clients, DeliverSecret(d)
        PROVE  \/ secret'[c] = secret[c]
               \/ Lagging(secret[c]) /\ secret'[c] = Observe(secret[c])
    BY <1>2, <1>t DEF DeliverSecret
  <1>3. ASSUME NEW d \in Clients, GarbageCollect(d)
        PROVE  secret'[c] = secret[c] \/ SecretWritten(c)
    BY <1>3, <1>t DEF GarbageCollect, SecretWritten
  <1>4. ASSUME NEW d \in Clients, DeleteSecret(d)
        PROVE  secret'[c] = secret[c] \/ SecretWritten(c)
    <2>1. secret' = [secret EXCEPT ![d] = Write(@, Absent)]
      BY <1>4 DEF DeleteSecret
    <2> QED
      BY <1>4, <2>1, <1>t DEF SecretWritten
  <1>5. ASSUME NEW d \in Clients, ClearClientSecret(d)
        PROVE  secret'[c] = secret[c] \/ SecretWritten(c)
    <2>1. PICK op \in UserOps : secret' = [secret EXCEPT ![d] = Write(@, Cleared(op, @.live))]
      BY <1>5 DEF ClearClientSecret, UserDoes
    <2>2. CASE d = c
      <3>1. secret'[c] = Write(secret[c], Cleared(op, secret[c].live))
        BY <2>1, <2>2, <1>t
      <3> QED
        BY <1>5, <2>2, <3>1 DEF SecretWritten
    <2>3. CASE d # c
      BY <2>1, <2>3, <1>t
    <2> QED
      BY <2>2, <2>3
  <1>6. ASSUME NEW d \in Clients,
               \/ ReconcileStart(d) \/ ReconcileStatus(d) \/ ReconcileError(d)
               \/ ReconcileSecretRefused(d) \/ DeliverClient(d)
               \/ CreateClient(d) \/ EditClient(d) \/ DeleteClient(d)
        PROVE  secret' = secret
    BY <1>6 DEF ReconcileStart, ReconcileStatus, ReconcileError,
                ReconcileSecretRefused, DeliverClient, CreateClient, EditClient,
                DeleteClient
  <1>7. CASE Restart
    BY <1>7, <1>t DEF Restart
  <1>8. CASE UNCHANGED vars
    BY <1>8 DEF vars
  <1> QED
    BY <1>1, <1>2, <1>3, <1>4, <1>5, <1>6, <1>7, <1>8
       DEF Next, Reconcile, Cluster, User

-----------------------------------------------------------------------------
(* The caches follow the API server. *)

LinkedInv == \A c \in Clients : Linked(client[c]) /\ Linked(secret[c])

\* Writes append to the feed, deliveries consume it, a restart empties it.
LEMMA LinkedStep == TypeOK /\ TypeOK' /\ LinkedInv /\ [Next]_vars => LinkedInv'
  <1> SUFFICES ASSUME TypeOK, TypeOK', LinkedInv, [Next]_vars, NEW c \in Clients
               PROVE  Linked(client'[c]) /\ Linked(secret'[c])
    BY DEF LinkedInv
  <1>t. /\ client[c] \in Rep(CObj) /\ secret[c] \in Rep(SObj)
        /\ secret'[c] \in Rep(SObj)
        /\ Linked(client[c]) /\ Linked(secret[c])
    BY DEF TypeOK, CObj, SObj, LinkedInv
  <1>1. Linked(client'[c])
    BY <1>t, ClientMoves, WriteLinked, ObserveLinked, RelistLinked
  <1>2. ASSUME SecretWritten(c) PROVE \E v \in SObj : secret'[c] = Write(secret[c], v)
    <2>1. ASSUME NEW v, secret'[c] = Write(secret[c], v) PROVE v \in SObj
      BY <2>1, <1>t DEF Rep, Write
    <2> QED
      BY <1>2, <2>1 DEF SecretWritten
  <1>3. Linked(secret'[c])
    BY <1>t, <1>2, SecretMoves, WriteLinked, ObserveLinked, RelistLinked
  <1> QED
    BY <1>1, <1>3

\* Nothing was written yet.
LEMMA LinkedInit == Init => LinkedInv
  BY DEF Init, LinkedInv, Linked, Lagging, NeverWritten

-----------------------------------------------------------------------------
(* The digest. *)

\* DigestMatches is not inductive: a Secret with a digest and no client_secret
\* satisfies it and gets a new client_secret under the old digest.  The
\* reconcile fills and clears the two together.
Paired(v) == v.digest.of = v.secret /\ (v.secret = 0 => v.digest = NoDigest)
DigestInv ==
    \A c \in Clients : \A v \in Versions(secret[c]) : v # Absent => Paired(v)

\* CreateOrUpdate keeps secret and digest paired.
LEMMA MutatePaired ==
    ASSUME NEW found \in SObj, found # Absent => Paired(found),
           NEW c, NEW obj, NEW n \in Draws
    PROVE  Paired(MutateSecret(found, c, obj, n))
  <1> DEFINE base == IF found = Absent THEN EmptySecret ELSE found
  <1>1. Paired(base) /\ base.digest \in Digest
    BY DEF Paired, EmptySecret, NoDigest, SObj, SecretObj, Digest
  <1>2. n # 0
    BY ConstantsAssumption
  <1>3. base.digest = NoDigest => base.secret = 0
    BY <1>1 DEF Paired, NoDigest
  <1> HIDE DEF base
  <1>4. MutateSecret(found, c, obj, n) =
          [owner |-> obj.uid, id |-> ClientID(c, obj.spec),
           secret |-> IF obj.spec.public THEN 0
                      ELSE IF base.secret # 0 THEN base.secret ELSE n,
           digest |-> IF obj.spec.public THEN NoDigest
                      ELSE IF base.digest # NoDigest THEN base.digest
                      ELSE [of |-> IF base.secret # 0 THEN base.secret ELSE n,
                            salt |-> n]]
    BY DEF MutateSecret, base, GenerateSecret, HashClientSecret
  <1> QED
    BY <1>1, <1>2, <1>3, <1>4 DEF Paired, NoDigest

\* Only the user can unpair them.
LEMMA DigestStep ==
    ASSUME "clearClientSecret" \notin UserOps,
           TypeOK, DigestInv, [Next]_vars
    PROVE  DigestInv'
  <1> SUFFICES ASSUME NEW c \in Clients, NEW v \in Versions(secret'[c]), v # Absent
               PROVE  Paired(v)
    BY DEF DigestInv
  <1>t. secret[c] \in Rep(SObj) /\ secret[c].seen \in SObj
        /\ secret[c].seen \in Versions(secret[c])
    BY VersionsType DEF TypeOK, SObj, Rep
  <1>i. \A x \in Versions(secret[c]) : x # Absent => Paired(x)
    BY DEF DigestInv
  <1>1. CASE v \in Versions(secret[c])
    BY <1>1, <1>i
  <1>2. CASE secret'[c] = Write(secret[c], Absent)
    BY <1>2, <1>t, <1>i, WriteVersions DEF SObj
  <1>3. ASSUME worker.at = "secret", worker.c = c, NEW n \in Draws,
               secret'[c] = Write(secret[c], Wanted(c, n))
        PROVE  Paired(v)
    <2>1. worker.obj \in ClientObj
      BY <1>3, WorkerAt, WorkerBusy
    <2>2. Wanted(c, n) \in SObj
      BY <2>1, <1>t, MutateType DEF Wanted, SObj
    <2>3. Paired(Wanted(c, n))
      BY <1>t, <1>i, MutatePaired DEF Wanted
    <2> QED
      BY <1>3, <1>t, <1>i, <2>2, <2>3, WriteVersions
  <1>4. ASSUME ClearClientSecret(c), NEW op \in UserOps,
               secret'[c] = Write(secret[c], Cleared(op, secret[c].live))
        PROVE  Paired(v)
    <2> DEFINE w == Cleared("clearBoth", secret[c].live)
    <2>1. secret'[c] = Write(secret[c], w)
      BY <1>4, <1>t DEF ClearClientSecret, UserDoes, TypeOK
    <2>2. w \in SObj /\ w.secret = 0 /\ w.digest = NoDigest
      BY <1>4, <1>t, ClearedType DEF ClearClientSecret, SObj, Rep
    <2>3. Paired(w)
      BY <2>2 DEF Paired, NoDigest
    <2> QED
      BY <2>1, <1>t, <1>i, <2>2, <2>3, WriteVersions
  <1> QED
    BY <1>t, <1>1, <1>2, <1>3, <1>4, SecretMoves, ObserveVersions, RelistVersions
       DEF SecretWritten

\* Unless the user removes the client_secret entry alone, the digest stored
\* beside a client_secret is the digest of that secret, in every version of
\* the Secret that is live, cached or on its way to the cache.
THEOREM DigestCorrect ==
    ASSUME "clearClientSecret" \notin UserOps
    PROVE  Spec => []DigestMatches
  <1>1. Init => DigestInv
    BY DEF Init, DigestInv, Versions, NeverWritten
  <1>2. TypeOK /\ DigestInv /\ [Next]_vars => DigestInv'
    BY DigestStep
  <1>3. DigestInv => DigestMatches
    BY DEF DigestInv, DigestMatches, Paired
  <1> QED
    BY <1>1, <1>2, <1>3, TypeCorrect, PTL DEF Spec

-----------------------------------------------------------------------------
(* The credentials are never rotated. *)

\* An accepted write was computed from the live Secret, and SetControllerReference
\* stops a reconcile that works for an earlier incarnation of the client.
LEMMA KeepsStep ==
    ASSUME TypeOK, LinkedInv, [Next]_vars, NEW c \in Clients
    PROVE  CredentialKept(c)
  <1> DEFINE s == secret[c].live
  <1> SUFFICES ASSUME Confidential(c), s # Absent, s.owner = client[c].live.uid,
                      s.secret # 0, s.digest # NoDigest,
                      ~DeleteSecret(c), ~ClearClientSecret(c)
               PROVE  /\ secret'[c].live # Absent
                      /\ secret'[c].live.secret = s.secret
                      /\ secret'[c].live.digest = s.digest
    BY DEF CredentialKept
  <1>t. /\ secret[c] \in Rep(SObj) /\ client[c] \in Rep(CObj)
        /\ Linked(secret[c]) /\ client[c].live \in CObj
        /\ s \in SObj
    BY DEF TypeOK, SObj, CObj, LinkedInv, Rep
  <1>l. client[c].live \in ClientObj /\ s.owner # 0
    BY <1>t DEF Confidential, CObj, ClientObj
  <1>1. ASSUME worker.at = "secret", worker.c = c, NEW n \in Draws,
               ~SecretRefused(c, n), Wanted(c, n) # secret[c].seen,
               secret'[c] = Write(secret[c], Wanted(c, n))
        PROVE  /\ secret'[c].live # Absent
               /\ secret'[c].live.secret = s.secret
               /\ secret'[c].live.digest = s.digest
    <2>1. worker.obj \in ClientObj /\ worker # Idle
      BY <1>1, WorkerAt, WorkerBusy
    <2>2. secret[c].seen = s
      BY <1>1, <1>t DEF SecretRefused, Accepts, Linked
    <2>3. worker.obj.uid = client[c].live.uid
      BY <1>1, <1>l, <2>2 DEF SecretRefused, AlreadyOwned
    <2>4. ~worker.obj.spec.public
      BY <1>1, <2>1, <2>3, AbsentAssumption DEF Confidential, Visible
    <2>5. Wanted(c, n) \in SecretObj
      BY <2>1, <1>1, <1>t, <2>2, MutateType DEF Wanted
    <2>6. Wanted(c, n).secret = s.secret /\ Wanted(c, n).digest = s.digest
      BY <2>2, <2>4 DEF Wanted, MutateSecret
    <2>7. secret'[c].live = Wanted(c, n)
      BY <1>1, <1>t, <2>5, WriteLinked DEF SObj
    <2> QED
      BY <2>5, <2>6, <2>7, AbsentAssumption
  <1>2. ~Orphaned(c)
    BY <1>l DEF Orphaned, OwnerLives, Confidential
  <1> QED
    BY <1>t, <1>1, <1>2, SecretMoves, ObserveLinked, RelistLinked DEF SecretWritten

\* While a client lives and stays confidential, only the user changes or
\* removes its secret and digest, whatever the caches, failures and restarts do.
THEOREM CredentialsKept == Spec => NeverRotated
  <1>1. TypeOK /\ LinkedInv /\ [Next]_vars => \A c \in Clients : CredentialKept(c)
    BY KeepsStep
  <1> QED
    BY <1>1, TypeCorrect, LinkedInit, LinkedStep, PTL DEF Spec, NeverRotated

-----------------------------------------------------------------------------
(* No wake-up is lost. *)

Working(c) == worker # Idle /\ worker.c = c

\* The inductive form of NoLostWakeup.  A reconcile works from the version of
\* the resource the cache holds now, unless a request that arrived since waits
\* for it; and before the status is written the Secret serves that version,
\* unless a request or an event about the Secret is outstanding.
Wake(c) ==
    /\ Working(c) => worker.obj = client[c].seen \/ c \in queue
    /\ Working(c) /\ worker.at = "status" =>
         \/ SecretServes(c, secret[c].live, worker.obj)
         \/ c \in queue \/ Lagging(secret[c])
    /\ Settled(c) \/ Pending(c)
WakeInv == \A c \in Clients : Wake(c)

\* What CreateOrUpdate stores is what the resource asks for.
LEMMA MutateServes ==
    ASSUME NEW found \in SObj, NEW c \in Clients, NEW obj \in ClientObj,
           NEW n \in Draws
    PROVE  SecretServes(c, MutateSecret(found, c, obj, n), obj)
  <1>1. MutateSecret(found, c, obj, n) # Absent
    BY MutateType, AbsentAssumption
  <1>2. n # 0
    BY ConstantsAssumption
  <1> QED
    BY <1>1, <1>2 DEF SecretServes, MutateSecret, NoDigest, GenerateSecret,
                      HashClientSecret, EmptySecret

\* A step for another resource does not concern c.
LEMMA OtherStep ==
    ASSUME TypeOK, NEW c \in Clients, NEW d \in Clients, d # c, Wake(c),
           Reconcile(d) \/ Cluster(d) \/ User(d) \/ ReconcileError(d)
    PROVE  Wake(c)'
  <1>t. client \in [Clients -> Rep(CObj)] /\ secret \in [Clients -> Rep(SObj)]
    BY DEF TypeOK, CObj, SObj
  <1>1. client'[c] = client[c] /\ secret'[c] = secret[c]
    BY <1>t DEF Reconcile, ReconcileStart, ReconcileSecret, ReconcileSecretRefused,
         ReconcileStatus, Cluster, DeliverClient, DeliverSecret, GarbageCollect,
         User, CreateClient, EditClient, DeleteClient, DeleteSecret,
         ClearClientSecret, ReconcileError
  <1>2. c \in queue' <=> c \in queue
    BY DEF Reconcile, ReconcileStart, ReconcileSecret, ReconcileSecretRefused,
         ReconcileStatus, Cluster, DeliverClient, DeliverSecret, GarbageCollect,
         User, CreateClient, EditClient, DeleteClient, DeleteSecret,
         ClearClientSecret, ReconcileError, Requeue
  <1>3. worker' = worker \/ (~Working(c) /\ ~Working(c)')
    <2>1. CASE ReconcileStart(d)
      BY <2>1 DEF ReconcileStart, Working
    <2>2. CASE ReconcileSecret(d)
      <3>1. worker # Idle /\ worker.c = d
        BY <2>2, WorkerAt DEF ReconcileSecret
      <3>2. worker \in Busy
        BY <3>1, WorkerBusy
      <3>3. [worker EXCEPT !.at = "status"].c = worker.c
        BY <3>2 DEF Busy
      <3> QED
        BY <2>2, <3>1, <3>3 DEF ReconcileSecret, Working
    <2>3. CASE ReconcileSecretRefused(d) \/ ReconcileStatus(d) \/ ReconcileError(d)
      BY <2>3 DEF ReconcileSecretRefused, ReconcileStatus, ReconcileError,
                  Requeue, Working
    <2>4. CASE Cluster(d) \/ User(d)
      BY <2>4 DEF Cluster, DeliverClient, DeliverSecret, GarbageCollect,
         User, CreateClient, EditClient, DeleteClient, DeleteSecret,
         ClearClientSecret
    <2> QED
      BY <2>1, <2>2, <2>3, <2>4 DEF Reconcile
  <1>4. /\ Settled(c)' <=> Settled(c)
        /\ Orphaned(c)' <=> Orphaned(c)
    BY <1>1 DEF Settled, SecretServes, Orphaned, OwnerLives
  <1> QED
    BY <1>1, <1>2, <1>3, <1>4 DEF Wake, Pending, Working, SecretServes

\* A step for c itself: whatever it leaves unsettled, it leaves pending.
LEMMA OwnStep ==
    ASSUME TypeOK, TypeOK', LinkedInv, LinkedInv', NEW c \in Clients, Wake(c),
           Reconcile(c) \/ Cluster(c) \/ User(c) \/ ReconcileError(c)
    PROVE  Wake(c)'
  <1>t. /\ client \in [Clients -> Rep(CObj)] /\ secret \in [Clients -> Rep(SObj)]
        /\ client[c] \in Rep(CObj) /\ secret[c] \in Rep(SObj)
        /\ client[c].seen \in CObj /\ client[c].live \in CObj
        /\ secret[c].seen \in SObj /\ secret[c].live \in SObj
        /\ Linked(client[c]) /\ Linked(secret[c])
    BY DEF TypeOK, CObj, SObj, LinkedInv, Rep
  <1>w. ASSUME NEW v \in SObj PROVE Lagging(Write(secret[c], v))
    BY <1>t, WriteLinked
  <1>v. ASSUME NEW v \in CObj
        PROVE  Lagging(Write(client[c], v)) /\ Write(client[c], v).seen = client[c].seen
    BY <1>t, WriteLinked
  <1>1. CASE ReconcileStart(c)
    <2>1. CASE client[c].seen = Absent
      <3>1. ~Working(c)' /\ UNCHANGED <<client, secret>>
        BY <1>1, <2>1 DEF ReconcileStart, Working
      <3>2. Lagging(client[c]) \/ client[c].live = Absent
        BY <2>1, <1>t DEF Linked
      <3>3. Settled(c)' \/ Pending(c)'
        BY <3>1, <3>2 DEF Settled, Pending, Orphaned, OwnerLives
      <3> QED
        BY <3>1, <3>3 DEF Wake
    <2>2. CASE client[c].seen # Absent
      <3>1. /\ worker' = [at |-> "secret", c |-> c, obj |-> client[c].seen]
            /\ UNCHANGED <<client, secret>>
        BY <1>1, <2>2 DEF ReconcileStart
      <3>2. worker' # Idle /\ worker'.at = "secret" /\ worker'.c = c
        BY <3>1 DEF Idle
      <3> QED
        BY <3>1, <3>2 DEF Wake, Working, Pending
    <2> QED
      BY <2>1, <2>2
  <1>2. CASE ReconcileSecret(c)
    <2>1. worker \in Busy /\ worker # Idle /\ worker.obj \in ClientObj /\ worker.c = c
      BY <1>2, WorkerAt, WorkerBusy DEF ReconcileSecret
    <2>2. worker.obj = client[c].seen \/ c \in queue
      BY <2>1 DEF Wake, Working
    <2>3. Lagging(secret'[c]) \/ SecretServes(c, secret'[c].live, worker.obj)
      <3>1. PICK n \in Draws : secret'[c] = IF Wanted(c, n) = secret[c].seen
                                            THEN secret[c]
                                            ELSE Write(secret[c], Wanted(c, n))
        BY <1>2, <1>t DEF ReconcileSecret
      <3>2. Wanted(c, n) \in SObj /\ SecretServes(c, Wanted(c, n), worker.obj)
        BY <2>1, <1>t, MutateType, MutateServes DEF Wanted, SObj
      <3> QED
        BY <3>1, <3>2, <1>t, <1>w DEF Linked
    <2>4. UNCHANGED <<client, queue>>
      BY <1>2 DEF ReconcileSecret
    <2>5. CASE worker.obj.status
      <3>1. ~Working(c)'
        BY <1>2, <2>5 DEF ReconcileSecret, Working
      <3>2. Settled(c)' \/ Pending(c)'
        <4>1. CASE c \in queue \/ Lagging(client[c]) \/ Lagging(secret'[c])
          BY <4>1, <2>4 DEF Pending
        <4>2. CASE ~(c \in queue \/ Lagging(client[c]) \/ Lagging(secret'[c]))
          <5>1. client'[c].live = worker.obj /\ client'[c].live # Absent
            BY <4>2, <2>1, <2>2, <2>4, <1>t, AbsentAssumption DEF Linked
          <5> QED
            BY <5>1, <4>2, <2>3, <2>5 DEF Settled
        <4> QED
          BY <4>1, <4>2
      <3> QED
        BY <3>1, <3>2 DEF Wake
    <2>6. CASE ~worker.obj.status
      <3>1. worker' = [worker EXCEPT !.at = "status"]
        BY <1>2, <2>6 DEF ReconcileSecret
      <3>2. worker'.obj = worker.obj /\ worker'.c = c /\ worker'.at = "status"
        BY <3>1, <2>1 DEF Busy
      <3>3. Working(c)'
        BY <3>2 DEF Working, Idle
      <3> QED
        BY <3>2, <3>3, <2>2, <2>3, <2>4 DEF Wake, Working, Pending
    <2> QED
      BY <2>5, <2>6
  <1>3. CASE ReconcileSecretRefused(c) \/ ReconcileError(c)
    <2>1. ~Working(c)' /\ c \in queue'
      BY <1>3 DEF ReconcileSecretRefused, ReconcileError, Requeue, Working
    <2> QED
      BY <2>1 DEF Wake, Pending
  <1>4. CASE ReconcileStatus(c)
    <2>1. ~Working(c)'
      BY <1>4 DEF ReconcileStatus, Requeue, Working
    <2>2. c \in queue' \/ Lagging(client'[c])
      <3>1. CASE client[c].live # Absent /\ client[c].live = worker.obj
        <4>1. StatusNamed(client[c].live) \in CObj
          BY <3>1, <1>t DEF CObj, ClientObj, StatusNamed
        <4>2. client'[c] = Write(client[c], StatusNamed(client[c].live))
          BY <1>4, <3>1, <1>t DEF ReconcileStatus
        <4> QED
          BY <4>1, <4>2, <1>v
      <3>2. CASE ~(client[c].live # Absent /\ client[c].live = worker.obj)
        BY <1>4, <3>2 DEF ReconcileStatus, Requeue
      <3> QED
        BY <3>1, <3>2
    <2> QED
      BY <2>1, <2>2 DEF Wake, Pending
  <1>5. CASE DeliverClient(c) \/ DeliverSecret(c)
    BY <1>5 DEF DeliverClient, DeliverSecret, Wake, Pending
  <1>6. CASE GarbageCollect(c) \/ DeleteSecret(c) \/ ClearClientSecret(c)
    <2>1. Absent \in SObj
      BY DEF SObj
    <2>2. ClearClientSecret(c) => \A op : Cleared(op, secret[c].live) \in SObj
      BY <1>t, ClearedType DEF ClearClientSecret, SObj, Rep
    <2>3. Lagging(secret'[c])
      BY <1>6, <1>t, <1>w, <2>1, <2>2 DEF GarbageCollect, DeleteSecret, ClearClientSecret
    <2>4. UNCHANGED <<client, worker, queue>>
      BY <1>6 DEF GarbageCollect, DeleteSecret, ClearClientSecret
    <2> QED
      BY <2>3, <2>4 DEF Wake, Pending, Working
  <1>7. CASE CreateClient(c) \/ EditClient(c) \/ DeleteClient(c)
    <2>1. \E v : client' = [client EXCEPT ![c] = Write(@, v)]
      BY <1>7 DEF CreateClient, EditClient, DeleteClient
    <2>2. PICK v : client'[c] = Write(client[c], v)
      BY <2>1, <1>t
    <2>3. v \in CObj
      BY <2>2 DEF TypeOK, Rep, Write, CObj
    <2>4. Lagging(client'[c]) /\ client'[c].seen = client[c].seen
      BY <2>2, <2>3, <1>v
    <2>5. UNCHANGED <<secret, worker, queue>>
      BY <1>7 DEF CreateClient, EditClient, DeleteClient
    <2> QED
      BY <2>4, <2>5 DEF Wake, Pending, Working, SecretServes
  <1> QED
    BY <1>1, <1>2, <1>3, <1>4, <1>5, <1>6, <1>7 DEF Reconcile, Cluster, User

\* Every step keeps every resource either settled or pending.
LEMMA WakeStep ==
    ASSUME TypeOK, TypeOK', LinkedInv, LinkedInv', WakeInv, [Next]_vars
    PROVE  WakeInv'
  <1> SUFFICES ASSUME NEW c \in Clients PROVE Wake(c)'
    BY DEF WakeInv
  <1>i. Wake(c)
    BY DEF WakeInv
  <1>1. CASE \E d \in Clients : Reconcile(d) \/ Cluster(d) \/ User(d) \/ ReconcileError(d)
    BY <1>1, <1>i, OtherStep, OwnStep
  <1>2. CASE Restart
    <2>1. ~Working(c)'
      BY <1>2 DEF Restart, Working
    <2>2. /\ client[c] \in Rep(CObj) /\ secret[c] \in Rep(SObj)
          /\ client'[c] = Relist(client[c]) /\ secret'[c] = Relist(secret[c])
      BY <1>2 DEF TypeOK, CObj, SObj, Restart
    <2>3. client'[c].live = client[c].live /\ secret'[c].live = secret[c].live
      BY <2>2, RelistLinked
    <2>4. Settled(c)' \/ Pending(c)'
      BY <1>2, <2>3 DEF Restart, Settled, Pending
    <2> QED
      BY <2>1, <2>4 DEF Wake
  <1>3. CASE UNCHANGED vars
    BY <1>3, <1>i DEF vars, Wake, Working, Settled, SecretServes, Pending,
                      Orphaned, OwnerLives
  <1> QED
    BY <1>1, <1>2, <1>3 DEF Next

\* A resource whose Secret or status is not what it asks for always has a
\* request, a reconcile, an event or a collection outstanding: the controller
\* cannot go to sleep on work left undone.
THEOREM WakeupKept == Spec => []NoLostWakeup
  <1>1. Init => WakeInv
    BY DEF Init, WakeInv, Wake, Working, Settled, NeverWritten
  <1>2. WakeInv => NoLostWakeup
    BY DEF WakeInv, Wake, NoLostWakeup
  <1>3. TypeOK /\ TypeOK' /\ LinkedInv /\ LinkedInv' /\ WakeInv /\ [Next]_vars => WakeInv'
    BY WakeStep
  <1> QED
    BY <1>1, <1>2, <1>3, TypeCorrect, LinkedInit, LinkedStep, PTL DEF Spec

-----------------------------------------------------------------------------
(* The controller implements the abstract keyring. *)

\* A step of the controller or the cluster leaves the credential of a client
\* alone, issues one where there was none, or removes one whose client is gone
\* or no longer wants it.
LEMMA CredentialStep ==
    ASSUME TypeOK, LinkedInv, [Next]_vars, NEW c \in Clients,
           ~DeleteSecret(c), ~ClearClientSecret(c)
    PROVE  LET old == Credential(secret[c].live)
               new == Credential(secret'[c].live)
           IN  \/ new = old \/ old = Absent
               \/ /\ new = Absent
                  /\ ~(old.owner = Uid(client[c].live) /\ Confidential(c))
  <1> DEFINE s == secret[c].live
             old == Credential(s)
             new == Credential(secret'[c].live)
  <1> SUFFICES ASSUME old # Absent
               PROVE  \/ new = old
                      \/ /\ new = Absent
                         /\ ~(old.owner = Uid(client[c].live) /\ Confidential(c))
    OBVIOUS
  <1>t. /\ secret[c] \in Rep(SObj) /\ client[c] \in Rep(CObj)
        /\ Linked(secret[c]) /\ client[c].live \in CObj /\ s \in SObj
    BY DEF TypeOK, SObj, CObj, LinkedInv, Rep
  <1>o. /\ s \in SecretObj /\ s.secret # 0 /\ s.digest # NoDigest
        /\ old = [owner |-> s.owner, value |-> <<s.secret, s.digest>>]
        /\ old.owner = s.owner /\ s.owner # 0
    BY <1>t DEF Credential, SObj, SecretObj
  <1>1. ASSUME worker.at = "secret", worker.c = c, NEW n \in Draws,
               ~SecretRefused(c, n), Wanted(c, n) # secret[c].seen,
               secret'[c] = Write(secret[c], Wanted(c, n))
        PROVE  \/ new = old
               \/ /\ new = Absent
                  /\ ~(old.owner = Uid(client[c].live) /\ Confidential(c))
    <2>1. worker.obj \in ClientObj /\ worker # Idle
      BY <1>1, WorkerAt, WorkerBusy
    <2>2. secret[c].seen = s
      BY <1>1, <1>t DEF SecretRefused, Accepts, Linked
    <2>3. worker.obj.uid = s.owner
      BY <1>1, <1>o, <2>2, AbsentAssumption DEF SecretRefused, AlreadyOwned
    <2>4. Wanted(c, n) \in SecretObj
      BY <2>1, <1>1, <1>t, <2>2, MutateType DEF Wanted
    <2>5. secret'[c].live = Wanted(c, n)
      BY <1>1, <1>t, <2>4, WriteLinked DEF SObj
    <2>6. CASE worker.obj.spec.public
      <3>1. Wanted(c, n).secret = 0
        BY <2>6 DEF Wanted, MutateSecret
      <3>2. new = Absent
        BY <3>1, <2>5 DEF Credential
      <3>3. ASSUME old.owner = Uid(client[c].live), Confidential(c) PROVE FALSE
        <4>1. client[c].live.uid = worker.obj.uid
          BY <3>3, <2>3, <1>o DEF Uid, Confidential
        <4>2. worker.obj \in Visible(c)
          BY <4>1, <2>1, <1>1, AbsentAssumption DEF Visible
        <4> QED
          BY <4>2, <3>3, <2>6 DEF Confidential
      <3> QED
        BY <3>2, <3>3
    <2>7. CASE ~worker.obj.spec.public
      <3>1. /\ Wanted(c, n).secret = s.secret /\ Wanted(c, n).digest = s.digest
            /\ Wanted(c, n).owner = s.owner
        BY <2>2, <2>3, <2>7, <1>o, AbsentAssumption DEF Wanted, MutateSecret
      <3>2. new = old
        BY <3>1, <2>4, <2>5, <1>o, AbsentAssumption DEF Credential
      <3> QED
        BY <3>2
    <2> QED
      BY <2>6, <2>7
  <1>2. ASSUME Orphaned(c), secret'[c] = Write(secret[c], Absent)
        PROVE  /\ new = Absent
               /\ ~(old.owner = Uid(client[c].live) /\ Confidential(c))
    <2>1. secret'[c].live = Absent
      BY <1>2 DEF Write
    <2>2. new = Absent
      BY <2>1 DEF Credential
    <2>3. old.owner # Uid(client[c].live)
      BY <1>2, <1>o DEF Orphaned, OwnerLives, Uid
    <2> QED
      BY <2>2, <2>3
  <1>3. secret'[c].live = s => new = old
    OBVIOUS
  <1> QED
    BY <1>t, <1>1, <1>2, <1>3, SecretMoves, ObserveLinked, RelistLinked
       DEF SecretWritten

\* Only the user changes the uid of a live resource, and what he does is counted.
LEMMA UidStep ==
    ASSUME TypeOK, [Next]_vars
    PROVE  \/ /\ edits' = edits + 1
              /\ \/ secret' = secret
                 \/ \E c \in Clients :
                      /\ DeleteSecret(c) \/ ClearClientSecret(c)
                      /\ client' = client
           \/ /\ edits' = edits
              /\ \A c \in Clients : Uid(client'[c].live) = Uid(client[c].live)
              /\ \A c \in Clients : ~DeleteSecret(c) /\ ~ClearClientSecret(c)
  <1>t. client \in [Clients -> Rep(CObj)] /\ edits \in Nat
    BY DEF TypeOK, CObj
  <1>u. edits' = edits => \A c \in Clients : ~DeleteSecret(c) /\ ~ClearClientSecret(c)
    BY <1>t DEF DeleteSecret, ClearClientSecret, UserDoes
  <1>1. ASSUME NEW d \in Clients, CreateClient(d) \/ EditClient(d) \/ DeleteClient(d)
        PROVE  edits' = edits + 1 /\ secret' = secret
    BY <1>1 DEF CreateClient, EditClient, DeleteClient, UserDoes
  <1>2. ASSUME NEW d \in Clients, DeleteSecret(d) \/ ClearClientSecret(d)
        PROVE  edits' = edits + 1 /\ client' = client
    BY <1>2 DEF DeleteSecret, ClearClientSecret, UserDoes
  <1>3. ASSUME NEW d \in Clients, ReconcileStatus(d)
        PROVE  /\ edits' = edits
               /\ \A c \in Clients : Uid(client'[c].live) = Uid(client[c].live)
    <2>1. CASE client[d].live # Absent /\ client[d].live = worker.obj
      <3>1. client[d].live \in ClientObj
        BY <2>1, <1>t DEF Rep, CObj
      <3>2. StatusNamed(client[d].live) \in ClientObj
            /\ StatusNamed(client[d].live).uid = client[d].live.uid
        BY <3>1 DEF ClientObj, StatusNamed
      <3>3. client' = [client EXCEPT ![d] = Write(@, StatusNamed(@.live))]
        BY <1>3, <2>1 DEF ReconcileStatus
      <3>4. client'[d].live = StatusNamed(client[d].live)
        BY <3>3, <1>t DEF Write
      <3>5. \A c \in Clients : c # d => client'[c] = client[c]
        BY <3>3, <1>t
      <3> QED
        BY <1>3, <3>2, <3>4, <3>5, <2>1, AbsentAssumption DEF ReconcileStatus, Uid
    <2>2. CASE ~(client[d].live # Absent /\ client[d].live = worker.obj)
      BY <1>3, <2>2 DEF ReconcileStatus
    <2> QED
      BY <2>1, <2>2
  <1>4. ASSUME NEW d \in Clients, DeliverClient(d)
        PROVE  /\ edits' = edits
               /\ \A c \in Clients : client'[c].live = client[c].live
    BY <1>4, <1>t DEF DeliverClient, Observe
  <1>5. ASSUME NEW d \in Clients,
               \/ ReconcileStart(d) \/ ReconcileSecret(d) \/ ReconcileError(d)
               \/ ReconcileSecretRefused(d) \/ DeliverSecret(d) \/ GarbageCollect(d)
        PROVE  edits' = edits /\ client' = client
    BY <1>5 DEF ReconcileStart, ReconcileSecret, ReconcileError,
                ReconcileSecretRefused, DeliverSecret, GarbageCollect
  <1>6. ASSUME Restart
        PROVE  edits' = edits /\ \A c \in Clients : client'[c].live = client[c].live
    BY <1>6 DEF Restart, Relist
  <1>7. CASE UNCHANGED vars
    BY <1>7, <1>u DEF vars
  <1> QED
    BY <1>u, <1>1, <1>2, <1>3, <1>4, <1>5, <1>6, <1>7 DEF Next, Reconcile, Cluster, User

\* Every step is a step of the keyring or leaves it alone.
LEMMA KeyringStep ==
    ASSUME TypeOK, LinkedInv, [Next]_vars
    PROVE  [ClientKeyring!KNext]_(ClientKeyring!kvars)
  <1> USE DEF ClientKeyring!KNext, ClientKeyring!Amend, ClientKeyring!Revoke,
              ClientKeyring!Serve, ClientKeyring!Entitled
  <1>t. secret \in [Clients -> Rep(SObj)]
    BY DEF TypeOK, SObj
  <1>1. CASE edits' = edits + 1 /\ secret' = secret
    BY <1>1
  <1>2. ASSUME NEW c \in Clients, DeleteSecret(c) \/ ClearClientSecret(c),
               edits' = edits + 1, client' = client
        PROVE  ClientKeyring!KNext
    <2>1. \A d \in Clients : d # c => secret'[d] = secret[d]
      BY <1>2, <1>t DEF DeleteSecret, ClearClientSecret
    <2>2. secret'[c].live = Absent \/ \E op : secret'[c].live = Cleared(op, secret[c].live)
      BY <1>2, <1>t DEF DeleteSecret, ClearClientSecret, Write
    <2>3. Credential(secret'[c].live) = Absent
      <3>1. \A op : Cleared(op, secret[c].live).secret = 0
        BY DEF Cleared
      <3> QED
        BY <2>2, <3>1 DEF Credential
    <2>4. CASE Credential(secret[c].live) = Absent
      BY <1>2, <2>1, <2>3, <2>4
    <2>5. CASE Credential(secret[c].live) # Absent
      BY <1>2, <2>1, <2>3, <2>5
    <2> QED
      BY <2>4, <2>5
  <1>3. CASE /\ edits' = edits
             /\ \A c \in Clients : Uid(client'[c].live) = Uid(client[c].live)
             /\ \A c \in Clients : ~DeleteSecret(c) /\ ~ClearClientSecret(c)
    BY <1>3, CredentialStep
  <1> QED
    BY <1>1, <1>2, <1>3, UidStep

\* The controller, with its caches, refusals, retries, collections and restarts,
\* implements the abstract specification of a keyring: every credential is
\* issued once, to one incarnation of its client, and stays what it is until
\* the user revokes it or its client gives it up.
THEOREM KeyringImplemented == Spec => ImplementsKeyring
  <1>1. Init => ClientKeyring!KInit
    <2>1. ASSUME Init, NEW c \in Clients
          PROVE  /\ Uid(client[c].live) = 0 /\ Confidential(c) \in BOOLEAN
                 /\ Credential(secret[c].live) = Absent
      BY <2>1 DEF Init, NeverWritten, Uid, Credential, Confidential
    <2> QED
      BY <2>1 DEF Init, ClientKeyring!KInit
  <1>2. TypeOK /\ LinkedInv /\ [Next]_vars => [ClientKeyring!KNext]_(ClientKeyring!kvars)
    BY KeyringStep
  <1> QED
    BY <1>1, <1>2, TypeCorrect, LinkedInit, LinkedStep, PTL
       DEF Spec, ImplementsKeyring, ClientKeyring!KSpec
=============================================================================
