----------------------------- MODULE OAuthClient -----------------------------
(***************************************************************************)
(* The AutheliaOAuthClient controller: for every AutheliaOAuthClient       *)
(* resource it keeps a Secret "<name>-oauth-secret" with a client_id, a    *)
(* generated client_secret and the PBKDF2 digest of that secret, and       *)
(* records the Secret's name in the resource's status.                     *)
(*                                                                         *)
(* One worker serves the controller's queue (MaxConcurrentReconciles is    *)
(* left at 1).  Reads come from the informer cache and may be stale; the   *)
(* user, the garbage collector, failing API calls and a restart of the     *)
(* manager interleave with every API call of a reconcile.                  *)
(*                                                                         *)
(* Data abstraction.  Client names and OIDC client IDs are positive        *)
(* numbers whose order stands for the order of the strings; 0 is the empty *)
(* string.  A random draw is any member of Draws: two draws may coincide,  *)
(* and no property relies on it either way.  A digest records the secret   *)
(* it was computed from and the random salt.                               *)
(***************************************************************************)
EXTENDS Kube, FiniteSets

CONSTANTS
    Clients,      \* names of AutheliaOAuthClient resources
    ClientSpecs,  \* the specs the user may give them
    Draws,        \* what crypto/rand may return
    UserOps,      \* what the user does in this instance
    MaxEdits,     \* bound on user operations
    MaxFaults,    \* bound on failed API calls and restarts
    MaxLag        \* bound on how far the watch on a Secret falls behind

Digest   == [of : Nat, salt : Nat]
NoDigest == [of |-> 0, salt |-> 0]

ClientObj == [uid : Nat \ {0}, rv : Nat, spec : ClientSpecs, status : BOOLEAN]
SecretObj == [owner : Nat \ {0}, id : Nat \ {0}, secret : Nat, digest : Digest]

ASSUME ConstantsAssumption ==
    /\ Clients \subseteq Nat \ {0}
    /\ \A s \in ClientSpecs : s.public \in BOOLEAN /\ s.id \in Nat
    /\ Draws \subseteq Nat \ {0} /\ Draws # {}
    /\ MaxEdits \in Nat /\ MaxFaults \in Nat /\ MaxLag \in Nat
ASSUME AbsentAssumption == Absent \notin ClientObj /\ Absent \notin SecretObj

VARIABLES
    client,   \* client[c]: the AutheliaOAuthClient resource c
    secret,   \* secret[c]: the Secret "<c>-oauth-secret"
    queue,    \* requests waiting for the controller's worker
    worker,   \* the reconcile in progress: its step and the resource it read
    uids,     \* uids handed out by the API server
    edits,    \* user operations so far
    faults    \* failures so far

vars == <<client, secret, queue, worker, uids, edits, faults>>

\* The resource after a status write and after an edit of its spec.
StatusNamed(obj) ==
    [uid |-> obj.uid, rv |-> obj.rv + 1, spec |-> obj.spec, status |-> TRUE]
Respecified(obj, s) ==
    [uid |-> obj.uid, rv |-> obj.rv + 1, spec |-> s, status |-> obj.status]

Idle == [at |-> "idle"]
Busy == [at : {"secret", "status"}, c : Clients, obj : ClientObj]

TypeOK ==
    /\ client \in [Clients -> Rep(ClientObj \cup {Absent})]
    /\ secret \in [Clients -> Rep(SecretObj \cup {Absent})]
    /\ queue \subseteq Clients
    /\ worker \in Busy \cup {Idle}
    /\ uids \in Nat /\ edits \in Nat /\ faults \in Nat

Init ==
    /\ client = [c \in Clients |-> NeverWritten]
    /\ secret = [c \in Clients |-> NeverWritten]
    /\ queue = {}
    /\ worker = Idle
    /\ uids = 0 /\ edits = 0 /\ faults = 0

-----------------------------------------------------------------------------
(* The reconcile function. *)

\* Mutant of ClientID: no default.
NoDefaultID(c, spec) == spec.id

\* spec.clientID, defaulting to the resource name.
ClientID(c, spec) == IF spec.id = 0 THEN c ELSE spec.id

EmptySecret == [owner |-> 0, id |-> 0, secret |-> 0, digest |-> NoDigest]

\* generateSecret returns 48 random bytes, encoded; the digest is salted with
\* random bytes of its own.  n is the entropy one reconcile draws.
GenerateSecret(n) == n
HashClientSecret(s, n) == [of |-> s, salt |-> n]

\* Mutants of MutateSecret: the digest is computed afresh every time; a client
\* made public keeps its digest.
RehashesAlways(found, c, obj, n) ==
    LET base == IF found = Absent THEN EmptySecret ELSE found
        sec  == IF obj.spec.public THEN 0
                ELSE IF base.secret # 0 THEN base.secret ELSE GenerateSecret(n)
        dig  == IF obj.spec.public THEN NoDigest ELSE HashClientSecret(sec, n)
    IN  [owner |-> obj.uid, id |-> ClientID(c, obj.spec),
         secret |-> sec, digest |-> dig]
PublicKeepsDigest(found, c, obj, n) ==
    LET base == IF found = Absent THEN EmptySecret ELSE found
        sec  == IF obj.spec.public THEN 0
                ELSE IF base.secret # 0 THEN base.secret ELSE GenerateSecret(n)
        dig  == IF obj.spec.public \/ base.digest # NoDigest THEN base.digest
                ELSE HashClientSecret(sec, n)
    IN  [owner |-> obj.uid, id |-> ClientID(c, obj.spec),
         secret |-> sec, digest |-> dig]

\* The function CreateOrUpdate applies to the Secret it found (or to an empty
\* one): set the client_id, clear or fill the secret and its digest, take
\* ownership.
MutateSecret(found, c, obj, n) ==
    LET base == IF found = Absent THEN EmptySecret ELSE found
        sec  == IF obj.spec.public THEN 0
                ELSE IF base.secret # 0 THEN base.secret ELSE GenerateSecret(n)
        dig  == IF obj.spec.public THEN NoDigest
                ELSE IF base.digest # NoDigest THEN base.digest
                ELSE HashClientSecret(sec, n)
    IN  [owner |-> obj.uid, id |-> ClientID(c, obj.spec),
         secret |-> sec, digest |-> dig]

\* Mutants of AlreadyOwned: a Secret the resource owns itself is refused too;
\* the controller takes over whatever it finds.
TakesOver(found, obj) == FALSE
RefusesOwn(found, obj) == found # Absent /\ found.owner # 0

\* SetControllerReference refuses an object controlled by another uid.
AlreadyOwned(found, obj) == found # Absent /\ found.owner \notin {0, obj.uid}

\* The worker takes a request and reads the resource from the cache; a
\* resource that is gone needs nothing (client.IgnoreNotFound).
ReconcileStart(c) ==
    /\ worker = Idle /\ c \in queue
    /\ queue' = queue \ {c}
    /\ worker' = IF client[c].seen = Absent THEN Idle
                 ELSE [at |-> "secret", c |-> c, obj |-> client[c].seen]
    /\ UNCHANGED <<client, secret, uids, edits, faults>>

\* The reconcile returns an error: the request goes back to the queue.
Requeue(c) == worker' = Idle /\ queue' = queue \cup {c}

\* CreateOrUpdate on the cached copy: what it would store, and whether the
\* call fails, because the Secret belongs to another uid or because the copy
\* the write was computed from is out of date.
Wanted(c, n) == MutateSecret(secret[c].seen, c, worker.obj, n)
SecretRefused(c, n) ==
    \/ AlreadyOwned(secret[c].seen, worker.obj)
    \/ Wanted(c, n) # secret[c].seen /\ ~Accepts(secret[c])

\* CreateOrUpdate succeeds: it creates, updates, or finds nothing to change.
\* The status is written next unless it already names the Secret.
ReconcileSecret(c) ==
    /\ worker.at = "secret" /\ worker.c = c
    /\ \E n \in Draws :
         /\ ~SecretRefused(c, n)
         /\ secret' = [secret EXCEPT ![c] =
                          IF Wanted(c, n) = @.seen THEN @
                          ELSE Write(@, Wanted(c, n))]
    /\ worker' = IF worker.obj.status THEN Idle
                 ELSE [worker EXCEPT !.at = "status"]
    /\ UNCHANGED <<client, queue, uids, edits, faults>>

\* CreateOrUpdate fails.
ReconcileSecretRefused(c) ==
    /\ worker.at = "secret" /\ worker.c = c
    /\ \E n \in Draws : SecretRefused(c, n)
    /\ Requeue(c)
    /\ UNCHANGED <<client, secret, uids, edits, faults>>

\* Status().Update, accepted only for the version the reconcile started from.
ReconcileStatus(c) ==
    /\ worker.at = "status" /\ worker.c = c
    /\ IF client[c].live # Absent /\ client[c].live = worker.obj
       THEN /\ client' = [client EXCEPT ![c] =
                            Write(@, StatusNamed(@.live))]
            /\ worker' = Idle
            /\ UNCHANGED queue
       ELSE Requeue(c) /\ UNCHANGED client
    /\ UNCHANGED <<secret, uids, edits, faults>>

-----------------------------------------------------------------------------
(* Watches: For(AutheliaOAuthClient) and Owns(Secret). *)

\* Every event about the resource enqueues it.
DeliverClient(c) ==
    /\ Lagging(client[c])
    /\ client' = [client EXCEPT ![c] = Observe(@)]
    /\ queue' = queue \cup {c}
    /\ UNCHANGED <<secret, worker, uids, edits, faults>>

\* Mutant of DeliverSecret: the controller does not watch the Secrets it owns.
UnwatchedSecret(c) ==
    /\ Lagging(secret[c])
    /\ secret' = [secret EXCEPT ![c] = Observe(@)]
    /\ UNCHANGED <<client, queue, worker, uids, edits, faults>>

\* An event about a Secret enqueues the resource its old or new version names
\* as controller.
DeliverSecret(c) ==
    /\ Lagging(secret[c])
    /\ secret' = [secret EXCEPT ![c] = Observe(@)]
    /\ queue' = queue \cup {c}
    /\ UNCHANGED <<client, worker, uids, edits, faults>>

\* Kubernetes garbage collection: an object whose controller is gone.
OwnerLives(c) ==
    client[c].live # Absent /\ client[c].live.uid = secret[c].live.owner
Orphaned(c) == secret[c].live # Absent /\ ~OwnerLives(c)

GarbageCollect(c) ==
    /\ Orphaned(c) /\ Len(secret[c].feed) < MaxLag
    /\ secret' = [secret EXCEPT ![c] = Write(@, Absent)]
    /\ UNCHANGED <<client, queue, worker, uids, edits, faults>>

-----------------------------------------------------------------------------
(* The user. *)

UserDoes(op) == op \in UserOps /\ edits < MaxEdits /\ edits' = edits + 1

CreateClient(c) ==
    /\ UserDoes("create")
    /\ client[c].live = Absent
    /\ \E s \in ClientSpecs :
         client' = [client EXCEPT ![c] = Write(@,
           [uid |-> uids + 1, rv |-> 0, spec |-> s, status |-> FALSE])]
    /\ uids' = uids + 1
    /\ UNCHANGED <<secret, queue, worker, faults>>

EditClient(c) ==
    /\ UserDoes("edit")
    /\ client[c].live # Absent
    /\ \E s \in ClientSpecs \ {client[c].live.spec} :
         client' = [client EXCEPT ![c] = Write(@, Respecified(@.live, s))]
    /\ UNCHANGED <<secret, queue, worker, uids, faults>>

DeleteClient(c) ==
    /\ UserDoes("delete")
    /\ client[c].live # Absent
    /\ client' = [client EXCEPT ![c] = Write(@, Absent)]
    /\ UNCHANGED <<secret, queue, worker, uids, faults>>

DeleteSecret(c) ==
    /\ UserDoes("deleteSecret")
    /\ secret[c].live # Absent
    /\ secret' = [secret EXCEPT ![c] = Write(@, Absent)]
    /\ UNCHANGED <<client, queue, worker, uids, faults>>

Cleared(op, s) ==
    [owner  |-> s.owner, id |-> s.id, secret |-> 0,
     digest |-> IF op = "clearBoth" THEN NoDigest ELSE s.digest]

\* The user removes the client_secret entry to have a new one generated, alone
\* or together with its digest.
ClearClientSecret(c) ==
    /\ secret[c].live # Absent /\ secret[c].live.secret # 0
    /\ \E op \in {"clearClientSecret", "clearBoth"} :
         /\ UserDoes(op)
         /\ secret' = [secret EXCEPT ![c] = Write(@, Cleared(op, @.live))]
    /\ UNCHANGED <<client, queue, worker, uids, faults>>

-----------------------------------------------------------------------------
(* Failures. *)

Fault == faults < MaxFaults /\ faults' = faults + 1

\* An API call of the reconcile fails, before it took effect or, seen from the
\* step that follows it, with the answer lost after it did.
ReconcileError(c) ==
    /\ Fault
    /\ worker # Idle /\ worker.c = c
    /\ Requeue(c)
    /\ UNCHANGED <<client, secret, uids, edits>>

\* The manager restarts: the caches list afresh and every object found is
\* announced, a Secret to the resource that controls it.
Restart ==
    /\ Fault
    /\ client' = [c \in Clients |-> Relist(client[c])]
    /\ secret' = [c \in Clients |-> Relist(secret[c])]
    /\ queue' = {c \in Clients : client[c].live # Absent
                                  \/ secret[c].live # Absent}
    /\ worker' = Idle
    /\ UNCHANGED <<uids, edits>>

-----------------------------------------------------------------------------
Reconcile(c) ==
    \/ ReconcileStart(c)
    \/ ReconcileSecret(c)
    \/ ReconcileSecretRefused(c)
    \/ ReconcileStatus(c)

Cluster(c) ==
    \/ DeliverClient(c)
    \/ DeliverSecret(c)
    \/ GarbageCollect(c)

User(c) ==
    \/ CreateClient(c)
    \/ EditClient(c)
    \/ DeleteClient(c)
    \/ DeleteSecret(c)
    \/ ClearClientSecret(c)

Next ==
    \/ \E c \in Clients : Reconcile(c) \/ Cluster(c) \/ User(c)
                            \/ ReconcileError(c)
    \/ Restart

Spec == Init /\ [][Next]_vars

\* The worker, the informers and the garbage collector keep running.  The user
\* and the failures are under no obligation.
Fairness ==
    \A c \in Clients :
        /\ WF_vars(Reconcile(c))
        /\ WF_vars(DeliverClient(c))
        /\ WF_vars(DeliverSecret(c))
        /\ WF_vars(GarbageCollect(c))

FairSpec == Spec /\ Fairness

-----------------------------------------------------------------------------
(* Properties. *)

\* The digest the Authelia configuration will carry is the digest of the
\* client_secret handed to the application, in every version of the Secret
\* that is stored, cached or on its way.  The reconcile fills each of the two
\* when it is empty and never compares them, so this rests on every write
\* having filled or cleared both, from whichever version of the Secret, and
\* fails when the user removes the client_secret alone.
DigestMatches ==
    \A c \in Clients : \A v \in Versions(secret[c]) :
        v # Absent /\ v.secret # 0 => v.digest.of = v.secret

\* The versions of resource c's current incarnation that the controller has
\* read or can still read.
Visible(c) ==
    {v \in Versions(client[c]) \cup
           (IF worker # Idle /\ worker.c = c THEN {worker.obj} ELSE {}) :
        v # Absent /\ v.uid = client[c].live.uid}

Confidential(c) ==
    /\ client[c].live # Absent
    /\ \A v \in Visible(c) : ~v.spec.public

CredentialKept(c) ==
    LET s == secret[c].live
    IN  /\ Confidential(c)
        /\ s # Absent /\ s.owner = client[c].live.uid
        /\ s.secret # 0 /\ s.digest # NoDigest
        =>  \/ DeleteSecret(c) \/ ClearClientSecret(c)
            \/ /\ secret'[c].live # Absent
               /\ secret'[c].live.secret = s.secret
               /\ secret'[c].live.digest = s.digest

\* "Generate the client secret and its PBKDF2 digest once; never rotate them":
\* while a client lives and is not made public, no step of the controller, the
\* garbage collector, a failure or a restart changes or removes the secret and
\* digest it was given.  Only the user can.
NeverRotated == [][\A c \in Clients : CredentialKept(c)]_vars

\* What the resource asks of its Secret and its status.
SecretServes(c, s, obj) ==
    /\ s # Absent
    /\ s.owner = obj.uid
    /\ s.id = ClientID(c, obj.spec)
    /\ IF obj.spec.public THEN s.secret = 0 /\ s.digest = NoDigest
       ELSE s.secret # 0 /\ s.digest # NoDigest

Settled(c) ==
    IF client[c].live = Absent THEN secret[c].live = Absent
    ELSE client[c].live.status /\ SecretServes(c, secret[c].live, client[c].live)

\* Something will still happen that leads to a reconcile of c.
Pending(c) ==
    \/ c \in queue
    \/ worker # Idle /\ worker.c = c
    \/ Lagging(client[c]) \/ Lagging(secret[c])
    \/ Orphaned(c)

\* No wake-up is lost: a resource whose Secret or status is not what it asks
\* for has a request, a reconcile, an undelivered event or a collection
\* outstanding, whatever was edited, refused or restarted while the controller
\* worked from a stale cache.
NoLostWakeup == \A c \in Clients : Settled(c) \/ Pending(c)

\* Once the user and the failures stop, every resource gets its Secret and its
\* status, and the Secret of a deleted resource goes away.
Converges == <>[](\A c \in Clients : Settled(c))

-----------------------------------------------------------------------------
(* The abstract specification the controller implements. *)

\* The credential a Secret holds, with the incarnation it belongs to.
Credential(s) ==
    IF s = Absent \/ s.secret = 0 \/ s.digest = NoDigest THEN Absent
    ELSE [owner |-> s.owner, value |-> <<s.secret, s.digest>>]

Uid(obj) == IF obj = Absent THEN 0 ELSE obj.uid

ClientKeyring == INSTANCE Keyring WITH
    Names  <- Clients,
    holder <- [c \in Clients |-> Uid(client[c].live)],
    wants  <- [c \in Clients |-> Confidential(c)],
    held   <- [c \in Clients |-> Credential(secret[c].live)],
    asked  <- edits

\* Behind the stale caches, refused writes, retries, collections and restarts,
\* a client's secret and digest are issued once to one incarnation of the
\* resource: no step changes them or hands them to another incarnation, and
\* only the user takes them from a client that still wants them.
ImplementsKeyring == ClientKeyring!KSpec
=============================================================================
