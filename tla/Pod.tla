--------------------------------- MODULE Pod ---------------------------------
(***************************************************************************)
(* What a reconcile of one Authelia writes into its ConfigMap and its      *)
(* Deployment, field by field: the configuration of module Rendering, and  *)
(* the volumes, mounts and environment of the pod template, through which  *)
(* Authelia finds the files the configuration and the environment name.    *)
(*                                                                         *)
(* Caches, retries and the other objects are in module Heliop.  Here a     *)
(* reconcile reads the inputs, writes the ConfigMap, then the Deployment,  *)
(* which the API server may refuse as invalid.                             *)
(*                                                                         *)
(* Data abstraction.  A name of a volume or of a variable is a sequence of *)
(* characters, where a run of letters that is never cut may be one         *)
(* character.  A directory is a base directory and the name of a volume in *)
(* it.  Clients are their client IDs (two clients with one ID are a matter *)
(* of module Heliop); generated rules are opaque.  The image, replicas,    *)
(* probes, ports, labels and compute resources of the template are copied  *)
(* or constant and are left out.                                           *)
(***************************************************************************)
EXTENDS Rendering

CONSTANTS
    Normal,        \* Normal[ch]: ch in lower case; "-" if no letter or digit
    NameLimit,     \* the longest name of a volume, 63
    Options,       \* Options[f]: the values the input f may take
    First,         \* the inputs at the beginning
    MaxChanges     \* bound on changes of the inputs

Fields == {"config", "users", "secrets", "hostname", "existing", "claim",
           "rules", "clients"}
NoRef == [secret |-> "", key |-> ""]
File  == <<"_", "FILE">>

ASSUME OptionsAssumption ==
    /\ DOMAIN Options = Fields /\ DOMAIN First = Fields
    /\ \A f \in Fields : First[f] \in Options[f]
    /\ NameLimit \in Nat \ {0} /\ MaxChanges \in Nat
\* additionalConfig is an object with strings for keys; settings.secrets is a
\* list with one entry for a name.  Only the last label of a hostname may be
\* empty, after another.
ASSUME InputsAssumption ==
    /\ \A t \in Options["config"] :
           /\ DOMAIN t \subseteq Seq(STRING)
           /\ \A p, q \in DOMAIN t : p # q => ~IsPrefix(p, q)
    /\ \A h \in Options["hostname"] :
           h \in Seq(STRING) /\ \A i \in DOMAIN h : i = 1 \/ i < Len(h) => h[i] # ""
    /\ \A s \in Options["secrets"] :
           /\ s \in Seq(ToSet(s))
           /\ \A i, j \in DOMAIN s : i # j => s[i].name # s[j].name
           /\ \A i \in DOMAIN s : s[i].name \in Seq(DOMAIN Normal)
\* The limit leaves room for the names the operator gives its own volumes.
ASSUME NormalAssumption ==
    Normal["FILE"] = "file" /\ NameLimit >= 3

VARIABLES
    input,     \* the resource's spec, its clients and the generated rules
    worker,    \* the reconcile: the next write, and the inputs it has read
    cm,        \* the ConfigMap, and the inputs it was made from
    deploy,    \* the Deployment, and the inputs it was made from
    refused,   \* whether the last Deployment was refused
    changes    \* changes of the inputs so far

vars == <<input, worker, cm, deploy, refused, changes>>

-----------------------------------------------------------------------------
(* Names and paths. *)

\* isFileSecret
IsFileSecret(name) == IsSuffix(File, name)

\* strings.Trim(s, "-")
Trimmed(s) ==
    LET solid == {i \in DOMAIN s : s[i] # "-"}
    IN  IF solid = {} THEN <<>> ELSE SubSeq(s, Min(solid), Max(solid))

Normalised(name) == Trimmed([i \in DOMAIN name |-> Normal[name[i]]])

\* Mutant of SecretVolumeName: the cut may leave a "-" at the end.
CutName(name) ==
    LET n == Normalised(name)
    IN  IF Len(n) > NameLimit THEN SubSeq(n, 1, NameLimit) ELSE n

\* secretVolumeName
SecretVolumeName(name) ==
    LET n == Normalised(name)
    IN  IF Len(n) > NameLimit THEN Trimmed(SubSeq(n, 1, NameLimit)) ELSE n

Dir(base, volume) == [base |-> base, volume |-> volume]
CoreDir  == Dir("/secrets", <<>>)
UsersDir == Dir("/authelia/file-backend", <<>>)

\* secretMountPath
SecretMountPath(name) == Dir("/authelia/secrets", SecretVolumeName(name))

\* fileUsersPath
FileUsersPath(ref) == [dir |-> UsersDir, key |-> ref.key]

-----------------------------------------------------------------------------
(* The pod template. *)

\* coreSecretName: the user's Secret or the generated one.
CoreSecretName(in) == IF in.existing = "" THEN "core" ELSE in.existing

Volume(name, kind, source) == [name |-> name, kind |-> kind, source |-> source]
Mount(name, dir) == [name |-> name, dir |-> dir]

\* The volumes the operator names itself.
CoreVolume   == <<"authelia", "-", "secret">>
ConfigVolume == <<"config">>
DataVolume   == <<"data">>
UsersVolume  == <<"file", "-", "backend">>

\* Mutant of FileSecrets: a volume that is already there is not added again.
FileSecretsOnce(in) ==
    LET all == {s \in ToSet(in.secrets) : IsFileSecret(s.name)}
        Same(s) == {t \in all : SecretVolumeName(s.name) = SecretVolumeName(t.name)}
    IN  SetToSeq({s \in all : s = CHOOSE t \in Same(s) : TRUE})

\* The entries of settings.secrets whose Secret is mounted.  (The API server
\* demands that every entry has one.)  The order of volumes and of mounts means
\* nothing.
FileSecrets(in) == SetToSeq({s \in ToSet(in.secrets) : IsFileSecret(s.name)})

\* The core Secret, the ConfigMap and /data, the users database when there is
\* one, and the Secret of every _FILE variable.
Volumes(in) ==
    <<Volume(CoreVolume, "secret", CoreSecretName(in)),
      Volume(ConfigVolume, "configMap", "config"),
      Volume(DataVolume, IF in.claim THEN "claim" ELSE "emptyDir", "data")>>
    \o (IF in.users = NoRef THEN <<>>
        ELSE <<Volume(UsersVolume, "secret", in.users.secret)>>)
    \o [i \in DOMAIN FileSecrets(in) |->
          Volume(SecretVolumeName(FileSecrets(in)[i].name), "secret",
                 FileSecrets(in)[i].secret)]

Mounts(in) ==
    <<Mount(ConfigVolume, Dir("/configuration.yaml", <<>>)),
      Mount(CoreVolume, CoreDir),
      Mount(DataVolume, Dir("/data", <<>>))>>
    \o (IF in.users = NoRef THEN <<>> ELSE <<Mount(UsersVolume, UsersDir)>>)
    \o [i \in DOMAIN FileSecrets(in) |->
          Mount(SecretVolumeName(FileSecrets(in)[i].name),
                SecretMountPath(FileSecrets(in)[i].name))]

\* The Authelia variables the operator sets itself, and the core key each names.
CoreVar(name, key) == [name |-> name, key |-> key]
CoreVars == {CoreVar(<<"SESSION_SECRET", "_", "FILE">>, "SESSION_ENCRYPTION_KEY"),
             CoreVar(<<"STORAGE_ENCRYPTION_KEY", "_", "FILE">>, "STORAGE_ENCRYPTION_KEY")}
OIDCVars == {CoreVar(<<"OIDC_HMAC_SECRET", "_", "FILE">>, "OIDC_HMAC_SECRET"),
             CoreVar(<<"OIDC_ISSUER_PRIVATE_KEY", "_", "FILE">>, "OIDC_PRIVATE_KEY")}

\* A variable holds the path of a file, or the value of a Secret's key.
PathVar(name, dir, key) ==
    [name |-> name, file |-> TRUE, dir |-> dir, secret |-> "", key |-> key]
ValueVar(name, secret, key) ==
    [name |-> name, file |-> FALSE, dir |-> CoreDir, secret |-> secret, key |-> key]

\* autheliaFileEnv.  The variable that disables the health check is left out.
AutheliaFileEnv(in, oidcEnabled) ==
    SetToSeq({PathVar(v.name, CoreDir, v.key) : v \in CoreVars})
    \o (IF oidcEnabled
        THEN SetToSeq({PathVar(v.name, CoreDir, v.key) : v \in OIDCVars})
        ELSE <<>>)
    \o [i \in DOMAIN in.secrets |->
          LET s == in.secrets[i]
          IN  IF IsFileSecret(s.name)
              THEN PathVar(s.name, SecretMountPath(s.name), s.key)
              ELSE ValueVar(s.name, s.secret, s.key)]

\* renderConfig, for the inputs a reconcile has read.
Rendered(in) ==
    RenderConfig(in.config, in.users # NoRef, FileUsersPath(in.users),
                 in.hostname, in.rules, in.clients)

\* buildDeployment.  A checksum is the configuration it was computed from.
BuildDeployment(in) ==
    [volumes |-> Volumes(in), mounts |-> Mounts(in),
     env |-> AutheliaFileEnv(in, in.clients # {}), checksum |-> Rendered(in)]

-----------------------------------------------------------------------------
(* The cluster. *)

\* The API server's validation of a pod template: names of volumes are distinct
\* DNS labels, mount paths are distinct.
Label(name) ==
    name # <<>> /\ Len(name) <= NameLimit /\ Head(name) # "-" /\ Last(name) # "-"
Valid(d) ==
    /\ \A i \in DOMAIN d.volumes : Label(d.volumes[i].name)
    /\ \A i, j \in DOMAIN d.volumes : i # j => d.volumes[i].name # d.volumes[j].name
    /\ \A i, j \in DOMAIN d.mounts : i # j => d.mounts[i].dir # d.mounts[j].dir

\* In a container the last of several variables with one name counts.
HasVar(d, name) == \E i \in DOMAIN d.env : d.env[i].name = name
VarOf(d, name) == d.env[SelectLastInSeq(d.env, LAMBDA v : v.name = name)]

\* The volumes seen in a directory.
SeenIn(d, dir) ==
    {v \in ToSet(d.volumes) :
        \E m \in ToSet(d.mounts) : m.dir = dir /\ m.name = v.name}

\* The file shows the key of the Secret, and of no other, through a mount and its
\* volume.
FileShows(d, file, secret, key) ==
    /\ file.key = key
    /\ SeenIn(d, file.dir) # {}
    /\ \A v \in SeenIn(d, file.dir) : v.kind = "secret" /\ v.source = secret

VarShows(d, name, secret, key) ==
    /\ HasVar(d, name)
    /\ LET v == VarOf(d, name)
       IN  IF v.file
           THEN FileShows(d, [dir |-> v.dir, key |-> v.key], secret, key)
           ELSE v.secret = secret /\ v.key = key

-----------------------------------------------------------------------------
NotYet == [made |-> FALSE]
Made(x, in) == [made |-> TRUE, is |-> x, of |-> in]

Init ==
    /\ input = First
    /\ worker = [at |-> "idle"]
    /\ cm = NotYet /\ deploy = NotYet
    /\ refused = FALSE /\ changes = 0

\* The user edits the resource; a client or an Ingress comes or goes.
Change(f) ==
    /\ changes < MaxChanges /\ changes' = changes + 1
    /\ \E v \in Options[f] \ {input[f]} : input' = [input EXCEPT ![f] = v]
    /\ UNCHANGED <<worker, cm, deploy, refused>>

\* A reconcile reads, renders and writes the ConfigMap ...
WriteConfigMap ==
    /\ worker.at = "idle"
    /\ cm' = Made(Rendered(input), input)
    /\ worker' = [at |-> "deploy", in |-> input]
    /\ UNCHANGED <<input, deploy, refused, changes>>

\* ... and then the Deployment.  An error ends it; the retry starts over.
WriteDeployment ==
    /\ worker.at = "deploy"
    /\ LET d == BuildDeployment(worker.in)
       IN  /\ deploy' = IF Valid(d) THEN Made(d, worker.in) ELSE deploy
           /\ refused' = ~Valid(d)
    /\ worker' = [at |-> "idle"]
    /\ UNCHANGED <<input, cm, changes>>

Next == WriteConfigMap \/ WriteDeployment \/ \E f \in Fields : Change(f)

Spec == Init /\ [][Next]_vars

-----------------------------------------------------------------------------
(* Properties. *)

\* What the operator is documented to layer onto additionalConfig.
Layered(in) ==
    (IF in.users = NoRef THEN {} ELSE {UsersPath})
    \cup (IF in.rules = <<>> THEN {} ELSE {RulesPath})
    \cup (IF in.clients = {} THEN {} ELSE {ClientsPath})
    \cup (IF in.hostname = <<>>
             \/ \E q \in DOMAIN in.config : IsPrefix(CookiesPath, q)
          THEN {} ELSE {CookiesPath})

\* "Merged verbatim as the base configuration": every entry of additionalConfig
\* is in the ConfigMap as it was written, unless something the operator layers
\* on top stands in its place; static rules follow the generated ones; and
\* nothing else is in it.  So a static client list or cookie that had to give
\* way is back as soon as the last client or the hostname is gone.
ConfigKept ==
    cm.made =>
        LET in == cm.of
        IN  /\ \A q \in DOMAIN in.config :
                 (\A p \in Layered(in) : ~Meet(p, q)) =>
                    q \in DOMAIN cm.is /\ cm.is[q] = in.config[q]
            /\ DOMAIN cm.is \subseteq DOMAIN in.config \cup Layered(in)
            /\ Layered(in) \subseteq DOMAIN cm.is
            /\ in.rules # <<>> /\ RulesPath \in DOMAIN in.config
               /\ in.config[RulesPath].list =>
                    cm.is[RulesPath].items = in.rules \o in.config[RulesPath].items

\* The labels of a domain name, without the empty one after a trailing dot.
Labels(h) == {i \in DOMAIN h : h[i] # ""}

\* The cookie generated for a hostname covers the portal and no more than its
\* parent domain, "or the hostname unchanged when it has no subdomain": the
\* domain is a suffix of the hostname, and it is the hostname itself or has two
\* labels at least.  A cookie for a whole top level domain, or for none, is not
\* accepted by Authelia.
CookieCovers ==
    cm.made /\ CookiesPath \in Layered(cm.of) =>
        LET domain == cm.is[CookiesPath].items[1].domain
        IN  /\ IsSuffix(domain, cm.of.hostname)
            /\ domain = cm.of.hostname \/ {1, 2} \subseteq Labels(domain)

\* Whatever Deployment the API server has accepted, each file and variable leads
\* to the Secret and key it was meant for: the users file the configuration
\* names, every entry of settings.secrets, and the core secrets the user does
\* not override, those for OIDC whenever clients are rendered.  Two variables
\* never share a volume.
FilesResolve ==
    deploy.made =>
        LET in == deploy.of
            d  == deploy.is
            core == CoreVars \cup (IF in.clients = {} THEN {} ELSE OIDCVars)
            mapped == {s.name : s \in ToSet(in.secrets)}
        IN  /\ in.users # NoRef =>
                 FileShows(d, d.checksum[UsersPath].items[1],
                           in.users.secret, in.users.key)
            /\ \A s \in ToSet(in.secrets) : VarShows(d, s.name, s.secret, s.key)
            /\ \A v \in core : v.name \notin mapped =>
                 VarShows(d, v.name, CoreSecretName(in), v.key)

\* Two _FILE variables that differ only in what the name of a volume does not
\* keep: in case, in which character that is no letter or digit stands somewhere,
\* or beyond the limit.
At(s, i) == IF i \in DOMAIN s THEN s[i] ELSE "-"
Alike(m, n) ==
    \A i \in 1..NameLimit : At(Normalised(m), i) = At(Normalised(n), i)

\* A variable over the limit of which only the name of one of the operator's own
\* volumes is left, such as CONFIG, 58 underscores and FILE.
LooksOwn(n) ==
    /\ Len(Normalised(n)) > NameLimit
    /\ \E v \in {CoreVolume, ConfigVolume, DataVolume, UsersVolume} :
         \A i \in 1..NameLimit : At(Normalised(n), i) = At(v, i)

\* A Deployment is refused only when two variables are alike in this sense, or one
\* looks like a volume of the operator: the names it derives are always valid
\* labels, and clash for no other reason.
RefusedOnlyAlike ==
    refused /\ worker.at = "idle" =>
        LET files == {s.name : s \in ToSet(FileSecrets(cm.of))}
        IN  \/ \E m, n \in files : m # n /\ Alike(m, n)
            \/ \E n \in files : LooksOwn(n)
=============================================================================
