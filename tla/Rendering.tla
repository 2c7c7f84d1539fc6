------------------------------ MODULE Rendering ------------------------------
(***************************************************************************)
(* renderConfig: the Authelia configuration, made from the additionalConfig *)
(* object of the resource by layering the users file, a default session    *)
(* cookie, the generated access rules and the OIDC clients onto it.        *)
(*                                                                         *)
(* A configuration tree is a function from the paths of its leaves to      *)
(* their values; a path is a sequence of keys, and none is a prefix of     *)
(* another.  What is not an object (a scalar, null, a list) is a leaf, and *)
(* so is an object without entries.                                        *)
(*                                                                         *)
(* A hostname is the sequence of its labels, <<>> when it is not set; a    *)
(* trailing dot is an empty last label.                                    *)
(***************************************************************************)
EXTENDS Naturals, SequencesExt

Scalar(x) == [list |-> FALSE, items |-> <<x>>]
List(s)   == [list |-> TRUE, items |-> s]
EmptyObject == [list |-> FALSE, items |-> <<>>]

UsersPath   == <<"authentication_backend", "file", "path">>
CookiesPath == <<"session", "cookies">>
RulesPath   == <<"access_control", "rules">>
ClientsPath == <<"identity_providers", "oidc", "clients">>

\* One of two paths runs through the other.
Meet(p, q) == IsPrefix(p, q) \/ IsPrefix(q, p)

\* Mutant of Assign: childMap makes a new object every time.
AssignInNewMap(t, p, v) ==
    LET kept == {q \in DOMAIN t : q # <<>> /\ q[1] # p[1]}
    IN  [q \in kept \cup {p} |-> IF q = p THEN v ELSE t[q]]

\* childMap for every key of p but the last, then an assignment to the last: a
\* leaf on the way is replaced by an object, what stood at p by v.
Assign(t, p, v) ==
    LET kept == {q \in DOMAIN t : ~Meet(p, q)}
    IN  [q \in kept \cup {p} |-> IF q = p THEN v ELSE t[q]]

\* Mutant of ParentDomain: a trailing dot counts as a subdomain's.
CutsAtAnyDot(hostname) == IF Len(hostname) > 1 THEN Tail(hostname) ELSE hostname

\* parentDomain: without the first label, if anything follows its dot.
ParentDomain(hostname) ==
    IF Len(hostname) > 1 /\ Tail(hostname) # <<"">> THEN Tail(hostname) ELSE hostname

\* The default cookie: the domain it is valid for and the portal's URL.
Cookie(hostname) == [domain |-> ParentDomain(hostname), autheliaURL |-> hostname]

\* applyFileBackend, for the mounted file of fileUsersSecret.
ApplyFileBackend(t, set, file) == IF set THEN Assign(t, UsersPath, Scalar(file)) ELSE t

\* applySession: whatever the user has under session.cookies is enough.
ApplySession(t, hostname) ==
    IF hostname = <<>> \/ \E q \in DOMAIN t : IsPrefix(CookiesPath, q) THEN t
    ELSE Assign(t, CookiesPath, List(<<Cookie(hostname)>>))

\* The generated rules go before the static ones; rules that are not a list
\* are dropped.
ApplyRules(t, rules) ==
    LET existing == IF RulesPath \in DOMAIN t /\ t[RulesPath].list
                    THEN t[RulesPath].items ELSE <<>>
    IN  IF rules = <<>> THEN t ELSE Assign(t, RulesPath, List(rules \o existing))

\* The clients, sorted by client ID, replace any static list.
ApplyClients(t, clients) ==
    IF clients = {} THEN t
    ELSE Assign(t, ClientsPath, List(SetToSortSeq(clients, <)))

\* renderConfig
RenderConfig(config, users, file, hostname, rules, clients) ==
    ApplyClients(
        ApplyRules(
            ApplySession(ApplyFileBackend(config, users, file), hostname),
            rules),
        clients)
=============================================================================
