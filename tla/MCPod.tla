-------------------------------- MODULE MCPod --------------------------------
(* A small instance of the rendering and the pod template for TLC. *)
EXTENDS Pod

Chars == ("A" :> "a") @@ ("a" :> "a") @@ ("B" :> "b") @@ ("C" :> "c")
         @@ ("_" :> "-") @@ ("." :> "-")
         @@ ("FILE" :> "file") @@ ("CONFIG" :> "config") @@ ("BACKEND" :> "backend")
         @@ ("SESSION_SECRET" :> "session-secret")

\* Nothing; every place the operator writes to, with neighbours; something that
\* is no object on the way to each; something else than expected in each; empty
\* objects on the way to some, and at the cookies.
Rich ==
    (UsersPath :> Scalar("own")) @@ (<<"authentication_backend", "file", "watch">> :> Scalar("yes"))
    @@ (<<"session", "name">> :> Scalar("sid")) @@ (CookiesPath :> List(<<"own">>))
    @@ (<<"access_control", "default_policy">> :> Scalar("deny"))
    @@ (RulesPath :> List(<<"static">>)) @@ (<<"theme">> :> Scalar("dark"))
    @@ (ClientsPath :> List(<<"static">>)) @@ (<<"identity_providers", "oidc", "jwks">> :> List(<<"key">>))
Blocked ==
    (<<"authentication_backend", "file">> :> Scalar("no")) @@ (<<"session">> :> Scalar("no"))
    @@ (<<"access_control">> :> Scalar("no")) @@ (<<"identity_providers">> :> Scalar("no"))
Odd ==
    (UsersPath \o <<"x">> :> Scalar("no")) @@ (CookiesPath \o <<"x">> :> Scalar("no"))
    @@ (RulesPath :> Scalar("no")) @@ (ClientsPath :> Scalar("no"))

Hollow ==
    (<<"authentication_backend">> :> EmptyObject) @@ (CookiesPath :> EmptyObject)
    @@ (<<"identity_providers", "oidc">> :> EmptyObject)

Ref(s, k) == [secret |-> s, key |-> k]
Entry(n, s, k) == [name |-> n, secret |-> s, key |-> k]
Short  == <<"A", "_", "FILE">>
Plain  == <<"A", "_", "B">>
Dotted == <<".", "a", ".", "_", "FILE">>
Other  == <<"A", ".", "_", "FILE">>
Longer == <<"A", "_", "B", "_", "C", "_", "A", "_", "FILE">>
LongerToo == <<"A", "_", "B", "_", "C", "_", "B", "_", "FILE">>
CutAtDash == <<"A", "B", "_", "B", "_", "_", "FILE">>
Backend == <<"FILE", "_", "BACKEND", "_", "FILE">>
Config  == <<"CONFIG", "_", "_", "_", "_", "_", "FILE">>
Session == <<"SESSION_SECRET", "_", "FILE">>

SecretLists ==
    {<<>>, <<Entry(Short, "s1", "k1"), Entry(Plain, "s2", "k2")>>,
     <<Entry(Dotted, "s1", "k1"), Entry(Other, "s2", "k2")>>,
     <<Entry(Longer, "s1", "k1"), Entry(LongerToo, "s2", "k2")>>,
     <<Entry(Longer, "s1", "k1"), Entry(Short, "s1", "k2")>>,
     <<Entry(CutAtDash, "s1", "k1")>>, <<Entry(Config, "s1", "k1")>>,
     <<Entry(Session, "s1", "k1"), Entry(Backend, "s2", "k2")>>}

Hostnames == {<<>>, <<"auth", "example", "com">>, <<"host">>, <<"host", "">>}

Values ==
    [config   |-> {<<>>, Rich, Blocked, Odd, Hollow},
     users    |-> {NoRef, Ref("u1", "k1"), Ref("u2", "k2")},
     secrets  |-> SecretLists,
     hostname |-> Hostnames,
     existing |-> {"", "mine"},
     claim    |-> BOOLEAN,
     rules    |-> {<<>>, <<"generated">>},
     clients  |-> {{}, {1}, {1, 2}}]

\* A portal at a domain without a subdomain.
ApexValues == [Values EXCEPT !.hostname = Hostnames \cup {<<"example", "com">>}]

Start == [config |-> Rich, users |-> NoRef, secrets |-> <<>>, hostname |-> <<>>,
          existing |-> "", claim |-> FALSE, rules |-> <<>>, clients |-> {}]
=============================================================================
