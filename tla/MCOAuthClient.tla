---------------------------- MODULE MCOAuthClient ----------------------------
(* Small instances of the AutheliaOAuthClient controller for TLC. *)
EXTENDS OAuthClient

KeepingOps == {"create", "edit", "delete", "deleteSecret", "clearBoth"}
ClearingOps == {"create", "clearClientSecret"}

OneClient  == {1}

\* Confidential and public, with and without an explicit client ID.
Specs ==
    {[public |-> FALSE, id |-> 0], [public |-> TRUE, id |-> 0],
     [public |-> FALSE, id |-> 3]}
=============================================================================
