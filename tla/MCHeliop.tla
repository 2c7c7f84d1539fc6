------------------------------ MODULE MCHeliop ------------------------------
(* Small instances of the whole operator for TLC. *)
EXTENDS Heliop

Main == [name |-> "main", ns |-> "auth"]
OneAuthelia == {Main}
OneClient == {1}
TwoClients == {1, 2}
InAuth == [c \in Clients |-> "auth"]
OneIngress == {1}

ASpec(s, e, v) == [settings |-> s, image |-> 1, existing |-> e, vct |-> v]
OneSpec == {ASpec(1, FALSE, FALSE)}
ClaimSpec == {ASpec(1, FALSE, TRUE)}
SettingsSpecs == {ASpec(1, FALSE, FALSE), ASpec(2, FALSE, FALSE)}
MixedSpecs == {ASpec(1, FALSE, TRUE), ASpec(2, TRUE, FALSE)}

CSpec(p, i, n, ns) ==
    [public |-> p, id |-> i, ref |-> [name |-> n, ns |-> ns], copied |-> 1]
\* A client of the Authelia under check, and of one that does not exist.
Retargeted == {CSpec(FALSE, 0, "main", ""), CSpec(FALSE, 3, "other", "auth")}
OneConfidential == {CSpec(FALSE, 0, "main", "")}
\* One ID, and a difference in a field that is copied.
SameID == {[CSpec(TRUE, 3, "main", "") EXCEPT !.copied = n] : n \in {1, 2}}

Rule == {[annotated |-> TRUE, yields |-> TRUE, rule |-> 1],
         [annotated |-> TRUE, yields |-> FALSE, rule |-> 0],
         [annotated |-> FALSE, yields |-> TRUE, rule |-> 0]}
None == {}

ClientOps == {"create", "edit", "delete", "createAuthelia"}
RegenerateOps == {"create", "deleteSecret", "createAuthelia"}
AutheliaOps ==
    {"createAuthelia", "editAuthelia", "deleteAuthelia", "deleteOwned", "ingress"}
EditOps == {"createAuthelia", "editAuthelia"}
RecreateOps == {"createAuthelia", "deleteAuthelia"}
=============================================================================
