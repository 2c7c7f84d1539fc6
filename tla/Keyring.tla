------------------------------- MODULE Keyring -------------------------------
(***************************************************************************)
(* What the operator promises about the credentials it generates, with no  *)
(* caches, queues, retries or restarts: the client secret and digest of an *)
(* AutheliaOAuthClient ("generate once; never rotate") and the core Secret *)
(* of an Authelia ("generated once and preserved").                        *)
(*                                                                         *)
(* A credential is issued into an empty place and from then on neither its *)
(* value nor the incarnation it was issued to changes.  It goes away when  *)
(* the user revokes it, when its incarnation is gone, or when that         *)
(* incarnation no longer asks for one.  OAuthClient and Heliop implement   *)
(* this specification.                                                     *)
(***************************************************************************)
EXTENDS Naturals

CONSTANTS
    Names,    \* names of resources that are given a credential
    Absent    \* no credential

VARIABLES
    holder,   \* holder[n]: uid of the resource n, 0 when there is none
    wants,    \* wants[n]: every version of it in use asks for a credential
    held,     \* held[n]: [owner, value] of the credential of n, or Absent
    asked     \* user operations so far

kvars == <<holder, wants, held, asked>>

KInit ==
    /\ holder = [n \in Names |-> 0]
    /\ wants \in [Names -> BOOLEAN]
    /\ held = [n \in Names |-> Absent]
    /\ asked = 0

\* A live resource is entitled to keep the credential it was issued.
Entitled(n) == held[n] # Absent /\ held[n].owner = holder[n] /\ wants[n]

\* The user creates, edits or deletes a resource: credentials stay.
Amend ==
    /\ asked' = asked + 1
    /\ UNCHANGED held

\* The user takes a credential away; what else exists stays.
Revoke(n) ==
    /\ asked' = asked + 1
    /\ held[n] # Absent
    /\ \A m \in Names : held'[m] = IF m = n THEN Absent ELSE held[m]
    /\ UNCHANGED holder

\* The operator or the cluster issues a credential where there is none, or
\* removes one nobody is entitled to.
Serve ==
    /\ \A n \in Names :
         \/ held'[n] = held[n]
         \/ held[n] = Absent
         \/ held'[n] = Absent /\ ~Entitled(n)
    /\ UNCHANGED <<holder, asked>>

KNext == Amend \/ Serve \/ \E n \in Names : Revoke(n)

KSpec == KInit /\ [][KNext]_kvars
=============================================================================
