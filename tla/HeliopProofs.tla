---------------------------- MODULE HeliopProofs ----------------------------
(***************************************************************************)
(* The operator implements the AutheliaOAuthClient controller: composed    *)
(* with the Authelia controller in one manager, with one cache, that       *)
(* controller keeps every property proved of it alone.                     *)
(***************************************************************************)
EXTENDS Heliop, OAuthClientProofs

\* A step of the client's own side, a client event, a restart.
LEMMA ClientSteps ==
    ASSUME NEW c \in Clients, ClientSide(c) \/ DeliverClientToBoth(c)
    PROVE  Next
  BY DEF ClientSide, DeliverClientToBoth, Next, Cluster

\* The reconcile of an Authelia writes nothing the client controller reads.
LEMMA AutheliaReconcileSteps ==
    ASSUME NEW a \in Authelias, AReconcile(a) \/ AReconcileError(a)
    PROVE  UNCHANGED vars
  BY DEF AReconcile, AStart, ACollect, APVC, AStatus, AApply, AApplyRefused,
         AReconcileError

\* Neither do the watches, the cluster and the user, where Authelias and
\* Ingresses are concerned.
LEMMA AutheliaOtherSteps ==
    ASSUME NEW a \in Authelias, ACluster(a) \/ AUser(a)
    PROVE  UNCHANGED vars
  BY DEF ACluster, DeliverAuthelia, DeliverPVC, PodStart, PodStop, DeliverOwned,
         ACollectGarbage, AUser, CreateAuthelia, EditAuthelia, DeleteAuthelia,
         DeleteOwned

\* Every step of the operator is a step of the client controller or a stutter.
LEMMA HeliopStep == [HeliopNext]_allVars => [Next]_vars
  <1> SUFFICES ASSUME [HeliopNext]_allVars PROVE [Next]_vars
    OBVIOUS
  <1>1. ASSUME NEW i \in Ingresses, DeliverIngress(i) \/ WriteIngress(i)
        PROVE  UNCHANGED vars
    BY <1>1 DEF DeliverIngress, WriteIngress
  <1>2. CASE HeliopRestart
    BY <1>2 DEF HeliopRestart, Next
  <1>3. CASE UNCHANGED allVars
    BY <1>3 DEF allVars
  <1> QED
    BY <1>1, <1>2, <1>3, ClientSteps, AutheliaReconcileSteps, AutheliaOtherSteps
       DEF HeliopNext

\* The operator, seen through the client controller's variables, is the client
\* controller.
THEOREM HeliopImplementsOAuthClient == HeliopSpec => Spec
  <1>1. HeliopInit => Init
    BY DEF HeliopInit
  <1> QED
    BY <1>1, HeliopStep, PTL DEF HeliopSpec, Spec

\* In the whole operator no wake-up of the client controller is lost, the
\* credentials of a confidential client are never rotated, and the client
\* Secrets are a keyring.
THEOREM HeliopKeepsClients ==
    HeliopSpec => []NoLostWakeup /\ NeverRotated /\ ImplementsKeyring
  BY HeliopImplementsOAuthClient, WakeupKept, CredentialsKept, KeyringImplemented, PTL
=============================================================================
