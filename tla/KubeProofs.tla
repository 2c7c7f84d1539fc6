----------------------------- MODULE KubeProofs -----------------------------
(***************************************************************************)
(* What the operations on one API object preserve: its type, the link      *)
(* between the watch feed and the live object, and which versions of the   *)
(* object can still be read.  The component proofs cite these lemmas, so   *)
(* that sequences occur in this module only.                               *)
(***************************************************************************)
EXTENDS Kube, TLAPS

\* An accepted write keeps the record of an object well typed.
LEMMA WriteType ==
    ASSUME NEW S, NEW r \in Rep(S), NEW v \in S
    PROVE  Write(r, v) \in Rep(S)
  BY DEF Rep, Write

\* Delivering an event keeps the record of an object well typed.
LEMMA ObserveType ==
    ASSUME NEW S, NEW r \in Rep(S), Lagging(r)
    PROVE  Observe(r) \in Rep(S)
  BY DEF Rep, Observe, Lagging

\* Listing afresh keeps the record of an object well typed.
LEMMA RelistType ==
    ASSUME NEW S, NEW r \in Rep(S)
    PROVE  Relist(r) \in Rep(S)
  BY DEF Rep, Relist

\* After a write the feed ends in what was written, and the cache lags.
LEMMA WriteLinked ==
    ASSUME NEW S, NEW r \in Rep(S), NEW v \in S
    PROVE  /\ Linked(Write(r, v)) /\ Lagging(Write(r, v))
           /\ Write(r, v).live = v /\ Write(r, v).seen = r.seen
  BY DEF Rep, Write, Linked, Lagging

\* A delivery leaves the live object alone and keeps the link.
LEMMA ObserveLinked ==
    ASSUME NEW S, NEW r \in Rep(S), Lagging(r), Linked(r)
    PROVE  Linked(Observe(r)) /\ Observe(r).live = r.live
  BY DEF Rep, Observe, Linked, Lagging

\* A cache that was listed afresh is current.
LEMMA RelistLinked ==
    ASSUME NEW S, NEW r \in Rep(S)
    PROVE  /\ Linked(Relist(r)) /\ ~Lagging(Relist(r))
           /\ Relist(r).live = r.live /\ Relist(r).seen = r.live
  BY DEF Rep, Relist, Linked, Lagging

\* Every version is of the object's type.
LEMMA VersionsType ==
    ASSUME NEW S, NEW r \in Rep(S)
    PROVE  Versions(r) \subseteq S /\ r.live \in Versions(r) /\ r.seen \in Versions(r)
  BY DEF Rep, Versions

\* A write adds one version and loses none.
LEMMA WriteVersions ==
    ASSUME NEW S, NEW r \in Rep(S), NEW v \in S
    PROVE  Versions(Write(r, v)) \subseteq Versions(r) \cup {v}
  BY DEF Rep, Write, Versions

\* A delivery adds no version.
LEMMA ObserveVersions ==
    ASSUME NEW S, NEW r \in Rep(S), Lagging(r)
    PROVE  Versions(Observe(r)) \subseteq Versions(r)
  BY DEF Rep, Observe, Versions, Lagging

\* Listing afresh adds no version.
LEMMA RelistVersions ==
    ASSUME NEW S, NEW r \in Rep(S)
    PROVE  Versions(Relist(r)) \subseteq Versions(r)
  BY DEF Rep, Relist, Versions
=============================================================================
