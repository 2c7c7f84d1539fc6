-------------------------------- MODULE Kube --------------------------------
(***************************************************************************)
(* The Kubernetes API server and the controller-runtime client, as far as  *)
(* the operator uses them.  Neither is part of the repository: this module *)
(* is derived from the calls the controllers make (Get and List read the   *)
(* manager's informer cache, Create and Update go to the API server,       *)
(* controllerutil.CreateOrUpdate combines them).                           *)
(*                                                                         *)
(* One API object, by name, is a record                                    *)
(*   live  the object at the API server, or Absent;                        *)
(*   seen  the informer cache's copy, which every Get and List returns;    *)
(*   feed  the versions written since `seen', oldest first: the watch      *)
(*         events not delivered yet.                                       *)
(* A resourceVersion is a position in this history, so "the cached copy is *)
(* current" is feed = <<>>.                                                *)
(***************************************************************************)
EXTENDS Naturals, Sequences

CONSTANT Absent    \* the result of reading a name that has no object

Rep(S) == [live : S, seen : S, feed : Seq(S)]

NeverWritten == [live |-> Absent, seen |-> Absent, feed |-> <<>>]

\* A write accepted by the API server.
Write(r, v) == [live |-> v, seen |-> r.seen, feed |-> Append(r.feed, v)]

\* An update whose content is what the server already holds changes nothing:
\* no new resourceVersion, no watch event.
Put(r, v) == IF v = r.live THEN r ELSE Write(r, v)

\* Delivery of the next watch event to the informer.
Observe(r) == [live |-> r.live, seen |-> Head(r.feed), feed |-> Tail(r.feed)]

\* An informer that starts lists the live objects.
Relist(r) == [live |-> r.live, seen |-> r.live, feed |-> <<>>]

Lagging(r) == r.feed # <<>>

\* Optimistic concurrency.  A Create is refused when the name is taken, an
\* Update when the resourceVersion it was computed from is not the current one.
Accepts(r) == IF r.seen = Absent THEN r.live = Absent ELSE ~Lagging(r)

\* The history ends in the live object.
Linked(r) ==
    /\ ~Lagging(r) => r.seen = r.live
    /\ Lagging(r) => r.feed[Len(r.feed)] = r.live

\* Every version of the object that somebody may still read.
Versions(r) == {r.live, r.seen} \cup {r.feed[i] : i \in DOMAIN r.feed}
=============================================================================
