----------------------------- MODULE MCSinkHooks -----------------------------
(***************************************************************************)
(* Instances of SinkHooks for TLC.                                         *)
(***************************************************************************)
EXTENDS SinkHooks, TLC

CONSTANTS u1, u2, a, c, sl, sw, sc, ml, mw, mv

ThreeSinks == sl :> "loki" @@ sw :> "write" @@ sc :> "cloud"
OneEach == ml :> sl @@ mw :> sw

(* A hook sees one state of the world and keeps its writes to itself until *)
(* it ends, so what happens meanwhile -- around the units or in a hook of  *)
(* another unit -- can as well happen before it or after it: only an       *)
(* election and a fault come in the middle.  Two units meet only where     *)
(* they lead one after the other: u1 keeps up with the world, which moves  *)
(* on when it has run its hooks, u2 may fall behind, and either may lead.  *)
(* The first url a remote unit has is a, and no relation is removed before *)
(* it had a member.  Where the file of the first leader has been edited,   *)
(* that is u1, with listeners.                                             *)
Busy == {u \in Unit : ~Free(u) /\ ~hook[u].failed}
Reduced ==
  /\ Cardinality(Busy') <= 1
  /\ Busy # {} /\ leader' = leader =>
       UNCHANGED <<member, url, cloud, dying, ask, requirer, due>>
  /\ Busy = {} /\ leader' = leader /\ count' # count => NothingDue(u1)
  /\ \A u \in Unit \ {u1} : Free(u) /\ ~Free(u)' => NothingDue(u1)
  /\ count = 0 /\ drifted # {} => leader = u1 /\ ask.syslog
  /\ \A m \in Remote : url[m] = NoUrl => url'[m] \in {NoUrl, a}
  /\ \A s \in dying' \ dying :
       KindOf[s] = "cloud" \/ \E m \in Remote : SinkOf[m] = s /\ member[m] # Absent

(* One remote-write relation with two units. *)
WriteOnly == sw :> "write"
TwoWriters == mw :> sw @@ mv :> sw
NoCloud == {[loki |-> {}, write |-> {}]}

NoneOrBoth == {[loki |-> {}, write |-> {}], [loki |-> {a}, write |-> {c}]}

=============================================================================
