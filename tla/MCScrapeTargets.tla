--------------------------- MODULE MCScrapeTargets ---------------------------
(***************************************************************************)
(* Instances of ScrapeTargets for TLC.                                     *)
(***************************************************************************)
EXTENDS ScrapeTargets, TLC

CONSTANTS a, b, m1, m2, m3, x, y, o

(* Two relations to application a, which its unit 1 is in both of, and one *)
(* to b.                                                                   *)
Apps == 1 :> a @@ 2 :> a @@ 3 :> b
Relations == m1 :> 1 @@ m2 :> 2 @@ m3 :> 3
Numbers == m1 :> "1" @@ m2 :> "1" @@ m3 :> "1"

J(name, targets, spec) == [name |-> name, targets |-> targets, spec |-> spec]

(* Names that meet in one list, with the number of a unit, and with those  *)
(* of the other relation of a; a job of each kind. *)
Lists ==
  1 :> {<<J(<<"n">>, {"wild"}, "other"), J(<<"n", "1">>, {"fixed"}, "plain")>>,
        <<J(<<"n">>, {"wild"}, "plain"), J(<<"n">>, {"wild"}, "other")>>,
        <<J(<<"n">>, {"wild"}, "plain"), J(<<"n">>, {"wild"}, "refused")>>} @@
  2 :> {<<>>, <<J(<<"n">>, {}, "plain")>>} @@
  3 :> {<<J(<<"n">>, {"wild"}, "plain"), J(<<"p">>, {"wild", "fixed"}, "unsupported")>>}
Extras == {<<>>, <<J(<<"n">>, {"wild"}, "plain")>>}

(* Juju runs relation-changed right after relation-joined; units are seen  *)
(* in the order of their relations, and the world goes on when at most one *)
(* hook is due.                                                            *)
Due == Cardinality(changed) + (IF due THEN 1 ELSE 0)
         + Cardinality({m \in Remote : (member[m] = "present") # (m \in view) /\ member[m] # "absent"})
Reduced ==
  /\ \A m \in view' \ view :
       /\ changed = {}
       /\ \A k \in Remote : RelOf[k] < RelOf[m] => ~(member[k] = "present" /\ k \notin view)
  /\ <<provider, write, leader>>' # <<provider, write, leader>> => Due <= 1

Interchangeable == Permutations({x, y})
=============================================================================
