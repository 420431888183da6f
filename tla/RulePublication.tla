--------------------------- MODULE RulePublication ---------------------------
(***************************************************************************)
(* What the receivers of send-loki-logs and send-remote-write may rely on, *)
(* and what a new leader may: the hook that reconciles, with its loops,    *)
(* failures and changes of leader, looks from outside like one step.       *)
(*                                                                         *)
(* The relations a hook visits get new caches, and from those caches a     *)
(* selection is served that fits the limit and names no ownership twice.   *)
(* A hook that fails, wherever it fails, is no step at all: no receiver    *)
(* and no later hook sees half of it.                                      *)
(***************************************************************************)
EXTENDS RuleState

CONSTANT Missing  \* a backend without a send-* relation

VARIABLES
  cache,     \* the rule caches in the application's databags
  published, \* "alert_rules" of the send-* relation of each backend
  receiver   \* what that relation takes, or Missing

vars == <<cache, published, receiver>>

Init ==
  /\ cache = {}
  /\ receiver = [b \in Backend |-> Missing]
  /\ published = [b \in Backend |-> {}]

(* A hook that visits `visited` ends well. *)
Reconcile(visited) ==
  /\ IsState(cache')
  /\ \A e \in (cache \ cache') \cup (cache' \ cache) : e.rel \in visited
  /\ \E served \in SUBSET {e \in cache' : e.rel \in visited} :
       /\ Publishable(served)
       /\ published' = [b \in Backend |->
                          IF receiver[b] = Missing THEN {} ELSE Flatten(served, b)]
  /\ UNCHANGED receiver

ReceiverChanges(b) ==
  /\ \E e \in {"json", "lzma", Missing} :
       /\ receiver' = [receiver EXCEPT ![b] = e]
       /\ published' = IF e = Missing THEN [published EXCEPT ![b] = {}]
                       ELSE published
  /\ UNCHANGED cache

Next ==
  \/ \E visited \in SUBSET Relation : Reconcile(visited)
  \/ \E b \in Backend : ReceiverChanges(b)

Spec == Init /\ [][Next]_vars
=============================================================================
