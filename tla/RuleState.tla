------------------------------ MODULE RuleState ------------------------------
(***************************************************************************)
(* The rule state of src/src/charm.py: what the leader keeps for the       *)
(* machine-observability relations (RuleCacheState), how two relations     *)
(* that claim the same ownership are told apart, and what is sent          *)
(* downstream.                                                             *)
(*                                                                         *)
(* The state of a relation is a dict from an identity                      *)
(* (artifact_type/artifact_id) to {backend, ownership, groups}.  A dict    *)
(* per relation is a set of entries here, one for each relation and        *)
(* identity.  An identity is a member of Artifact, numbered in the order   *)
(* of alert_rules._identity; its backend follows from its type.  The       *)
(* ownership of an entry is model_uuid/application/type/id: a member of    *)
(* Owner (the first two parts) beside the identity.  The transformed       *)
(* groups of one artifact are a member of Document.                        *)
(***************************************************************************)
EXTENDS Integers, FiniteSets

CONSTANTS
  Relation,          \* ids of the machine-observability relations
  Artifact,          \* artifact identities, in the order of _identity
  Owner,             \* model_uuid/application pairs a topology can name
  Document,          \* transformed rule groups of one artifact
  BackendOf,         \* the backend an identity's type belongs to
  Weight(_),         \* bytes of the compact JSON of a set of groups
  Compressed(_),     \* bytes of its LZMA+base64 form
  PublicationLimit,  \* RULE_PUBLICATION_VALUE_LIMIT, 60 * 1024
  CacheWeight(_),    \* bytes of the encoded cache of one relation
  CacheLimit         \* RULE_CACHE_VALUE_LIMIT

Backend == {"prometheus", "loki"}
Entry == [rel : Relation, art : Artifact, owner : Owner, doc : Document]
Group == [owner : Owner, art : Artifact, doc : Document]

ASSUME RelationAssumption == Relation \subseteq Nat
ASSUME ArtifactAssumption == Artifact \subseteq Nat /\ IsFiniteSet(Artifact)
ASSUME BackendAssumption == BackendOf \in [Artifact -> Backend]
ASSUME WeightAssumption ==
  /\ PublicationLimit \in Nat
  /\ \A groups \in SUBSET Group : Weight(groups) \in Nat
  /\ Weight({}) <= PublicationLimit

(* The entries of relation r: its dict. *)
Of(states, r) == {e \in states : e.rel = r}

(* One entry for each key of each dict. *)
IsState(states) ==
  /\ states \subseteq Entry
  /\ \A e, f \in states : e.rel = f.rel /\ e.art = f.art => e = f

SameOwnership(e, f) == e.owner = f.owner /\ e.art = f.art

(* e's ownership is in `claimed`, the ownerships of `admitted`. *)
Claimed(e, admitted) == \E f \in admitted : SameOwnership(e, f)

(* _without_ownership_conflicts: an entry whose ownership is claimed gives  *)
(* way to the fallback's entry of that identity, if that one is not claimed *)
(* as well.                                                                 *)
WithoutOwnershipConflicts(state, fallback, admitted) ==
  {e \in state : ~Claimed(e, admitted)}
  \cup {f \in fallback : /\ ~Claimed(f, admitted)
                         /\ \E e \in state : e.art = f.art /\ Claimed(e, admitted)}

(* Mutant of NormalizeOwnership: the highest relation wins. *)
NormalizeDescending(states) ==
  {e \in states : ~ \E f \in states : f.rel > e.rel /\ SameOwnership(e, f)}

(* _normalize_ownership_state.  The code admits the relations in ascending *)
(* order, each against those admitted before it; the first relation that   *)
(* claims an ownership is never dropped, so an entry is dropped exactly    *)
(* when a lower relation has its ownership in `states`.                    *)
NormalizeOwnership(states) ==
  {e \in states : ~ \E f \in states : f.rel < e.rel /\ SameOwnership(e, f)}

(* _flatten_rule_state raises "duplicate-ownership" unless this holds. *)
OwnedOnce(states) ==
  \A e, f \in states : SameOwnership(e, f) => e = f

(* _flatten_rule_state: the groups of one backend. *)
Flatten(states, b) ==
  {[owner |-> e.owner, art |-> e.art, doc |-> e.doc] :
      e \in {x \in states : BackendOf[x.art] = b}}

(* _rule_state_is_publishable *)
Publishable(states) ==
  /\ OwnedOnce(states)
  /\ \A b \in Backend : Weight(Flatten(states, b)) <= PublicationLimit

(* publish_rule_groups does not raise: the encoding it settles on is below *)
(* the receiver's capacity.                                                *)
Deliverable(groups, encoding) ==
  \/ encoding = "lzma" /\ Compressed(groups) < PublicationLimit
  \/ Weight(groups) < PublicationLimit
=============================================================================
