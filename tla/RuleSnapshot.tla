---------------------------- MODULE RuleSnapshot ----------------------------
(***************************************************************************)
(* What one machine-observability payload asks of a relation's rule state: *)
(* _validated_rule_snapshot and _build_relation_rule_state of charm.py and *)
(* build_rule_state of alert_rules.py.  Decoding, YAML, schema and size    *)
(* checks of an artifact's content are abstracted to their verdict, the    *)
(* member of Content the provider put at that identity.                    *)
(***************************************************************************)
EXTENDS RuleState

CONSTANTS
  Rejected,       \* payload refused as a whole: _desired_... returns None
  Plain,          \* a v1 or v2 payload, or no payload: no artifacts
  Omitted,        \* no raw artifact at this position
  Unidentified,   \* a raw artifact without a valid type and id
  Malformed,      \* identified, but decoding, schema or transform fails
  Refused,        \* transformed, but cos-tool does not accept it
  MaxArtifacts,   \* MAX_RULE_ARTIFACTS, 32
  Decoded(_),     \* bytes that a set of (identity, content) pairs decodes to
  DecodeLimit,    \* MAX_TOTAL_DECODED_ARTIFACT_BYTES, 1024 * 1024
  Calls           \* _MAX_VALIDATION_CALLS, 32

Content == Document \cup {Omitted, Unidentified, Malformed, Refused}
Snapshot == [owner : Owner, arts : [Artifact -> Content]]
Payload == Snapshot \cup {Rejected, Plain}

ASSUME ContentAssumption ==
  /\ Omitted \notin Document \cup {Unidentified, Malformed, Refused}
  /\ {Unidentified, Malformed, Refused} \cap Document = {}
  /\ {Rejected, Plain} \cap Snapshot = {} /\ Rejected # Plain
ASSUME BudgetAssumption == MaxArtifacts \in Nat /\ Calls \in Nat

(* How many members of S sort before a. *)
Rank(S, a) == Cardinality({x \in S : x < a})

(* identities_complete *)
IdentitiesComplete(p) == \A a \in Artifact : p.arts[a] # Unidentified

(* The payload drops the identity a: an authoritative omission. *)
Withdraws(p, a) ==
  \/ p = Plain
  \/ p \in Snapshot /\ p.arts[a] = Omitted /\ IdentitiesComplete(p)

(* heapq.nsmallest(MAX_RULE_ARTIFACTS, raw_artifacts, key=_identity) *)
Considered(p) ==
  LET raw == {a \in Artifact : p.arts[a] # Omitted}
  IN  {a \in raw : Rank(raw, a) < MaxArtifacts}

(* _decode_bounded: an artifact decodes only while it and those that sort  *)
(* before it, good or not, stay within the budget of the payload.          *)
Decodes(p) ==
  LET considered == Considered(p)
      upTo(a) == {<<x, p.arts[x]>> : x \in {y \in considered : y <= a}}
  IN  {a \in considered : Decoded(upTo(a)) <= DecodeLimit}

(* An artifact has the encoding, the schema of a rule document and transforms. *)
Transforms(content) == content \in Document \cup {Refused}

(* The artifacts cos-tool is run on, in order, while the calls last. *)
Validated(p, used) ==
  LET ready == {a \in Decodes(p) : Transforms(p.arts[a])}
  IN  {a \in ready : used + Rank(ready, a) < Calls}

(* build_rule_state: `lost` are the artifacts whose cos-tool run failed or *)
(* timed out, or that the deadline of the reconcile cut off.               *)
Accepted(p, used, lost) ==
  {a \in Validated(p, used) \ lost : p.arts[a] \in Document}

(* Mutant of Desired: what is not accepted now is dropped. *)
DesiredAnew(p, r, previous, accepted) ==
  {[rel |-> r, art |-> a, owner |-> p.owner, doc |-> p.arts[a]] : a \in accepted}

(* Mutant of Desired: an omitted artifact keeps its entry. *)
DesiredNeverWithdraws(p, r, previous, accepted) ==
  {e \in previous : e.art \notin accepted}
  \cup DesiredAnew(p, r, previous, accepted)

(* Mutant of Desired: a snapshot is taken for the changes since the last. *)
DesiredChanges(p, r, previous, accepted) ==
  DesiredAnew(p, r, previous, accepted) \ previous

(* _build_relation_rule_state, for a payload that is not rejected. *)
Desired(p, r, previous, accepted) ==
  {e \in previous : ~Withdraws(p, e.art) /\ e.art \notin accepted}
  \cup {[rel |-> r, art |-> a, owner |-> p.owner, doc |-> p.arts[a]] :
            a \in accepted}
=============================================================================
