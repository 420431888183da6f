--------------------------- MODULE MCRuleReconcile ---------------------------
(***************************************************************************)
(* Instances of RuleReconcile for TLC.  Documents are 1 and 2, and a group *)
(* weighs as much as its document, so that a limit of 3 admits three small *)
(* documents, or a large one beside a small one.                           *)
(***************************************************************************)
EXTENDS RuleReconcile, TLC

TotalWeight(entries) ==
  Cardinality(entries) + Cardinality({e \in entries : e.doc = 2})
NoWeight(entries) == 0

(* Contents decode to as much as they weigh; what is refused, to 1. *)
TotalDecoded(contents) ==
  Cardinality({c \in contents : c[2] # Unidentified}) + Cardinality({c \in contents : c[2] = 2})

OneArtifact == 1 :> "prometheus"
TwoArtifacts == 1 :> "loki" @@ 2 :> "prometheus"
TwoOfOneKind == 1 :> "prometheus" @@ 2 :> "prometheus"

Rules(o, arts) == [owner |-> o, arts |-> arts]
RulesOver(contents) ==
  [owner : Owner, arts : [Artifact -> contents]]

AllowAll(u, rm, rc, el, fa) ==
  "update" :> u @@ "removal" :> rm @@ "receiver" :> rc @@ "election" :> el @@ "fault" :> fa

(* Ownership: three relations may claim one artifact for either owner.     *)
(* Five updates pass an ownership on among the three and take it back.    *)
OwnershipInputs == {Rejected, Plain} \cup RulesOver(Document)
OwnershipBound == AllowAll(5, 1, 1, 1, 0)
Interchangeable ==
  Permutations(Unit) \cup Permutations(Owner) \cup Permutations(Document)

(* Sizes: two relations with two artifacts each, of two sizes; two large   *)
(* ones are too much to decode.  Beside them the ways an artifact can be   *)
(* refused while its sibling is good.                                      *)
SizeInputs ==
  {Rejected, Plain} \cup RulesOver({1, 2, Omitted})
    \cup {Rules(o, arts) : o \in Owner,
             arts \in {<<Malformed, 1>>, <<Unidentified, 1>>, <<1, Refused>>}}
SizeBound == AllowAll(3, 0, 1, 0, 1)

(* Progress: everything may fail once before it has to work. *)
ProgressInputs ==
  {Rejected, Plain} \cup {Rules(o, <<d>>) : o \in Owner, d \in {1, Malformed}}
ProgressBound == AllowAll(2, 1, 1, 1, 1)
=============================================================================
