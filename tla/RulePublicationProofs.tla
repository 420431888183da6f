------------------------ MODULE RulePublicationProofs ------------------------
(***************************************************************************)
(* RuleReconcile implements RulePublication, and which of several          *)
(* claimants serves an ownership; for every value of the constants.        *)
(***************************************************************************)
EXTENDS RuleReconcileProofs

-----------------------------------------------------------------------------
(* The hook keeps to the relations it visits *)

VisitInv ==
  phase # "idle" =>
    /\ \A e \in work : e.rel \in relations
    /\ \A e \in (store \ cache) \cup (cache \ store) : e.rel \in relations

(* What adopting changes, for relation r. *)
LEMMA AdoptShape ==
  ASSUME Inv, NEW r \in Relation, NEW desired, NEW written,
         IsState(desired), \A e \in desired : e.rel = r,
         Adopt(r, desired, written)
  PROVE  \/ UNCHANGED <<work, store>>
         \/ \E resolved \in SUBSET Entry :
              /\ \A e \in resolved : e.rel = r
              /\ work' = NormalizeOwnership((work \ Of(work, r)) \cup resolved)
              /\ store' = (store \ Of(store, r)) \cup resolved
<1> DEFINE lower == {e \in work : e.rel < r}
           resolved == WithoutOwnershipConflicts(desired, Of(cache, r), lower)
<1>1. IsState(Of(cache, r)) /\ \A e \in Of(cache, r) : e.rel = r
  BY OfIsState DEF Inv, TypeOK
<1>2. IsState(resolved) /\ \A e \in resolved : e.rel = r
  BY <1>1, ResolvedIsState
<1>3. \/ UNCHANGED <<work, store>>
      \/ /\ work' = NormalizeOwnership((work \ Of(work, r)) \cup resolved)
         /\ store' = (store \ Of(store, r)) \cup resolved
  BY DEF Adopt
<1> QED
  BY <1>2, <1>3 DEF IsState

(* The same for a whole round. *)
LEMMA RoundShape ==
  ASSUME Inv, NEW r \in Relation, ApplyRelation(r)
  PROVE  \/ UNCHANGED <<work, store>>
         \/ \E resolved \in SUBSET Entry :
              /\ \A e \in resolved : e.rel = r
              /\ work' = NormalizeOwnership((work \ Of(work, r)) \cup resolved)
              /\ store' = (store \ Of(store, r)) \cup resolved
<1>1. CASE payload[r] = Rejected /\ UNCHANGED <<work, store>>
  BY <1>1
<1>2. CASE \E accepted, written : Round(r, accepted, written)
  BY <1>2, AdoptShape DEF Round
<1> QED
  BY <1>1, <1>2, ApplyRelationStep

LEMMA VisitNext == Inv /\ VisitInv /\ [Next]_vars => VisitInv'
<1> SUFFICES ASSUME Inv, VisitInv, [Next]_vars PROVE VisitInv'
  OBVIOUS
<1>1. CASE \E rels : Start(rels) /\ UNCHANGED durable
  BY <1>1 DEF Start, durable, VisitInv, Inv, HookInv
<1>2. CASE HookEnds
  BY <1>2 DEF HookEnds, VisitInv
<1>3. CASE UNCHANGED <<hook, cache>>
  BY <1>3 DEF hook, VisitInv
<1>4. ASSUME NEW r \in Relation, AdmitCached(r)
      PROVE  VisitInv'
  <2>1. r \in relations
    BY <1>4 DEF AdmitCached, IsNext, Inv, TypeOK
  <2>2. \A e \in WithoutOwnershipConflicts(Of(cache, r), {}, work) : e.rel = r
    BY DEF WithoutOwnershipConflicts, Of
  <2> QED
    BY <1>4, <2>1, <2>2 DEF AdmitCached, VisitInv, durable
<1>5. ASSUME NEW r \in Relation, ApplyRelation(r)
      PROVE  VisitInv'
  <2>1. /\ phase = "apply" /\ r \in relations
        /\ UNCHANGED <<phase, relations, cache>>
    BY <1>5, ApplyRelationStep DEF durable, Inv, TypeOK
  <2>2. CASE UNCHANGED <<work, store>>
    BY <2>1, <2>2 DEF VisitInv
  <2>3. CASE \E resolved \in SUBSET Entry :
               /\ \A e \in resolved : e.rel = r
               /\ work' = NormalizeOwnership((work \ Of(work, r)) \cup resolved)
               /\ store' = (store \ Of(store, r)) \cup resolved
    BY <2>1, <2>3 DEF VisitInv, NormalizeOwnership, Of
  <2> QED
    BY <1>5, <2>2, <2>3, RoundShape
<1>6. CASE BeginApply
  BY <1>6 DEF BeginApply, VisitInv, durable
<1> QED
  BY <1>1, <1>2, <1>3, <1>4, <1>5, <1>6
  DEF Next, Environment, BeginReconcile, RelationBroken, Publish, PublishRaises,
      HookFails, ProviderPublishes, RemoveRelation, ReceiverChanges, LeaderElected,
      vars, durable

(* What the hook works on and what it has written belong to the relations *)
(* it visits.                                                             *)
LEMMA VisitAlways == Spec => []VisitInv
<1>1. Init => VisitInv
  BY DEF Init, VisitInv
<1> QED
  BY <1>1, VisitNext, Invariance, PTL DEF Spec

-----------------------------------------------------------------------------
(* The refinement *)

(* The contract's operators are those of RuleState. *)
LEMMA SameOperators ==
  /\ \A S : Contract!IsState(S) <=> IsState(S)
  /\ \A S : Contract!Publishable(S) <=> Publishable(S)
  /\ \A S, b : Contract!Flatten(S, b) = Flatten(S, b)
  /\ Contract!Backend = Backend
<1>1. Contract!Backend = Backend /\ Contract!Entry = Entry
  BY DEF Contract!Backend, Backend, Contract!Entry, Entry
<1>2. \A S, b : Contract!Flatten(S, b) = Flatten(S, b)
  BY DEF Contract!Flatten, Flatten
<1>3. \A S : Contract!OwnedOnce(S) <=> OwnedOnce(S)
  BY DEF Contract!OwnedOnce, OwnedOnce, Contract!SameOwnership, SameOwnership
<1>4. \A S : Contract!IsState(S) <=> IsState(S)
  BY <1>1 DEF Contract!IsState, IsState
<1>5. \A S : Contract!Publishable(S) <=> Publishable(S)
  BY <1>1, <1>2, <1>3 DEF Contract!Publishable, Publishable
<1> QED
  BY <1>1, <1>2, <1>4, <1>5

(* A hook that ends well is one step of the contract. *)
LEMMA PublishReconciles ==
  ASSUME Inv, VisitInv, Publish
  PROVE  Contract!Reconcile(relations)
<1>1. /\ phase = "apply" /\ cache' = store /\ receiver' = receiver
      /\ published' = [b \in Backend |->
                         IF receiver[b] = Missing THEN {} ELSE Flatten(work, b)]
  BY DEF Publish, shared
<1>2. Contract!IsState(cache')
  BY <1>1, SameOperators DEF Inv, TypeOK
<1>3. \A e \in (cache \ cache') \cup (cache' \ cache) : e.rel \in relations
  BY <1>1 DEF VisitInv
<1>4. work \in SUBSET {e \in cache' : e.rel \in relations}
  BY <1>1 DEF Inv, HookInv, VisitInv
<1>5. Contract!Publishable(work)
  BY <1>1, SameOperators DEF Inv, HookInv
<1>6. published' = [b \in Contract!Backend |->
                      IF receiver[b] = Missing THEN {} ELSE Contract!Flatten(work, b)]
  BY <1>1, SameOperators
<1> QED
  BY <1>1, <1>2, <1>3, <1>4, <1>5, <1>6 DEF Contract!Reconcile

LEMMA StepImplements ==
  ASSUME Inv, VisitInv, [Next]_vars
  PROVE  [Contract!Next]_(Contract!vars)
<1>1. CASE Publish
  <2>1. relations \in SUBSET Relation
    BY DEF Inv, TypeOK
  <2> QED
    BY <1>1, <2>1, PublishReconciles DEF Contract!Next
<1>2. CASE \E b \in Backend : ReceiverChanges(b)
  <2>1. PICK b \in Backend : ReceiverChanges(b)
    BY <1>2
  <2>2. PICK e \in (Encoding \cup {Missing}) \ {receiver[b]} :
          /\ receiver' = [receiver EXCEPT ![b] = e]
          /\ published' = IF e = Missing THEN [published EXCEPT ![b] = {}]
                          ELSE published
    BY <2>1 DEF ReceiverChanges
  <2>3. e \in {"json", "lzma", Missing}
    BY <2>2, EncodingAssumption
  <2>4. Contract!ReceiverChanges(b)
    BY <2>1, <2>2, <2>3 DEF ReceiverChanges, Contract!ReceiverChanges
  <2> QED
    BY <2>4, SameOperators DEF Contract!Next
<1>3. CASE UNCHANGED <<cache, published, receiver>>
  BY <1>3 DEF Contract!vars
<1> QED
  BY <1>1, <1>2, <1>3
  DEF Next, Environment, BeginReconcile, RelationBroken, AdmitCached, ApplyRelation,
      BeginApply, PublishRaises, HookFails, ProviderPublishes, RemoveRelation,
      LeaderElected, vars, shared, durable

(* Every behaviour of the hooks, with their loops, failures and changes of *)
(* leader, is one of the contract: each hook takes effect in one step or   *)
(* not at all.                                                             *)
THEOREM AtomicAlways == Spec => PublishesAtomically
<1>1. Init => Contract!Init
  BY SameOperators DEF Init, Contract!Init
<1>2. Inv /\ VisitInv /\ [Next]_vars => [Contract!Next]_(Contract!vars)
  BY StepImplements
<1> QED
  BY <1>1, <1>2, Invariance, VisitAlways, PTL DEF Spec, PublishesAtomically, Contract!Spec

-----------------------------------------------------------------------------
(* Which claimant serves *)

(* No set of groups is too large to publish. *)
Unlimited == \A groups \in SUBSET Group : Weight(groups) <= PublicationLimit

(* f's ownership is in `entries`, with f's relation or a lower one. *)
ServedFor(f, entries) == \E g \in entries : g.rel <= f.rel /\ SameOwnership(f, g)

(* f's ownership was cached for a lower relation, which has given it up. *)
GivenUp(f) == Claimed(f, {g \in cache \ store : g.rel < f.rel})

(* Why the lowest claimant serves: the admission loop covers every cached  *)
(* entry it has visited, and the second loop keeps every stored entry      *)
(* covered, or leaves the trace of the claim that has gone.                *)
LowestInv ==
  /\ phase = "admit" =>
       /\ \A q \in relations \ todo, r \in todo : q < r
       /\ \A f \in cache : f.rel \in relations \ todo => ServedFor(f, work)
  /\ phase = "apply" =>
       \A f \in store : f.rel \in relations => ServedFor(f, work) \/ GivenUp(f)

(* Without limits a round admits whatever is not claimed. *)
LEMMA AdmittedUnlimited ==
  ASSUME Unlimited, Inv, NEW r \in Relation, AdmitCached(r)
  PROVE  work' = work \cup WithoutOwnershipConflicts(Of(cache, r), {}, work)
<1> DEFINE state == WithoutOwnershipConflicts(Of(cache, r), {}, work)
           candidate == work \cup state
<1>1. state = {e \in Of(cache, r) : ~Claimed(e, work)}
  BY DEF WithoutOwnershipConflicts
<1>2. OwnedOnce(candidate)
  <2>1. OwnedOnce(work)
    BY DEF Inv, HookInv, AdmitCached, Publishable
  <2>2. \A e, f \in state : SameOwnership(e, f) => e = f
    BY <1>1 DEF Inv, TypeOK, IsState, Of, SameOwnership
  <2>3. \A e \in state, f \in work : ~SameOwnership(e, f) /\ ~SameOwnership(f, e)
    BY <1>1 DEF Claimed, SameOwnership
  <2> QED
    BY <2>1, <2>2, <2>3 DEF OwnedOnce
<1>3. candidate \subseteq Entry
  BY <1>1 DEF Inv, TypeOK, IsState, Of
<1>4. \A b \in Backend : Flatten(candidate, b) \in SUBSET Group
  BY <1>3, FlattenGroups
<1>5. Publishable(candidate)
  BY <1>2, <1>4 DEF Publishable, Unlimited
<1> QED
  BY <1>5 DEF AdmitCached

LEMMA AdmitLowest ==
  ASSUME Unlimited, Inv, VisitInv, LowestInv, NEW r \in Relation, AdmitCached(r)
  PROVE  LowestInv'
<1>1. /\ phase = "admit" /\ r \in todo /\ todo' = todo \ {r}
      /\ \A q \in todo : r <= q
      /\ UNCHANGED <<phase, relations, cache, store>>
  BY DEF AdmitCached, IsNext, durable
<1>2. todo \subseteq Relation /\ relations \subseteq Relation
  BY DEF Inv, TypeOK
<1>3. \A q \in relations \ todo', s \in todo' : q < s
  <2>1. SUFFICES ASSUME NEW q \in relations \ todo', NEW s \in todo'
                 PROVE  q < s
    OBVIOUS
  <2>2. q \in Nat /\ s \in Nat /\ r \in Nat /\ s \in todo /\ s # r /\ r <= s
    BY <1>1, <1>2, <2>1, RelationAssumption
  <2>3. CASE q = r
    BY <2>2, <2>3
  <2>4. CASE q \notin todo
    BY <1>1, <2>1, <2>2, <2>4 DEF LowestInv
  <2> QED
    BY <1>1, <2>1, <2>3, <2>4
<1>4. ASSUME NEW f \in cache, f.rel \in relations \ todo'
      PROVE  ServedFor(f, work')
  <2>1. work \subseteq work' /\ f.rel \in Nat
    BY <1>2, <1>4, AdmittedUnlimited, RelationAssumption
  <2>2. CASE f.rel \notin todo
    BY <1>1, <1>4, <2>1, <2>2 DEF LowestInv, ServedFor
  <2>3. CASE f.rel = r /\ Claimed(f, work)
    <3>1. PICK g \in work : SameOwnership(f, g)
      BY <2>3 DEF Claimed
    <3>2. g.rel \in relations \ todo
      BY <1>1, <3>1 DEF VisitInv, Inv, HookInv
    <3>3. g.rel < r /\ g.rel \in Nat /\ r \in Nat
      BY <1>1, <1>2, <3>2, RelationAssumption DEF LowestInv
    <3> QED
      BY <2>1, <2>3, <3>1, <3>3 DEF ServedFor
  <2>4. CASE f.rel = r /\ ~Claimed(f, work)
    <3>1. f \in work'
      BY <2>4, AdmittedUnlimited DEF WithoutOwnershipConflicts, Of
    <3> QED
      BY <2>1, <3>1 DEF ServedFor, SameOwnership
  <2> QED
    BY <1>1, <1>4, <2>2, <2>3, <2>4
<1> QED
  BY <1>1, <1>3, <1>4 DEF LowestInv

(* Whoever serves an entry of another relation before a round that replaces *)
(* r's dict still does so afterwards, unless it was r and r gave it up.     *)
LEMMA ReplacedServed ==
  ASSUME NEW r \in Relation, NEW S, NEW T, S \subseteq Entry, OwnedOnce(S),
         T \subseteq Entry, \A e \in T : e.rel = r,
         NEW f \in Entry,
         ServedFor(f, (S \ Of(S, r)) \cup T)
  PROVE  ServedFor(f, NormalizeOwnership((S \ Of(S, r)) \cup T))
<1> DEFINE replaced == (S \ Of(S, r)) \cup T
           candidate == NormalizeOwnership(replaced)
<1>1. PICK g \in replaced : g.rel <= f.rel /\ SameOwnership(f, g)
  BY DEF ServedFor
<1>2. \A e \in S \cup T : e.rel \in Nat
  BY RelationAssumption DEF Entry
<1>3. f.rel \in Nat
  BY RelationAssumption DEF Entry
<1>4. CASE g \in candidate
  BY <1>1, <1>4 DEF ServedFor
<1>5. CASE g \notin candidate
  <2>1. PICK h \in candidate : h.rel < g.rel /\ SameOwnership(g, h)
    <3>1. CASE g \in S /\ g.rel # r
      <4>1. \A e \in S : e.rel # r /\ e \notin candidate =>
               Claimed(e, {h \in candidate : h.rel < e.rel})
        BY NormalizeReplaced
      <4>2. Claimed(g, {h \in candidate : h.rel < g.rel})
        BY <1>5, <3>1, <4>1
      <4> QED
        BY <4>2 DEF Claimed
    <3>2. CASE g \in T
      <4>1. PICK h \in replaced : h.rel < g.rel /\ SameOwnership(g, h)
        BY <1>1, <1>5 DEF NormalizeOwnership
      <4>2. h \in S /\ h.rel < r
        BY <1>2, <3>2, <4>1, RelationAssumption
      <4>3. h \in candidate
        BY <4>2, NormalizeReplaced
      <4> QED
        BY <4>1, <4>3
    <3> QED
      BY <1>1, <3>1, <3>2 DEF Of
  <2>2. h \in S \cup T
    BY <2>1 DEF NormalizeOwnership
  <2>3. h.rel <= f.rel
    BY <1>1, <1>2, <1>3, <2>1, <2>2
  <2> QED
    BY <1>1, <2>1, <2>3 DEF ServedFor, SameOwnership
<1> QED
  BY <1>4, <1>5

LEMMA ApplyLowest ==
  ASSUME Inv, LowestInv, NEW r \in Relation, ApplyRelation(r)
  PROVE  LowestInv'
<1>1. /\ phase = "apply" /\ r \in todo
      /\ UNCHANGED <<phase, relations, cache>>
  BY ApplyRelationStep DEF durable
<1>2. CASE UNCHANGED <<work, store>>
  BY <1>1, <1>2 DEF LowestInv, GivenUp
<1>3. ASSUME NEW resolved \in SUBSET Entry,
             \A e \in resolved : e.rel = r,
             work' = NormalizeOwnership((work \ Of(work, r)) \cup resolved),
             store' = (store \ Of(store, r)) \cup resolved
      PROVE  LowestInv'
  <2>1. /\ work \subseteq Entry /\ store \subseteq Entry /\ OwnedOnce(work)
        /\ work \subseteq store /\ Of(store, r) = Of(cache, r)
    BY <1>1 DEF Inv, TypeOK, IsState, HookInv, Publishable
  <2>2. ASSUME NEW f \in store', f.rel \in relations
        PROVE  ServedFor(f, work') \/ GivenUp(f)'
    <3>1. f \in Entry /\ f.rel \in Nat /\ r \in Nat
      BY <1>3, <2>1, RelationAssumption DEF Entry
    <3>2. CASE f \in resolved
      <4>1. ServedFor(f, (work \ Of(work, r)) \cup resolved)
        BY <3>1, <3>2 DEF ServedFor, SameOwnership
      <4> QED
        BY <1>3, <2>1, <3>1, <4>1, ReplacedServed
    <3>3. CASE f \in store /\ f.rel # r /\ GivenUp(f)
      <4>1. PICK g \in cache \ store : g.rel < f.rel /\ SameOwnership(f, g)
        BY <3>3 DEF GivenUp, Claimed
      <4>2. g \notin store'
        BY <1>3, <2>1, <4>1 DEF Of
      <4> QED
        BY <1>1, <4>1, <4>2 DEF GivenUp, Claimed
    <3>4. CASE f \in store /\ f.rel # r /\ ServedFor(f, work)
      <4>1. PICK g \in work : g.rel <= f.rel /\ SameOwnership(f, g)
        BY <3>4 DEF ServedFor
      <4>2. CASE g.rel # r \/ g \in resolved
        <5>1. ServedFor(f, (work \ Of(work, r)) \cup resolved)
          BY <4>1, <4>2 DEF ServedFor, Of
        <5> QED
          BY <1>3, <2>1, <3>1, <5>1, ReplacedServed
      <4>3. CASE g.rel = r /\ g \notin resolved
        <5>1. g \in cache /\ g \notin store' /\ g.rel < f.rel
          BY <1>3, <2>1, <3>1, <3>4, <4>1, <4>3 DEF Of
        <5> QED
          BY <1>1, <4>1, <5>1 DEF GivenUp, Claimed
      <4> QED
        BY <4>2, <4>3
    <3>5. f \in resolved \/ (f \in store /\ f.rel # r)
      BY <1>3, <2>2 DEF Of
    <3> QED
      BY <1>1, <2>2, <3>2, <3>3, <3>4, <3>5 DEF LowestInv
  <2> QED
    BY <1>1, <2>2 DEF LowestInv
<1> QED
  BY <1>2, <1>3, RoundShape

LEMMA LowestNext ==
  ASSUME Unlimited
  PROVE  Inv /\ VisitInv /\ LowestInv /\ [Next]_vars => LowestInv'
<1> SUFFICES ASSUME Inv, VisitInv, LowestInv, [Next]_vars PROVE LowestInv'
  OBVIOUS
<1>1. CASE \E rels : Start(rels) /\ UNCHANGED durable
  BY <1>1 DEF Start, LowestInv
<1>2. CASE HookEnds
  BY <1>2 DEF HookEnds, LowestInv
<1>3. CASE UNCHANGED <<hook, cache>>
  BY <1>3 DEF hook, LowestInv, GivenUp
<1>4. CASE BeginApply
  <2>1. store = cache /\ phase = "admit" /\ phase' = "apply" /\ todo = {}
        /\ UNCHANGED <<relations, work, store>>
    BY <1>4 DEF BeginApply, Inv, HookInv
  <2> QED
    BY <2>1 DEF LowestInv
<1> QED
  BY <1>1, <1>2, <1>3, <1>4, AdmitLowest, ApplyLowest
  DEF Next, Environment, BeginReconcile, RelationBroken, Publish, PublishRaises,
      HookFails, ProviderPublishes, RemoveRelation, ReceiverChanges, LeaderElected,
      vars, durable

(* Where size does not decide, the lowest claimant of an ownership serves  *)
(* it, except in the hook in which a still lower one gives it up.          *)
THEOREM LowestClaimantAlways ==
  ASSUME Unlimited
  PROVE  Spec => []LowestClaimantServes
<1>1. Init => LowestInv
  BY DEF Init, LowestInv
<1>2. Inv /\ VisitInv /\ LowestInv /\ [Next]_vars => LowestInv'
  BY LowestNext
<1>3. ASSUME Inv, LowestInv, phase = "apply",
             NEW e \in work, NEW f \in store,
             f.rel \in relations, f.rel < e.rel, SameOwnership(e, f)
      PROVE  Claimed(f, {g \in cache \ store : g.rel < f.rel})
  <2>1. OwnedOnce(work) /\ e.rel \in Nat /\ f.rel \in Nat
    BY <1>3, RelationAssumption DEF Inv, HookInv, Publishable, TypeOK, IsState, Entry
  <2>2. ~ServedFor(f, work)
    <3>1. SUFFICES ASSUME NEW g \in work, g.rel <= f.rel, SameOwnership(f, g)
                   PROVE  FALSE
      BY DEF ServedFor
    <3>2. SameOwnership(e, g)
      BY <1>3, <3>1 DEF SameOwnership
    <3>3. e = g
      BY <2>1, <3>2 DEF OwnedOnce
    <3> QED
      BY <1>3, <2>1, <3>1, <3>3
  <2> QED
    BY <1>3, <2>2 DEF LowestInv, GivenUp
<1>4. Inv /\ LowestInv => LowestClaimantServes
  BY <1>3 DEF LowestClaimantServes
<1> QED
  BY <1>1, <1>2, <1>4, Invariance, VisitAlways, PTL DEF Spec
=============================================================================
