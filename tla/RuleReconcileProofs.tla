------------------------- MODULE RuleReconcileProofs -------------------------
(***************************************************************************)
(* Theorems about RuleReconcile, for every number of relations, artifacts, *)
(* owners and units and every limit.                                       *)
(***************************************************************************)
EXTENDS RuleReconcile, FiniteSetTheorems, TLAPS

-----------------------------------------------------------------------------
(* Lemmas on the operators of RuleState and RuleSnapshot *)

(* Part of a state is a state. *)
LEMMA SubsetIsState ==
  ASSUME NEW S, NEW T, IsState(S), T \subseteq S
  PROVE  IsState(T)
BY DEF IsState

(* The dict of one relation is a state. *)
LEMMA OfIsState ==
  ASSUME NEW r, NEW S, IsState(S)
  PROVE  IsState(Of(S, r)) /\ Of(S, r) \subseteq S /\ \A e \in Of(S, r) : e.rel = r
BY DEF IsState, Of

(* Replacing the dict of one relation leaves a state. *)
LEMMA ReplaceIsState ==
  ASSUME NEW r, NEW S, NEW T, IsState(S), IsState(T), \A e \in T : e.rel = r
  PROVE  IsState((S \ Of(S, r)) \cup T)
BY DEF IsState, Of

(* _without_ownership_conflicts takes each entry from the desired state or *)
(* from the fallback, never both for one identity.                         *)
LEMMA ResolvedIsState ==
  ASSUME NEW r, NEW desired, NEW fallback, NEW admitted,
         IsState(desired), \A e \in desired : e.rel = r,
         IsState(fallback), \A e \in fallback : e.rel = r
  PROVE  LET resolved == WithoutOwnershipConflicts(desired, fallback, admitted)
         IN  /\ IsState(resolved)
             /\ \A e \in resolved : e.rel = r
             /\ resolved \subseteq desired \cup fallback
BY DEF IsState, WithoutOwnershipConflicts

(* What a payload asks for is a state of its relation, made of the previous *)
(* entries and of the documents in the payload.                             *)
LEMMA DesiredIsState ==
  ASSUME NEW r \in Relation, NEW p \in Payload, NEW previous, NEW accepted,
         IsState(previous), \A e \in previous : e.rel = r,
         accepted # {} => p \in Snapshot,
         \A a \in accepted : a \in Artifact /\ p.arts[a] \in Document
  PROVE  LET desired == Desired(p, r, previous, accepted)
         IN  IsState(desired) /\ \A e \in desired : e.rel = r
<1> DEFINE new == {[rel |-> r, art |-> a, owner |-> p.owner, doc |-> p.arts[a]] :
                      a \in accepted}
           kept == {e \in previous : ~Withdraws(p, e.art) /\ e.art \notin accepted}
<1>1. new \subseteq Entry
  BY DEF Entry, Snapshot
<1>2. \A e \in new : e.rel = r /\ e.art \in accepted
  OBVIOUS
<1>3. \A e, f \in new : e.art = f.art => e = f
  OBVIOUS
<1>4. Desired(p, r, previous, accepted) = kept \cup new
  BY DEF Desired
<1> HIDE DEF new
<1> QED
  BY <1>1, <1>2, <1>3, <1>4 DEF IsState

(* What is accepted can be stored: it comes from the payload's documents. *)
LEMMA AcceptedFromPayload ==
  ASSUME NEW p, NEW used, NEW lost
  PROVE  \A a \in Accepted(p, used, lost) :
            a \in Artifact /\ p.arts[a] \in Document
BY DEF Accepted, Validated, Decodes, Considered

(* cos-tool runs on finitely many artifacts. *)
LEMMA ValidatedCount ==
  ASSUME NEW p, NEW used
  PROVE  Cardinality(Validated(p, used)) \in Nat
<1>1. Validated(p, used) \subseteq Artifact
  BY DEF Validated, Decodes, Considered
<1>2. IsFiniteSet(Validated(p, used))
  BY <1>1, ArtifactAssumption, FS_Subset
<1> QED
  BY <1>2, FS_CardinalityType

(* Flattening never leaves the groups. *)
LEMMA FlattenGroups ==
  ASSUME NEW S, S \subseteq Entry, NEW b
  PROVE  Flatten(S, b) \subseteq Group
BY DEF Flatten, Entry, Group

-----------------------------------------------------------------------------
(* The inductive invariant *)

(* What the hook holds in memory, phase by phase.  The working state is a  *)
(* selection of what the hook has stored, it can be flattened and fits,    *)
(* and the dicts of the relations still to be applied are the cached ones. *)
HookInv ==
  /\ phase = "idle" => work = {} /\ todo = {}
  /\ phase = "admit" => /\ store = cache
                        /\ \A e \in work : e.rel \notin todo
  /\ phase = "apply" => \A r \in todo : Of(store, r) = Of(cache, r)
  /\ phase # "idle" => work \subseteq store /\ Publishable(work)

(* What is published is owned once, and durable. *)
PublishedInv == PublishedOwnedOnce /\ PublishedDurable

Inv == TypeOK /\ HookInv /\ PublishedInv

(* Nothing is published by nobody. *)
LEMMA EmptyPublishable == Publishable({})
<1>1. \A b \in Backend : Flatten({}, b) = {}
  BY DEF Flatten
<1> QED
  BY <1>1, WeightAssumption DEF Publishable, OwnedOnce

LEMMA InitInv == Init => Inv
<1> SUFFICES ASSUME Init PROVE Inv
  OBVIOUS
<1>1. TypeOK
  BY DEF Init, TypeOK, Payload, IsState, Missing
<1>2. HookInv
  BY DEF Init, HookInv
<1>3. PublishedInv
  BY DEF Init, PublishedInv, PublishedOwnedOnce, PublishedDurable
<1> QED
  BY <1>1, <1>2, <1>3 DEF Inv

(* Counting an event keeps the counters typed. *)
LEMMA HappensTyped ==
  ASSUME count \in [Event -> Nat], NEW e \in Event, Happens(e)
  PROVE  count' \in [Event -> Nat]
BY DEF Happens

(* Ending a hook without applying what it wrote. *)
LEMMA AbandonedHook ==
  ASSUME Inv, HookEnds, UNCHANGED durable, UNCHANGED <<payload, dying, scope, receiver>>,
         leader' \in Unit, count' \in [Event -> Nat]
  PROVE  Inv'
<1>1. TypeOK'
  BY DEF Inv, TypeOK, HookEnds, durable, IsState
<1>2. HookInv'
  BY DEF HookEnds, HookInv
<1>3. PublishedInv'
  BY DEF Inv, durable, PublishedInv, PublishedOwnedOnce, PublishedDurable
<1> QED
  BY <1>1, <1>2, <1>3 DEF Inv

(* Starting a hook over some of the relations. *)
LEMMA StartedHook ==
  ASSUME Inv, NEW rels \in SUBSET Relation, Start(rels), UNCHANGED durable,
         UNCHANGED <<payload, dying, receiver, leader, count>>,
         scope' \in [Unit -> SUBSET Relation]
  PROVE  Inv'
<1>1. TypeOK'
  BY DEF Inv, TypeOK, Start, durable, IsState
<1>2. HookInv'
  <2>1. work' = {} /\ phase' = "admit" /\ store' = cache'
    BY DEF Inv, HookInv, Start, durable
  <2> QED
    BY <2>1, EmptyPublishable DEF HookInv
<1>3. PublishedInv'
  BY DEF Inv, durable, PublishedInv, PublishedOwnedOnce, PublishedDurable
<1> QED
  BY <1>1, <1>2, <1>3 DEF Inv

(* One round of the admission loop. *)
LEMMA AdmitCachedInv ==
  ASSUME Inv, NEW r \in Relation, AdmitCached(r)
  PROVE  Inv'
<1> DEFINE state == WithoutOwnershipConflicts(Of(cache, r), {}, work)
<1>1. /\ IsState(Of(cache, r)) /\ Of(cache, r) \subseteq cache
      /\ \A e \in Of(cache, r) : e.rel = r
  BY OfIsState DEF Inv, TypeOK
<1>2. IsState(state) /\ state \subseteq cache /\ \A e \in state : e.rel = r
  <2>1. IsState({}) /\ \A e \in {} : e.rel = r
    BY DEF IsState
  <2>2. /\ IsState(state) /\ \A e \in state : e.rel = r
        /\ state \subseteq Of(cache, r) \cup {}
    BY <1>1, <2>1, ResolvedIsState
  <2> QED
    BY <1>1, <2>2
<1>3. /\ phase = "admit" /\ r \in todo /\ todo' = todo \ {r}
      /\ work' = work \/ (work' = work \cup state /\ Publishable(work'))
      /\ UNCHANGED <<phase, relations, store, calls, shared, durable, count>>
  BY DEF AdmitCached, IsNext
<1> HIDE DEF state
<1>4. \A e \in work' : e.rel \notin todo'
  BY <1>2, <1>3 DEF Inv, HookInv
<1>5. work' \subseteq store'
  BY <1>2, <1>3 DEF Inv, HookInv
<1>6. TypeOK'
  <2>1. IsState(work')
    BY <1>3, <1>5, SubsetIsState DEF Inv, TypeOK
  <2> QED
    BY <1>3, <2>1 DEF Inv, TypeOK, shared, durable, IsState
<1>7. HookInv'
  BY <1>3, <1>4, <1>5 DEF Inv, HookInv, durable, Publishable, OwnedOnce
<1>8. PublishedInv'
  BY <1>3 DEF Inv, durable, PublishedInv, PublishedOwnedOnce, PublishedDurable
<1> QED
  BY <1>6, <1>7, <1>8 DEF Inv

(* From the admission loop to the loop that applies payloads. *)
LEMMA BeginApplyInv ==
  ASSUME Inv, BeginApply
  PROVE  Inv'
<1>1. TypeOK'
  BY DEF Inv, TypeOK, BeginApply, shared, durable, IsState
<1>2. HookInv'
  BY DEF Inv, HookInv, BeginApply, durable, Publishable, OwnedOnce
<1>3. PublishedInv'
  BY DEF Inv, BeginApply, durable, PublishedInv, PublishedOwnedOnce, PublishedDurable
<1> QED
  BY <1>1, <1>2, <1>3 DEF Inv

(* Adopting a candidate: the new working state is publishable and stored,  *)
(* and no other relation's dict is written.                                *)
LEMMA AdoptInv ==
  ASSUME Inv, NEW r \in Relation, phase = "apply", r \in todo,
         NEW desired, NEW written,
         IsState(desired), \A e \in desired : e.rel = r,
         Adopt(r, desired, written)
  PROVE  /\ IsState(work') /\ IsState(store')
         /\ work' \subseteq store' /\ Publishable(work')
         /\ \A q \in Relation : q # r => Of(store', q) = Of(store, q)
<1> DEFINE lower == {e \in work : e.rel < r}
           resolved == WithoutOwnershipConflicts(desired, Of(cache, r), lower)
           candidate == NormalizeOwnership((work \ Of(work, r)) \cup resolved)
<1>1. IsState(Of(cache, r)) /\ \A e \in Of(cache, r) : e.rel = r
  BY OfIsState DEF Inv, TypeOK
<1>2. IsState(resolved) /\ \A e \in resolved : e.rel = r
  BY <1>1, ResolvedIsState
<1>3. \/ UNCHANGED <<work, store>>
      \/ /\ Publishable(candidate) /\ work' = candidate
         /\ store' = (store \ Of(store, r)) \cup resolved
  BY DEF Adopt
<1>4. candidate \subseteq (work \ Of(work, r)) \cup resolved
  BY DEF NormalizeOwnership
<1> HIDE DEF resolved, candidate
<1>5. CASE UNCHANGED <<work, store>>
  BY <1>5 DEF Inv, TypeOK, HookInv, Publishable, OwnedOnce
<1>6. CASE /\ Publishable(candidate) /\ work' = candidate
           /\ store' = (store \ Of(store, r)) \cup resolved
  <2>1. IsState(store')
    BY <1>2, <1>6, ReplaceIsState DEF Inv, TypeOK
  <2>2. work' \subseteq store'
    BY <1>4, <1>6 DEF Inv, HookInv, Of
  <2>3. IsState(work')
    BY <2>1, <2>2, SubsetIsState
  <2>4. \A q \in Relation : q # r => Of(store', q) = Of(store, q)
    BY <1>2, <1>6 DEF Of
  <2> QED
    BY <1>6, <2>1, <2>2, <2>3, <2>4
<1> QED
  BY <1>3, <1>5, <1>6

(* A round that gets as far as adopting: `accepted` are the artifacts of   *)
(* the payload it takes over.                                              *)
Round(r, accepted, written) ==
  LET desired == Desired(payload[r], r, Of(cache, r), accepted)
  IN  /\ payload[r] # Rejected
      /\ accepted # {} => payload[r] \in Snapshot
      /\ \A a \in accepted : a \in Artifact /\ payload[r].arts[a] \in Document
      /\ IsState(desired) /\ \A e \in desired : e.rel = r
      /\ Adopt(r, desired, written)

(* What one round does, whatever cos-tool runs are lost and whether or not *)
(* the cache is written.                                                   *)
LEMMA ApplyRelationStep ==
  ASSUME Inv, NEW r \in Relation, ApplyRelation(r)
  PROVE  /\ phase = "apply" /\ r \in todo /\ todo' = todo \ {r}
         /\ UNCHANGED <<phase, relations, shared, durable>>
         /\ calls' \in Nat /\ count' \in [Event -> Nat]
         /\ \/ payload[r] = Rejected /\ UNCHANGED <<work, store>>
            \/ \E accepted, written : Round(r, accepted, written)
<1> DEFINE p == payload[r]
           ran == IF p \in Snapshot THEN Validated(p, calls) ELSE {}
           accepted(lost) ==
             IF p \in Snapshot THEN Accepted(p, calls, lost) ELSE {}
<1>1. PICK lost \in SUBSET ran, written \in BOOLEAN :
        /\ IF lost = {} /\ written THEN UNCHANGED count ELSE Happens("fault")
        /\ calls' = calls + Cardinality(ran)
        /\ IF p = Rejected THEN UNCHANGED <<work, store>>
           ELSE Adopt(r, Desired(p, r, Of(cache, r), accepted(lost)), written)
  BY DEF ApplyRelation
<1>2. /\ phase = "apply" /\ r \in todo /\ todo' = todo \ {r}
      /\ UNCHANGED <<phase, relations, shared, durable>>
  BY DEF ApplyRelation, IsNext
<1>3. calls' \in Nat
  <2>1. Cardinality(ran) \in Nat
    BY ValidatedCount, FS_EmptySet
  <2> QED
    BY <1>1, <2>1 DEF Inv, TypeOK
<1>4. count' \in [Event -> Nat]
  BY <1>1, HappensTyped DEF Inv, TypeOK, Event
<1>5. /\ accepted(lost) # {} => p \in Snapshot
      /\ \A a \in accepted(lost) : a \in Artifact /\ p.arts[a] \in Document
  BY AcceptedFromPayload
<1>6. IsState(Of(cache, r)) /\ \A e \in Of(cache, r) : e.rel = r
  BY OfIsState DEF Inv, TypeOK
<1>7. p \in Payload
  BY DEF Inv, TypeOK
<1> HIDE DEF accepted
<1>8. /\ IsState(Desired(p, r, Of(cache, r), accepted(lost)))
      /\ \A e \in Desired(p, r, Of(cache, r), accepted(lost)) : e.rel = r
  BY <1>5, <1>6, <1>7, DesiredIsState
<1>9. (p = Rejected /\ UNCHANGED <<work, store>>) \/ Round(r, accepted(lost), written)
  BY <1>1, <1>5, <1>8 DEF Round
<1> QED
  BY <1>1, <1>2, <1>3, <1>4, <1>9

(* One round of the loop that applies payloads. *)
LEMMA ApplyRelationInv ==
  ASSUME Inv, NEW r \in Relation, ApplyRelation(r)
  PROVE  Inv'
<1>1. /\ phase = "apply" /\ r \in todo /\ todo' = todo \ {r}
      /\ UNCHANGED <<phase, relations, shared, durable>>
      /\ calls' \in Nat /\ count' \in [Event -> Nat]
  BY ApplyRelationStep
<1>2. /\ IsState(work') /\ IsState(store')
      /\ work' \subseteq store' /\ Publishable(work')
      /\ \A q \in Relation : q # r => Of(store', q) = Of(store, q)
  <2>1. CASE payload[r] = Rejected /\ UNCHANGED <<work, store>>
    BY <1>1, <2>1 DEF Inv, TypeOK, HookInv, Publishable, OwnedOnce
  <2>2. CASE \E accepted, written : Round(r, accepted, written)
    BY <1>1, <2>2, AdoptInv DEF Round
  <2> QED
    BY <2>1, <2>2, ApplyRelationStep
<1>3. TypeOK'
  BY <1>1, <1>2 DEF Inv, TypeOK, shared, durable, IsState
<1>4. HookInv'
  <2>1. todo' \subseteq Relation /\ r \notin todo'
    BY <1>1 DEF Inv, TypeOK
  <2>2. \A q \in todo' : Of(store', q) = Of(cache', q)
    BY <1>1, <1>2, <2>1 DEF Inv, HookInv, durable
  <2> QED
    BY <1>1, <1>2, <2>2 DEF HookInv
<1>5. PublishedInv'
  BY <1>1 DEF Inv, durable, PublishedInv, PublishedOwnedOnce, PublishedDurable
<1> QED
  BY <1>3, <1>4, <1>5 DEF Inv

(* The hook ends well: its writes are applied. *)
LEMMA PublishInv ==
  ASSUME Inv, Publish
  PROVE  Inv'
<1>1. /\ phase = "apply" /\ cache' = store
      /\ published' = [b \in Backend |->
                         IF receiver[b] = Missing THEN {} ELSE Flatten(work, b)]
      /\ HookEnds /\ UNCHANGED <<shared, count>>
  BY DEF Publish
<1>2. work \subseteq store /\ OwnedOnce(work)
  BY <1>1 DEF Inv, HookInv, Publishable
<1>3. TypeOK'
  <2>1. \A b \in Backend : Flatten(work, b) \subseteq Group
    BY FlattenGroups DEF Inv, TypeOK, IsState
  <2>2. published' \in [Backend -> SUBSET Group]
    BY <1>1, <2>1
  <2> QED
    BY <1>1, <2>2 DEF Inv, TypeOK, HookEnds, shared, IsState
<1>4. HookInv'
  BY <1>1 DEF HookEnds, HookInv
<1>5. PublishedOwnedOnce'
  <2>1. \A b \in Backend : \A g, h \in Flatten(work, b) :
           g.owner = h.owner /\ g.art = h.art => g = h
    BY <1>2 DEF Flatten, OwnedOnce, SameOwnership
  <2> QED
    BY <1>1, <2>1 DEF PublishedOwnedOnce
<1>6. PublishedDurable'
  <2>1. \A b \in Backend : Flatten(work, b) \subseteq Flatten(store, b)
    BY <1>2 DEF Flatten
  <2> QED
    BY <1>1, <2>1 DEF PublishedDurable
<1> QED
  BY <1>3, <1>4, <1>5, <1>6 DEF Inv, PublishedInv

(* Events that leave the caches and the running hook alone. *)
LEMMA OutsideInv ==
  ASSUME Inv, UNCHANGED <<hook, cache, leader>>,
         payload' \in [Relation -> Payload], dying' \subseteq Relation,
         scope' \in [Unit -> SUBSET Relation],
         receiver' \in [Backend -> {"json", "lzma", Missing}],
         published' \in [Backend -> SUBSET Group],
         \A b \in Backend : published'[b] \subseteq published[b],
         count' \in [Event -> Nat]
  PROVE  Inv'
<1>1. TypeOK'
  BY DEF Inv, TypeOK, hook, IsState
<1>2. HookInv'
  BY DEF Inv, HookInv, hook, Publishable, OwnedOnce
<1>3. PublishedInv'
  BY DEF Inv, PublishedInv, PublishedOwnedOnce, PublishedDurable
<1> QED
  BY <1>1, <1>2, <1>3 DEF Inv

LEMMA EnvironmentInv ==
  ASSUME Inv, Environment
  PROVE  Inv'
<1>1. CASE \E r \in Relation : ProviderPublishes(r)
  <2>1. PICK r \in Relation : ProviderPublishes(r)
    BY <1>1
  <2>2. count' \in [Event -> Nat]
    BY <2>1, HappensTyped DEF ProviderPublishes, Inv, TypeOK, Event
  <2>3. payload' \in [Relation -> Payload]
    BY <2>1, InputsAssumption DEF ProviderPublishes, Inv, TypeOK
  <2> QED
    BY <2>1, <2>2, <2>3, OutsideInv DEF ProviderPublishes, durable, Inv, TypeOK
<1>2. CASE \E r \in Relation : RemoveRelation(r)
  <2>1. PICK r \in Relation : RemoveRelation(r)
    BY <1>2
  <2>2. count' \in [Event -> Nat]
    BY <2>1, HappensTyped DEF RemoveRelation, Inv, TypeOK, Event
  <2> QED
    BY <2>1, <2>2, OutsideInv DEF RemoveRelation, durable, Inv, TypeOK
<1>3. CASE \E b \in Backend : ReceiverChanges(b)
  <2>1. PICK b \in Backend : ReceiverChanges(b)
    BY <1>3
  <2>2. count' \in [Event -> Nat]
    BY <2>1, HappensTyped DEF ReceiverChanges, Inv, TypeOK, Event
  <2>3. /\ receiver' \in [Backend -> {"json", "lzma", Missing}]
        /\ published' \in [Backend -> SUBSET Group]
        /\ \A c \in Backend : published'[c] \subseteq published[c]
    BY <2>1, EncodingAssumption DEF ReceiverChanges, Inv, TypeOK
  <2> QED
    BY <2>1, <2>2, <2>3, OutsideInv DEF ReceiverChanges, Inv, TypeOK
<1>4. CASE \E u \in Unit : LeaderElected(u)
  <2>1. PICK u \in Unit : LeaderElected(u)
    BY <1>4
  <2>2. count' \in [Event -> Nat]
    BY <2>1, HappensTyped DEF LeaderElected, Inv, TypeOK, Event
  <2> QED
    BY <2>1, <2>2, AbandonedHook DEF LeaderElected
<1> QED
  BY <1>1, <1>2, <1>3, <1>4 DEF Environment

(* Every step preserves the invariant. *)
LEMMA NextInv == Inv /\ [Next]_vars => Inv'
<1> SUFFICES ASSUME Inv, [Next]_vars PROVE Inv'
  OBVIOUS
<1>1. CASE BeginReconcile
  <2>1. scope[leader] \in SUBSET Relation
    BY DEF Inv, TypeOK
  <2> QED
    BY <1>1, <2>1, StartedHook DEF BeginReconcile, shared, Inv, TypeOK
<1>2. CASE \E u \in Unit, r \in Relation : RelationBroken(u, r)
  <2>1. PICK u \in Unit, r \in Relation : RelationBroken(u, r)
    BY <1>2
  <2>2. /\ scope' \in [Unit -> SUBSET Relation]
        /\ scope[u] \ {r} \in SUBSET Relation
    BY <2>1 DEF RelationBroken, Inv, TypeOK
  <2>3. CASE u = leader
    BY <2>1, <2>2, <2>3, StartedHook DEF RelationBroken
  <2>4. CASE u # leader
    BY <2>1, <2>2, <2>4, OutsideInv DEF RelationBroken, durable, Inv, TypeOK
  <2> QED
    BY <2>3, <2>4
<1>3. CASE \E r \in Relation : AdmitCached(r)
  BY <1>3, AdmitCachedInv
<1>4. CASE \E r \in Relation : ApplyRelation(r)
  BY <1>4, ApplyRelationInv
<1>5. CASE BeginApply
  BY <1>5, BeginApplyInv
<1>6. CASE Publish
  BY <1>6, PublishInv
<1>7. CASE PublishRaises
  BY <1>7, AbandonedHook DEF PublishRaises, shared, Inv, TypeOK
<1>8. CASE HookFails
  <2>1. count' \in [Event -> Nat]
    BY <1>8, HappensTyped DEF HookFails, Inv, TypeOK, Event
  <2> QED
    BY <1>8, <2>1, AbandonedHook DEF HookFails, shared, Inv, TypeOK
<1>9. CASE Environment
  BY <1>9, EnvironmentInv
<1>10. CASE UNCHANGED vars
  BY <1>10 DEF vars, shared, durable, hook, Inv, TypeOK, HookInv, PublishedInv,
       PublishedOwnedOnce, PublishedDurable, Publishable, OwnedOnce, IsState
<1> QED
  BY <1>1, <1>2, <1>3, <1>4, <1>5, <1>6, <1>7, <1>8, <1>9, <1>10 DEF Next

-----------------------------------------------------------------------------
(* Theorems *)

THEOREM Invariance == Spec => []Inv
BY InitInv, NextInv, PTL DEF Spec

(* The databags and the hook's intermediate state keep their shape: each   *)
(* relation's cache stays a dict, whatever payloads are merged into it.    *)
THEOREM TypeCorrect == Spec => []TypeOK
<1>1. Inv => TypeOK
  BY DEF Inv
<1> QED
  BY <1>1, Invariance, PTL

(* No ownership is published twice to a backend. *)
THEOREM OwnedOnceAlways == Spec => []PublishedOwnedOnce
<1>1. Inv => PublishedOwnedOnce
  BY DEF Inv, PublishedInv
<1> QED
  BY <1>1, Invariance, PTL

(* Everything published is backed by the caches. *)
THEOREM DurableAlways == Spec => []PublishedDurable
<1>1. Inv => PublishedDurable
  BY DEF Inv, PublishedInv
<1> QED
  BY <1>1, Invariance, PTL

(* The hook's working state can be published at every step. *)
THEOREM PublishableAlways == Spec => []WorkPublishable
<1>1. Inv => WorkPublishable
  BY DEF Inv, HookInv, WorkPublishable
<1> QED
  BY <1>1, Invariance, PTL

-----------------------------------------------------------------------------
(* Action properties: what a round may do to the rules of a relation *)

(* Only the round of relation r takes r off `todo` and stays in the loop. *)
LEMMA AppliesIsRound ==
  ASSUME Inv, [Next]_vars, NEW r \in Relation, Applies(r)
  PROVE  ApplyRelation(r)
<1>1. phase = "apply" /\ phase' = "apply" /\ r \in todo /\ r \notin todo'
  BY DEF Applies
<1>2. CASE \E q \in Relation : ApplyRelation(q)
  <2>1. PICK q \in Relation : ApplyRelation(q)
    BY <1>2
  <2>2. q = r
    BY <1>1, <2>1 DEF ApplyRelation, IsNext
  <2> QED
    BY <2>1, <2>2
<1>3. CASE \E u \in Unit, q \in Relation : RelationBroken(u, q)
  BY <1>1, <1>3 DEF RelationBroken, Start, hook
<1>4. CASE Environment
  BY <1>1, <1>4 DEF Environment, ProviderPublishes, RemoveRelation,
       ReceiverChanges, LeaderElected, HookEnds, hook
<1>5. CASE UNCHANGED vars
  BY <1>1, <1>5 DEF vars, hook
<1>6. CASE \/ BeginReconcile \/ BeginApply \/ Publish \/ PublishRaises \/ HookFails
           \/ \E q \in Relation : AdmitCached(q)
  BY <1>1, <1>6 DEF BeginReconcile, Start, BeginApply, Publish, PublishRaises,
       HookFails, HookEnds, AdmitCached
<1> QED
  BY <1>2, <1>3, <1>4, <1>5, <1>6 DEF Next

(* Normalising a working state with one relation's dict replaced drops no  *)
(* lower entry, and drops a higher one only for a lower entry it keeps.    *)
LEMMA NormalizeReplaced ==
  ASSUME NEW r \in Relation, NEW S, NEW T, S \subseteq Entry, OwnedOnce(S),
         T \subseteq Entry, \A e \in T : e.rel = r
  PROVE  LET replaced == (S \ Of(S, r)) \cup T
             candidate == NormalizeOwnership(replaced)
         IN  /\ \A e \in S : e.rel < r => e \in candidate
             /\ \A e \in candidate : e.rel # r => e \in S
             /\ \A e \in S : e.rel # r /\ e \notin candidate =>
                  Claimed(e, {f \in candidate : f.rel < e.rel})
<1> DEFINE replaced == (S \ Of(S, r)) \cup T
           candidate == NormalizeOwnership(replaced)
<1>0. \A e \in S \cup T : e.rel \in Nat
  BY RelationAssumption DEF Entry
<1>1. \A e \in S : e.rel < r => e \in candidate
  <2>1. SUFFICES ASSUME NEW e \in S, e.rel < r, NEW f \in replaced,
                        f.rel < e.rel, SameOwnership(e, f)
                 PROVE  FALSE
    BY <1>0, RelationAssumption DEF NormalizeOwnership, Of
  <2>2. f \in S
    BY <1>0, <2>1, RelationAssumption
  <2>3. e = f
    BY <2>1, <2>2 DEF OwnedOnce
  <2> QED
    BY <1>0, <2>1, <2>3
<1>2. \A e \in candidate : e.rel # r => e \in S
  BY DEF NormalizeOwnership
<1>3. ASSUME NEW e \in S, e.rel # r, e \notin candidate
      PROVE  Claimed(e, {f \in candidate : f.rel < e.rel})
  <2>1. PICK f \in replaced : f.rel < e.rel /\ SameOwnership(e, f)
    BY <1>3 DEF NormalizeOwnership, Of
  <2>2. f \in T
    BY <1>0, <1>3, <2>1 DEF OwnedOnce
  <2>3. f \in candidate
    <3>1. SUFFICES ASSUME NEW g \in replaced, g.rel < f.rel, SameOwnership(f, g)
                   PROVE  FALSE
      BY <2>1 DEF NormalizeOwnership
    <3>2. g \in S
      BY <1>0, <2>2, <3>1, RelationAssumption
    <3>3. SameOwnership(e, g)
      BY <2>1, <3>1 DEF SameOwnership
    <3>4. e = g
      BY <3>2, <3>3 DEF OwnedOnce
    <3>5. f.rel \in Nat /\ g.rel \in Nat
      BY <1>0, <2>2, <3>2
    <3> QED
      BY <2>1, <3>1, <3>4, <3>5
  <2> QED
    BY <2>1, <2>3 DEF Claimed
<1> QED
  BY <1>1, <1>2, <1>3

(* Adopting changes the other relations' working entries only where a lower *)
(* relation claims their ownership.                                         *)
LEMMA AdoptNeighbours ==
  ASSUME Inv, NEW r \in Relation, phase = "apply",
         NEW desired, NEW written,
         IsState(desired), \A e \in desired : e.rel = r,
         Adopt(r, desired, written)
  PROVE  /\ \A e \in work' \ work : e.rel = r
         /\ \A e \in work \ work' :
              e.rel = r \/ Claimed(e, {f \in work' : f.rel < e.rel})
<1> DEFINE lower == {e \in work : e.rel < r}
           resolved == WithoutOwnershipConflicts(desired, Of(cache, r), lower)
           candidate == NormalizeOwnership((work \ Of(work, r)) \cup resolved)
<1>1. IsState(Of(cache, r)) /\ \A e \in Of(cache, r) : e.rel = r
  BY OfIsState DEF Inv, TypeOK
<1>2. IsState(resolved) /\ \A e \in resolved : e.rel = r
  BY <1>1, ResolvedIsState
<1>3. work' = work \/ work' = candidate
  BY DEF Adopt
<1>4. work \subseteq Entry /\ OwnedOnce(work) /\ resolved \subseteq Entry
  BY <1>2 DEF Inv, TypeOK, HookInv, Publishable, IsState
<1> HIDE DEF resolved
<1>5. /\ \A e \in candidate : e.rel # r => e \in work
      /\ \A e \in work : e.rel # r /\ e \notin candidate =>
           Claimed(e, {f \in candidate : f.rel < e.rel})
  BY <1>2, <1>4, NormalizeReplaced
<1> HIDE DEF candidate
<1> QED
  BY <1>3, <1>5

(* A refused or accepted payload of one relation changes what is published  *)
(* for another only where a lower relation claims the ownership.            *)
THEOREM NeighboursKeptAlways == Spec => NeighboursKept
<1>1. ASSUME Inv, [Next]_vars, NEW r \in Relation, Applies(r)
      PROVE  /\ \A e \in work' \ work : e.rel = r
             /\ \A e \in work \ work' :
                  e.rel = r \/ Claimed(e, {f \in work' : f.rel < e.rel})
  <2>1. ApplyRelation(r) /\ phase = "apply"
    BY <1>1, AppliesIsRound DEF Applies
  <2>2. CASE UNCHANGED <<work, store>>
    BY <2>2
  <2>3. CASE \E accepted, written : Round(r, accepted, written)
    BY <1>1, <2>1, <2>3, AdoptNeighbours DEF Round
  <2> QED
    BY <1>1, <2>1, <2>2, <2>3, ApplyRelationStep
<1>2. Inv /\ [Next]_vars =>
        [\A r \in Relation : Applies(r) =>
           /\ \A e \in work' \ work : e.rel = r
           /\ \A e \in work \ work' :
                e.rel = r \/ Claimed(e, {f \in work' : f.rel < e.rel})]_vars
  BY <1>1
<1> QED
  BY <1>2, Invariance, PTL DEF Spec, NeighboursKept

(* A cached entry that resolving drops was withdrawn, replaced, or claimed *)
(* by a lower relation.                                                    *)
LEMMA ResolvedKeeps ==
  ASSUME NEW p, NEW r, NEW previous, NEW accepted, NEW lower,
         IsState(previous),
         NEW e \in previous,
         e \notin WithoutOwnershipConflicts(
                    Desired(p, r, previous, accepted), previous, lower),
         ~Withdraws(p, e.art), ~Claimed(e, lower)
  PROVE  \E f \in WithoutOwnershipConflicts(
                    Desired(p, r, previous, accepted), previous, lower) : f.art = e.art
<1> DEFINE desired == Desired(p, r, previous, accepted)
           new == [rel |-> r, art |-> e.art, owner |-> p.owner, doc |-> p.arts[e.art]]
<1>1. e.art \in accepted
  BY DEF Desired, WithoutOwnershipConflicts
<1>2. new \in desired
  BY <1>1 DEF Desired
<1> HIDE DEF desired
<1>3. ~Claimed(new, lower)
  BY <1>2 DEF WithoutOwnershipConflicts, desired
<1>4. new \in WithoutOwnershipConflicts(desired, previous, lower) /\ new.art = e.art
  BY <1>2, <1>3 DEF WithoutOwnershipConflicts
<1> QED
  BY <1>4 DEF desired

(* The conclusion of LkgRetained for one round that adopts. *)
LEMMA RoundRetains ==
  ASSUME Inv, NEW r \in Relation, phase = "apply", r \in todo,
         NEW accepted, NEW written, Round(r, accepted, written)
  PROVE  /\ \A e \in Of(cache, r) \ store' :
              \/ Withdraws(payload[r], e.art)
              \/ \E f \in Of(store', r) : f.art = e.art
              \/ Claimed(e, {f \in work' : f.rel < r})
         /\ \A e \in Of(store', r) \ cache :
              /\ payload[r] \in Snapshot
              /\ payload[r].owner = e.owner /\ payload[r].arts[e.art] = e.doc
         /\ \A e \in (store \ store') \cup (store' \ store) : e.rel = r
<1> DEFINE p == payload[r]
           previous == Of(cache, r)
           desired == Desired(p, r, previous, accepted)
           lower == {e \in work : e.rel < r}
           resolved == WithoutOwnershipConflicts(desired, previous, lower)
           candidate == NormalizeOwnership((work \ Of(work, r)) \cup resolved)
<1>1. IsState(previous) /\ previous \subseteq cache /\ \A e \in previous : e.rel = r
  BY OfIsState DEF Inv, TypeOK
<1>2. Of(store, r) = previous
  BY DEF Inv, HookInv
<1>3. /\ IsState(desired) /\ \A e \in desired : e.rel = r
      /\ accepted # {} => p \in Snapshot
  BY DEF Round
<1>4. IsState(resolved) /\ \A e \in resolved : e.rel = r
  <2> HIDE DEF desired, previous, lower
  <2> QED
    BY <1>1, <1>3, ResolvedIsState
<1>5. \/ UNCHANGED <<work, store>>
      \/ work' = candidate /\ store' = (store \ Of(store, r)) \cup resolved
  BY DEF Round, Adopt
<1>6. CASE UNCHANGED <<work, store>>
  BY <1>1, <1>2, <1>6 DEF Of
<1>7. CASE work' = candidate /\ store' = (store \ Of(store, r)) \cup resolved
  <2>1. Of(store', r) = resolved
    BY <1>4, <1>7 DEF Of
  <2>2. ASSUME NEW e \in previous, e \notin store'
        PROVE  \/ Withdraws(p, e.art)
               \/ \E f \in Of(store', r) : f.art = e.art
               \/ Claimed(e, {f \in work' : f.rel < r})
    <3>1. e \notin resolved
      BY <2>2, <1>7
    <3>2. CASE Claimed(e, lower)
      <4>1. work \subseteq Entry /\ OwnedOnce(work) /\ resolved \subseteq Entry
        BY <1>4 DEF Inv, TypeOK, HookInv, Publishable, IsState
      <4> HIDE DEF resolved
      <4>2. \A f \in work : f.rel < r => f \in candidate
        BY <1>4, <4>1, NormalizeReplaced
      <4> QED
        BY <1>7, <3>2, <4>2 DEF Claimed
    <3>3. CASE ~Claimed(e, lower) /\ ~Withdraws(p, e.art)
      BY <1>1, <2>1, <3>1, <3>3, ResolvedKeeps
    <3> QED
      BY <3>2, <3>3
  <2>3. ASSUME NEW e \in resolved, e \notin previous
        PROVE  p \in Snapshot /\ p.owner = e.owner /\ p.arts[e.art] = e.doc
    <3>1. e \in desired
      BY <2>3 DEF WithoutOwnershipConflicts
    <3>2. PICK a \in accepted :
            e = [rel |-> r, art |-> a, owner |-> p.owner, doc |-> p.arts[a]]
      BY <2>3, <3>1 DEF Desired
    <3> QED
      BY <1>3, <3>2
  <2>4. \A e \in Of(store', r) \ cache : e \in resolved /\ e \notin previous
    BY <1>1, <2>1
  <2>5. \A e \in (store \ store') \cup (store' \ store) : e.rel = r
    BY <1>4, <1>7 DEF Of
  <2> QED
    BY <2>2, <2>3, <2>4, <2>5
<1> QED
  BY <1>5, <1>6, <1>7

(* Last known good, for every payload, budget, limit and set of claims: a  *)
(* round loses a cached entry only to a withdrawal, a replacement or a     *)
(* lower claimant, and adds only what the payload carries.                 *)
THEOREM LkgRetainedAlways == Spec => LkgRetained
<1> DEFINE Retains(r) ==
             /\ \A e \in Of(cache, r) \ store' :
                  \/ Withdraws(payload[r], e.art)
                  \/ \E f \in Of(store', r) : f.art = e.art
                  \/ Claimed(e, {f \in work' : f.rel < r})
             /\ \A e \in Of(store', r) \ cache :
                  /\ payload[r] \in Snapshot
                  /\ payload[r].owner = e.owner /\ payload[r].arts[e.art] = e.doc
             /\ \A e \in (store \ store') \cup (store' \ store) : e.rel = r
<1>1. ASSUME Inv, [Next]_vars, NEW r \in Relation, Applies(r)
      PROVE  Retains(r)
  <2>1. ApplyRelation(r) /\ phase = "apply" /\ r \in todo
    BY <1>1, AppliesIsRound DEF Applies
  <2>2. CASE UNCHANGED <<work, store>>
    <3>1. Of(store, r) = Of(cache, r)
      BY <1>1, <2>1 DEF Inv, HookInv
    <3> QED
      BY <2>2, <3>1 DEF Of
  <2>3. CASE \E accepted, written : Round(r, accepted, written)
    BY <1>1, <2>1, <2>3, RoundRetains
  <2> QED
    BY <1>1, <2>1, <2>2, <2>3, ApplyRelationStep
<1>2. Inv /\ [Next]_vars => [\A r \in Relation : Applies(r) => Retains(r)]_vars
  BY <1>1
<1> QED
  BY <1>2, Invariance, PTL DEF Spec, LkgRetained
=============================================================================
