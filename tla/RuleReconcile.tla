---------------------------- MODULE RuleReconcile ----------------------------
(***************************************************************************)
(* _reconcile_rule_groups of src/src/charm.py, run by the leader of        *)
(* several units while providers, receivers and leadership change.         *)
(*                                                                         *)
(* Every hook that reconciles does the same: load the cache of every       *)
(* relation, admit the cached states within the publication limit, apply   *)
(* each relation's current payload in ascending order, publish what is     *)
(* left.  The loops are steps here, so that what the hook reads while it   *)
(* runs (payloads, receivers) may change between them and the hook may     *)
(* stop at any of them.  Juju keeps the databag writes of a hook back and  *)
(* applies them when it ends well: `store` and the published groups reach  *)
(* `cache` and `published` in the last step only, or not at all.           *)
(***************************************************************************)
EXTENDS RuleSnapshot

CONSTANTS
  Unit,      \* units of the application
  Inputs,    \* the payloads providers publish
  Encoding,  \* what receivers take: "json", or "lzma" as well
  Bound      \* how often each external event may happen

Event == {"update", "removal", "receiver", "election", "fault"}
Missing == "none"

ASSUME InputsAssumption == Inputs \subseteq Payload
ASSUME EncodingAssumption == Encoding \subseteq {"json", "lzma"}
ASSUME BoundAssumption == Bound \in [Event -> Nat]

VARIABLES
  payload,    \* the provider application's databag, per relation
  dying,      \* relations being removed
  scope,      \* the relations in each unit's model
  cache,      \* the rule cache in this application's databag, per relation
  receiver,   \* what the send-* relation of a backend takes, or Missing
  published,  \* "alert_rules" of that relation
  leader,
  phase,      \* the leader's hook: "idle", "admit" or "apply"
  relations,  \* the relations the hook iterates over
  todo,       \* those the current loop has still to visit
  work,       \* relation_state
  store,      \* the caches as the hook has written them
  calls,      \* cos-tool runs of this hook
  count       \* external events so far

shared == <<payload, dying, scope, receiver, leader>>
durable == <<cache, published>>
hook == <<phase, relations, todo, work, store, calls>>
vars == <<shared, durable, hook, count>>

Init ==
  /\ payload = [r \in Relation |-> Plain]
  /\ dying = {}
  /\ scope = [u \in Unit |-> Relation]
  /\ cache = {}
  /\ receiver = [b \in Backend |-> Missing]
  /\ published = [b \in Backend |-> {}]
  /\ leader \in Unit
  /\ phase = "idle" /\ relations = {} /\ todo = {}
  /\ work = {} /\ store = {} /\ calls = 0
  /\ count = [e \in Event |-> 0]

Happens(e) ==
  /\ count[e] < Bound[e]
  /\ count' = [count EXCEPT ![e] = @ + 1]

(* Mutant of HookEnds: the validator's budget is not reset by the next hook. *)
HookEndsBudgetKept ==
  /\ phase' = "idle" /\ relations' = {} /\ todo' = {}
  /\ work' = {} /\ store' = {} /\ UNCHANGED calls

(* Mutant of HookEnds: relation_state survives into the next hook. *)
HookEndsStateKept ==
  /\ phase' = "idle" /\ relations' = {} /\ todo' = {}
  /\ UNCHANGED <<work, store>> /\ calls' = 0

(* The hook is over; what it held in memory is gone. *)
HookEnds ==
  /\ phase' = "idle" /\ relations' = {} /\ todo' = {}
  /\ work' = {} /\ store' = {} /\ calls' = 0

-----------------------------------------------------------------------------
(* The hook *)

Start(rels) ==
  /\ phase = "idle"
  /\ phase' = "admit"
  /\ relations' = rels /\ todo' = rels
  /\ store' = cache
  /\ UNCHANGED <<work, calls>>

(* config-changed, start, update-status, leader-elected or a relation hook *)
(* on the leader. *)
BeginReconcile ==
  /\ Start(scope[leader])
  /\ UNCHANGED <<shared, durable, count>>

(* relation-broken runs once on every unit; only the leader reconciles, *)
(* leaving the relation out although the hook still lists it.           *)
RelationBroken(u, r) ==
  /\ r \in dying /\ r \in scope[u]
  /\ scope' = [scope EXCEPT ![u] = @ \ {r}]
  /\ IF u = leader THEN Start(scope[u] \ {r}) ELSE UNCHANGED hook
  /\ UNCHANGED <<payload, dying, receiver, leader, durable, count>>

IsNext(S, r) == r \in S /\ \A q \in S : r <= q

(* One round of the loop of _bounded_existing_rule_state. *)
AdmitCached(r) ==
  LET state == WithoutOwnershipConflicts(Of(cache, r), {}, work)
      candidate == work \cup state
  IN  /\ phase = "admit" /\ IsNext(todo, r)
      /\ todo' = todo \ {r}
      /\ work' = IF Publishable(candidate) THEN candidate ELSE work
      /\ UNCHANGED <<phase, relations, store, calls, shared, durable, count>>

BeginApply ==
  /\ phase = "admit" /\ todo = {}
  /\ phase' = "apply" /\ todo' = relations
  /\ UNCHANGED <<relations, work, store, calls, shared, durable, count>>

(* Mutant of Adopt: the candidate's size is not checked. *)
AdoptUnchecked(r, desired, written) ==
  LET lower == {e \in work : e.rel < r}
      resolved == WithoutOwnershipConflicts(desired, Of(cache, r), lower)
  IN  /\ work' = NormalizeOwnership((work \ Of(work, r)) \cup resolved)
      /\ store' = (store \ Of(store, r)) \cup resolved

(* Mutant of Adopt: the candidate is built from the lower relations only. *)
AdoptForgetsHigher(r, desired, written) ==
  LET lower == {e \in work : e.rel < r}
      resolved == WithoutOwnershipConflicts(desired, Of(cache, r), lower)
      candidate == NormalizeOwnership(lower \cup resolved)
  IN  IF Publishable(candidate) /\ CacheWeight(resolved) <= CacheLimit
      THEN /\ work' = candidate
           /\ store' = (store \ Of(store, r)) \cup resolved
      ELSE UNCHANGED <<work, store>>

(* _store_relation_rule_cache: within the limits, and what is there already *)
(* needs no write. *)
CanStore(r, resolved, written) ==
  /\ CacheWeight(resolved) <= CacheLimit
  /\ written \/ resolved = Of(cache, r)

(* The tail of one round of the loop of _reconcile_rule_groups: check the  *)
(* candidate, write the cache, adopt.                                      *)
Adopt(r, desired, written) ==
  LET lower == {e \in work : e.rel < r}
      resolved == WithoutOwnershipConflicts(desired, Of(cache, r), lower)
      candidate == NormalizeOwnership((work \ Of(work, r)) \cup resolved)
  IN  IF /\ Publishable(candidate)
         /\ CanStore(r, resolved, written)
      THEN /\ work' = candidate
           /\ store' = (store \ Of(store, r)) \cup resolved
      ELSE UNCHANGED <<work, store>>

(* One round: the relation's payload is read now.  `lost` are cos-tool     *)
(* runs that fail for another reason than the rules; `written` is FALSE    *)
(* when Juju refuses the write of the cache.                               *)
ApplyRelation(r) ==
  /\ phase = "apply" /\ IsNext(todo, r)
  /\ todo' = todo \ {r}
  /\ LET p == payload[r]
         ran == IF p \in Snapshot THEN Validated(p, calls) ELSE {}
     IN  \E lost \in SUBSET ran, written \in BOOLEAN :
           /\ IF lost = {} /\ written THEN UNCHANGED count ELSE Happens("fault")
           /\ calls' = calls + Cardinality(ran)
           /\ IF p = Rejected THEN UNCHANGED <<work, store>>
              ELSE Adopt(r, Desired(p, r, Of(cache, r),
                           IF p \in Snapshot THEN Accepted(p, calls, lost) ELSE {}),
                         written)
  /\ UNCHANGED <<phase, relations, shared, durable>>

(* Mutant of Publish: the caches are published, not what the hook resolved. *)
PublishCaches ==
  /\ phase = "apply" /\ todo = {}
  /\ cache' = store
  /\ published' = [b \in Backend |->
                     IF receiver[b] = Missing THEN {} ELSE Flatten(store, b)]
  /\ HookEnds
  /\ UNCHANGED <<shared, count>>

(* Mutant of Publish: the caches are not written back. *)
PublishUnsaved ==
  /\ phase = "apply" /\ todo = {}
  /\ published' = [b \in Backend |->
                     IF receiver[b] = Missing THEN {} ELSE Flatten(work, b)]
  /\ HookEnds
  /\ UNCHANGED <<cache, shared, count>>

(* publish_rule_groups for both backends, then the end of the hook: Juju *)
(* applies what it wrote.                                                *)
Publish ==
  /\ phase = "apply" /\ todo = {}
  /\ \A b \in Backend : receiver[b] # Missing
       => Deliverable(Flatten(work, b), receiver[b])
  /\ cache' = store
  /\ published' = [b \in Backend |->
                     IF receiver[b] = Missing THEN {} ELSE Flatten(work, b)]
  /\ HookEnds
  /\ UNCHANGED <<shared, count>>

(* publish_rule_groups raises ValueError: the hook fails, nothing it wrote *)
(* is applied. *)
PublishRaises ==
  /\ phase = "apply" /\ todo = {}
  /\ \E b \in Backend : receiver[b] # Missing
       /\ ~Deliverable(Flatten(work, b), receiver[b])
  /\ HookEnds
  /\ UNCHANGED <<shared, durable, count>>

(* The hook dies elsewhere: the handler raises around the reconcile, or    *)
(* the agent or the machine stops. *)
HookFails ==
  /\ phase # "idle"
  /\ Happens("fault")
  /\ HookEnds
  /\ UNCHANGED <<shared, durable>>

-----------------------------------------------------------------------------
(* What happens around it *)

ProviderPublishes(r) ==
  /\ r \notin dying
  /\ \E p \in Inputs \ {payload[r]} : payload' = [payload EXCEPT ![r] = p]
  /\ Happens("update")
  /\ UNCHANGED <<dying, scope, receiver, leader, durable, hook>>

RemoveRelation(r) ==
  /\ r \notin dying
  /\ dying' = dying \cup {r}
  /\ Happens("removal")
  /\ UNCHANGED <<payload, scope, receiver, leader, durable, hook>>

(* A send-* relation is made, changes what it takes, or goes; its databag *)
(* comes and goes with it. *)
ReceiverChanges(b) ==
  /\ \E e \in (Encoding \cup {Missing}) \ {receiver[b]} :
       /\ receiver' = [receiver EXCEPT ![b] = e]
       /\ published' = IF e = Missing THEN [published EXCEPT ![b] = {}]
                       ELSE published
  /\ Happens("receiver")
  /\ UNCHANGED <<payload, dying, scope, leader, cache, hook>>

(* Juju refuses the writes of a unit that is no longer the leader, so the *)
(* hook that was running fails. *)
LeaderElected(u) ==
  /\ u # leader /\ leader' = u
  /\ Happens("election")
  /\ HookEnds
  /\ UNCHANGED <<payload, dying, scope, receiver, durable>>

Environment ==
  \/ \E r \in Relation : ProviderPublishes(r) \/ RemoveRelation(r)
  \/ \E b \in Backend : ReceiverChanges(b)
  \/ \E u \in Unit : LeaderElected(u)

Next ==
  \/ BeginReconcile
  \/ \E u \in Unit, r \in Relation : RelationBroken(u, r)
  \/ \E r \in Relation : AdmitCached(r) \/ ApplyRelation(r)
  \/ BeginApply
  \/ Publish
  \/ PublishRaises
  \/ HookFails
  \/ Environment

Spec == Init /\ [][Next]_vars

(* The leader's hook, one step of which is enabled at any time. *)
HookStep ==
  \/ BeginReconcile \/ BeginApply \/ Publish \/ PublishRaises
  \/ \E r \in Relation : AdmitCached(r) \/ ApplyRelation(r)

(* update-status runs for ever, a hook that has begun goes on, and the     *)
(* relation-broken hook queued for a unit is run.                          *)
Fairness ==
  /\ WF_vars(HookStep)
  /\ \A u \in Unit, r \in Relation : SF_vars(RelationBroken(u, r))

FairSpec == Spec /\ Fairness
-----------------------------------------------------------------------------
(* Properties *)

(* The refinement mapping: receivers and later leaders see the databags,   *)
(* and none of the state a running hook keeps to itself.                   *)
Contract ==
  INSTANCE RulePublication
    WITH cache <- cache, published <- published, receiver <- receiver

(* The loops, failures and elections implement one atomic step: receivers  *)
(* and later leaders see a hook's writes together or not at all, touching  *)
(* only relations the hook visited, and what is served is a selection of   *)
(* what was cached in the same step (module RulePublication).              *)
PublishesAtomically == Contract!Spec

(* The type invariant: every databag and every intermediate state of the   *)
(* hook has the shape the code gives it, and an idle leader holds nothing. *)
TypeOK ==
  /\ payload \in [Relation -> Payload]
  /\ dying \subseteq Relation
  /\ scope \in [Unit -> SUBSET Relation]
  /\ IsState(cache) /\ IsState(work) /\ IsState(store)
  /\ receiver \in [Backend -> {"json", "lzma", Missing}]
  /\ published \in [Backend -> SUBSET Group]
  /\ leader \in Unit
  /\ phase \in {"idle", "admit", "apply"}
  /\ relations \subseteq Relation /\ todo \subseteq relations
  /\ calls \in Nat
  /\ count \in [Event -> Nat]
  /\ phase = "idle" => work = {} /\ todo = {}

(* No ownership reaches a backend twice, whatever relations claim it, in   *)
(* which order their payloads and leaders come and go: the receiver would  *)
(* evaluate the alerts of one application from two sources.                *)
PublishedOwnedOnce ==
  \A b \in Backend : \A g, h \in published[b] :
     g.owner = h.owner /\ g.art = h.art => g = h

(* Whatever is published can be rebuilt from the caches alone: a leader    *)
(* that takes over after any failure finds every published group in them.  *)
(* (_store_relation_rule_cache: "Persist transformed LKG state before      *)
(* publication".)                                                          *)
PublishedDurable ==
  \A b \in Backend : published[b] \subseteq Flatten(cache, b)

(* The state a hook works on can be flattened and fits the publication     *)
(* limit at every step: the cached state of one relation, however it grew, *)
(* never keeps the others from being published.                            *)
WorkPublishable == phase # "idle" => Publishable(work)

(* Of the relations that hold an ownership in their caches, no higher one  *)
(* serves it -- except in the hook in which a still lower relation gives   *)
(* it up, when a claimant whose payload is refused now is passed over      *)
(* until the next hook (without size limits, which may leave the lowest    *)
(* one out).                                                               *)
LowestClaimantServes ==
  phase = "apply" =>
    \A e \in work, f \in store :
       f.rel \in relations /\ f.rel < e.rel /\ SameOwnership(e, f) =>
         Claimed(f, {g \in cache \ store : g.rel < f.rel})

(* The step is a round of the loop that applies payloads, for relation r. *)
Applies(r) ==
  phase = "apply" /\ phase' = "apply" /\ r \in todo /\ r \notin todo'

(* Last known good: a round that loses a cached entry does so because the  *)
(* provider withdrew or replaced the artifact or a lower relation serves   *)
(* its ownership -- not because the artifact was malformed, refused by     *)
(* cos-tool or cut off by a budget, nor because a sibling was; and the     *)
(* only rules a round adds are those the payload carries for an artifact.  *)
LkgRetained ==
  [][\A r \in Relation : Applies(r) =>
       /\ \A e \in Of(cache, r) \ store' :
            \/ Withdraws(payload[r], e.art)
            \/ \E f \in Of(store', r) : f.art = e.art
            \/ Claimed(e, {f \in work' : f.rel < r})
       /\ \A e \in Of(store', r) \ cache :
            /\ payload[r] \in Snapshot
            /\ payload[r].owner = e.owner /\ payload[r].arts[e.art] = e.doc
       /\ \A e \in (store \ store') \cup (store' \ store) : e.rel = r]_vars

(* A round changes what the hook will publish for another relation only by *)
(* dropping an entry whose ownership a lower relation now serves: refusing *)
(* one relation's payload, for its content or its size, leaves the others  *)
(* as they were.                                                           *)
NeighboursKept ==
  [][\A r \in Relation : Applies(r) =>
       /\ \A e \in work' \ work : e.rel = r
       /\ \A e \in work \ work' :
            e.rel = r \/ Claimed(e, {f \in work' : f.rel < e.rel})]_vars

(* No relation below r asks for the ownership a of r's payload, or still   *)
(* holds it.                                                               *)
Uncontested(r, a) ==
  \A q \in {x \in scope[leader] : x < r} :
    /\ ~ \E e \in Of(cache, q) : e.art = a /\ e.owner = payload[r].owner
    /\ payload[q] \in Snapshot =>
         payload[q].owner # payload[r].owner \/ payload[q].arts[a] = Omitted

Offered(r, a) ==
  /\ r \in scope[leader] /\ r \notin dying
  /\ payload[r] \in Snapshot /\ payload[r].arts[a] \in Document
  /\ a \in Decodes(payload[r])
  /\ receiver[BackendOf[a]] # Missing
  /\ Uncontested(r, a)

(* A good artifact that stays offered within its payload's budgets,        *)
(* uncontested and with a receiver is published in the end, whatever       *)
(* leaders, hooks and cos-tool runs failed before.                         *)
OfferedPublished ==
  \A r \in Relation, a \in Artifact :
    <>[]Offered(r, a) =>
      <>[](payload[r] \in Snapshot
           /\ [owner |-> payload[r].owner, art |-> a, doc |-> payload[r].arts[a]]
                \in published[BackendOf[a]])

(* Some relation in the leader's model still holds the published group g, *)
(* and its provider has not withdrawn it.                                 *)
Backed(g) ==
  \E e \in cache :
    /\ e.rel \in scope[leader] /\ ~Withdraws(payload[e.rel], e.art)
    /\ g = [owner |-> e.owner, art |-> e.art, doc |-> e.doc]

(* Omission and relation removal withdraw the rules in the end, also when  *)
(* leadership passes to a unit that has not seen the relation go: README   *)
(* "Valid omission and relation removal withdraw owned rules".             *)
WithdrawnRemoved == <>[](\A b \in Backend : \A g \in published[b] : Backed(g))

(* Hooks that find nothing new change nothing: once the events end, the    *)
(* caches and what is published settle, rather than two relations taking   *)
(* turns.                                                                  *)
Settles == <>[][UNCHANGED durable]_vars
=============================================================================
