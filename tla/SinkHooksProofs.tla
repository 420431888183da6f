--------------------------- MODULE SinkHooksProofs ---------------------------
(***************************************************************************)
(* Proof that no receiver is ever shown what the vendored libraries push   *)
(* with forward_alert_rules=False: an empty rule set and tenant metadata.  *)
(*                                                                         *)
(* The databags are clean because a hook's draft is when the hook ends,    *)
(* and the draft is because whatever a library's handler puts there a      *)
(* handler still to come takes away: _on_rule_relation_event, or in        *)
(* config-changed the charm's own handler, each over every relation the    *)
(* library can have written to.  Only the leader writes; an election makes *)
(* the old leader's hook fail and the new one's draft holds nothing yet.   *)
(***************************************************************************)
EXTENDS SinkHooks, TLAPS

Fields == {"rules", "legacy", "unit", "app", "text", "drift", "deferred", "stale"}
RuleMark == {Kept, "library", "charm"}
LegacyMark == {Kept, "present", "gone"}

IsDraft(d) ==
  /\ DOMAIN d = Fields
  /\ d.rules \in [Sink -> RuleMark] /\ d.legacy \in [Sink -> LegacyMark]

(* A handler turned draft d into e and pushed nothing. *)
PushedNothing(d, e) ==
  /\ IsDraft(d) => IsDraft(e)
  /\ IsDraft(d) => \A s \in Sink :
       /\ e.rules[s] = "library" => d.rules[s] = "library"
       /\ e.legacy[s] = "present" => d.legacy[s] = "present"

IsHook(h) ==
  /\ DOMAIN h = {"kind", "sink", "todo", "seen", "draft", "failed"}
  /\ h.kind # Bottom
  /\ IsDraft(h.draft)
  /\ h.failed \in BOOLEAN

(* Who still takes away what the libraries push. *)
Cleans(h) == \/ 6 \in h.todo
             \/ 5 \in h.todo /\ h.kind = "config-changed"

(* The stages left of a hook of a unit whose relations are `sinks`. *)
StagesLeft(h, sinks) ==
  /\ 1 \in h.todo => Cleans(h)
  /\ 4 \in h.todo => 6 \in h.todo
  /\ h.kind = "joined" =>
       /\ h.sink \in sinks
       /\ 1 \in h.todo => KindOf[h.sink] = "loki"
       /\ 4 \in h.todo => KindOf[h.sink] = "write"

(* What the draft of u's hook may hold of the libraries. *)
Cleaned(u, h, sinks) ==
  \A s \in Sink :
    /\ h.draft.rules[s] = "library" =>
         u = leader /\ s \in Of("loki", sinks) \cup Of("write", sinks) /\ Cleans(h)
    /\ h.draft.legacy[s] = "present" =>
         u = leader /\ s \in Of("write", sinks) /\ 6 \in h.todo

HookInv ==
  /\ leader \in Unit
  /\ DOMAIN hook = Unit /\ scope \in [Unit -> SUBSET Sink]
  /\ rules \in [Sink -> {Bottom, "library", "charm"}]
  /\ \A u \in Unit : hook[u] # Idle =>
       /\ IsHook(hook[u])
       /\ StagesLeft(hook[u], scope[u])
       /\ Cleaned(u, hook[u], scope[u])

HiddenInv == HookInv /\ LibraryRulesHidden /\ legacy \subseteq Sink
-----------------------------------------------------------------------------
(* The handlers *)

(* The reconcile replaces the libraries' rules in every relation that has a *)
(* backend.                                                                 *)
LEMMA ReconciledCleans ==
  ASSUME NEW u, NEW d
  PROVE  /\ PushedNothing(d, Reconciled(u, d))
         /\ IsDraft(d) /\ u = leader =>
              \A s \in Sink : s \in Of("loki", scope[u]) \cup Of("write", scope[u]) =>
                Reconciled(u, d).rules[s] = "charm"
         /\ IsDraft(d) => Reconciled(u, d).legacy = d.legacy
  BY DEF Reconciled, PushedNothing, IsDraft, Fields, RuleMark, LegacyMark

(* _refresh_remote_write_relation_metadata takes the metadata away. *)
LEMMA MetadataCleans ==
  ASSUME NEW u, NEW d
  PROVE  /\ PushedNothing(d, MetadataRemoved(u, d))
         /\ IsDraft(d) /\ u = leader =>
              \A s \in Sink : s \in Of("write", scope[u]) =>
                MetadataRemoved(u, d).legacy[s] = "gone"
  BY DEF MetadataRemoved, PushedNothing, IsDraft, Fields, RuleMark, LegacyMark

(* Neither the config nor the syslog relation carries rules, nor do the    *)
(* marks of a hook.                                                        *)
LEMMA OthersPushNothing ==
  ASSUME NEW u, NEW d
  PROVE  /\ PushedNothing(d, SyslogRefreshed(u, d)) /\ PushedNothing(d, Configured(u, d))
         /\ PushedNothing(d, Untold(d)) /\ PushedNothing(d, DriftNoted(u, d))
         /\ \A b \in BOOLEAN : PushedNothing(d, [d EXCEPT !.deferred = b])
  BY DEF SyslogRefreshed, Configured, Untold, DriftNoted, PushedNothing, IsDraft, Fields

LEMMA Transitive ==
  ASSUME NEW d, NEW e, NEW f, PushedNothing(d, e), PushedNothing(e, f)
  PROVE  PushedNothing(d, f)
  BY DEF PushedNothing

LEMMA Reflexive == ASSUME NEW d PROVE PushedNothing(d, d)
  BY DEF PushedNothing

LEMMA RuleEventPushesNothing ==
  ASSUME NEW u, NEW d PROVE PushedNothing(d, OnRuleEvent(u, d))
  BY MetadataCleans, ReconciledCleans, Transitive DEF OnRuleEvent

LEMMA HandlersPushNothing ==
  ASSUME NEW u, NEW d, NEW up
  PROVE  /\ PushedNothing(d, OnLokiChanged(u, d, up))
         /\ PushedNothing(d, OnMetricsChanged(u, d, up))
         /\ PushedNothing(d, OnObservabilityChanged(u, d, up))
         /\ PushedNothing(d, OnStart(u, d, up))
         /\ PushedNothing(d, OwnDraft(u, d, up))
<1>1. PushedNothing(d, OnLokiChanged(u, d, up))
  BY OthersPushNothing, Transitive, Reflexive DEF OnLokiChanged
<1>2. PushedNothing(d, OnMetricsChanged(u, d, up))
  BY OthersPushNothing, MetadataCleans, Transitive, Reflexive DEF OnMetricsChanged
<1>3. PushedNothing(d, OnObservabilityChanged(u, d, up))
  <2>1. PushedNothing(d, MetadataRemoved(u, Configured(u, d)))
    BY OthersPushNothing, MetadataCleans, Transitive
  <2>2. PushedNothing(d, Untold(Configured(u, d)))
    BY OthersPushNothing, Transitive
  <2> QED BY <2>1, <2>2, OthersPushNothing, Transitive, Reflexive DEF OnObservabilityChanged
<1>4. PushedNothing(d, OnConfigChanged(u, d, up))
  BY <1>3, ReconciledCleans, Transitive DEF OnConfigChanged
<1>5. PushedNothing(d, OnStart(u, d, up))
  <2>1. PushedNothing(d, SyslogRefreshed(u, MetadataRemoved(u, d)))
    BY OthersPushNothing, MetadataCleans, Transitive
  <2>2. PushedNothing(d, [d EXCEPT !.deferred = TRUE])
    BY OthersPushNothing
  <2> QED BY <2>1, <2>2, ReconciledCleans, Transitive DEF OnStart
<1>6. PushedNothing(d, OnUpdateStatus(u, d, up))
  <2>1. PushedNothing(d, SyslogRefreshed(u, IF up THEN DriftNoted(u, d) ELSE d))
    BY OthersPushNothing, Transitive
  <2> QED BY <2>1, ReconciledCleans, Transitive DEF OnUpdateStatus
<1> QED
  BY <1>1, <1>2, <1>3, <1>4, <1>5, <1>6, MetadataCleans, OthersPushNothing DEF OwnDraft

-----------------------------------------------------------------------------
(* The beginning of a hook *)

(* A fresh hook has an empty draft and all its handlers before it. *)
LEMMA FreshHook ==
  ASSUME NEW kind, NEW s, NEW seen, NEW u, NEW sinks, kind # Bottom,
         kind = "joined" => s \in sinks
  PROVE  LET h == [kind |-> kind, sink |-> s, todo |-> Stages(u, kind, s), seen |-> seen,
                   draft |-> NoDraft(u), failed |-> FALSE]
         IN  IsHook(h) /\ StagesLeft(h, sinks) /\ Cleaned(u, h, sinks)
<1> DEFINE h == [kind |-> kind, sink |-> s, todo |-> Stages(u, kind, s), seen |-> seen,
                 draft |-> NoDraft(u), failed |-> FALSE]
<1>1. IsHook(h) /\ Cleaned(u, h, sinks)
  BY DEF IsHook, IsDraft, Cleaned, NoDraft, Fields, RuleMark, LegacyMark, Kept, Bottom
<1>2. 1 \in StagesOf(kind, s) =>
        6 \in StagesOf(kind, s) \/ (5 \in StagesOf(kind, s) /\ kind = "config-changed")
  BY DEF StagesOf, Observed, LibraryLifecycle
<1>3. 4 \in StagesOf(kind, s) => 6 \in StagesOf(kind, s)
  BY DEF StagesOf, Observed, LibraryLifecycle
<1>4. kind = "joined" =>
        /\ 1 \in StagesOf(kind, s) => KindOf[s] = "loki"
        /\ 4 \in StagesOf(kind, s) => KindOf[s] = "write"
  BY DEF StagesOf, Observed, LibraryLifecycle
<1>5. \A n \in 1..6 : n \in h.todo <=> n \in StagesOf(kind, s)
  BY DEF Stages
<1> HIDE DEF h
<1>6. h.kind = kind /\ h.sink = s
  BY DEF h
<1>7. StagesLeft(h, sinks)
  BY <1>2, <1>3, <1>4, <1>5, <1>6 DEF StagesLeft, Cleans
<1> QED BY <1>1, <1>7 DEF h

(* Beginning a hook keeps the invariant; the relations it sees are those   *)
(* the unit has from then on.                                              *)
LEMMA BeginKeeps ==
  ASSUME HookInv, NEW u \in Unit, NEW kind, NEW s, NEW members, NEW sinks,
         Begin(u, kind, s, members, sinks), kind # Bottom,
         scope' = [scope EXCEPT ![u] = sinks], sinks \subseteq Sink,
         kind = "joined" => s \in sinks,
         leader' = leader, rules' = rules
  PROVE  HookInv'
<1>1. PICK seen \in Readings(members, sinks) :
        hook' = [hook EXCEPT ![u] =
                   [kind |-> kind, sink |-> s, todo |-> Stages(u, kind, s),
                    seen |-> seen, draft |-> NoDraft(u), failed |-> FALSE]]
  BY DEF Begin
<1>2. hook'[u] = [kind |-> kind, sink |-> s, todo |-> Stages(u, kind, s), seen |-> seen,
                  draft |-> NoDraft(u), failed |-> FALSE]
  BY <1>1 DEF HookInv
<1>3. IsHook(hook'[u]) /\ StagesLeft(hook'[u], sinks) /\ Cleaned(u, hook'[u], sinks)
  BY <1>2, FreshHook
<1>4. scope'[u] = sinks /\ scope' \in [Unit -> SUBSET Sink]
  BY DEF HookInv
<1>5. ASSUME NEW v \in Unit, hook'[v] # Idle
      PROVE  /\ IsHook(hook'[v])
             /\ StagesLeft(hook'[v], scope'[v])
             /\ Cleaned(v, hook[v], scope[v])' 
  <2>1. CASE v = u
    BY <2>1, <1>3, <1>4 DEF Cleaned, Cleans
  <2>2. CASE v # u
    <3>1. hook'[v] = hook[v] /\ scope'[v] = scope[v]
      BY <2>2, <1>1 DEF HookInv
    <3>2. IsHook(hook[v]) /\ StagesLeft(hook[v], scope[v]) /\ Cleaned(v, hook[v], scope[v])
      BY <1>5, <3>1 DEF HookInv
    <3> QED BY <3>1, <3>2 DEF Cleaned
  <2> QED BY <2>1, <2>2
<1>6. DOMAIN hook' = Unit
  BY <1>1 DEF HookInv
<1> QED BY <1>4, <1>5, <1>6 DEF HookInv

-----------------------------------------------------------------------------
(* The handlers' steps *)

(* A step of u's hook whose new draft and remaining stages are clean keeps *)
(* the invariant.                                                          *)
LEMMA DoesKeeps ==
  ASSUME HookInv, NEW u \in Unit, NEW n, NEW draft, NextIs(u, n), Does(u, n, draft),
         IsDraft(draft),
         \A s \in Sink : draft.rules[s] = "library" =>
           /\ u = leader /\ s \in Of("loki", scope[u]) \cup Of("write", scope[u])
           /\ \/ 6 \in hook[u].todo \ {n}
              \/ 5 \in hook[u].todo \ {n} /\ hook[u].kind = "config-changed",
         \A s \in Sink : draft.legacy[s] = "present" =>
           u = leader /\ s \in Of("write", scope[u]) /\ 6 \in hook[u].todo \ {n},
         n \in {5, 6} => 1 \notin hook[u].todo /\ 4 \notin hook[u].todo
  PROVE  HookInv'
<1> DEFINE h == hook'[u]
<1>1. hook[u] # Idle /\ IsHook(hook[u]) /\ StagesLeft(hook[u], scope[u])
  BY DEF NextIs, Free, HookInv
<1>2. /\ leader' = leader /\ scope' = scope /\ rules' = rules
      /\ hook' = [hook EXCEPT ![u].todo = @ \ {n}, ![u].draft = draft]
  BY DEF Does, world, due, bags
<1>3. /\ h.todo = hook[u].todo \ {n} /\ h.draft = draft /\ h.kind = hook[u].kind
      /\ h.sink = hook[u].sink /\ h.failed = hook[u].failed /\ DOMAIN h = DOMAIN hook[u]
  BY <1>1, <1>2 DEF IsHook, HookInv
<1>4. IsHook(h)
  BY <1>1, <1>3 DEF IsHook
<1>5. StagesLeft(h, scope[u])
  BY <1>1, <1>3 DEF StagesLeft, Cleans
<1>6. Cleaned(u, hook[u], scope[u])'
  BY <1>2, <1>3 DEF Cleaned, Cleans, Of
<1>7. ASSUME NEW v \in Unit, hook'[v] # Idle
      PROVE  IsHook(hook'[v]) /\ StagesLeft(hook'[v], scope'[v]) /\ Cleaned(v, hook[v], scope[v])'
  <2>1. CASE v = u
    BY <2>1, <1>2, <1>4, <1>5, <1>6
  <2>2. CASE v # u
    <3>1. hook'[v] = hook[v]
      BY <2>2, <1>2 DEF HookInv
    <3>2. IsHook(hook[v]) /\ StagesLeft(hook[v], scope[v]) /\ Cleaned(v, hook[v], scope[v])
      BY <1>7, <3>1 DEF HookInv
    <3> QED BY <1>2, <3>1, <3>2 DEF Cleaned
  <2> QED BY <2>1, <2>2
<1> QED BY <1>2, <1>7 DEF HookInv

(* A handler that pushes nothing, and is not the last to clean, keeps it. *)
LEMMA QuietKeeps ==
  ASSUME HookInv, NEW u \in Unit, NEW n \in {0, 2, 3}, NEW draft, NextIs(u, n),
         Does(u, n, draft), PushedNothing(hook[u].draft, draft)
  PROVE  HookInv'
<1>1. hook[u] # Idle /\ IsHook(hook[u]) /\ Cleaned(u, hook[u], scope[u])
  BY DEF NextIs, Free, HookInv
<1>2. IsDraft(draft)
  BY <1>1 DEF IsHook, PushedNothing
<1>3. \A s \in Sink : draft.rules[s] = "library" =>
        /\ u = leader /\ s \in Of("loki", scope[u]) \cup Of("write", scope[u])
        /\ \/ 6 \in hook[u].todo \ {n}
           \/ 5 \in hook[u].todo \ {n} /\ hook[u].kind = "config-changed"
  BY <1>1 DEF IsHook, PushedNothing, Cleaned, Cleans
<1>4. \A s \in Sink : draft.legacy[s] = "present" =>
        u = leader /\ s \in Of("write", scope[u]) /\ 6 \in hook[u].todo \ {n}
  BY <1>1 DEF IsHook, PushedNothing, Cleaned
<1> QED BY <1>2, <1>3, <1>4, DoesKeeps

(* loki_push_api pushes its rules. *)
LEMMA PushLokiKeeps ==
  ASSUME HookInv, NEW u \in Unit, PushLokiRules(u) PROVE HookInv'
<1> DEFINE sinks == Targets(u, "loki")
           draft == Pushed(u, hook[u].draft, sinks)
<1>1. hook[u] # Idle /\ IsHook(hook[u]) /\ Cleaned(u, hook[u], scope[u])
        /\ StagesLeft(hook[u], scope[u]) /\ 1 \in hook[u].todo /\ scope[u] \subseteq Sink
  BY DEF PushLokiRules, NextIs, Free, HookInv
<1>2. sinks \subseteq Of("loki", scope[u])
  BY <1>1 DEF Targets, StagesLeft, Of
<1>3. IsDraft(draft) /\ draft.legacy = hook[u].draft.legacy
  BY <1>1 DEF IsHook, IsDraft, Pushed, RuleMark, Fields
<1>4. \A s \in Sink : draft.rules[s] = "library" =>
        /\ u = leader /\ s \in Of("loki", scope[u]) \cup Of("write", scope[u])
        /\ \/ 6 \in hook[u].todo \ {1}
           \/ 5 \in hook[u].todo \ {1} /\ hook[u].kind = "config-changed"
  <2> SUFFICES ASSUME NEW s \in Sink, draft.rules[s] = "library"
               PROVE  /\ u = leader /\ s \in Of("loki", scope[u]) \cup Of("write", scope[u])
                      /\ Cleans(hook[u])
    BY DEF Cleans
  <2>1. hook[u].draft.rules[s] = "library" \/ (u = leader /\ s \in sinks)
    BY <1>1 DEF Pushed, IsHook, IsDraft, Fields
  <2> QED BY <2>1, <1>1, <1>2 DEF Cleaned, StagesLeft
<1>5. \A s \in Sink : draft.legacy[s] = "present" =>
        u = leader /\ s \in Of("write", scope[u]) /\ 6 \in hook[u].todo \ {1}
  BY <1>1, <1>3 DEF Cleaned
<1>6. NextIs(u, 1) /\ Does(u, 1, draft)
  BY DEF PushLokiRules
<1> HIDE DEF draft
<1> QED BY <1>3, <1>4, <1>5, <1>6, DoesKeeps

(* prometheus_remote_write pushes its rules and its metadata. *)
LEMMA PushWriteKeeps ==
  ASSUME HookInv, NEW u \in Unit, PushWriteRules(u) PROVE HookInv'
<1> DEFINE sinks == Targets(u, "write")
           d == hook[u].draft
           p == Pushed(u, d, sinks)
           draft == WithMetadata(u, p, sinks)
<1>1. hook[u] # Idle /\ IsHook(hook[u]) /\ Cleaned(u, hook[u], scope[u])
        /\ StagesLeft(hook[u], scope[u]) /\ 4 \in hook[u].todo /\ scope[u] \subseteq Sink
  BY DEF PushWriteRules, NextIs, Free, HookInv
<1>2. sinks \subseteq Of("write", scope[u])
  BY <1>1 DEF Targets, StagesLeft, Of
<1>3. IsDraft(p) /\ p.legacy = d.legacy
  BY <1>1 DEF IsHook, IsDraft, Pushed, RuleMark, Fields
<1>4. \A s \in Sink : p.rules[s] = "library" => d.rules[s] = "library" \/ (u = leader /\ s \in sinks)
  BY <1>1 DEF Pushed, IsHook, IsDraft, Fields
<1>5. IsDraft(draft) /\ draft.rules = p.rules
  BY <1>3 DEF IsDraft, WithMetadata, LegacyMark, Fields
<1>6. \A s \in Sink : draft.legacy[s] = "present" => p.legacy[s] = "present" \/ (u = leader /\ s \in sinks)
  BY <1>3 DEF IsDraft, WithMetadata, Fields
<1>7. 6 \in hook[u].todo
  BY <1>1 DEF StagesLeft
<1>8. \A s \in Sink : draft.rules[s] = "library" =>
        /\ u = leader /\ s \in Of("loki", scope[u]) \cup Of("write", scope[u])
        /\ \/ 6 \in hook[u].todo \ {4}
           \/ 5 \in hook[u].todo \ {4} /\ hook[u].kind = "config-changed"
  BY <1>1, <1>2, <1>4, <1>5, <1>7 DEF Cleaned
<1>9. \A s \in Sink : draft.legacy[s] = "present" =>
        u = leader /\ s \in Of("write", scope[u]) /\ 6 \in hook[u].todo \ {4}
  BY <1>1, <1>2, <1>3, <1>6, <1>7 DEF Cleaned
<1>10. NextIs(u, 4) /\ Does(u, 4, draft)
  BY DEF PushWriteRules
<1> HIDE DEF draft, p
<1> QED BY <1>5, <1>8, <1>9, <1>10, DoesKeeps

(* The charm's own handler: in config-changed it reconciles, otherwise     *)
(* _on_rule_relation_event is still to come.                               *)
LEMMA OwnKeeps ==
  ASSUME HookInv, NEW u \in Unit, OwnHandler(u) PROVE HookInv'
<1>0. PICK up : Does(u, 5, OwnDraft(u, hook[u].draft, up))
  BY DEF OwnHandler
<1> DEFINE d == hook[u].draft
           draft == OwnDraft(u, d, up)
<1>1. hook[u] # Idle /\ IsHook(hook[u]) /\ Cleaned(u, hook[u], scope[u])
        /\ 5 \in hook[u].todo /\ 1 \notin hook[u].todo /\ 4 \notin hook[u].todo
  BY DEF OwnHandler, NextIs, Free, HookInv
<1>2. PushedNothing(d, draft) /\ IsDraft(d)
  BY <1>1, HandlersPushNothing DEF IsHook
<1>3. IsDraft(draft)
  BY <1>2 DEF PushedNothing
<1>4. ASSUME hook[u].kind = "config-changed", u = leader,
             NEW s \in Sink, s \in Of("loki", scope[u]) \cup Of("write", scope[u])
      PROVE  draft.rules[s] = "charm"
  <2> DEFINE e == OnObservabilityChanged(u, d, up)
  <2>1. IsDraft(e)
    BY <1>2, HandlersPushNothing DEF PushedNothing
  <2>2. draft = Reconciled(u, e)
    BY <1>4 DEF OwnDraft, OnConfigChanged
  <2> HIDE DEF e
  <2> QED BY <2>1, <2>2, <1>4, ReconciledCleans
<1>5. \A s \in Sink : draft.rules[s] = "library" =>
        /\ u = leader /\ s \in Of("loki", scope[u]) \cup Of("write", scope[u])
        /\ \/ 6 \in hook[u].todo \ {5}
           \/ 5 \in hook[u].todo \ {5} /\ hook[u].kind = "config-changed"
  <2> SUFFICES ASSUME NEW s \in Sink, draft.rules[s] = "library"
               PROVE  /\ u = leader /\ s \in Of("loki", scope[u]) \cup Of("write", scope[u])
                      /\ 6 \in hook[u].todo
    OBVIOUS
  <2>1. d.rules[s] = "library"
    BY <1>2 DEF PushedNothing
  <2>2. u = leader /\ s \in Of("loki", scope[u]) \cup Of("write", scope[u]) /\ Cleans(hook[u])
    BY <2>1, <1>1 DEF Cleaned
  <2>3. hook[u].kind # "config-changed"
    BY <2>2, <1>4
  <2> QED BY <2>2, <2>3 DEF Cleans
<1>6. \A s \in Sink : draft.legacy[s] = "present" =>
        u = leader /\ s \in Of("write", scope[u]) /\ 6 \in hook[u].todo \ {5}
  BY <1>1, <1>2 DEF Cleaned, PushedNothing
<1>7. NextIs(u, 5) /\ Does(u, 5, draft)
  BY <1>0 DEF OwnHandler
<1> HIDE DEF draft
<1> QED BY <1>1, <1>3, <1>5, <1>6, <1>7, DoesKeeps

(* _on_rule_relation_event leaves nothing of the libraries. *)
LEMMA RuleEventKeeps ==
  ASSUME HookInv, NEW u \in Unit, RuleRelationEvent(u) PROVE HookInv'
<1> DEFINE d == hook[u].draft
           r == MetadataRemoved(u, d)
           draft == OnRuleEvent(u, d)
<1>1. hook[u] # Idle /\ IsHook(hook[u]) /\ Cleaned(u, hook[u], scope[u])
        /\ 1 \notin hook[u].todo /\ 4 \notin hook[u].todo
  BY DEF RuleRelationEvent, NextIs, Free, HookInv
<1>2. PushedNothing(d, draft) /\ IsDraft(d) /\ IsDraft(r)
  BY <1>1, RuleEventPushesNothing, MetadataCleans DEF IsHook, PushedNothing
<1>3. IsDraft(draft)
  BY <1>2 DEF PushedNothing
<1>4. draft = Reconciled(u, r)
  BY DEF OnRuleEvent
<1>5. \A s \in Sink : draft.rules[s] # "library"
  <2> SUFFICES ASSUME NEW s \in Sink, draft.rules[s] = "library" PROVE FALSE
    OBVIOUS
  <2>1. u = leader /\ s \in Of("loki", scope[u]) \cup Of("write", scope[u])
    BY <1>1, <1>2 DEF PushedNothing, Cleaned
  <2> HIDE DEF draft, r
  <2> QED BY <2>1, <1>2, <1>4, ReconciledCleans
<1>6. \A s \in Sink : draft.legacy[s] # "present"
  <2> SUFFICES ASSUME NEW s \in Sink, draft.legacy[s] = "present" PROVE FALSE
    OBVIOUS
  <2>1. u = leader /\ s \in Of("write", scope[u])
    BY <1>1, <1>2 DEF PushedNothing, Cleaned
  <2>2. r.legacy[s] = "gone"
    BY <2>1, <1>2, MetadataCleans
  <2> HIDE DEF draft, r
  <2> QED BY <2>2, <1>2, <1>4, ReconciledCleans
<1>7. NextIs(u, 6) /\ Does(u, 6, draft)
  BY DEF RuleRelationEvent
<1> HIDE DEF draft
<1> QED BY <1>1, <1>3, <1>5, <1>6, <1>7, DoesKeeps

-----------------------------------------------------------------------------
(* The end of a hook, its failure, and what happens around it *)

(* What ends well has nothing of the libraries left. *)
LEMMA EndsClean ==
  ASSUME HiddenInv, NEW u \in Unit, HookEnds(u) PROVE HiddenInv'
<1> DEFINE d == hook[u].draft
<1>1. hook[u] # Idle /\ IsHook(hook[u]) /\ Cleaned(u, hook[u], scope[u]) /\ hook[u].todo = {}
  BY DEF HookEnds, Free, HiddenInv, HookInv
<1>2. \A s \in Sink : d.rules[s] # "library" /\ d.legacy[s] # "present"
  BY <1>1 DEF Cleaned, Cleans
<1>3. /\ rules' = [s \in Sink |-> IF d.rules[s] = Kept THEN rules[s] ELSE d.rules[s]]
      /\ legacy' = {s \in Sink : d.legacy[s] = "present" \/ (d.legacy[s] = Kept /\ s \in legacy)}
      /\ hook' = [hook EXCEPT ![u] = Idle] /\ leader' = leader /\ scope' = scope
  BY DEF HookEnds, world, due
<1>4. d.rules \in [Sink -> RuleMark]
  BY <1>1 DEF IsHook, IsDraft
<1>5. LibraryRulesHidden' /\ legacy' \subseteq Sink
  BY <1>2, <1>3 DEF HiddenInv, LibraryRulesHidden
<1>6. rules' \in [Sink -> {Bottom, "library", "charm"}]
  BY <1>3, <1>4 DEF HiddenInv, HookInv, RuleMark
<1>7. ASSUME NEW v \in Unit, hook'[v] # Idle
      PROVE  IsHook(hook'[v]) /\ StagesLeft(hook'[v], scope'[v]) /\ Cleaned(v, hook[v], scope[v])'
  <2>1. v # u /\ hook'[v] = hook[v]
    BY <1>3, <1>7 DEF HiddenInv, HookInv
  <2>2. IsHook(hook[v]) /\ StagesLeft(hook[v], scope[v]) /\ Cleaned(v, hook[v], scope[v])
    BY <1>7, <2>1 DEF HiddenInv, HookInv
  <2> QED BY <1>3, <2>1, <2>2 DEF Cleaned
<1> QED BY <1>3, <1>5, <1>6, <1>7 DEF HiddenInv, HookInv

(* A hook that fails, or whose unit lost leadership, has an empty draft. *)
LEMMA AbandonClean ==
  ASSUME HookInv, NEW u \in Unit, hook[u] # Idle, Abandon(u)
  PROVE  /\ IsHook(hook'[u]) /\ StagesLeft(hook'[u], scope[u])
         /\ \A s \in Sink : hook'[u].draft.rules[s] = Kept /\ hook'[u].draft.legacy[s] = Kept
         /\ \A v \in Unit \ {u} : hook'[v] = hook[v]
         /\ DOMAIN hook' = Unit
<1>1. IsHook(hook[u]) /\ StagesLeft(hook[u], scope[u])
  BY DEF HookInv
<1>2. hook' = [hook EXCEPT ![u] = [@ EXCEPT !.todo = {}, !.draft = NoDraft(u), !.failed = TRUE]]
  BY DEF Abandon, Free
<1>3. hook'[u] = [hook[u] EXCEPT !.todo = {}, !.draft = NoDraft(u), !.failed = TRUE]
  BY <1>2 DEF HookInv
<1>4. /\ hook'[u].kind = hook[u].kind /\ hook'[u].sink = hook[u].sink
      /\ hook'[u].todo = {} /\ hook'[u].draft = NoDraft(u) /\ hook'[u].failed = TRUE
      /\ DOMAIN hook'[u] = DOMAIN hook[u]
  BY <1>1, <1>3 DEF IsHook
<1>5. IsDraft(NoDraft(u))
  BY DEF IsDraft, NoDraft, Fields, RuleMark, LegacyMark
<1>6. IsHook(hook'[u]) /\ StagesLeft(hook'[u], scope[u])
  BY <1>1, <1>4, <1>5 DEF IsHook, StagesLeft
<1>7. \A s \in Sink : hook'[u].draft.rules[s] = Kept /\ hook'[u].draft.legacy[s] = Kept
  BY <1>4 DEF NoDraft
<1> QED BY <1>2, <1>6, <1>7 DEF HookInv

LEMMA FailureKeeps ==
  ASSUME HookInv, NEW u \in Unit, HookFails(u) PROVE HookInv'
<1>1. hook[u] # Idle /\ Abandon(u)
  BY DEF HookFails, Free
<1>2. leader' = leader /\ scope' = scope /\ rules' = rules
  BY DEF HookFails, world, due, bags
<1>3. ASSUME NEW v \in Unit, hook'[v] # Idle
      PROVE  IsHook(hook'[v]) /\ StagesLeft(hook'[v], scope'[v]) /\ Cleaned(v, hook[v], scope[v])'
  <2>1. CASE v = u
    BY <2>1, <1>1, <1>2, AbandonClean DEF Cleaned, Kept
  <2>2. CASE v # u
    <3>1. hook'[v] = hook[v]
      BY <2>2, <1>1, AbandonClean
    <3>2. IsHook(hook[v]) /\ StagesLeft(hook[v], scope[v]) /\ Cleaned(v, hook[v], scope[v])
      BY <1>3, <3>1 DEF HookInv
    <3> QED BY <1>2, <3>1, <3>2 DEF Cleaned
  <2> QED BY <2>1, <2>2
<1> QED BY <1>1, <1>2, <1>3, AbandonClean DEF HookInv

(* An election: only the old leader's draft can have held anything. *)
LEMMA ElectionKeeps ==
  ASSUME HookInv, NEW u \in Unit, LeaderElected(u) PROVE HookInv'
<1>1. u # leader /\ leader' = u /\ scope' = scope /\ rules' = rules /\ Abandon(leader)
        /\ leader \in Unit
  BY DEF LeaderElected, bags, HookInv
<1>2. ASSUME NEW v \in Unit, v # leader PROVE hook'[v] = hook[v]
  <2>1. CASE hook[leader] = Idle
    BY <2>1, <1>1 DEF Abandon, Free
  <2>2. CASE hook[leader] # Idle
    BY <2>2, <1>1, <1>2, AbandonClean
  <2> QED BY <2>1, <2>2
<1>3. DOMAIN hook' = Unit
  BY <1>1, AbandonClean DEF Abandon, Free, HookInv
<1>4. ASSUME NEW v \in Unit, hook'[v] # Idle
      PROVE  IsHook(hook'[v]) /\ StagesLeft(hook'[v], scope'[v]) /\ Cleaned(v, hook[v], scope[v])'
  <2>1. CASE v # leader
    <3>1. IsHook(hook[v]) /\ StagesLeft(hook[v], scope[v]) /\ Cleaned(v, hook[v], scope[v])
      BY <2>1, <1>2, <1>4 DEF HookInv
    <3>2. \A s \in Sink : hook[v].draft.rules[s] # "library" /\ hook[v].draft.legacy[s] # "present"
      BY <2>1, <3>1 DEF Cleaned
    <3> QED BY <1>1, <1>2, <2>1, <3>1, <3>2 DEF Cleaned
  <2>2. CASE v = leader
    <3>1. hook[v] # Idle
      BY <2>2, <1>1, <1>4 DEF Abandon, Free
    <3> QED BY <3>1, <2>2, <1>1, AbandonClean DEF Cleaned, Kept
  <2> QED BY <2>1, <2>2
<1> QED BY <1>1, <1>3, <1>4 DEF HookInv

(* Every hook Juju begins. *)
LEMMA BeginsKeep ==
  ASSUME HookInv, NEW u \in Unit, HookBegins(u) PROVE HookInv'
<1>1. scope \in [Unit -> SUBSET Sink] /\ scope[u] \subseteq Sink
  BY DEF HookInv
<1>2. ASSUME NEW kind, NEW s, BeginIn(u, kind, s), kind # Bottom, kind # "joined",
             scope' = scope, leader' = leader, rules' = rules
      PROVE  HookInv'
  <2>1. scope' = [scope EXCEPT ![u] = scope[u]]
    BY <1>1, <1>2
  <2> QED BY <1>1, <1>2, <2>1, BeginKeeps DEF BeginIn
<1>3. ASSUME NEW m \in Remote, RelationJoined(u, m) PROVE HookInv'
  <2>1. /\ Begin(u, "joined", SinkOf[m], view[u] \cup {m}, scope[u]) /\ SinkOf[m] \in scope[u]
        /\ scope' = [scope EXCEPT ![u] = scope[u]] /\ leader' = leader /\ rules' = rules
    BY <1>1, <1>3 DEF RelationJoined, world, bags
  <2> QED BY <2>1, <1>1, BeginKeeps DEF Bottom
<1>4. ASSUME NEW m \in Remote, RelationDeparted(u, m) PROVE HookInv'
  <2>1. /\ Begin(u, "departed", SinkOf[m], view[u] \ {m}, scope[u])
        /\ scope' = [scope EXCEPT ![u] = scope[u]] /\ leader' = leader /\ rules' = rules
    BY <1>1, <1>4 DEF RelationDeparted, world, bags
  <2> QED BY <2>1, <1>1, BeginKeeps DEF Bottom
<1>5. ASSUME NEW s \in Sink, RelationChanged(u, s) PROVE HookInv'
  BY <1>2, <1>5 DEF RelationChanged, world, bags, Bottom
<1>6. ASSUME NEW s \in Sink, RelationBroken(u, s) PROVE HookInv'
  <2>1. /\ Begin(u, "broken", s, view[u], scope[u] \ {s})
        /\ scope' = [scope EXCEPT ![u] = scope[u] \ {s}] /\ leader' = leader /\ rules' = rules
    BY <1>1, <1>6 DEF RelationBroken, world, bags
  <2> QED BY <2>1, <1>1, BeginKeeps DEF Bottom
<1>7. ASSUME NEW kind \in Queueable, QueuedHook(u, kind) PROVE HookInv'
  BY <1>2, <1>7 DEF QueuedHook, Queueable, world, bags, Bottom
<1>8. ASSUME UpdateStatus(u) PROVE HookInv'
  BY <1>2, <1>8 DEF UpdateStatus, world, due, bags, Bottom
<1> QED BY <1>3, <1>4, <1>5, <1>6, <1>7, <1>8 DEF HookBegins

LEMMA RetryKeeps ==
  ASSUME HookInv, NEW u \in Unit, Retry(u) PROVE HookInv'
<1>1. hook[u] # Idle /\ IsHook(hook[u]) /\ StagesLeft(hook[u], scope[u])
  BY DEF Retry, Free, HookInv
<1>2. /\ Begin(u, hook[u].kind, hook[u].sink, view[u], scope[u])
      /\ scope' = [scope EXCEPT ![u] = scope[u]] /\ leader' = leader /\ rules' = rules
      /\ scope[u] \subseteq Sink
  BY DEF Retry, BeginIn, world, due, bags, HookInv
<1> QED BY <1>1, <1>2, BeginKeeps DEF IsHook, StagesLeft

(* The handlers of a hook, one by one. *)
LEMMA HandlersKeep ==
  ASSUME HookInv, NEW u \in Unit,
         \/ DeferredStart(u)
         \/ PushLokiRules(u) \/ LokiEndpointChanged(u) \/ MetricsRelationChanged(u)
         \/ PushWriteRules(u) \/ OwnHandler(u) \/ RuleRelationEvent(u)
  PROVE  HookInv'
<1>1. CASE LokiEndpointChanged(u)
  BY <1>1, QuietKeeps, HandlersPushNothing DEF LokiEndpointChanged
<1>2. CASE MetricsRelationChanged(u)
  BY <1>2, QuietKeeps, HandlersPushNothing DEF MetricsRelationChanged
<1>3. CASE DeferredStart(u)
  <2> DEFINE d == [hook[u].draft EXCEPT !.deferred = FALSE]
  <2>1. PICK up : Does(u, 0, OnStart(u, d, up))
    BY <1>3 DEF DeferredStart
  <2>2. PushedNothing(hook[u].draft, d)
    BY OthersPushNothing
  <2> HIDE DEF d
  <2>3. PushedNothing(hook[u].draft, OnStart(u, d, up))
    BY <2>2, HandlersPushNothing, Transitive
  <2> QED BY <1>3, <2>1, <2>3, QuietKeeps DEF DeferredStart
<1> QED BY <1>1, <1>2, <1>3, PushLokiKeeps, PushWriteKeeps, OwnKeeps, RuleEventKeeps

(* Around the hooks only an election concerns them. *)
LEMMA EnvironmentKeeps ==
  ASSUME HookInv, Environment PROVE HookInv'
<1>1. ASSUME UNCHANGED <<leader, scope, hook, rules>> PROVE HookInv'
  BY <1>1 DEF HookInv, Cleaned
<1>2. ASSUME NEW m \in Remote, RemoteArrives(m) \/ RemoteLeaves(m) \/ RemotePublishes(m)
      PROVE  HookInv'
  BY <1>1, <1>2 DEF RemoteArrives, RemoteLeaves, RemotePublishes, due, bags
<1>3. ASSUME NEW s \in Sink, CloudChanges(s) \/ RemoveRelation(s) PROVE HookInv'
  BY <1>1, <1>3 DEF CloudChanges, RemoveRelation, due, bags
<1>4. CASE AskChanges \/ RequirerChanges \/ Upgrade \/ \E u \in Unit : Reboot(u)
  BY <1>1, <1>4 DEF AskChanges, RequirerChanges, Upgrade, Reboot, world, bags
<1> QED BY <1>2, <1>3, <1>4, ElectionKeeps DEF Environment

(* A step other than the end of a hook leaves the databags alone, but for  *)
(* those of the syslog receiver.                                           *)
LEMMA BagsStay ==
  ASSUME Next, \A u \in Unit : ~HookEnds(u)
  PROVE  rules' = rules /\ legacy' = legacy
<1>1. ASSUME NEW u \in Unit, HookBegins(u) PROVE rules' = rules /\ legacy' = legacy
  BY <1>1 DEF HookBegins, RelationJoined, RelationDeparted, RelationChanged, RelationBroken,
              QueuedHook, UpdateStatus, bags
<1>2. ASSUME NEW u \in Unit, HookStep(u) PROVE rules' = rules /\ legacy' = legacy
  BY <1>2 DEF HookStep, DeferredStart, PushLokiRules, LokiEndpointChanged, MetricsRelationChanged,
              PushWriteRules, OwnHandler, RuleRelationEvent, Does, bags
<1>3. ASSUME NEW u \in Unit, HookFails(u) \/ Retry(u) PROVE rules' = rules /\ legacy' = legacy
  BY <1>3 DEF HookFails, Retry, bags
<1>4. CASE Environment
  BY <1>4 DEF Environment, RemoteArrives, RemoteLeaves, RemotePublishes, CloudChanges,
              RemoveRelation, AskChanges, RequirerChanges, Upgrade, Reboot, LeaderElected,
              due, bags
<1> QED BY <1>1, <1>2, <1>3, <1>4 DEF Next

LEMMA HiddenInit == Init => HiddenInv
<1> SUFFICES ASSUME Init PROVE HiddenInv
  OBVIOUS
<1>1. \A u \in Unit : hook[u] = Idle
  BY DEF Init
<1>2. HookInv
  BY <1>1 DEF Init, HookInv
<1> QED BY <1>2 DEF Init, HiddenInv, LibraryRulesHidden, Bottom

LEMMA HiddenNext == HiddenInv /\ [Next]_vars => HiddenInv'
<1> SUFFICES ASSUME HiddenInv, [Next]_vars PROVE HiddenInv'
  OBVIOUS
<1>1. CASE \E u \in Unit : HookEnds(u)
  BY <1>1, EndsClean
<1>2. CASE Next /\ \A u \in Unit : ~HookEnds(u)
  <2>1. HookInv
    BY DEF HiddenInv
  <2>2. HookInv'
    BY <1>2, <2>1, BeginsKeep, HandlersKeep, FailureKeeps, RetryKeeps, EnvironmentKeeps
       DEF Next, HookStep
  <2> QED BY <1>2, <2>2, BagsStay DEF HiddenInv, LibraryRulesHidden
<1>3. CASE UNCHANGED vars
  BY <1>3 DEF HiddenInv, LibraryRulesHidden, HookInv, Cleaned, vars, world, due, bags
<1> QED BY <1>1, <1>2, <1>3

(* Whatever hooks, elections, failures and removals come in whatever order, *)
(* no receiver is ever shown the empty rule set or the tenant metadata of  *)
(* the vendored libraries (charm.py, _on_rule_relation_event after         *)
(* loki_push_api and prometheus_remote_write).                             *)
THEOREM LibraryRulesHiddenAlways == Spec => []LibraryRulesHidden
<1>1. Init => HiddenInv
  BY HiddenInit
<1>2. HiddenInv /\ [Next]_vars => HiddenInv'
  BY HiddenNext
<1>3. HiddenInv => LibraryRulesHidden
  BY DEF HiddenInv
<1> QED BY <1>1, <1>2, <1>3, PTL DEF Spec
=============================================================================
