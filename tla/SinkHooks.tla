------------------------------ MODULE SinkHooks ------------------------------
(***************************************************************************)
(* The relations that say where telemetry goes -- send-loki-logs,          *)
(* send-remote-write, grafana-cloud-config -- and the syslog-receiver      *)
(* relation, over the units of the application.                            *)
(*                                                                         *)
(* One Juju hook is several handlers: those of the vendored libraries      *)
(* loki_push_api and prometheus_remote_write, constructed first, and those *)
(* of src/src/charm.py, constructed last, some nested in the libraries'    *)
(* own events.  Both sides write to the same databags.  The order of the   *)
(* observers is fixed, so the handlers of every hook are a subset of seven *)
(* stages, run in ascending order:                                         *)
(*                                                                         *)
(*   0  AlloyCharm._on_start, of a start event deferred before             *)
(*   1  ConsumerBase._handle_alert_rules       (loki_push_api)             *)
(*   2  AlloyCharm._on_loki_endpoint_changed   (nested in loki_push_api)   *)
(*   3  AlloyCharm._on_metrics_relation_changed  (nested in remote_write)  *)
(*   4  _push_alerts_to_relation_databag       (prometheus_remote_write)   *)
(*   5  the charm's own handler of the hook                                *)
(*   6  AlloyCharm._on_rule_relation_event                                 *)
(*                                                                         *)
(* Juju shows a hook one state of the world (`seen`) and applies what it   *)
(* wrote, databags and StoredState, when it ends well (`draft`); the       *)
(* config file is written at once.  A failed hook is run again before any  *)
(* other.                                                                  *)
(***************************************************************************)
EXTENDS Integers, Sequences, FiniteSets

CONSTANTS
  Unit,      \* units of the application
  Sink,      \* relations of the three endpoints
  KindOf,    \* their endpoint: "loki", "write" or "cloud"
  Remote,    \* units of the related applications
  SinkOf,    \* the relation of a remote unit
  Endpoint,  \* a url with its credentials
  NoUrl,     \* a remote unit that has not published its url
  CloudData, \* what grafana-cloud-config may carry: a set with at most one
             \* endpoint for Loki and one for remote write
  MaxEvents  \* how many things may happen around the hooks

Kind == {"loki", "write", "cloud"}
Verdict == {"good", "refused", "contract"}
Ask == [syslog : BOOLEAN, verdict : Verdict]

ASSUME KindAssumption == KindOf \in [Sink -> Kind]
ASSUME RemoteAssumption == SinkOf \in [Remote -> Sink]
ASSUME CloudAssumption ==
  CloudData \subseteq [loki : SUBSET Endpoint, write : SUBSET Endpoint]
ASSUME BoundAssumption == MaxEvents \in Nat
(* A databag lists finitely many urls; no relation is called "-". *)
ASSUME EndpointAssumption == IsFiniteSet(Endpoint)
ASSUME SinkAssumption == "-" \notin Sink

VARIABLES
  member,    \* remote units: "absent", "present" or "left"
  url,       \* the url in the databag of a remote unit
  cloud,     \* the databag of grafana-cloud-config
  dying,     \* relations being removed
  ask,       \* the options, and what _configure would say of them and of
             \* the payloads: "refused" (manual jobs, invalid text) or
             \* "contract" (machine-observability payload)
  requirer,  \* there is a syslog-receiver relation
  leader,
  view,      \* the remote units each unit has seen join
  scope,     \* the relations in each unit's model
  changed,   \* relations with a relation-changed hook due
  queue,     \* other hooks due
  hook,      \* the hook a unit runs, or has to run again
  config,    \* the file /etc/alloy/config.alloy
  stored,    \* StoredState.last_good_config
  drifted,   \* units whose StoredState.config_drifted is set
  deferred,  \* units with a start event deferred
  rules,     \* whose "alert_rules" are in the databag of a relation
  legacy,    \* relations whose databag holds remote-write metadata
  unitBag,   \* syslog-receiver: what a unit's databag holds, if anything
  appBag,    \* the same of the application's databag
  torn,      \* units whose file a failed hook left ahead of StoredState, and
             \* which have not written it since (history)
  stale,     \* units that gave up telling syslog-receiver of what they
             \* wrote, and have not told it since (history)
  count      \* what has happened around the hooks so far

world == <<member, url, cloud, dying, ask, requirer, leader>>
due == <<view, scope, changed, queue>>
bags == <<rules, legacy, unitBag, appBag>>
state == <<stored, drifted, deferred>>
past == <<torn, stale, count>>
vars == <<world, due, hook, config, state, bags, past>>

Absent == "absent"
Kept == "kept"
Bottom == "-"
Idle == [kind |-> Bottom]

Of(kind, sinks) == {s \in sinks : KindOf[s] = kind}

(* The orders in which a Python set of `S` may be listed. *)
Orders(S) == {q \in [1..Cardinality(S) -> S] : \A x \in S : \E i \in DOMAIN q : q[i] = x}

Listed(q) == {q[i] : i \in DOMAIN q}

(* loki_endpoints and endpoints: the urls of the units in view, each once. *)
RelationUrls(kind, members) ==
  {url[m] : m \in {x \in members : KindOf[SinkOf[x]] = kind}} \ {NoUrl}

(* GrafanaCloudConfigRequirer: no relation, no data. *)
CloudSignals(sinks) ==
  IF Of("cloud", sinks) = {} THEN [loki |-> {}, write |-> {}] ELSE cloud

(* _grafana_cloud_loki_endpoints, _grafana_cloud_metrics_endpoints. *)
CloudUrls(kind, sinks) ==
  IF kind = "loki" THEN CloudSignals(sinks).loki ELSE CloudSignals(sinks).write

Endpoints(kind, members, sinks) ==
  RelationUrls(kind, members) \cup CloudUrls(kind, sinks)

(* Mutant of Lists: what Grafana Cloud and a relation share is listed twice. *)
ListsRepeated(kind, members, sinks) ==
  UNION {{p \o q : p \in Orders(RelationUrls(kind, members))} :
           q \in Orders(CloudUrls(kind, sinks))}

(* _loki_endpoint_urls, _remote_write_endpoint_urls: the relations' urls in *)
(* the order of a set, then Grafana Cloud's, without repetition.            *)
Lists(kind, members, sinks) ==
  UNION {{p \o q : p \in Orders(RelationUrls(kind, members))} :
           q \in Orders(CloudUrls(kind, sinks) \ RelationUrls(kind, members))}

(* What a hook sees; set order is fixed for the life of its process. *)
Readings(members, sinks) ==
  [loki : Lists("loki", members, sinks), write : Lists("write", members, sinks),
   ask : {ask}, requirer : {requirer}]

(* The text _render_config_text renders. *)
Text(seen) == [loki |-> seen.loki, write |-> seen.write, syslog |-> seen.ask.syslog]

(* _syslog_receiver_relation_payload *)
Payload(u, enabled, path) ==
  [ready |-> enabled /\ path, address |-> IF enabled THEN u ELSE Bottom]
SyslogPayload(u, seen) == Payload(u, seen.ask.syslog, seen.loki # <<>>)

NoDraft(u) ==
  [rules |-> [s \in Sink |-> Kept], legacy |-> [s \in Sink |-> Kept],
   unit |-> FALSE, app |-> FALSE, text |-> stored[u], drift |-> u \in drifted,
   deferred |-> u \in deferred, stale |-> FALSE]

(* The application has been deployed with a requirer of its syslog         *)
(* receiver, nothing else related yet, and its hooks have run.  Someone    *)
(* may have edited the leader's file, and put it back after update-status  *)
(* saw that.                                                               *)
Init ==
  /\ member = [m \in Remote |-> Absent]
  /\ url = [m \in Remote |-> NoUrl]
  /\ cloud = [loki |-> {}, write |-> {}]
  /\ dying = {}
  /\ \E on \in BOOLEAN : ask = [syslog |-> on, verdict |-> "good"]
  /\ requirer = TRUE
  /\ leader \in Unit
  /\ view = [u \in Unit |-> {}]
  /\ scope = [u \in Unit |-> Sink]
  /\ changed = [u \in Unit |-> {}]
  /\ queue = [u \in Unit |-> {}]
  /\ hook = [u \in Unit |-> Idle]
  /\ config = [u \in Unit |-> [loki |-> <<>>, write |-> <<>>, syslog |-> ask.syslog]]
  /\ stored = config /\ drifted \in {{}, {leader}} /\ deferred = {}
  /\ rules = [s \in Sink |-> Bottom]
  /\ legacy = {}
  /\ unitBag = [u \in Unit |-> {Payload(u, ask.syslog, FALSE)}]
  /\ appBag = unitBag[leader]
  /\ torn = {} /\ stale = {} /\ count = 0

Counted == count < MaxEvents /\ count' = count + 1
Happens == Counted /\ UNCHANGED <<torn, stale>>

-----------------------------------------------------------------------------
(* What a hook does to its draft *)

(* _handle_alert_rules, _push_alerts_to_relation_databag: with              *)
(* forward_alert_rules=False the libraries still write, an empty rule set.  *)
Pushed(u, d, sinks) ==
  IF u # leader THEN d
  ELSE [d EXCEPT !.rules = [s \in Sink |-> IF s \in sinks THEN "library" ELSE @[s]]]

WithMetadata(u, d, sinks) ==
  IF u # leader THEN d
  ELSE [d EXCEPT !.legacy = [s \in Sink |-> IF s \in sinks THEN "present" ELSE @[s]]]

(* _refresh_remote_write_relation_metadata *)
MetadataRemoved(u, d) ==
  IF u # leader THEN d
  ELSE [d EXCEPT !.legacy =
          [s \in Sink |-> IF s \in Of("write", scope[u]) THEN "gone" ELSE @[s]]]

(* _reconcile_rule_groups, as far as the databags of the sinks go. *)
Reconciled(u, d) ==
  IF u # leader THEN d
  ELSE [d EXCEPT !.rules =
          [s \in Sink |-> IF s \in Of("loki", scope[u]) \cup Of("write", scope[u])
                          THEN "charm" ELSE @[s]]]

(* _refresh_syslog_receiver_relations *)
SyslogRefreshed(u, d) ==
  IF ~hook[u].seen.requirer THEN d
  ELSE [d EXCEPT !.unit = TRUE, !.app = @ \/ u = leader]

(* _configure.  Invalid options return None, a payload that breaks the     *)
(* contract a status; otherwise a text that is not the stored one, or any  *)
(* while drift is noted, is written.  A reload or restart that fails after *)
(* that returns None too.                                                  *)
Refused(u) == hook[u].seen.ask.verdict = "refused"
Accepted(u) == hook[u].seen.ask.verdict = "good"
Writes(u) ==
  Accepted(u) /\ (Text(hook[u].seen) # hook[u].draft.text \/ hook[u].draft.drift)

Configured(u, d) ==
  IF Writes(u) THEN [d EXCEPT !.text = Text(hook[u].seen), !.drift = FALSE] ELSE d

WriteConfig(u) ==
  IF Writes(u)
  THEN config' = [config EXCEPT ![u] = Text(hook[u].seen)] /\ torn' = torn \ {u}
  ELSE UNCHANGED <<config, torn>>

(* A handler that refreshes the syslog relation returned before it did. *)
Untold(d) == [d EXCEPT !.stale = TRUE]

(* What the charm's own handlers do; `up` says whether the service runs,   *)
(* starts, or took what was written, as each asks.  Every handler that     *)
(* configures goes on only when _configure returned a status.              *)
OnObservabilityChanged(u, d, up) ==
  IF Refused(u) THEN d
  ELSE IF up THEN SyslogRefreshed(u, MetadataRemoved(u, Configured(u, d)))
  ELSE Untold(Configured(u, d))
OnConfigChanged(u, d, up) == Reconciled(u, OnObservabilityChanged(u, d, up))
(* Mutant of OnLokiChanged: the syslog relation is not told. *)
OnLokiChangedQuietly(u, d, up) == IF Refused(u) THEN d ELSE Configured(u, d)

OnLokiChanged(u, d, up) ==
  IF Refused(u) THEN d
  ELSE IF up THEN SyslogRefreshed(u, Configured(u, d)) ELSE Untold(Configured(u, d))
OnMetricsChanged(u, d, up) ==
  IF Refused(u) THEN d
  ELSE IF up THEN MetadataRemoved(u, Configured(u, d)) ELSE Configured(u, d)
(* A start that fails is deferred to the next hook; the rules are          *)
(* reconciled either way.                                                  *)
OnStart(u, d, up) ==
  Reconciled(u, IF up THEN SyslogRefreshed(u, MetadataRemoved(u, d))
                ELSE [d EXCEPT !.deferred = TRUE])
(* Mutant of OnUpdateStatus: it reconciles the rules only. *)
OnUpdateStatusForRules(u, d, up) == Reconciled(u, d)

(* _reconcile_config_drift_status, of a running service. *)
DriftNoted(u, d) == [d EXCEPT !.drift = config[u] # d.text]
OnUpdateStatus(u, d, up) ==
  Reconciled(u, SyslogRefreshed(u, IF up THEN DriftNoted(u, d) ELSE d))
(* Mutants of OnRuleEvent: the metadata stay; a refusal stops it. *)
OnRuleEventForRules(u, d) == Reconciled(u, d)
OnRuleEventUnlessRefused(u, d) ==
  IF Refused(u) THEN d ELSE Reconciled(u, MetadataRemoved(u, d))

OnRuleEvent(u, d) == Reconciled(u, MetadataRemoved(u, d))

-----------------------------------------------------------------------------
(* The hooks *)

(* The handlers observing a hook; `s` is the relation of a relation hook,   *)
(* Bottom otherwise.                                                        *)
Observed(sink, name) == sink # Bottom /\ KindOf[sink] = name
LibraryLifecycle == {"config-changed", "upgrade-charm"}

StagesOf(kind, s) ==
  {n \in 1..6 :
     \/ n = 1 /\ (kind \in LibraryLifecycle \/ (kind = "joined" /\ Observed(s, "loki")))
     \/ n = 2 /\ (kind \in LibraryLifecycle
                   \/ (kind \in {"joined", "changed", "departed"} /\ Observed(s, "loki")))
     \/ n = 3 /\ kind \in {"joined", "changed", "departed", "broken"} /\ Observed(s, "write")
     \/ n = 4 /\ (kind \in {"upgrade-charm", "leader-elected"}
                   \/ (kind = "joined" /\ Observed(s, "write")))
     \/ n = 5 /\ (kind \in {"config-changed", "upgrade-charm", "start", "update-status",
                            "syslog", "principal"}
                   \/ (kind \in {"joined", "changed", "broken"} /\ Observed(s, "cloud")))
     \/ n = 6 /\ (kind \in {"upgrade-charm", "leader-elected", "principal"}
                   \/ (kind \in {"joined", "changed", "broken"}
                        /\ (Observed(s, "loki") \/ Observed(s, "write"))))}

(* Deferred events are emitted again before the hook's own. *)
Stages(u, kind, s) ==
  StagesOf(kind, s) \cup (IF u \in deferred THEN {0} ELSE {})

(* A hook begins, over the remote units and relations it can see. *)
Begin(u, kind, s, members, sinks) ==
  \E seen \in Readings(members, sinks) :
    hook' = [hook EXCEPT ![u] =
               [kind |-> kind, sink |-> s, todo |-> Stages(u, kind, s),
                seen |-> seen, draft |-> NoDraft(u), failed |-> FALSE]]

BeginIn(u, kind, s) == Begin(u, kind, s, view[u], scope[u])

Free(u) == hook[u] = Idle

RelationJoined(u, m) ==
  /\ Free(u) /\ member[m] = "present" /\ m \notin view[u]
  /\ SinkOf[m] \in scope[u]
  /\ view' = [view EXCEPT ![u] = @ \cup {m}]
  /\ changed' = [changed EXCEPT ![u] = @ \cup {SinkOf[m]}]
  /\ Begin(u, "joined", SinkOf[m], view[u] \cup {m}, scope[u])
  /\ UNCHANGED <<world, scope, queue, config, state, bags, past>>

RelationChanged(u, s) ==
  /\ Free(u) /\ s \in changed[u]
  /\ changed' = [changed EXCEPT ![u] = @ \ {s}]
  /\ BeginIn(u, "changed", s)
  /\ UNCHANGED <<world, view, scope, queue, config, state, bags, past>>

(* Mutant of RelationDeparted: the hook still counts the unit that left. *)
RelationDepartedStillListed(u, m) ==
  /\ Free(u) /\ member[m] = "left" /\ m \in view[u]
  /\ view' = [view EXCEPT ![u] = @ \ {m}]
  /\ BeginIn(u, "departed", SinkOf[m])
  /\ UNCHANGED <<world, scope, changed, queue, config, state, bags, past>>

RelationDeparted(u, m) ==
  /\ Free(u) /\ member[m] = "left" /\ m \in view[u]
  /\ view' = [view EXCEPT ![u] = @ \ {m}]
  /\ Begin(u, "departed", SinkOf[m], view[u] \ {m}, scope[u])
  /\ UNCHANGED <<world, scope, changed, queue, config, state, bags, past>>

RelationBroken(u, s) ==
  /\ Free(u) /\ s \in dying \cap scope[u]
  /\ \A m \in view[u] : SinkOf[m] # s
  /\ scope' = [scope EXCEPT ![u] = @ \ {s}]
  /\ changed' = [changed EXCEPT ![u] = @ \ {s}]
  /\ Begin(u, "broken", s, view[u], scope[u] \ {s})
  /\ UNCHANGED <<world, view, queue, config, state, bags, past>>

(* config-changed, upgrade-charm, leader-elected, a hook of a principal's  *)
(* relation, relation-created or -broken of syslog-receiver.               *)
QueuedHook(u, kind) ==
  /\ Free(u) /\ kind \in queue[u]
  /\ queue' = [queue EXCEPT ![u] = @ \ {kind}]
  /\ BeginIn(u, kind, Bottom)
  /\ UNCHANGED <<world, view, scope, changed, config, state, bags, past>>

NothingDue(u) ==
  /\ Free(u) /\ queue[u] = {} /\ changed[u] = {}
  /\ dying \cap scope[u] = {}
  /\ view[u] = {m \in Remote : member[m] = "present" /\ SinkOf[m] \in scope[u]}

(* Juju runs update-status when nothing else is due. *)
UpdateStatus(u) ==
  /\ NothingDue(u)
  /\ BeginIn(u, "update-status", Bottom)
  /\ UNCHANGED <<world, due, config, state, bags, past>>

(* The next handler of u's hook is n. *)
NextIs(u, n) ==
  /\ ~Free(u) /\ ~hook[u].failed
  /\ n \in hook[u].todo /\ \A k \in hook[u].todo : n <= k

Does(u, n, draft) ==
  /\ hook' = [hook EXCEPT ![u].todo = @ \ {n}, ![u].draft = draft]
  /\ UNCHANGED <<world, due, state, bags, stale>>

(* A systemctl call of the handler fails, or finds the service down. *)
Service(up) == IF up THEN UNCHANGED count ELSE Counted

DeferredStart(u) ==
  /\ NextIs(u, 0)
  /\ \E up \in BOOLEAN :
       /\ Does(u, 0, OnStart(u, [hook[u].draft EXCEPT !.deferred = FALSE], up))
       /\ Service(up)
  /\ UNCHANGED <<config, torn>>

(* The relations a library's handler writes to: the one that was joined,  *)
(* or all.                                                                *)
Targets(u, kind) ==
  IF hook[u].kind = "joined" THEN {hook[u].sink} ELSE Of(kind, scope[u])

PushLokiRules(u) ==
  /\ NextIs(u, 1)
  /\ Does(u, 1, Pushed(u, hook[u].draft, Targets(u, "loki")))
  /\ UNCHANGED <<config, torn, count>>

(* Only what was written is reloaded. *)
Reloads(u) == IF Writes(u) THEN BOOLEAN ELSE {TRUE}

LokiEndpointChanged(u) ==
  /\ NextIs(u, 2)
  /\ \E up \in Reloads(u) : Does(u, 2, OnLokiChanged(u, hook[u].draft, up)) /\ Service(up)
  /\ WriteConfig(u)

MetricsRelationChanged(u) ==
  /\ NextIs(u, 3)
  /\ \E up \in Reloads(u) : Does(u, 3, OnMetricsChanged(u, hook[u].draft, up)) /\ Service(up)
  /\ WriteConfig(u)

PushWriteRules(u) ==
  /\ NextIs(u, 4)
  /\ LET sinks == Targets(u, "write")
     IN  Does(u, 4, WithMetadata(u, Pushed(u, hook[u].draft, sinks), sinks))
  /\ UNCHANGED <<config, torn, count>>

OwnDraft(u, d, up) ==
  LET kind == hook[u].kind
  IN  CASE kind = "config-changed" -> OnConfigChanged(u, d, up)
        [] kind = "upgrade-charm" -> MetadataRemoved(u, d)
        [] kind = "start" -> OnStart(u, d, up)
        [] kind = "update-status" -> OnUpdateStatus(u, d, up)
        [] kind = "syslog" -> SyslogRefreshed(u, d)
        [] OTHER -> OnObservabilityChanged(u, d, up)

(* upgrade-charm and the syslog relation's hooks ask nothing of the        *)
(* service.                                                                *)
OwnHandler(u) ==
  /\ NextIs(u, 5)
  /\ IF hook[u].kind \in {"upgrade-charm", "start", "update-status", "syslog"}
     THEN UNCHANGED <<config, torn>> ELSE WriteConfig(u)
  /\ \E up \in (IF hook[u].kind \in {"upgrade-charm", "syslog"} THEN {TRUE}
                 ELSE IF hook[u].kind \in {"start", "update-status"} THEN BOOLEAN
                 ELSE Reloads(u)) :
       Does(u, 5, OwnDraft(u, hook[u].draft, up)) /\ Service(up)

RuleRelationEvent(u) ==
  /\ NextIs(u, 6)
  /\ Does(u, 6, OnRuleEvent(u, hook[u].draft))
  /\ UNCHANGED <<config, torn, count>>

(* The hook ends well: Juju applies its writes to the relations that are  *)
(* still there. *)
HookEnds(u) ==
  LET d == hook[u].draft
      payload == SyslogPayload(u, hook[u].seen)
  IN  /\ ~Free(u) /\ ~hook[u].failed /\ hook[u].todo = {}
      /\ rules' = [s \in Sink |-> IF d.rules[s] = Kept THEN rules[s] ELSE d.rules[s]]
      /\ legacy' = {s \in Sink : d.legacy[s] = "present" \/ (d.legacy[s] = Kept /\ s \in legacy)}
      /\ unitBag' = IF requirer /\ d.unit THEN [unitBag EXCEPT ![u] = {payload}] ELSE unitBag
      /\ appBag' = IF requirer /\ d.app THEN {payload} ELSE appBag
      /\ stored' = [stored EXCEPT ![u] = d.text]
      /\ drifted' = IF d.drift THEN drifted \cup {u} ELSE drifted \ {u}
      /\ deferred' = IF d.deferred THEN deferred \cup {u} ELSE deferred \ {u}
      /\ stale' = IF d.unit THEN stale \ {u}
                  ELSE IF d.stale THEN stale \cup {u} ELSE stale
      /\ hook' = [hook EXCEPT ![u] = Idle]
      /\ UNCHANGED <<world, due, config, torn, count>>

(* A handler raises, or the agent stops: the draft is lost. *)
Abandon(u) ==
  IF Free(u) THEN UNCHANGED <<hook, torn>>
  ELSE /\ hook' = [hook EXCEPT ![u] = [@ EXCEPT !.todo = {}, !.draft = NoDraft(u),
                                                !.failed = TRUE]]
       /\ torn' = IF config[u] = stored[u] THEN torn ELSE torn \cup {u}

HookFails(u) ==
  /\ ~Free(u) /\ ~hook[u].failed
  /\ Abandon(u)
  /\ Counted
  /\ UNCHANGED <<world, due, config, state, bags, stale>>

Retry(u) ==
  /\ ~Free(u) /\ hook[u].failed
  /\ BeginIn(u, hook[u].kind, hook[u].sink)
  /\ UNCHANGED <<world, due, config, state, bags, past>>

-----------------------------------------------------------------------------
(* What happens around them *)

(* A remote unit enters the relation; its own hooks may have published its *)
(* url before. *)
RemoteArrives(m) ==
  /\ member[m] = Absent /\ SinkOf[m] \notin dying
  /\ member' = [member EXCEPT ![m] = "present"]
  /\ \E e \in Endpoint \cup {NoUrl} : url' = [url EXCEPT ![m] = e]
  /\ Happens
  /\ UNCHANGED <<cloud, dying, ask, requirer, leader, due, hook, config, state, bags>>

RemoteLeaves(m) ==
  /\ member[m] = "present"
  /\ member' = [member EXCEPT ![m] = "left"]
  /\ Happens
  /\ UNCHANGED <<url, cloud, dying, ask, requirer, leader, due, hook, config, state, bags>>

(* Units that have seen s's members are told of the new databag. *)
Notify(s, units) ==
  changed' = [u \in Unit |-> IF u \in units THEN changed[u] \cup {s} ELSE changed[u]]

(* update_endpoint of the Loki or remote-write provider. *)
RemotePublishes(m) ==
  /\ member[m] = "present"
  /\ \E e \in Endpoint \ {url[m]} : url' = [url EXCEPT ![m] = e]
  /\ Notify(SinkOf[m], {u \in Unit : m \in view[u]})
  /\ Happens
  /\ UNCHANGED <<member, cloud, dying, ask, requirer, leader, view, scope, queue,
                 hook, config, state, bags>>

CloudChanges(s) ==
  /\ KindOf[s] = "cloud" /\ s \notin dying
  /\ \E data \in CloudData \ {cloud} : cloud' = data
  /\ Notify(s, {u \in Unit : s \in scope[u]})
  /\ Happens
  /\ UNCHANGED <<member, url, dying, ask, requirer, leader, view, scope, queue,
                 hook, config, state, bags>>

RemoveRelation(s) ==
  /\ s \notin dying /\ dying' = dying \cup {s}
  /\ member' = [m \in Remote |-> IF SinkOf[m] = s THEN "left" ELSE member[m]]
  /\ Happens
  /\ UNCHANGED <<url, cloud, ask, requirer, leader, due, hook, config, state, bags>>

Enqueue(kinds) == queue' = [u \in Unit |-> queue[u] \cup kinds]

(* An option is set, or a principal's payload starts or stops to break the *)
(* contract. *)
AskChanges ==
  /\ \E new \in Ask \ {ask} :
       /\ new.syslog = ask.syslog \/ new.verdict = ask.verdict
       /\ ask' = new
       /\ Enqueue(IF new.syslog # ask.syslog \/ "refused" \in {new.verdict, ask.verdict}
                  THEN {"config-changed"} ELSE {"principal"})
  /\ Happens
  /\ UNCHANGED <<member, url, cloud, dying, requirer, leader, view, scope, changed,
                 hook, config, state, bags>>

(* A syslog-receiver relation is made, or goes with its databags. *)
RequirerChanges ==
  /\ requirer' = ~requirer
  /\ Enqueue({"syslog"})
  /\ unitBag' = [u \in Unit |-> {}] /\ appBag' = {}
  /\ Happens
  /\ UNCHANGED <<member, url, cloud, dying, ask, leader, view, scope, changed,
                 hook, config, state, rules, legacy>>

(* Juju runs config-changed after upgrade-charm. *)
Upgrade ==
  /\ Enqueue({"upgrade-charm", "config-changed"})
  /\ Happens
  /\ UNCHANGED <<world, view, scope, changed, hook, config, state, bags>>

(* The machine of u restarts. *)
Reboot(u) ==
  /\ queue' = [queue EXCEPT ![u] = @ \cup {"start"}]
  /\ Happens
  /\ UNCHANGED <<world, view, scope, changed, hook, config, state, bags>>

(* Juju refuses the writes of a unit that is no longer the leader: its     *)
(* hook fails.                                                             *)
LeaderElected(u) ==
  /\ u # leader /\ leader' = u
  /\ queue' = [queue EXCEPT ![u] = @ \cup {"leader-elected"}]
  /\ Abandon(leader)
  /\ Counted
  /\ UNCHANGED <<member, url, cloud, dying, ask, requirer, view, scope, changed,
                 config, state, bags, stale>>

Environment ==
  \/ \E m \in Remote : RemoteArrives(m) \/ RemoteLeaves(m) \/ RemotePublishes(m)
  \/ \E s \in Sink : CloudChanges(s) \/ RemoveRelation(s)
  \/ AskChanges \/ RequirerChanges \/ Upgrade
  \/ \E u \in Unit : LeaderElected(u) \/ Reboot(u)

Queueable == {"config-changed", "upgrade-charm", "leader-elected", "principal",
              "start", "syslog"}

HookBegins(u) ==
  \/ \E m \in Remote : RelationJoined(u, m) \/ RelationDeparted(u, m)
  \/ \E s \in Sink : RelationChanged(u, s) \/ RelationBroken(u, s)
  \/ \E kind \in Queueable : QueuedHook(u, kind)
  \/ UpdateStatus(u)

HookStep(u) ==
  \/ DeferredStart(u) \/ PushLokiRules(u) \/ LokiEndpointChanged(u)
  \/ MetricsRelationChanged(u) \/ PushWriteRules(u)
  \/ OwnHandler(u) \/ RuleRelationEvent(u)
  \/ HookEnds(u)

Next ==
  \/ \E u \in Unit : HookBegins(u) \/ HookStep(u) \/ HookFails(u) \/ Retry(u)
  \/ Environment

Spec == Init /\ [][Next]_vars
-----------------------------------------------------------------------------
(* Properties *)

(* The type invariant. *)
TypeOK ==
  /\ member \in [Remote -> {Absent, "present", "left"}]
  /\ url \in [Remote -> Endpoint \cup {NoUrl}]
  /\ cloud \in [loki : SUBSET Endpoint, write : SUBSET Endpoint]
  /\ dying \subseteq Sink /\ ask \in Ask /\ requirer \in BOOLEAN /\ leader \in Unit
  /\ view \in [Unit -> SUBSET Remote]
  /\ scope \in [Unit -> SUBSET Sink] /\ changed \in [Unit -> SUBSET Sink]
  /\ queue \in [Unit -> SUBSET Queueable]
  /\ \A u \in Unit : \A q \in {config[u], stored[u]} :
       /\ Listed(q.loki) \cup Listed(q.write) \subseteq Endpoint /\ q.syslog \in BOOLEAN
       /\ Cardinality(Listed(q.loki)) = Len(q.loki)
       /\ Cardinality(Listed(q.write)) = Len(q.write)
  /\ rules \in [Sink -> {Bottom, "library", "charm"}] /\ legacy \subseteq Sink
  /\ \A bag \in {appBag} \cup {unitBag[u] : u \in Unit} : Cardinality(bag) <= 1
  /\ drifted \subseteq Unit /\ deferred \subseteq Unit
  /\ torn \subseteq Unit /\ stale \subseteq Unit /\ count \in Nat

(* No receiver is ever shown what the libraries push, an empty rule set    *)
(* and tenant metadata: whatever the hook, it ends with the charm's own    *)
(* rules or not at all.  (README: "Tenant-aware relation metadata is not   *)
(* required or published".)                                                *)
LibraryRulesHidden == \A s \in Sink : rules[s] # "library" /\ s \notin legacy

(* The unit has run every hook due to it. *)
Settled(u) == NothingDue(u)

(* When all hooks have run and nothing is refused, what the unit has       *)
(* stored serves exactly the endpoints its relations offer, each once,     *)
(* whatever order urls, departures, refusals and failures came in; and so  *)
(* does its config file, unless a hook failed after it wrote the file and  *)
(* no hook has written since.                                              *)
EndpointsCurrent ==
  \A u \in Unit : Settled(u) /\ ask.verdict = "good" =>
    /\ Listed(stored[u].loki) = Endpoints("loki", view[u], scope[u])
    /\ Listed(stored[u].write) = Endpoints("write", view[u], scope[u])
    /\ u \notin torn => config[u] = stored[u]

(* The unit's config file has syslog listeners and a way to Loki. *)
Listens(u) == config[u].syslog /\ config[u].loki # <<>>

(* When all hooks have run and nothing is refused, a unit is announced as  *)
(* ready exactly if its config file has listeners and a way to Loki:       *)
(* unless a hook failed after it wrote the file, or what it wrote could    *)
(* not be reloaded and its handler returned before it announced it.        *)
ReadyMeansListening ==
  \A u \in Unit : Settled(u) /\ ask.verdict = "good" /\ u \notin torn \cup stale =>
    \A payload \in unitBag[u] : payload.ready = Listens(u)

(* When the leader has run its hooks, every relation with members it has   *)
(* seen carries the charm's rules: those joined before, during and after   *)
(* an election, and those whose first hook failed.                         *)
RulesReachReceivers ==
  Settled(leader) =>
    \A m \in view[leader] : KindOf[SinkOf[m]] # "cloud" => rules[SinkOf[m]] = "charm"

(* An update-status that leaves nothing due leaves the unit's databag      *)
(* saying what the config file does, and on the leader the application's   *)
(* databag too, with this leader's address: an announcement that a failed  *)
(* reload left stale is mended here, whatever was refused or deferred      *)
(* before.                                                                 *)
StatusTellsTruth ==
  [][\A u \in Unit :
       hook[u].kind = "update-status" /\ NothingDue(u)' /\ requirer
         /\ ask.verdict = "good" /\ u \notin torn =>
         LET truth == Payload(u, config[u].syslog, config[u].loki # <<>>)
         IN  unitBag'[u] = {truth} /\ (u = leader => appBag' = {truth})]_vars

(* "Short-circuit if config and /etc/default/alloy args are unchanged"     *)
(* (charm.py, _configure): a hook that finds the endpoints and options its *)
(* config was rendered from does not write and reload it again, no hook    *)
(* having failed in between.                                               *)
Meaning(text) == <<Listed(text.loki), Listed(text.write), text.syslog>>

RewritesOnlyChanges ==
  [][\A u \in Unit \ torn :
       config'[u] # config[u] => Meaning(config'[u]) # Meaning(config[u])]_vars
=============================================================================
