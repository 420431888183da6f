# Alloy VM operator: specifications and proofs

This directory holds the TLA+ models of the `alloy-vm` charm (a Juju machine
charm that installs Grafana Alloy, renders its configuration from options and
relations, and carries alert rules from observed applications to metrics and
logs backends), the TLC configurations that check them, and the TLAPS proofs.
`PROJECT.json` maps every definition to the lines it models.

## The system

A charm is a program Juju starts once per event ("hook"), on one unit at a time
one hook after the other; different units run concurrently. A hook reads options
and relation databags, acts on the machine, and leaves behind: files and the
systemd service (changed at once), workload status (set at once), databag writes
and `StoredState` (kept only when the hook ends well). A hook that raises or is
killed is run again before any other.

| Component | State it keeps | Operations |
|---|---|---|
| Rule state and reconcile (`charm.py` 349-825, `alert_rules.py`) | per relation, in the application's databag: the last-known-good rules; in the `send-*` databags: the published groups; for one hook: `relation_state` and the validator's budget | `_reconcile_rule_groups` on every hook that matters, by the leader |
| Alloy configuration (`charm.py` 827-1076) | `StoredState` (last good config, arguments, live-debugging baseline, drift), config file, `CUSTOM_ARGS` | `_configure` from config-changed and the relation hooks; drift detection in update-status |
| Workload helpers (`alloy.py`) | the systemd service, files | install, start, restart, reload, verify, write |
| Unit status | the workload status | set by every handler |
| Sink relations (`loki_push_api`, `prometheus_remote_write`, `cloud_config_requirer`, and their handlers in `charm.py`) | the `send-*` databags, which the libraries and the charm both write | two to three handlers in each relation hook, upgrade-charm, leader-elected |
| Syslog receiver relation (`charm.py` 1136-1181) | unit and application databags | refreshed by most hooks |
| Metrics scrape relations (`prometheus_scrape`, `charm.py` 1229-1475) | the providers' databags: jobs, addresses, job names; `event` for refused jobs | `jobs()` in every hook that configures |
| Telemetry contract and translation (`machine_observability_sources.py`) | none | payload to scrape jobs and log groups |
| Manual metrics jobs (`manual_metrics_jobs.py`) | none | option to scrape jobs |
| Config builder (`config_builder.py`) | none | jobs, groups and endpoints to text |
| Outbound endpoints, Grafana Cloud connectivity | none | dedupe; HTTP probe |
| Machine-observability library | none in this charm | data classes of the payload |

Interactions: every handler that configures reads options and relations afresh,
calls `_configure`, refreshes the syslog databags and sets the status; config-,
start-, update-status-, leader- and machine-observability hooks end in the rule
reconcile, also when `_configure` raised (`finally`).

What is hard: a reconcile reads payloads and receivers while they change and
loses all its writes when it fails; leadership moves to a unit whose view of the
relations differs; several relations share ownerships, a validator budget and
size limits; a hook stops between the files and `StoredState`; live debugging,
custom arguments and retries interleave; library and charm handlers of one hook
write the same databags and depend on their order; endpoints and job names come
late, move, meet and go; statuses overwrite each other. `PROJECT.json` lists 40
such hazards at their lines; six have no property and say why.

What makes each component correct:

- rules: no ownership is published twice and the lowest claimant serves it; a
  bad artifact costs nobody else's rules nor its own last good ones; what is
  published can be rebuilt; what is good gets published and what is withdrawn
  disappears; from outside a reconcile is one step or none;
- configuration: what is asked for ends up on disk, and a service that is up runs
  what is there; the baseline of live debugging survives everything; drift and
  outages are reported, and only real ones;
- sinks: a unit has the endpoints there are, each once; every receiver has
  the charm's rules and never the libraries' empty ones;
- syslog: `ready` is announced by a unit that listens, and only by one, unless
  what it was to listen with is refused at the moment; update-status mends what
  failing reloads and elections leave behind;
- scraping: exactly the targets asked for, under distinct names; an application
  is not affected by another;
- status: a unit that lacks something does not say it is active;
- telemetry, jobs, builder: every reference resolves, labels are distinct, and
  what is asked for is delivered with its own topology.

## Modules

```
RuleState <- RuleSnapshot <- RuleReconcile <- MCRuleReconcile
          <- RulePublication      |      ^--- RuleReconcileProofs <- RulePublicationProofs
                 ^--- implemented by

AlloyConfig   <- MCAlloyConfig, AlloyConfigProofs
ConfigGraph   <- Telemetry <- MCTelemetry
      |              ^--- TelemetryProofs
      ^--- ConfigGraphProofs <---'
SinkHooks     <- MCSinkHooks, SinkHooksProofs <- SinkConvergenceProofs
ScrapeTargets <- MCScrapeTargets, ScrapeTargetsProofs
```

### RuleState, RuleSnapshot: the data of the rules

The code's nested dict (relation, identity, `{backend, ownership, groups}`) is a
set of entries `[rel, art, owner, doc]`, at most one per relation and identity
(`IsState`). `art` is the identity `artifact_type/artifact_id`, numbered in
sorting order; `owner` the model uuid and application, so that the ownership is
`(owner, art)`; `doc` the transformed groups. Sizes are operator constants
(`Weight`, `Compressed`, `CacheWeight`): the proofs hold for any of them.
`NormalizeOwnership` gives the closed form of the code's ascending loop: an entry
goes exactly when a lower relation has its ownership.

`RuleSnapshot` gives each position of a payload a verdict: a document, absent,
without identity, malformed, or refused by cos-tool. `Desired` is
`_build_relation_rule_state`, `Considered` and `Validated` the two caps of 32,
`Decodes` the byte budget that the artifacts of a payload spend in their order,
good or not, and `Withdraws` the authoritative omission, which needs every
identity to be legible.

### RuleReconcile: the hook and what happens around it

`BeginReconcile` and `RelationBroken` start the leader's hook; `AdmitCached` is
one round of `_bounded_existing_rule_state`; `ApplyRelation` one round of the
main loop (payload read now, `cos-tool` runs and the cache write that may fail,
resolve, normalise, check, adopt); `Publish` both calls of
`publish_rule_groups` and the end of the hook, when Juju applies its writes;
`PublishRaises` and `HookFails` end it with nothing applied. Between rounds
providers publish, relations go, receivers come, change encoding and go, and
leadership moves, which ends the hook (Juju refuses the writes of a former
leader). Each unit has its own view of which relations exist (`scope`).

### RulePublication: what receivers and new leaders may rely on

The abstract specification of the rule side. Its state is what others see: the
caches, the published groups and what the receivers take. `Reconcile(visited)` is
a whole hook: the caches of the visited relations change, and a selection from
them that fits the limit and names no ownership twice is served.
RuleReconcile has it as `Contract == INSTANCE RulePublication WITH ...`, mapping
caches, published groups and receivers to its own and forgetting the hook in
progress (`rec`, `work`, `store`); `PublishesAtomically` is `Contract!Spec`: every
round, failure and election maps to a stutter and only `Publish` to a `Reconcile`.

### AlloyConfig: one unit's configuration

`want` is what Juju has: the text a render would give, `custom_args`, live
debugging, the syslog flag, and what there is to scrape. `BeginConfigure` takes a
copy (`plan`), then `_configure` runs in the order of the code: `Refuse`,
`SkipUnchanged` (the short-circuit), `RejectInvalid`, or `WriteConfig`,
`WriteDefaults`, `ApplyLiveDebugging` and one of `Reload`, `Restart`,
`ApplyFails` (`CalledProcessError`, caught), `RestartRaises` (`RuntimeError`, not
caught). `stored` is the persisted `StoredState`, `mem` the running hook's;
`Ends` commits it; `RestartRaises` and `Crash` do not, and set `failed`, which
Juju retries first. A text that `alloy fmt` accepts may still be one alloy cannot
load: a reload keeps the running config, a restart leaves the service down,
with `is-active` perhaps true for a moment. `Start`, `UpdateStatus` are single
steps: nothing they read can be changed by another hook of the unit.
`UpdateStatusRaises` is the malformed payload that update-status, clearing an
error, parses without the check of `_configure`: the hook fails until the payload
is good again.
The status is a name per message; texts of messages are left out. `byHand`
remembers whether the charm or someone else wrote the file last: the code has no
such variable, properties need it.

### ConfigGraph: what the builder renders

`Rendered` is `ConfigBuilder.build`. A configuration is a set of blocks; a block
has a kind and a label (`ref`), the components it forwards to, those whose exports
it reads, the Juju topology it adds, and, for a source, the item it collects. The
text inside a block (matches, relabelling, credentials, drop and limit stages) is
left out. Labels are structured (`base`, `part`, `index`), names are members of
`Name` and `Sanitized` is the function on them; a part that is missing is `Empty`,
which no sanitized name is. `Loadable` is what Alloy asks of a file: every
reference resolves and no label is used twice. `Delivered` follows the references
from each source to an endpoint and collects the topology on the way.

### Telemetry: from options and relations to what Alloy runs

`given` is what Juju has: options, the two kinds of endpoint, the scrape jobs and
job name overrides of related units, and one payload per principal. `Configure`
gathers as `_render_config_text` does (`ManualJobs`, `TranslatedJobs`,
`MachineJobs`, `LogGroups`), renders, and has Alloy reload; Alloy keeps what it
runs when it cannot load the file. `Refuse` is a manual job or a payload that is
not valid. The scrape jobs of a payload are called after its application and, from
the second endpoint on, a number (`MachineName`, `Suffixed`), so they may meet
another job's name. The labels of journal sources are structured: that the
application `host` publishes a unit without a number, whose source would be called
like the host's own, is left out, as Juju numbers every unit. Each change of
`given` queues a hook, so several changes may meet in one. The hook is one step
here, because AlloyConfig has its steps; whether a job or a payload is valid is a
verdict, and `config-override` an opaque text.

### SinkHooks: which handlers run in a hook, and what they leave

One Juju hook is up to three handlers: those of the libraries, constructed first,
and those of the charm, some nested in the libraries' custom events. The order of
construction fixes it; `StagesOf` gives each hook its subset of six stages, one
action per stage, and `Stages` puts before them a start event that an earlier hook
deferred. A hook reads one state of the world (`seen`: endpoints in the order of
this process' sets, options, verdicts), writes databags and `StoredState` into a
`draft` that `HookEnds` applies, and the config file (`config`) at once.

`_configure` has its outcomes here too: refused options return None; a payload
that breaks the contract gives a status, and the handler goes on; an unchanged text
is skipped, unless drift is noted; what is written may fail to reload (`up`), and
then None is returned after the file and `StoredState` are new, so that the handler
skips the metadata and the syslog refresh (`Untold`). A start that fails is deferred,
an update-status compares file and `StoredState` when the service runs.

`HookFails` and an election (`Abandon`) lose the draft, not the file; the hook is
retried first. Around it remote units arrive, publish urls, leave; relations are
removed; Grafana Cloud, options and payload verdicts change; requirers of the syslog
receiver come and go; the charm is upgraded, machines reboot. Each unit has its own
view of the remote units and relations. `rules` says whose alert rules a databag
holds, `legacy` whether it has the tenant metadata of the library. Two variables are
history, for the properties only: `torn`, the units whose file a failed hook left
ahead of `StoredState`, until a hook writes it, and `stale`, those that returned
before announcing what they wrote, until they announce.

### ScrapeTargets: from providers' databags to the jobs of one unit

`SetScrapeJobSpec`, `SetUnitIp` and `SetJobName` are the providers; the hooks of
the unit render `ActiveJobs` anew, skip the text when it is the one in
`StoredState`, and otherwise write the file and, when they end well, `StoredState`
(`Configure`). A hook that fails may have written the file, which then is ahead
of `StoredState` until a hook writes again (`torn`); `UpdateStatus` notes it as
drift, and the next hook that configures rewrites it. `StaticScrapeConfig`, `DedupeJobNames` and
`Jobs` are the library's pipeline: the default job, expansion of wildcard targets
by unit, removal of repetitions and renaming within a relation and again over all,
refusal by cos-tool relation by relation; `Translated` and `ShownName` the charm's.
Names are sequences of parts, so that a job called like another one with a unit
number meets it; a hash is an injective function of what the code hashes. Lists
a provider's endpoint extends in place (`ScrapeJobs`) repeat its lookaside jobs.

## What the runs check

| Run | Question | Instance |
|---|---|---|
| RuleOwnership | the lowest claimant serves an ownership; settling it touches nobody else | 3 relations, 2 units, 2 owners, 1 artifact; 5 updates, a removal, a receiver change and an election; symmetry |
| RuleSizes | last-known-good per artifact, one document per ownership, publishable working state, durability, the contract of RulePublication, and that hooks settle | 2 relations, 2 artifacts of two sizes, malformed, refused and unidentified siblings; limits 3 (publication), 2 (cache), 3 (decoding); 3 updates, a receiver change, a fault |
| RuleProgress | good artifacts are published and withdrawn ones disappear in the end | 2 relations, 2 units, 2 updates, every failure, a removal, a leader change and a receiver change once |
| ConfigDrift | file and arguments converge and the service runs them; drift and outages are noticed and not invented | 3 texts (one refused), both blocking errors, live debugging, listeners; 2 option changes, 1 edit, 1 exit, 2 changes of Grafana Cloud; 360 thousand states |
| ConfigCrash | the baseline of live debugging sound through kills, failing hooks and retries | 6 wants over 3 texts, 2 argument values, live debugging; 3 changes, 1 kill, 1 fault, 1 exit; 400 thousand states |
| ConfigRevert | violation: reverting bad options before the retry leaves them installed | 2 wants, no crash needed |
| ConfigBaseline | violation: new custom_args lost when live debugging ends | 4 wants |
| GraphDelivery | every rendering loads unless names meet; what is asked for is delivered, with its topology | 10 option sets, 2 principals with 5 payloads, 2 scraped units with 3 offers and 3 overrides, 8 names; 4 changes |
| GraphHostLogs | violation: host journal logs asked for alone | 4 option sets, 2 changes |
| SinkHooks | endpoints current, charm's rules in every databag and never the libraries', syslog announcements say what the config does, or are mended by update-status | 2 units, a Loki, a remote-write and a Grafana Cloud relation, 2 urls, an edited file, 3 events (a failing systemctl is one); 660 thousand states |
| SinkOrder | violation: equal endpoints rendered in another order are written and reloaded | 1 unit, 1 relation with 2 remote units |
| ScrapeTargets | exactly the wanted targets, distinct names, applications apart, only offenders told | 3 relations of 2 applications, 2 addresses, names that meet, refused and unsupported jobs, an override, 2 events (a failed hook is one); 230 thousand states; symmetry |

Why the bounds are enough. Ownership relates claimants pairwise and a chain of
them (what the lowest gives up goes to the next), hence three relations; the
proofs cover any number. Isolation needs two artifacts, one good and one not,
and budgets smaller than their total. The size run needs a set that no longer
fits beside another. Events are bounded per kind so that each may happen before
and after every other at least once; the counters appear in guards of environment
actions and faults only. In AlloyConfig the longest story known (enable, change,
disable, or bad, fail, revert) takes three option changes. In Telemetry two
endpoints, one option set and one relation are four changes, so every pair of
sources meets both endpoints; the names hold one pair that differs in punctuation
only, one name of each that the builder uses itself and one that a principal's
second endpoint gets. In SinkHooks three events
are a receiver, a change of it or of the options, and a fault, a failed reload or an
election between; a file left ahead of `StoredState` and then rewritten as drift
would take four, so the run starts, among others, with a file edited and noticed,
which brings the same rewrite, and the theorems have no bound; in ScrapeTargets the relations start with any subset of their units
present and any of their lists, so two events are two changes to a
populated state.

Two runs restrict the order of steps (`Reduced`, an action constraint):

- SinkHooks: a hook sees one state of the world and keeps its writes to itself
  until it ends, so what happens meanwhile can as well happen before or after it;
  only an election and a fault come in the middle, and hooks of two units take
  turns. Two units meet only where they lead one after the other: u1 keeps up with
  the world, which moves on when u1 has nothing due, and u2 may fall behind; either
  may be the leader. The first url a remote unit has is `a` (urls are interchangeable until
  then), and a relation is removed only once it has had a member.
- ScrapeTargets: Juju runs relation-changed after relation-joined; units are seen
  in the order of their relations; the world moves on when at most one hook is
  due. What that leaves out is two changes behind two hooks that both wait, of
  which the first to run already renders the outcome of all.

### What the violations say of the code

1. *Reverting before the retry.* A hook that fails after writing config and
   arguments rolls `StoredState` back; once the operator restores the old
   options the retry sees "unchanged" and skips. The file, the arguments and
   the service stay as the failed hook left them, the status is active. The next
   update-status reports the service down or, if it is up, a *manual* change.
2. *Ending live debugging while changing `custom_args`* in one hook restores the
   old arguments over the new ones, for good.
3. *Host journal logs alone.* `loki.relabel.journal` is rendered with the log
   groups only, but the host journal sources read its rules too. With
   `journal-kernel` or `journal-match-expressions` and no `systemd-units` and no
   principal the file refers to a component it does not declare; Alloy keeps what
   it ran, and the unit is active. `alloy fmt`, which does not resolve references,
   accepts the file.
4. *Endpoint order.* Two remote-write endpoints come out of a Python set of
   strings, whose order is that of the process. The next hook may render them the
   other way round, find the text changed, and write and reload it.

Deviations without a run of their own:

- `_rule_state_is_publishable` compares with `>`, `publish_rule_groups` with
  `>=`: a payload of exactly 60 KiB fails every hook of the leader, for all
  relations. The model has the step (`PublishRaises`); no property claims that it
  does not happen.
- The budget of 32 cos-tool runs is per hook and spent in relation order, also
  on rules accepted before; README.md:53 describes a limit per relation. A lower
  relation can starve a higher one for ever; `OfferedPublished` is checked with
  a budget that suffices.
- start, and clearing drift or a connectivity error, set active over the waiting
  status of config-changed, although README.md:219-220 promises waiting.
- A failing systemctl is reported as "Invalid Alloy config. No changes applied.",
  after the changes; `TextConverged`, `ArgsConverged` and `ServiceCurrent` are checked
  where no hook fails. After a failing reload alloy stays on its old config, and the
  next hook finds nothing to do.
- After the same failure the handler does not refresh the syslog databags, so a unit
  may be announced as ready after it stopped listening, or not ready although it
  listens, until update-status, start or a handler that gets through refreshes them
  (`ReadyMeansListening` excepts exactly these units, `StatusTellsTruth` says that
  update-status is enough).
- `ready` is computed from the options and the endpoints, not from what was
  configured: README.md:511 promises it "only when syslog receivers are enabled and
  Alloy has an active `send-loki-logs` path to Loki", but with manual jobs refused or a
  payload that breaks the contract, an update-status (or, for the contract, any handler
  that configures) announces listeners the config does not have yet. The syslog
  properties therefore speak of states in which nothing is refused.
- Clearing an outage or a connectivity error, update-status parses the payloads again
  without the contract check and raises on a malformed one; Juju then runs nothing else
  on the unit.
- Names that become one label (`api-v1` and `api_v1`, a manual job `default`, two
  units that publish one `metrics_job_name`) give a file that Alloy refuses:
  `LoadsUnlessNamesMeet` lists exactly those cases (`Collides`).
- `_on_upgrade_charm` promises "without restarting or rewriting", but the Loki
  library's handler of the same hook emits `endpoint_joined`, which configures.
- A portless IPv6 target may be split at its last group, and a target with a port
  is replaced by what reverse DNS says in that hook (`_normalize_scrape_target`).

## Fairness

Safety runs use `Spec`; so does `Settles`, which says only that hooks do not
change caches and databags for ever. Liveness runs use `FairSpec`: update-status
and the hooks in Juju's queue are run (weak fairness of beginning a hook) and a
hook that runs goes on (weak fairness of its steps, `HookStep`). `RelationBroken`
has strong fairness: between two hooks of a unit the queued relation-broken is
enabled again, and Juju runs it in turn. Nothing is assumed of providers,
operators, receivers, leadership or faults; that faults end is the bound on their
counters, and the liveness properties say what happens after. Several of them
except a hook that keeps failing: Juju runs nothing else on that unit then.
SinkHooks and ScrapeTargets state no liveness: their properties speak of states in
which a unit has run all hooks due to it (`Settled`).

Deadlock checking is off where a cfg says so: with the environment's events spent
and nothing queued, standing still is what the charm does.

## What is proved

Thirty-one theorems are listed in `PROJECT.json`, in eight modules. Every
invariant and every action property that a passing run checks is stated by one of
them, and so is the refinement; liveness is not.

`RuleReconcileProofs`, for every set of relations, artifacts, owners and units,
every size function and limits that admit the empty payload: `TypeOK`,
`PublishedOwnedOnce`, `PublishedDurable`, `WorkPublishable`, `NeighboursKept`,
`LkgRetained`. The inductive invariant says more than the properties: during a
hook the cache writes held back (`store`) contain, relation by relation, what
`work` serves, entries of relations still to be visited come from the cache, and
every `published` group has an entry in the cache. `WorkPublishable` gives
`PublishedOwnedOnce` only through it, as does `store` for `PublishedDurable`.
The module first proves the facts about the operators of `RuleState` (ownership
is kept disjoint by `NormalizeOwnership`, subset, neighbours) and then one step
per action.

`RulePublicationProofs`, on top of it:

- `AtomicAlways`: RuleReconcile implements RulePublication. `VisitInv` (the hook
  serves and rewrites relations it visits only) and the invariant above make
  `Publish` a `Reconcile` of those relations; `StepImplements` shows every other
  step to stutter.
- `LowestClaimantAlways`, assuming `Unlimited` (no set of groups exceeds the
  publication limit; with limits the lowest claimant may be the one left out):
  every cached entry of a relation already visited is served by its own or a lower
  relation (`ServedFor`), unless a lower claimant gave it up in this very hook.

`AlloyConfigProofs`, for every set of texts, arguments and wants and any bound on
crashes and faults: `TypeOK`, `BaselineKept`. The
invariant adds that `mem` is as sound as `stored`, and that between
`WriteDefaults` and `ApplyLiveDebugging` the file holds the option: only
therefore does `read_custom_args` find the operator's arguments, and never
those of live debugging, when it takes the baseline after a crash.

Convergence of the same module is proved in two halves. `BeliefInv`: what is asked
for ends up in `StoredState`, through every crash, retry and failed restart
(`WantedIsBelieved`). `TextInv` and `ArgsInv`: what `StoredState` says is on disk.
The second half is false in general, as two runs show, so it has premises, one per
cause: `LosesNothing` (no hook is killed or raises after it wrote, unless over an
edit by hand; what ConfigRevert exhibits) and, for the arguments, `EndsAlone`
(live debugging does not end in the hook that sees new arguments, what
ConfigBaseline exhibits). Under them `TextConverged`, `DriftIsManual` and
`ArgsConverged` hold, so there is no third cause. `CalmConverges` derives the first
premise from constants, those ConfigDrift has: no crash, no fault, and what
`alloy fmt` accepts alloy can load (`Calm`). `ServiceCurrentUnlessHookLost` goes one
step further, from the files to what runs, and has a premise more: no reload fails
(`ReloadsSucceed`); `WritesKept` is its version of `LosesNothing`, without the edit by
hand. A second value of `custom_args` occurs only in the runs ConfigCrash and
ConfigBaseline, so that `ArgsConverged` with changing arguments rests on the
theorem.

`ConfigGraphProofs`, for every input of the builder (any number of endpoints,
jobs, groups, units, matches and names): `ReferencesResolve`, each reference of a
rendered block names a rendered block, unless host journal logs are collected
alone. Block by block: what collects logs or forwards metrics makes its endpoint
be rendered, and each group brings its stage. `Members` lists the blocks once, with
the condition under which each is rendered; all that follows reads it.

`TelemetryProofs`, for any options, endpoints, jobs, principals and matches:

- `LoadsUnlessNamesMeetAlways`, an equivalence. Labels of two blocks differ by the
  kind of component, then by base, part and number; within one kind they differ
  unless `Collides` lists the pair. Conversely each pair `Collides` lists gives two
  blocks of one label, and host journal logs alone a reference to nothing.
- `DeliversPromisedAlways`, an equality of sets. As labels are distinct, a
  reference leads to one block, so the way from each source to the endpoints can be
  read off, one lemma per kind of source, with the topology added on it; the
  invariant that a unit without pending hooks runs what `given` renders
  (`ConfigCurrent`) brings it to the state.
- `GivenTyped`, the shape of the input that both rely on.

`SinkHooksProofs`, for any number of units, relations and events:
`LibraryRulesHidden`. The databags are clean because the draft is when a hook ends;
the draft may hold a library's writes only while a handler is left (`Cleans`) that
takes them away, over at least those relations.

`SinkConvergenceProofs`: `TypeOK`, `EndpointsCurrent`, `ReadyMeansListening`,
`RulesReachReceivers`, `StatusTellsTruth`. The properties are the run's, with their
exceptions: of the file nothing is said while a failed hook has left it ahead of
`StoredState` (`torn`), of the announcement nothing while a handler has given it up
(`stale`), unless an update-status has run. A hook acts on what it read when it
began, and the world moves on, so hardly any state in the middle is in agreement
with the world. The invariants say who will mend it: a hook in the unit's queue
that configures (refreshes, reconciles), a member the unit has not yet seen come or
go, a stage the running hook still has before it and whose reading is current, or
the failed hook that is to be run again. An action that changes the world must
queue such a hook, a stage that leaves the list must have mended what it was
responsible for, and an election must leave one for the new leader; when nothing is
due, only agreement remains. The run orders steps by `Reduced`; the theorems do
not, so they also justify it for these properties.

`ScrapeTargetsProofs`, for any relations, units and jobs: `TypeOK`,
`NamesDistinct`, `OnlyOffendersTold`, `AppsApart` and `TargetsExact`. Generated
names carry no hash, those of the first round at most one, those of the second at
most two, the last of which tells the jobs apart: so a renamed job cannot meet one
that kept its name, and two jobs with one name are one job. A relation is told only
of jobs it has offered: what cos-tool refuses is traced through both rounds to an
item of the provider's list. `AppsApart` follows from what a name keeps of its
relation and unit; `TargetsExact` traces each target asked for to one job and back,
and needs `CurrentInv`: without a hook due, `StoredState` is rendered from what
providers say now, and so is the file unless a failed hook left it ahead
(`FileInv`). These theorems, too, do without the run's action constraint.

Assumptions: the named `ASSUME`s of the modules, evaluated by TLC in every run, and
`Unlimited`, `LosesNothing`, `WritesKept`, `ReloadsSucceed`, `EndsAlone`, `Calm` where
said. The `ASSUME`s are about constants: identities are numbers in a finite set,
verdicts are disjoint, limits are naturals; live debugging's arguments are not an operator's value; a
relation leads to one application, and there are finitely many relations and
endpoints; a sanitized name is never empty, a suffixed name is a name, and the key
`self` of what the charm collects itself is not that of a relation; the values that
stand for "nothing" (`NoUnit`, `NoName`, `-`) are not names of things.

## What is only checked by TLC

Liveness: `OfferedPublished`, `WithdrawnRemoved`, `Settles`, `DownReported`,
`EditDetected`, as the proof system has no fairness reasoning; and the properties
that the violating runs refute. `TextConverged`, `ArgsConverged`, `DriftIsManual` and
`ServiceCurrent` are proved under the premises named above and
`LowestClaimantServes` where limits are not met; without them they are false.

## What is not modelled

- Decoding, YAML, schema and expression rewriting of one artifact, the validation
  of a payload, of a manual job and of a scrape job: one verdict each. The byte
  format of the cache: one weight.
- The text inside the blocks of the configuration: credentials, TLS, relabelling
  and drop rules, limits; what a sanitised name looks like.
- `install`, package handling, permissions, `preserve_default_config`, the copy of
  a refused config.
- A non-atomic `open("w")` of `/etc/default/alloy`, empty `custom_args`,
  timeouts of `systemctl is-active` (an uncaught exception: `Crash`).
- The HTTP probe of Grafana Cloud (a Boolean of the environment); the order of its
  checks.
- Workload status beyond AlloyConfig's handlers: the waiting status for rules
  without a destination.
- Scrape relations: a unit without cos-tool, where nothing is validated;
  providers that publish no metadata; file-based lookups; alert rules of the scrape
  library, which this charm does not forward.
- The other sides of the libraries: providers beyond what they publish,
  LogProxyConsumer, LogForwarder and their Pebble clients, tracing and rule
  readers; the encoding and publishing side of the machine-observability library.
  Only other charms run them, and they are about half of the lines under `lib/`.
- That losing the leadership fails a hook is an assumption about Juju: it refuses
  databag writes of a unit that is not the leader.
- Build tools.

## Plan

Done: RuleState, RuleSnapshot, RuleReconcile and their proofs; AlloyConfig;
ConfigGraph and Telemetry; RulePublication and the refinement; SinkHooks, with the
syslog receiver; ScrapeTargets; and for each of them the theorems behind its
invariants. What would come next, in this order:

1. UnitStatus: AlloyConfig composed with the waiting status of the rule side and all
   handlers that set a status; the properties are those start and update-status
   break today, so they wait for a decision on what the status should be.
2. RuleBuild: group naming inside a payload; `NormalizeOwnership` as the code's loop
   against its closed form. Both are recursions over data, hence for TLC.
3. Install: `preserve_default_config` over repeated installs.
4. A contract for the sinks like RulePublication: what a receiver sees is one whole
   hook of the leader or none.
