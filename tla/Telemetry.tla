------------------------------ MODULE Telemetry ------------------------------
(***************************************************************************)
(* From options and relations to what Alloy runs: the part of src/src/     *)
(* charm.py that gathers scrape jobs, log sources and endpoints            *)
(* (_render_config_text and the methods it calls), with manual_metrics_    *)
(* jobs.py and machine_observability_sources.py, and the status that       *)
(* _configure returns.  How the config is written and applied, and how     *)
(* that fails, is module AlloyConfig; here the hook is one step.           *)
(***************************************************************************)
EXTENDS ConfigGraph, Sequences

CONSTANTS
  Suffixed,  \* a name with "_<index>" appended: of <<name, index>>
  Option,    \* what juju config may set
  JobOffer,  \* sets of scrape jobs behind metrics-endpoint
  Override,  \* what the scraped units may publish as metrics_job_name
  Payload,   \* what principals publish
  NoName,    \* no job name override; a manual job that is not well formed
  NoPayload, \* a principal that has published nothing yet
  Broken,    \* a payload that breaks the contract
  Changes    \* how many changes of options and relations there may be

Given == [options : Option, loki : BOOLEAN, remote : BOOLEAN, jobs : JobOffer,
          override : Override, payload : [Relation -> Payload]]

(* manual is the YAML list, one name per job, NoName for a job whose fields *)
(* do not validate.  A scrape job has its name made unique by the library.  *)
ASSUME OptionAssumption ==
  Option \subseteq [manual : Seq(Name \cup {NoName}), units : Nat, kernel : BOOLEAN,
                    hostMatches : Nat, syslog : BOOLEAN, override : BOOLEAN]
ASSUME JobAssumption ==
  /\ JobOffer \subseteq SUBSET [name : Name, unit : Scraped, supported : BOOLEAN]
  /\ \A offer \in JobOffer : \A j, k \in offer : j.name = k.name => j = k
  /\ Override \subseteq [Scraped -> Name \cup {NoName}]
ASSUME PayloadAssumption ==
  Payload \subseteq
    [name : Name, endpoints : Nat, units : Nat, matches : Nat, files : BOOLEAN]
      \cup {NoPayload, Broken}
ASSUME SuffixAssumption ==
  \A p \in Payload \ {NoPayload, Broken} : \A i \in 2..p.endpoints :
    <<p.name, i - 1>> \in DOMAIN Suffixed /\ Suffixed[<<p.name, i - 1>>] \in Name

VARIABLES
  given,    \* options and relations, as Juju has them
  config,   \* the config file
  running,  \* what alloy runs
  status,   \* of the unit
  pending,  \* a hook that configures is queued
  changes   \* of options and relations so far

vars == <<given, config, running, status, pending, changes>>

-----------------------------------------------------------------------------
(* Gathering *)

(* A field of the i-th job is missing, unknown or of the wrong type. *)
FieldsInvalid(raw, i) == raw[i] = NoName

(* parse_manual_metrics_jobs raises: one bad or repeated job refuses all. *)
ManualError(raw) ==
  \/ \E i \in 1..Len(raw) : FieldsInvalid(raw, i)
  \/ \E i, j \in 1..Len(raw) : i # j /\ raw[i] = raw[j]

ManualJobs(g) ==
  OnlyIf(~g.options.override,
    {[item |-> Item("manual", n, 0), name |-> n, topology |-> "self"] :
       n \in {g.options.manual[i] : i \in 1..Len(g.options.manual)}})

(* _metrics_job_name: what the unit publishes replaces the job's own name. *)
JobName(g, j) == IF g.override[j.unit] = NoName THEN j.name ELSE g.override[j.unit]

(* Jobs with fields Alloy has no counterpart for are skipped. *)
TranslatedJobs(g) ==
  {[item |-> Item("related", j.name, 0), name |-> JobName(g, j), topology |-> j.unit] :
     j \in {k \in g.jobs : k.supported}}

(* The schema of a payload, the version and topology asked of it: one verdict. *)
Validates(p) == p # Broken

(* The relations whose payload is there and valid. *)
Sources(g) == {r \in Relation : g.payload[r] # NoPayload /\ Validates(g.payload[r])}

ContractError(g) == \E r \in Relation : ~Validates(g.payload[r])

(* translate_machine_observability_payload: <application>_<unit number>, *)
(* numbered from the second endpoint on.                                 *)
MachineName(p, i) == IF i = 1 THEN p.name ELSE Suffixed[<<p.name, i - 1>>]

MachineJobs(g) ==
  UNION {{[item |-> Item("machine", r, i), name |-> MachineName(g.payload[r], i),
           topology |-> r] : i \in 1..g.payload[r].endpoints}
           : r \in Sources(g)}

(* Mutant of LogGroups: principals without systemd units have no group. *)
LogGroupsOfUnits(g) ==
  {[key |-> r, name |-> g.payload[r].name, units |-> g.payload[r].units,
    matches |-> g.payload[r].matches, files |-> g.payload[r].files] :
     r \in {q \in Sources(g) : g.payload[q].units > 0}}

LogGroups(g) ==
  LET logs(p) == p.units > 0 \/ p.matches > 0 \/ p.files
  IN  {[key |-> r, name |-> g.payload[r].name, units |-> g.payload[r].units,
        matches |-> g.payload[r].matches, files |-> g.payload[r].files] :
         r \in {q \in Sources(g) : logs(g.payload[q])}}

(* _active_metrics_scrape_jobs: none without a remote write. *)
ActiveJobs(g) ==
  OnlyIf(g.remote, TranslatedJobs(g) \cup ManualJobs(g) \cup MachineJobs(g))

BuilderInput(g) ==
  [loki |-> g.loki, remote |-> g.remote, jobs |-> ActiveJobs(g),
   units |-> g.options.units, kernel |-> g.options.kernel,
   hostMatches |-> g.options.hostMatches, syslog |-> g.options.syslog,
   groups |-> LogGroups(g)]

(* config-override replaces everything; it loads, and delivers what it likes. *)
Overriding == {Block(Ref("override", Plain(Empty)), Nothing, {}, {}, {})}

ConfigText(g) == IF g.options.override THEN Overriding ELSE Rendered(BuilderInput(g))

(* _post_config_status counts the jobs related units offer, translated or not. *)
PostConfigStatus(g) ==
  IF (g.jobs # {} \/ ManualJobs(g) # {} \/ MachineJobs(g) # {}) /\ ~g.remote
  THEN "waiting" ELSE "active"

-----------------------------------------------------------------------------
Init ==
  /\ given \in [options : Option, loki : {FALSE}, remote : {FALSE}, jobs : {{}},
                override : {[u \in Scraped |-> NoName]},
                payload : {[r \in Relation |-> NoPayload]}]
  /\ config = Overriding /\ running = Overriding
  /\ status = "installed" /\ pending = TRUE /\ changes = 0

Refused(g) ==
  \/ ~g.options.override /\ ManualError(g.options.manual)
  \/ ContractError(g)

(* A manual job or a payload that is not valid refuses the whole config. *)
Refuse ==
  /\ pending /\ Refused(given)
  /\ status' = "blocked" /\ pending' = FALSE
  /\ UNCHANGED <<given, config, running, changes>>

(* The config is written and alloy told to reload; it keeps what it runs   *)
(* when it cannot load the file, and the charm is not told.                *)
Configure ==
  /\ pending /\ ~Refused(given)
  /\ config' = ConfigText(given)
  /\ running' = IF Loadable(config') THEN config' ELSE running
  /\ status' = PostConfigStatus(given) /\ pending' = FALSE
  /\ UNCHANGED <<given, changes>>

(* Options and relations change, before or after the hook queued for the   *)
(* last change has run.                                                    *)
Becomes(g) ==
  /\ g # given /\ given' = g
  /\ changes < Changes /\ changes' = changes + 1
  /\ pending' = TRUE
  /\ UNCHANGED <<config, running, status>>

ChangeOptions == \E o \in Option : Becomes([given EXCEPT !.options = o])

EndpointsChange ==
  \/ Becomes([given EXCEPT !.loki = ~@])
  \/ Becomes([given EXCEPT !.remote = ~@])

ScrapeJobsChange ==
  \/ \E offer \in JobOffer : Becomes([given EXCEPT !.jobs = offer])
  \/ \E o \in Override : Becomes([given EXCEPT !.override = o])

PrincipalPublishes ==
  \E r \in Relation, p \in Payload : Becomes([given EXCEPT !.payload[r] = p])

Next ==
  \/ Refuse \/ Configure
  \/ ChangeOptions \/ EndpointsChange \/ ScrapeJobsChange \/ PrincipalPublishes

Spec == Init /\ [][Next]_vars

-----------------------------------------------------------------------------
(* Properties *)

Delivery(item, at, topology) == [item |-> item, at |-> at, topology |-> topology]

(* What options and relations ask for, source by source. *)
PromisedMetrics(g) ==
  {Delivery(Item("local", "self", 0), RemoteWrite, {"self"})}
  \cup {Delivery(Item("manual", g.options.manual[i], 0), RemoteWrite, {"self"}) :
          i \in 1..Len(g.options.manual)}
  \cup {Delivery(Item("related", j.name, 0), RemoteWrite, {j.unit}) :
          j \in {k \in g.jobs : k.supported}}
  \cup (UNION {{Delivery(Item("machine", r, i), RemoteWrite, {r}) :
                  i \in 1..g.payload[r].endpoints} : r \in Sources(g)})

PromisedHostLogs(g) ==
  {Delivery(Item("host", "self", i), Writer, {}) : i \in 1..HostMatches(g.options)}

PromisedOfPrincipal(g, r) ==
  {Delivery(Item("unit", r, i), Writer, {r}) : i \in 1..g.payload[r].units}
  \cup {Delivery(Item("match", r, i), Writer, {r}) : i \in 1..g.payload[r].matches}
  \cup OnlyIf(g.payload[r].files, {Delivery(Item("files", r, 0), Writer, {r})})

PromisedLogs(g) ==
  {Delivery(Item("unit", "self", i), Writer, {"self"}) : i \in 1..g.options.units}
  \cup (UNION {PromisedOfPrincipal(g, r) : r \in Sources(g)})
  \cup PromisedHostLogs(g)
  \cup OnlyIf(g.options.syslog, {Delivery(Item("syslog", "self", 0), Writer, {})})

Promised(g) ==
  OnlyIf(g.remote, PromisedMetrics(g)) \cup OnlyIf(g.loki, PromisedLogs(g))

(* Two jobs or two groups have one label, or a name the builder uses itself. *)
Collides(in) ==
  \/ in.remote /\ \E j \in in.jobs :
       \/ Sanitized[j.name] = "default"
       \/ \E k \in in.jobs \ {j} : Sanitized[j.name] = Sanitized[k.name]
  \/ \E g \in Groups(in) :
       \/ Sanitized[g.name] = "remote_syslog" /\ in.syslog /\ in.loki
       \/ \E h \in Groups(in) \ {g} : Sanitized[g.name] = Sanitized[h.name]

(* Host journal sources read the rules that are rendered with the groups. *)
HostLogsAlone(in) == HostMatches(in) > 0 /\ Groups(in) = {}

Sound(g) ==
  LET in == BuilderInput(g) IN ~Collides(in) /\ ~HostLogsAlone(in)

(* Every rendering loads -- each reference names a component that is       *)
(* rendered too, under whatever combination of options and endpoints, and  *)
(* no label is used twice -- except, exactly, when two names meet in one   *)
(* label or host journal logs are collected alone (ConfigBuilder.build).   *)
LoadsUnlessNamesMeet ==
  ~Refused(given) /\ ~given.options.override =>
    (Loadable(Rendered(BuilderInput(given))) <=> Sound(given))

(* When the hooks have run, alloy delivers exactly what is asked for: every *)
(* source of every option and relation once, to the endpoints there are,    *)
(* metrics only when there is a remote write, each with the topology of the *)
(* application it comes from and host and syslog logs with none             *)
(* (README.md:212-220 and 542-547).                                         *)
DeliversPromised ==
  ~pending /\ status # "blocked" /\ ~given.options.override /\ Sound(given) =>
    Delivered(running) = Promised(given)

(* README.md:549-560, of `juju config alloy-vm journal-kernel=true`:       *)
(* "Alloy adds _TRANSPORT=kernel to a broader host journal source",        *)
(* "these entries are forwarded to Loki".                                  *)
HostLogsDelivered ==
  ~pending /\ status = "active" /\ ~given.options.override /\ given.loki =>
    PromisedHostLogs(given) \subseteq Delivered(running)
=============================================================================
