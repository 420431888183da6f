---------------------------- MODULE ScrapeTargets ----------------------------
(***************************************************************************)
(* The metrics-endpoint relations: from what provider applications publish *)
(* with MetricsEndpointProvider.set_scrape_job_spec to the scrape jobs in  *)
(* the config of one unit of the charm, by way of                          *)
(* MetricsEndpointConsumer.jobs and _translated_metrics_scrape_jobs.       *)
(*                                                                         *)
(* A provider's leader publishes the jobs, each unit its own address, and  *)
(* perhaps a job name to use for it; an application may have several       *)
(* relations to the charm.  The charm renders its jobs anew in every       *)
(* relation-changed and relation-departed hook and whenever remote write   *)
(* comes or goes, from what it sees then, and writes them if they are not  *)
(* what StoredState says it wrote last.                                    *)
(***************************************************************************)
EXTENDS Integers, Sequences, FiniteSets

CONSTANTS
  App,         \* provider applications
  Rel,         \* metrics-endpoint relations: their ids
  AppOf,       \* the application a relation leads to
  Remote,      \* (relation, provider unit) pairs
  RelOf,       \* their relation
  NumOf,       \* the number of the unit
  Address,     \* what a unit may publish as its address
  Static,      \* job lists the provider of a relation may be constructed with
  Lookaside,   \* what its lookaside_jobs_callable may add
  Override,    \* texts a unit may publish as metrics_job_name
  NoAddress, NoName, NoUnit,
  MaxEvents    \* how many things may happen around the hooks

IsList(s) == s \in Seq({s[i] : i \in DOMAIN s})

(* A scrape job as a provider writes it: the parts of its name, the kinds of *)
(* its targets ("*:port" or a host), and all else.                          *)
Spec4 == {"plain", "other", "unsupported", "refused"}
IsJob(job) == /\ DOMAIN job = {"name", "targets", "spec"} /\ IsList(job.name)
              /\ job.targets \subseteq {"wild", "fixed"} /\ job.spec \in Spec4

UnitName(m) == <<AppOf[RelOf[m]], NumOf[m]>>

ASSUME RelationAssumption ==
  Rel \subseteq Nat /\ IsFiniteSet(Rel) /\ AppOf \in [Rel -> App]
ASSUME UnitAssumption == RelOf \in [Remote -> Rel] /\ DOMAIN NumOf = Remote
ASSUME JobAssumption ==
  /\ DOMAIN Static = Rel
  /\ \A list \in Lookaside \cup UNION {Static[r] : r \in Rel} :
       IsList(list) /\ \A i \in DOMAIN list : IsJob(list[i])
ASSUME NoneAssumption ==
  /\ NoAddress \notin Address /\ NoName \notin Override
  /\ \A m \in Remote : UnitName(m) # NoUnit
ASSUME BoundAssumption == MaxEvents \in Nat

VARIABLES
  member,    \* "absent", "present" or "left"
  address,   \* prometheus_scrape_unit_address in a unit's databag
  override,  \* metrics_job_name in a unit's databag
  offer,     \* scrape_jobs in the provider application's databag of a relation
  write,     \* there is a remote-write endpoint
  leader,    \* this unit leads the charm's application
  view,      \* the units it has seen join
  changed,   \* relations with relation-changed due
  due,       \* another hook that configures is due
  again,     \* the last hook failed and has to be run again
  file,      \* its config, as a text
  stored,    \* StoredState.last_good_config
  drifted,   \* StoredState.config_drifted
  torn,      \* a hook failed after it wrote, and none has written since (history)
  told,      \* relations whose databag "event" says scrape_job_errors
  offended,  \* relations that have ever offered a job to be refused (history)
  count

provider == <<member, address, override, offer, offended>>
config == <<file, stored, drifted, torn>>
own == <<view, changed, due, again, config, told>>
vars == <<provider, write, leader, own, count>>
-----------------------------------------------------------------------------
(* What the charm reads, over the units it has in view *)

DefaultJob == [name |-> <<>>, targets |-> {"wild"}, spec |-> "plain"]

(* sanitize_scrape_config: a job without static_configs gets those of       *)
(* DEFAULT_JOB.                                                            *)
Sanitized(job) ==
  IF job.targets = {} THEN [name |-> job.name, targets |-> {"wild"}, spec |-> job.spec]
  ELSE job

(* Mutant of RelationHosts: every unit in view is a host. *)
RelationHostsAll(r, v) == {m \in v : RelOf[m] = r}

(* _relation_hosts: the units that have published an address. *)
RelationHosts(r, v) == {m \in v : RelOf[m] = r /\ address[m] # NoAddress}

(* The base of a generated name: topology prefix, job name, unit number. *)
Generated(r, job, suffix) ==
  [base |-> <<AppOf[r]>> \o job.name \o suffix, hashes |-> <<>>]

WildJob(r, job, m) ==
  [name |-> Generated(r, job, <<NumOf[m]>>), app |-> AppOf[r], unit |-> UnitName(m),
   address |-> address[m], spec |-> job.spec]

FixedJob(r, job) ==
  [name |-> Generated(r, job, <<>>), app |-> AppOf[r], unit |-> NoUnit,
   address |-> "host", spec |-> job.spec]

(* _static_scrape_config, expand_wildcard_targets_into_individual_jobs: the *)
(* occurrences of jobs, marked with where each comes from.                 *)
StaticScrapeConfig(r, v) ==
  IF \A m \in v : RelOf[m] # r THEN {}
  ELSE LET job(i) == Sanitized(offer[r][i])
       IN  {<<<<i, m>>, WildJob(r, job(i), m)>> :
              i \in {k \in DOMAIN offer[r] : "wild" \in job(k).targets},
              m \in RelationHosts(r, v)}
           \cup {<<<<i, NoUnit>>, FixedJob(r, job(i))>> :
                   i \in {k \in DOMAIN offer[r] : "fixed" \in job(k).targets}}

(* Mutant of DedupeJobNames: equal jobs go, names stay. *)
DedupeJobNamesEqual(occurrences) == {o[2] : o \in occurrences}

(* What tells jobs of one name apart, and so the hashes of them. *)
Hash(job) == <<job.app, job.unit, job.address, job.spec>>

Renamed(job) ==
  [name |-> [base |-> job.name.base, hashes |-> Append(job.name.hashes, Hash(job))],
   app |-> job.app, unit |-> job.unit, address |-> job.address, spec |-> job.spec]

(* _dedupe_job_names: jobs that share a name get a hash of themselves       *)
(* appended to it, then equal jobs go.                                     *)
DedupeJobNames(occurrences) ==
  {IF \E other \in occurrences \ {o} : other[2].name = o[2].name
   THEN Renamed(o[2]) ELSE o[2] : o \in occurrences}

StaticScrapeJobs(r, v) == DedupeJobNames(StaticScrapeConfig(r, v))

(* Mutant of Refuses: one relation's refused jobs are everyone's. *)
RefusesAny(r, v) ==
  \E x \in Rel : \E job \in StaticScrapeJobs(x, v) : job.spec = "refused"

(* validate_scrape_jobs: cos-tool refuses a relation's jobs together. *)
Refuses(r, v) == \E job \in StaticScrapeJobs(r, v) : job.spec = "refused"

(* Mutant of Jobs: all relations are validated together. *)
JobsValidatedTogether(v) ==
  IF \E r \in Rel : Refuses(r, v) THEN {}
  ELSE DedupeJobNames(UNION {{<<r, job>> : job \in StaticScrapeJobs(r, v)} : r \in Rel})

(* MetricsEndpointConsumer.jobs *)
Jobs(v) ==
  DedupeJobNames(UNION {{<<r, job>> : job \in StaticScrapeJobs(r, v)} :
                          r \in {x \in Rel : ~Refuses(x, v)}})

(* _metrics_job_name_overrides: the last relation with one for the unit. *)
Overriding(unit, v) == {m \in v : UnitName(m) = unit /\ override[m] # NoName}

(* _metrics_job_name *)
ShownName(job, v) ==
  IF Overriding(job.unit, v) = {} THEN job.name
  ELSE LET last == CHOOSE m \in Overriding(job.unit, v) :
                     \A x \in Overriding(job.unit, v) : RelOf[x] <= RelOf[m]
       IN  [base |-> <<override[last]>>, hashes |-> <<>>]

(* No field of the job or of its static_configs is one the charm does not  *)
(* know.                                                                   *)
Supported(job) == job.spec # "unsupported"

(* _translated_metrics_scrape_jobs *)
Translated(v) == {<<ShownName(job, v), job>> : job \in {j \in Jobs(v) : Supported(j)}}

(* _active_metrics_scrape_jobs *)
ActiveJobs(v) == IF write THEN Translated(v) ELSE {}

(* _render_config_text, as far as remote write and scraping go.            *)
Text(v) == [write |-> write, jobs |-> ActiveJobs(v)]

(* The jobs in the config: the name shown and the job. *)
rendered == file.jobs
-----------------------------------------------------------------------------
(* The charm's hooks *)

(* _scrape_jobs extends the provider's own list in place, so the second    *)
(* relation of an endpoint gets the lookaside jobs twice, unless the list  *)
(* was empty.                                                              *)
ScrapeJobs(static, lookaside, second) ==
  LET jobs == static \o (IF second /\ static # <<>> THEN lookaside \o lookaside ELSE lookaside)
  IN  IF jobs = <<>> THEN <<DefaultJob>> ELSE jobs

Offends(jobs) == \E i \in DOMAIN jobs : jobs[i].spec = "refused"

(* The charm has just been related to remote write and to providers that   *)
(* were there before, with the jobs they were constructed with.            *)
Init ==
  /\ member \in [Remote -> {"absent", "present"}]
  /\ \E a \in Address :
       address = [m \in Remote |-> IF member[m] = "present" THEN a ELSE NoAddress]
  /\ override = [m \in Remote |-> NoName]
  /\ offer \in [Rel -> UNION {{ScrapeJobs(static, <<>>, FALSE) : static \in Static[r]} : r \in Rel}]
  /\ \A r \in Rel : \E static \in Static[r] : offer[r] = ScrapeJobs(static, <<>>, FALSE)
  /\ write = TRUE
  /\ leader \in BOOLEAN
  /\ view = {} /\ changed = {} /\ due = TRUE /\ again = FALSE
  /\ file = [write |-> FALSE, jobs |-> {}] /\ stored = file
  /\ drifted = FALSE /\ torn = FALSE /\ told = {}
  /\ offended = {r \in Rel : Offends(offer[r])}
  /\ count = 0

Happens == count < MaxEvents /\ count' = count + 1

(* The short-circuit of _configure. *)
Unchanged(text) == text = stored /\ ~drifted

(* _configure skips, or writes the file and, as the hook ends well,         *)
(* StoredState.                                                            *)
Configured(text) ==
  IF Unchanged(text) THEN UNCHANGED config
  ELSE /\ file' = text /\ stored' = text
       /\ drifted' = FALSE /\ torn' = FALSE

(* _on_metrics_relation_changed and the other handlers that configure,     *)
(* seeing the units of `v`.  A hook that fails may have written the file;  *)
(* its StoredState and databags are lost.                                  *)
Configure(v) ==
  LET text == Text(v)
  IN  \/ /\ Configured(text)
         /\ told' = IF leader THEN told \cup {r \in Rel : Refuses(r, v)} ELSE told
         /\ again' = FALSE /\ UNCHANGED count
      \/ /\ \/ UNCHANGED <<file, torn>>
            \/ ~Unchanged(text) /\ file' = text /\ torn' = TRUE
         /\ again' = TRUE /\ UNCHANGED <<stored, drifted, told>>
         /\ Happens

(* Nothing observes relation-joined; relation-changed follows. *)
RelationJoined(m) ==
  /\ ~again /\ member[m] = "present" /\ m \notin view
  /\ view' = view \cup {m} /\ changed' = changed \cup {RelOf[m]}
  /\ UNCHANGED <<provider, write, leader, due, again, config, told, count>>

RelationChanged(r) ==
  /\ ~again /\ r \in changed
  /\ changed' = changed \ {r}
  /\ Configure(view)
  /\ UNCHANGED <<provider, write, leader, view, due>>

(* Mutant of RelationDeparted: targets_changed is not emitted. *)
RelationDepartedQuietly(m) ==
  /\ ~again /\ member[m] = "left" /\ m \in view
  /\ view' = view \ {m}
  /\ UNCHANGED <<provider, write, leader, changed, due, again, config, told, count>>

RelationDeparted(m) ==
  /\ ~again /\ member[m] = "left" /\ m \in view
  /\ view' = view \ {m}
  /\ Configure(view \ {m})
  /\ UNCHANGED <<provider, write, leader, changed, due>>

(* A remote-write endpoint came or went: SinkHooks has the handlers. *)
EndpointHook ==
  /\ ~again /\ due
  /\ due' = FALSE
  /\ Configure(view)
  /\ UNCHANGED <<provider, write, leader, view, changed>>

Retry ==
  /\ again
  /\ Configure(view)
  /\ UNCHANGED <<provider, write, leader, view, changed, due>>

(* _reconcile_config_drift_status: the file is compared with StoredState. *)
UpdateStatus ==
  /\ ~again
  /\ drifted' = (file # stored)
  /\ UNCHANGED <<provider, write, leader, view, changed, due, again, file, stored, torn,
                 told, count>>

-----------------------------------------------------------------------------
(* The providers and the world *)

Notify(rels) ==
  changed' = changed \cup {r \in rels : \E m \in view : RelOf[m] = r}

UnitArrives(m) ==
  /\ member[m] = "absent"
  /\ member' = [member EXCEPT ![m] = "present"]
  /\ Happens
  /\ UNCHANGED <<address, override, offer, offended, write, leader, own>>

UnitLeaves(m) ==
  /\ member[m] = "present"
  /\ member' = [member EXCEPT ![m] = "left"]
  /\ Happens
  /\ UNCHANGED <<address, override, offer, offended, write, leader, own>>

(* set_scrape_job_spec on another unit, which ends after _set_unit_ip. *)
SetUnitIp(m) ==
  /\ member[m] = "present"
  /\ \E a \in Address \ {address[m]} : address' = [address EXCEPT ![m] = a]
  /\ Notify({RelOf[m]})
  /\ Happens
  /\ UNCHANGED <<member, override, offer, offended, write, leader, view, due, again,
                 config, told>>

(* set_scrape_job_spec on a provider's leader, which publishes the address *)
(* of its own unit too.  The endpoint that has relation r may have another *)
(* consumer before the charm.                                              *)
SetScrapeJobSpec(r) ==
  /\ \E m \in {x \in Remote : RelOf[x] = r /\ member[x] = "present"}, a \in Address :
       address' = [address EXCEPT ![m] = a]
  /\ \E static \in Static[r], lookaside \in Lookaside, second \in BOOLEAN :
       LET jobs == ScrapeJobs(static, lookaside, second)
       IN  /\ jobs # offer[r] /\ offer' = [offer EXCEPT ![r] = jobs]
           /\ offended' = IF Offends(jobs) THEN offended \cup {r} ELSE offended
  /\ Notify({r})
  /\ Happens
  /\ UNCHANGED <<member, override, write, leader, view, due, again, config, told>>

(* A provider charm publishes a job name for one of its units. *)
SetJobName(m) ==
  /\ member[m] = "present"
  /\ \E o \in (Override \cup {NoName}) \ {override[m]} : override' = [override EXCEPT ![m] = o]
  /\ Notify({RelOf[m]})
  /\ Happens
  /\ UNCHANGED <<member, address, offer, offended, write, leader, view, due, again,
                 config, told>>

WriteChanges ==
  /\ write' = ~write /\ due' = TRUE
  /\ Happens
  /\ UNCHANGED <<provider, leader, view, changed, again, config, told>>

LeaderChanges ==
  /\ leader' = ~leader
  /\ Happens
  /\ UNCHANGED <<provider, write, own>>

Hooks ==
  \/ \E m \in Remote : RelationJoined(m) \/ RelationDeparted(m)
  \/ \E r \in Rel : RelationChanged(r)
  \/ EndpointHook \/ Retry \/ UpdateStatus

World ==
  \/ \E m \in Remote : UnitArrives(m) \/ UnitLeaves(m) \/ SetUnitIp(m) \/ SetJobName(m)
  \/ \E r \in Rel : SetScrapeJobSpec(r)
  \/ WriteChanges \/ LeaderChanges

Next == Hooks \/ World
Spec == Init /\ [][Next]_vars
-----------------------------------------------------------------------------
(* Properties *)

(* The type invariant. *)
TypeOK ==
  /\ member \in [Remote -> {"absent", "present", "left"}]
  /\ address \in [Remote -> Address \cup {NoAddress}]
  /\ override \in [Remote -> Override \cup {NoName}]
  /\ \A r \in Rel : \A i \in DOMAIN offer[r] : IsJob(offer[r][i])
  /\ {write, leader, due, again, drifted, torn} \subseteq BOOLEAN
  /\ view \subseteq Remote /\ changed \cup told \cup offended \subseteq Rel
  /\ \A text \in {file, stored} :
       /\ text.write \in BOOLEAN
       /\ \A shown \in text.jobs : shown[2].address \in Address \cup {"host"}
                                   /\ shown[2].spec \in {"plain", "other"}
  /\ count \in Nat

Settled == /\ ~again /\ ~due /\ changed = {}
           /\ view = {m \in Remote : member[m] = "present"}

(* What the relations ask for, said without names, order and repetition: a *)
(* job of theirs for each unit with an address, and for each named host.   *)
Published(r) == {Sanitized(offer[r][i]) : i \in DOMAIN offer[r]}
Present(r) == {m \in Remote : RelOf[m] = r /\ member[m] = "present"}
Reached(r, job, m) == "wild" \in job.targets /\ address[m] # NoAddress
InForce(r) ==
  Present(r) # {} /\ \A job \in Published(r) :
    job.spec = "refused" => /\ job.targets = {"wild"}
                            /\ \A m \in Present(r) : address[m] = NoAddress
Wanted(r) ==
  LET jobs == {job \in Published(r) : job.spec \in {"plain", "other"}}
  IN  (UNION {{[unit |-> UnitName(m), address |-> address[m], of |-> job.name, spec |-> job.spec] :
                job \in {j \in jobs : Reached(r, j, m)}} : m \in Present(r)})
      \cup {[unit |-> NoUnit, address |-> "host", of |-> job.name, spec |-> job.spec] :
              job \in {j \in jobs : "fixed" \in j.targets}}

(* The job name a generated name was made of. *)
OfName(job) ==
  LET base == job.name.base
  IN  SubSeq(base, 2, IF job.unit = NoUnit THEN Len(base) ELSE Len(base) - 1)

Target(app, want) == [app |-> app, unit |-> want.unit, address |-> want.address,
                      of |-> want.of, spec |-> want.spec]
TargetOf(job) == [app |-> job.app, unit |-> job.unit, address |-> job.address,
                  of |-> OfName(job), spec |-> job.spec]
Asking(target) ==
  {r \in Rel : InForce(r) /\ AppOf[r] = target.app
               /\ \E want \in Wanted(r) : Target(AppOf[r], want) = target}

(* The jobs StoredState says are scraped, and those of the file unless a    *)
(* hook failed after it wrote: its retry compares with the StoredState of  *)
(* before and may find nothing to do (ConfigRevert shows it).              *)
Trusted == {stored.jobs} \cup {jobs \in {rendered} : ~torn}

(* When all hooks have run, exactly the targets the relations ask for are  *)
(* scraped, each at most once for every relation asking: none of a unit    *)
(* that left or moved, none lost to a shared name or to another relation's *)
(* refused jobs, none doubled by what a provider repeats.                  *)
TargetsExact ==
  Settled => \A jobs \in Trusted :
    /\ {TargetOf(shown[2]) : shown \in jobs}
         = IF write THEN UNION {{Target(AppOf[r], want) : want \in Wanted(r)} :
                                  r \in {x \in Rel : InForce(x)}}
           ELSE {}
    /\ \A target \in {TargetOf(shown[2]) : shown \in jobs} :
         Cardinality({shown \in jobs : TargetOf(shown[2]) = target})
           <= Cardinality(Asking(target))

(* No two jobs of the config have one name, but by a provider's override:  *)
(* what _dedupe_job_names promises of one relation and of all of them,     *)
(* whatever was hashed before.                                             *)
NamesDistinct ==
  \A x, y \in rendered :
    x # y /\ x[1] = y[1] => x[1] # x[2].name \/ y[1] # y[2].name

(* The jobs of an application are those it would have alone: no other      *)
(* application's units, refused jobs, names or overrides change them.      *)
(* (charm-architecture.md: providers that do not publish metrics_job_name  *)
(* keep their existing generated job names.)                               *)
AppsApart ==
  Settled /\ write => \A jobs \in Trusted :
    \A a \in App : {shown \in jobs : shown[2].app = a}
                     = Translated({m \in view : AppOf[RelOf[m]] = a})

(* Only a provider that has offered jobs cos-tool refuses is ever told so. *)
OnlyOffendersTold == told \subseteq offended
=============================================================================
