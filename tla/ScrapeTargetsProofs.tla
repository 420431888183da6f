------------------------ MODULE ScrapeTargetsProofs ------------------------
(***************************************************************************)
(* The scrape library keeps its promise of distinct job names for any      *)
(* number of relations, units and jobs, through both rounds of             *)
(* _dedupe_job_names: the argument is that a name carries no hash but the  *)
(* one of the job it names, so that of two jobs of one name either both    *)
(* were alone with it, or they are the same job.                           *)
(*                                                                         *)
(* The config is current when no hook is due (CurrentInv).  Then, job by   *)
(* job from the provider's list to the config, its targets are exactly     *)
(* those asked for, and no name joins the units of two applications.       *)
(***************************************************************************)
EXTENDS ScrapeTargets, FiniteSetTheorems, TLAPS

IsScrape(job) ==
  job = [name |-> [base |-> job.name.base, hashes |-> job.name.hashes],
         app |-> job.app, unit |-> job.unit, address |-> job.address, spec |-> job.spec]

(* A job before, after one and after two rounds of deduplication. *)
Fresh(job) == IsScrape(job) /\ job.name.hashes = <<>>
Once(job) == IsScrape(job) /\ job.name.hashes \in {<<>>, <<Hash(job)>>}
Twice(job) == IsScrape(job) /\ (job.name.hashes # <<>> => job.name.hashes[1] = Hash(job))

(* What deduplication does to one job (_dedupe_job_names). *)
LEMMA RenamedOnce == ASSUME NEW job, Fresh(job) PROVE Once(Renamed(job))
<1>1. Append(<<>>, Hash(job)) = <<Hash(job)>>
  OBVIOUS
<1>2. Renamed(job) = [name |-> [base |-> job.name.base, hashes |-> <<Hash(job)>>],
         app |-> job.app, unit |-> job.unit, address |-> job.address, spec |-> job.spec]
  BY <1>1 DEF Fresh, IsScrape, Renamed
<1> QED
  BY <1>2 DEF Once, IsScrape, Hash

LEMMA RenamedTwice == ASSUME NEW job, Once(job) PROVE Twice(Renamed(job))
<1>1. /\ Append(<<>>, Hash(job))[1] = Hash(job)
      /\ Append(<<Hash(job)>>, Hash(job))[1] = Hash(job)
  OBVIOUS
<1>2. Renamed(job) =
        [name |-> [base |-> job.name.base, hashes |-> Append(job.name.hashes, Hash(job))],
         app |-> job.app, unit |-> job.unit, address |-> job.address, spec |-> job.spec]
  BY DEF Once, IsScrape, Renamed
<1>3. Hash(Renamed(job)) = Hash(job)
  BY <1>2 DEF Hash
<1>4. IsScrape(Renamed(job))
  <2>1. ASSUME NEW base, NEW hashes
        PROVE  IsScrape([name |-> [base |-> base, hashes |-> hashes], app |-> job.app,
                         unit |-> job.unit, address |-> job.address, spec |-> job.spec])
    BY DEF IsScrape
  <2> QED
    BY <2>1 DEF Renamed
<1>5. Renamed(job).name.hashes = Append(job.name.hashes, Hash(job))
  BY <1>2
<1> QED
  BY <1>1, <1>3, <1>4, <1>5 DEF Once, Twice

(* A relation's own jobs carry their own hash or none                      *)
(* (_static_scrape_config, expand_wildcard_targets_into_individual_jobs).  *)
LEMMA StaticOnce ==
  ASSUME NEW r, NEW v PROVE \A job \in StaticScrapeJobs(r, v) : Once(job)
<1>1. ASSUME NEW o \in StaticScrapeConfig(r, v) PROVE Fresh(o[2])
  <2>1. ASSUME NEW m, NEW job PROVE Fresh(WildJob(r, job, m)) /\ Fresh(FixedJob(r, job))
    BY DEF Fresh, IsScrape, WildJob, FixedJob, Generated
  <2> QED
    BY <1>1, <2>1 DEF StaticScrapeConfig
<1>2. ASSUME NEW o \in StaticScrapeConfig(r, v) PROVE Once(o[2]) /\ Once(Renamed(o[2]))
  BY <1>1, RenamedOnce DEF Fresh, Once
<1> QED
  BY <1>2 DEF StaticScrapeJobs, DedupeJobNames

(* What is left of a round has no name twice, when the jobs that went in   *)
(* carried their own hash or none (_dedupe_job_names).                     *)
LEMMA DedupeDistinct ==
  ASSUME NEW O, \A o \in O : Once(o[2])
  PROVE  \A j, k \in DedupeJobNames(O) : j.name = k.name => j = k
<1> SUFFICES ASSUME NEW j \in DedupeJobNames(O), NEW k \in DedupeJobNames(O), j.name = k.name
             PROVE  j = k
  OBVIOUS
<1> DEFINE shared(o) == \E other \in O \ {o} : other[2].name = o[2].name
<1>1. PICK p \in O : j = IF shared(p) THEN Renamed(p[2]) ELSE p[2]
  BY DEF DedupeJobNames
<1>2. PICK q \in O : k = IF shared(q) THEN Renamed(q[2]) ELSE q[2]
  BY DEF DedupeJobNames
<1>3. Twice(j) /\ Twice(k)
  BY <1>1, <1>2, RenamedTwice DEF Once, Twice
<1>4. CASE j.name.hashes # <<>>
  <2>1. Hash(j) = j.name.hashes[1] /\ Hash(k) = k.name.hashes[1]
    BY <1>3, <1>4 DEF Twice
  <2>2. Hash(j) = Hash(k)
    BY <2>1
  <2> QED
    BY <1>3, <2>2 DEF Twice, IsScrape, Hash
<1>5. CASE j.name.hashes = <<>>
  <2>1. ASSUME NEW o \in O PROVE Renamed(o[2]).name.hashes # <<>>
    <3>1. Once(o[2])
      OBVIOUS
    <3>2. Renamed(o[2]).name.hashes = Append(o[2].name.hashes, Hash(o[2]))
      BY <3>1 DEF Once, IsScrape, Renamed
    <3>3. /\ Append(<<>>, Hash(o[2])) # <<>>
          /\ Append(<<Hash(o[2])>>, Hash(o[2])) # <<>>
      OBVIOUS
    <3> QED
      BY <3>1, <3>2, <3>3 DEF Once
  <2>2. ~shared(p) /\ j = p[2]
    BY <1>1, <1>5, <2>1
  <2>3. ~shared(q) /\ k = q[2]
    BY <1>2, <1>5, <2>1
  <2> QED
    BY <2>2, <2>3
<1> QED
  BY <1>4, <1>5

(* MetricsEndpointConsumer.jobs: no name twice over all relations. *)
LEMMA JobsDistinct == ASSUME NEW v PROVE \A j, k \in Jobs(v) : j.name = k.name => j = k
<1> DEFINE taken == UNION {{<<r, job>> : job \in StaticScrapeJobs(r, v)} :
                             r \in {x \in Rel : ~Refuses(x, v)}}
<1>1. \A o \in taken : Once(o[2])
  BY StaticOnce
<1>2. Jobs(v) = DedupeJobNames(taken)
  BY DEF Jobs
<1> HIDE DEF taken
<1> QED
  BY <1>1, <1>2, DedupeDistinct

(* _translated_metrics_scrape_jobs keeps them apart. *)
LEMMA ActiveDistinct ==
  ASSUME NEW v
  PROVE  \A x, y \in ActiveJobs(v) :
           x # y /\ x[1] = y[1] => x[1] # x[2].name \/ y[1] # y[2].name
<1> SUFFICES ASSUME NEW x \in ActiveJobs(v), NEW y \in ActiveJobs(v),
                    x[1] = y[1], x[1] = x[2].name, y[1] = y[2].name
             PROVE  x = y
  OBVIOUS
<1>1. ASSUME NEW z \in ActiveJobs(v) PROVE z = <<z[1], z[2]>> /\ z[2] \in Jobs(v)
  <2>1. PICK job \in Jobs(v) : z = <<ShownName(job, v), job>>
    BY <1>1 DEF ActiveJobs, Translated, Supported
  <2> QED
    BY <2>1
<1>2. x[2] = y[2]
  BY <1>1, JobsDistinct
<1> QED
  BY <1>1, <1>2

(* In every reachable state: no two jobs of the config share a name unless *)
(* a provider's metrics_job_name put it there.                             *)
THEOREM NamesDistinctAlways == Spec => []NamesDistinct
<1>1. Init => NamesDistinct
  BY DEF Init, NamesDistinct, rendered
<1>2. NamesDistinct /\ [Next]_vars => NamesDistinct'
  <2> SUFFICES ASSUME NamesDistinct, [Next]_vars PROVE NamesDistinct'
    OBVIOUS
  <2>1. ASSUME NEW v, Configure(v) PROVE NamesDistinct'
    <3>1. rendered' = rendered \/ rendered' = ActiveJobs(v)
      <4>1. file' = file \/ file' = Text(v)
        BY <2>1 DEF Configure, Configured, config
      <4> QED
        BY <4>1 DEF rendered, Text
    <3> QED
      BY <3>1, ActiveDistinct DEF NamesDistinct
  <2>2. CASE file' = file
    BY <2>2 DEF NamesDistinct, rendered
  <2>3. CASE Hooks
    <3>1. ASSUME NEW m \in Remote, RelationJoined(m) PROVE NamesDistinct'
      BY <3>1, <2>2 DEF RelationJoined, config
    <3>2. ASSUME NEW m \in Remote, RelationDeparted(m) PROVE NamesDistinct'
      BY <3>2, <2>1 DEF RelationDeparted
    <3>3. ASSUME NEW r \in Rel, RelationChanged(r) PROVE NamesDistinct'
      BY <3>3, <2>1 DEF RelationChanged
    <3>4. CASE EndpointHook
      BY <3>4, <2>1 DEF EndpointHook
    <3>5. CASE Retry
      BY <3>5, <2>1 DEF Retry
    <3>6. CASE UpdateStatus
      BY <3>6, <2>2 DEF UpdateStatus
    <3> QED
      BY <2>3, <3>1, <3>2, <3>3, <3>4, <3>5, <3>6 DEF Hooks
  <2>4. CASE World
    BY <2>4, <2>2 DEF World, UnitArrives, UnitLeaves, SetUnitIp, SetJobName,
       SetScrapeJobSpec, WriteChanges, LeaderChanges, own, config
  <2>5. CASE UNCHANGED vars
    BY <2>5, <2>2 DEF vars, own, config
  <2> QED
    BY <2>3, <2>4, <2>5 DEF Next
<1> QED
  BY <1>1, <1>2, PTL DEF Spec

(* A relation's jobs are refused only for a job it offers                  *)
(* (validate_scrape_jobs).                                                 *)
LEMMA RefusedOffends ==
  ASSUME NEW r \in Rel, NEW v, Refuses(r, v) PROVE Offends(offer[r])
<1>1. PICK job \in StaticScrapeJobs(r, v) : job.spec = "refused"
  BY DEF Refuses
<1>2. PICK o \in StaticScrapeConfig(r, v) : job = Renamed(o[2]) \/ job = o[2]
  BY DEF StaticScrapeJobs, DedupeJobNames
<1>3. o[2].spec = "refused"
  BY <1>1, <1>2 DEF Renamed
<1>4. PICK i \in DOMAIN offer[r] : \/ \E m : o[2] = WildJob(r, Sanitized(offer[r][i]), m)
                                  \/ o[2] = FixedJob(r, Sanitized(offer[r][i]))
  BY <1>2 DEF StaticScrapeConfig
<1>5. Sanitized(offer[r][i]).spec = "refused"
  <2>1. ASSUME NEW j, NEW m
        PROVE  WildJob(r, j, m).spec = j.spec /\ FixedJob(r, j).spec = j.spec
    BY DEF WildJob, FixedJob
  <2> QED
    BY <1>3, <1>4, <2>1
<1>6. offer[r][i].spec = "refused"
  BY <1>5 DEF Sanitized
<1> QED
  BY <1>6 DEF Offends

(* What the history of offers has to say for OnlyOffendersTold to last. *)
Remembered ==
  /\ OnlyOffendersTold
  /\ DOMAIN offer = Rel
  /\ \A r \in Rel : Offends(offer[r]) => r \in offended

(* In every reachable state: "scrape_job_errors" stands only in the        *)
(* databags of relations that have offered jobs cos-tool refuses, however  *)
(* leaders, failed hooks and other relations' jobs interleave.             *)
THEOREM OnlyOffendersToldAlways == Spec => []OnlyOffendersTold
<1>1. Init => Remembered
  BY DEF Init, Remembered, OnlyOffendersTold
<1>2. Remembered /\ [Next]_vars => Remembered'
  <2> SUFFICES ASSUME Remembered, [Next]_vars PROVE Remembered'
    OBVIOUS
  <2>1. CASE UNCHANGED <<offer, offended, told>>
    BY <2>1 DEF Remembered, OnlyOffendersTold, Offends
  <2>2. ASSUME NEW v, Configure(v), UNCHANGED provider PROVE Remembered'
    <3>1. told' \subseteq told \cup {r \in Rel : Refuses(r, v)}
      BY <2>2 DEF Configure
    <3>2. {r \in Rel : Refuses(r, v)} \subseteq offended
      BY RefusedOffends DEF Remembered
    <3> QED
      BY <2>2, <3>1, <3>2 DEF Remembered, OnlyOffendersTold, Offends, provider
  <2>3. CASE Hooks
    BY <2>3, <2>1, <2>2 DEF Hooks, RelationJoined, RelationDeparted, RelationChanged,
       EndpointHook, Retry, UpdateStatus, provider
  <2>4. ASSUME NEW r \in Rel, SetScrapeJobSpec(r) PROVE Remembered'
    <3>1. PICK jobs : /\ offer' = [offer EXCEPT ![r] = jobs]
                      /\ offended' = IF Offends(jobs) THEN offended \cup {r} ELSE offended
      BY <2>4 DEF SetScrapeJobSpec
    <3>2. told' = told
      BY <2>4 DEF SetScrapeJobSpec
    <3>3. \A x \in Rel : offer'[x] = IF x = r THEN jobs ELSE offer[x]
      BY <3>1 DEF Remembered
    <3>4. \A x \in Rel : Offends(offer'[x]) => x \in offended'
      BY <3>1, <3>3 DEF Remembered
    <3> QED
      BY <3>1, <3>2, <3>4 DEF Remembered, OnlyOffendersTold
  <2>5. CASE World
    BY <2>5, <2>1, <2>4 DEF World, UnitArrives, UnitLeaves, SetUnitIp, SetJobName,
       WriteChanges, LeaderChanges, provider, own
  <2>6. CASE UNCHANGED vars
    BY <2>6, <2>1 DEF vars, own, provider
  <2> QED
    BY <2>3, <2>5, <2>6 DEF Next
<1> QED
  BY <1>1, <1>2, PTL DEF Spec, Remembered

-----------------------------------------------------------------------------
(* What a job and its name are made of *)

LEMMA NameParts ==
  ASSUME NEW app, NEW n, IsList(n), NEW suffix, suffix = <<>> \/ \E k : suffix = <<k>>
  PROVE  LET base == <<app>> \o n \o suffix
         IN  /\ base[1] = app /\ Len(base) \in Nat
             /\ SubSeq(base, 2, Len(base) - Len(suffix)) = n
<1> DEFINE S == {n[i] : i \in DOMAIN n} \cup {app} \cup {suffix[i] : i \in DOMAIN suffix}
           head == <<app>> \o n
           base == head \o suffix
<1>1. n \in Seq(S) /\ <<app>> \in Seq(S) /\ suffix \in Seq(S)
  <2>1. n \in Seq(S)
    BY DEF IsList
  <2>2. <<app>> \in Seq(S)
    OBVIOUS
  <2>3. suffix \in Seq(S)
    <3>1. CASE suffix = <<>>
      BY <3>1
    <3>2. CASE \E k : suffix = <<k>>
      <4>1. PICK k : suffix = <<k>>
        BY <3>2
      <4>2. k \in S
        BY <4>1
      <4> HIDE DEF S
      <4> QED BY <4>1, <4>2
    <3> QED BY <3>1, <3>2
  <2> QED BY <2>1, <2>2, <2>3
<1> HIDE DEF S
<1>2. /\ head \in Seq(S) /\ Len(head) = 1 + Len(n) /\ head[1] = app
      /\ \A i \in 1..Len(n) : head[i + 1] = n[i]
  BY <1>1
<1>3. /\ base \in Seq(S) /\ Len(base) = 1 + Len(n) + Len(suffix)
      /\ \A i \in 1..(1 + Len(n)) : base[i] = head[i]
  BY <1>1, <1>2
<1>4. Len(base) - Len(suffix) = 1 + Len(n) /\ Len(n) \in Nat
  BY <1>1, <1>3
<1>5. SubSeq(base, 2, 1 + Len(n)) = [i \in 1..Len(n) |-> base[i + 1]]
  BY <1>1, <1>3, <1>4
<1>6. [i \in 1..Len(n) |-> base[i + 1]] = n
  BY <1>1, <1>2, <1>3
<1> QED BY <1>2, <1>3, <1>4, <1>5, <1>6

(* A job whose name was made of n, by expansion or from a named host. *)
Suffix(unit) == IF unit = NoUnit THEN <<>> ELSE <<unit[2]>>
MadeOf(job, n) ==
  /\ IsScrape(job) /\ IsList(n)
  /\ job.name.base = <<job.app>> \o n \o Suffix(job.unit)
  /\ job.unit = NoUnit \/ \E k : job.unit = <<job.app, k>>

LEMMA MadeParts ==
  ASSUME NEW job, NEW n, MadeOf(job, n)
  PROVE  job.name.base[1] = job.app /\ OfName(job) = n
<1> DEFINE suffix == Suffix(job.unit)
<1>1. IsList(n) /\ job.name.base = <<job.app>> \o n \o suffix
  BY DEF MadeOf
<1>2. suffix = IF job.unit = NoUnit THEN <<>> ELSE <<job.unit[2]>>
  BY DEF Suffix
<1>3. suffix = <<>> \/ \E k : suffix = <<k>>
  BY <1>2
<1>4. Len(suffix) = IF job.unit = NoUnit THEN 0 ELSE 1
  BY <1>2
<1> HIDE DEF suffix
<1>5. /\ job.name.base[1] = job.app
      /\ SubSeq(job.name.base, 2, Len(job.name.base) - Len(suffix)) = n
  BY <1>1, <1>3, NameParts
<1>6. Len(job.name.base) \in Nat
  BY <1>1, <1>3, NameParts
<1>7. Len(job.name.base) - Len(suffix) =
        IF job.unit = NoUnit THEN Len(job.name.base) ELSE Len(job.name.base) - 1
  BY <1>4, <1>6
<1> QED BY <1>5, <1>7 DEF OfName

LEMMA ExpansionMade ==
  ASSUME NEW r, NEW job, IsList(job.name), NEW m \in Remote, RelOf[m] = r
  PROVE  MadeOf(WildJob(r, job, m), job.name)
<1> DEFINE w == WildJob(r, job, m)
<1>1. /\ w.name.base = <<AppOf[r]>> \o job.name \o <<NumOf[m]>>
      /\ w.app = AppOf[r] /\ w.unit = <<AppOf[r], NumOf[m]>> /\ IsScrape(w)
  BY DEF WildJob, Generated, UnitName, IsScrape
<1>2. w.unit # NoUnit
  BY <1>1, NoneAssumption DEF UnitName
<1>3. Suffix(w.unit) = <<NumOf[m]>>
  BY <1>1, <1>2 DEF Suffix
<1> HIDE DEF w
<1>4. MadeOf(w, job.name)
  BY <1>1, <1>2, <1>3 DEF MadeOf
<1> QED BY <1>4 DEF w

LEMMA HostMade ==
  ASSUME NEW r, NEW job, IsList(job.name) PROVE MadeOf(FixedJob(r, job), job.name)
<1> DEFINE w == FixedJob(r, job)
<1>1. /\ w.name.base = <<AppOf[r]>> \o job.name \o <<>>
      /\ w.app = AppOf[r] /\ w.unit = NoUnit /\ IsScrape(w)
  BY DEF FixedJob, Generated, IsScrape
<1>2. Suffix(w.unit) = <<>>
  BY <1>1 DEF Suffix
<1> HIDE DEF w
<1>3. MadeOf(w, job.name)
  BY <1>1, <1>2 DEF MadeOf
<1> QED BY <1>3 DEF w

(* A hash changes nothing but the name (_dedupe_job_names). *)
LEMMA RenamedMade ==
  ASSUME NEW job
  PROVE  /\ Renamed(job).name.base = job.name.base /\ Renamed(job).app = job.app
         /\ Renamed(job).unit = job.unit /\ Renamed(job).address = job.address
         /\ Renamed(job).spec = job.spec
         /\ \A n : MadeOf(job, n) => MadeOf(Renamed(job), n)
<1> DEFINE w == Renamed(job)
<1>1. /\ w.name.base = job.name.base /\ w.app = job.app /\ w.unit = job.unit
      /\ w.address = job.address /\ w.spec = job.spec
  BY DEF Renamed
<1>2. IsScrape(w)
  <2>1. ASSUME NEW base, NEW hashes
        PROVE  IsScrape([name |-> [base |-> base, hashes |-> hashes], app |-> job.app,
                         unit |-> job.unit, address |-> job.address, spec |-> job.spec])
    BY DEF IsScrape
  <2> QED BY <2>1 DEF Renamed
<1> HIDE DEF w
<1>3. \A n : MadeOf(job, n) => MadeOf(w, n)
  BY <1>1, <1>2 DEF MadeOf
<1> QED BY <1>1, <1>3 DEF w

(* What is offered is jobs, relation by relation. *)
OfferInv == DOMAIN offer = Rel /\ \A r \in Rel : \A i \in DOMAIN offer[r] : IsJob(offer[r][i])

LEMMA SanitizedJob ==
  ASSUME OfferInv, NEW r \in Rel, NEW i \in DOMAIN offer[r]
  PROVE  /\ Sanitized(offer[r][i]).targets \in (SUBSET {"wild", "fixed"}) \ {{}}
         /\ Sanitized(offer[r][i]).spec \in Spec4
         /\ IsList(Sanitized(offer[r][i]).name)
BY DEF OfferInv, IsJob, Sanitized

(* The occurrences of a relation's jobs. *)
Wild(r, i, m) ==
  LET job == Sanitized(offer[r][i])
  IN  <<<<i, m>>, WildJob(r, job, m)>>
Fixed(r, i) == <<<<i, NoUnit>>, FixedJob(r, Sanitized(offer[r][i]))>>

Occurrences(r, v) ==
  {Wild(r, i, m) : i \in {k \in DOMAIN offer[r] : "wild" \in Sanitized(offer[r][k]).targets},
                   m \in RelationHosts(r, v)}
  \cup {Fixed(r, i) : i \in {k \in DOMAIN offer[r] : "fixed" \in Sanitized(offer[r][k]).targets}}

LEMMA Occurrence ==
  ASSUME NEW r, NEW v
  PROVE  \A o : o \in StaticScrapeConfig(r, v) <=>
           \/ \E i \in DOMAIN offer[r] : \E m \in RelationHosts(r, v) :
                "wild" \in Sanitized(offer[r][i]).targets /\ o = Wild(r, i, m)
           \/ (\E m \in v : RelOf[m] = r) /\ \E i \in DOMAIN offer[r] :
                "fixed" \in Sanitized(offer[r][i]).targets /\ o = Fixed(r, i)
<1>1. CASE \A m \in v : RelOf[m] # r
  BY <1>1 DEF StaticScrapeConfig, RelationHosts
<1>2. CASE \E m \in v : RelOf[m] = r
  <2>1. StaticScrapeConfig(r, v) = Occurrences(r, v)
    BY <1>2 DEF StaticScrapeConfig, Occurrences, Wild, Fixed
  <2> QED BY <1>2, <2>1 DEF Occurrences
<1> QED BY <1>1, <1>2

LEMMA ConfigMade ==
  ASSUME OfferInv, NEW r \in Rel, NEW v \in SUBSET Remote, NEW o \in StaticScrapeConfig(r, v)
  PROVE  o[2].app = AppOf[r] /\ Fresh(o[2]) /\ \E n : MadeOf(o[2], n)
<1>1. ASSUME NEW m, NEW job
      PROVE  /\ Fresh(WildJob(r, job, m)) /\ WildJob(r, job, m).app = AppOf[r]
             /\ Fresh(FixedJob(r, job)) /\ FixedJob(r, job).app = AppOf[r]
  BY DEF Fresh, IsScrape, WildJob, FixedJob, Generated
<1>2. CASE \E i \in DOMAIN offer[r] : \E m \in RelationHosts(r, v) : o = Wild(r, i, m)
  <2>1. PICK i \in DOMAIN offer[r], m \in RelationHosts(r, v) : o = Wild(r, i, m)
    BY <1>2
  <2>2. m \in Remote /\ RelOf[m] = r /\ IsList(Sanitized(offer[r][i]).name)
    BY <2>1, SanitizedJob DEF RelationHosts
  <2>3. o[2] = WildJob(r, Sanitized(offer[r][i]), m)
    BY <2>1 DEF Wild
  <2>4. Fresh(o[2]) /\ o[2].app = AppOf[r]
    BY <1>1, <2>3
  <2> QED BY <2>2, <2>3, <2>4, ExpansionMade
<1>3. CASE \E i \in DOMAIN offer[r] : o = Fixed(r, i)
  <2>1. PICK i \in DOMAIN offer[r] : o = Fixed(r, i)
    BY <1>3
  <2>2. IsList(Sanitized(offer[r][i]).name)
    BY <2>1, SanitizedJob
  <2>3. o[2] = FixedJob(r, Sanitized(offer[r][i]))
    BY <2>1 DEF Fixed
  <2>4. Fresh(o[2]) /\ o[2].app = AppOf[r]
    BY <1>1, <2>3
  <2> QED BY <2>2, <2>3, <2>4, HostMade
<1> QED BY <1>2, <1>3, Occurrence

LEMMA StaticMade ==
  ASSUME OfferInv, NEW r \in Rel, NEW v \in SUBSET Remote, NEW job \in StaticScrapeJobs(r, v)
  PROVE  job.app = AppOf[r] /\ \E n : MadeOf(job, n)
<1>1. PICK o \in StaticScrapeConfig(r, v) : job = o[2] \/ job = Renamed(o[2])
  BY DEF StaticScrapeJobs, DedupeJobNames
<1>2. o[2].app = AppOf[r] /\ \E n : MadeOf(o[2], n)
  BY ConfigMade
<1> QED BY <1>1, <1>2, RenamedMade

(* The occurrences MetricsEndpointConsumer.jobs dedupes: the jobs of every *)
(* relation that is not refused.                                           *)
Taken(v) == UNION {{<<r, job>> : job \in StaticScrapeJobs(r, v)} : r \in {x \in Rel : ~Refuses(x, v)}}

LEMMA TakenMembers ==
  ASSUME NEW v
  PROVE  \A o : o \in Taken(v) <=>
           \E r \in Rel : ~Refuses(r, v) /\ \E job \in StaticScrapeJobs(r, v) : o = <<r, job>>
BY DEF Taken

LEMMA JobsOfTaken == ASSUME NEW v PROVE Jobs(v) = DedupeJobNames(Taken(v))
BY DEF Jobs, Taken

LEMMA JobsMade ==
  ASSUME OfferInv, NEW v \in SUBSET Remote, NEW job \in Jobs(v)
  PROVE  \E n : MadeOf(job, n)
<1>1. PICK o \in Taken(v) : job = o[2] \/ job = Renamed(o[2])
  BY JobsOfTaken DEF DedupeJobNames
<1>2. \E n : MadeOf(o[2], n)
  BY <1>1, TakenMembers, StaticMade
<1> QED BY <1>1, <1>2, RenamedMade

-----------------------------------------------------------------------------
(* What a relation's jobs depend on *)

(* What is read of a relation: the jobs its application offers, its units  *)
(* in view and their addresses.                                            *)
LEMMA SameUnits ==
  ASSUME NEW r, NEW v, NEW w, \A m : RelOf[m] = r => (m \in v <=> m \in w)
  PROVE  /\ StaticScrapeConfig(r, v) = StaticScrapeConfig(r, w)
         /\ StaticScrapeJobs(r, v) = StaticScrapeJobs(r, w)
         /\ Refuses(r, v) = Refuses(r, w)
<1>1. RelationHosts(r, v) = RelationHosts(r, w)
  BY DEF RelationHosts
<1>2. (\A m \in v : RelOf[m] # r) <=> \A m \in w : RelOf[m] # r
  OBVIOUS
<1>3. StaticScrapeConfig(r, v) = StaticScrapeConfig(r, w)
  BY <1>1, <1>2 DEF StaticScrapeConfig
<1> QED BY <1>3 DEF StaticScrapeJobs, Refuses

LEMMA NoUnits ==
  ASSUME NEW r, NEW v, \A m \in v : RelOf[m] # r
  PROVE  StaticScrapeConfig(r, v) = {} /\ StaticScrapeJobs(r, v) = {} /\ ~Refuses(r, v)
BY DEF StaticScrapeConfig, StaticScrapeJobs, DedupeJobNames, Refuses

(* Relations are finitely many, so that of any of them one came last: of   *)
(* the sets of those that came after one, take a smallest.                 *)
LEMMA LastRelation ==
  ASSUME NEW T \in SUBSET Rel, T # {} PROVE \E r \in T : \A x \in T : x <= r
<1> DEFINE After(q) == {y \in T : y > q}
           Z == {After(q) : q \in T}
<1>1. T \subseteq Nat /\ IsFiniteSet(T)
  BY RelationAssumption, FS_Subset
<1>2. Z \subseteq FiniteSubsetsOf(T) /\ Z # {}
  <2>1. \A q \in T : After(q) \in SUBSET T
    OBVIOUS
  <2> HIDE DEF After
  <2>2. \A q \in T : IsFiniteSet(After(q))
    BY <1>1, <2>1, FS_Subset
  <2> QED BY <2>1, <2>2 DEF FiniteSubsetsOf
<1>3. PICK least \in Z : \A y \in Z : <<y, least>> \notin StrictSubsetOrdering(T)
  <2> HIDE DEF Z
  <2> QED BY <1>2, FS_StrictSubsetOrderingWellFounded, WFMin
<1>4. PICK r \in T : least = After(r)
  BY <1>3
<1>5. ASSUME NEW x \in T, x > r PROVE FALSE
  <2>1. After(x) \subseteq After(r) /\ x \in After(r) /\ x \notin After(x)
    <3>1. r \in Nat /\ x \in Nat /\ \A y \in T : y \in Nat
      BY <1>1
    <3>2. \A y \in T : y > x => y > r
      BY <1>5, <3>1
    <3>3. ~(x > x)
      BY <3>1
    <3> QED BY <1>5, <3>2, <3>3
  <2>2. After(x) \in Z /\ After(x) \in SUBSET T /\ After(r) \in SUBSET T
    OBVIOUS
  <2> HIDE DEF After, Z
  <2>3. <<After(x), After(r)>> \in StrictSubsetOrdering(T)
    BY <2>1, <2>2 DEF StrictSubsetOrdering
  <2> QED BY <1>3, <1>4, <2>2, <2>3
<1> QED BY <1>1, <1>5

(* The override that counts is one of those in force.  *)
LEMMA LastOverride ==
  ASSUME NEW unit, NEW v \in SUBSET Remote, Overriding(unit, v) # {}
  PROVE  (CHOOSE m \in Overriding(unit, v) :
            \A x \in Overriding(unit, v) : RelOf[x] <= RelOf[m]) \in Overriding(unit, v)
<1> DEFINE S == Overriding(unit, v)
           T == {RelOf[m] : m \in S}
<1>1. T \subseteq Rel /\ T # {}
  BY UnitAssumption DEF Overriding
<1>2. PICK r \in T : \A x \in T : x <= r
  BY <1>1, LastRelation
<1>3. \E m \in S : \A x \in S : RelOf[x] <= RelOf[m]
  BY <1>2
<1> HIDE DEF S
<1>4. (CHOOSE m \in S : \A x \in S : RelOf[x] <= RelOf[m]) \in S
  BY <1>3
<1> QED BY <1>4 DEF S

(* A step that touches nothing the charm reads leaves its jobs. *)
LEMMA NothingChanges ==
  ASSUME NEW v \in SUBSET Remote, UNCHANGED write,
         \A m \in v : override'[m] = override[m],
         \A r \in Rel : (\E m \in v : RelOf[m] = r) =>
           offer'[r] = offer[r] /\ \A m \in v : RelOf[m] = r => address'[m] = address[m]
  PROVE  Text(v)' = Text(v)
<1>1. ASSUME NEW r \in Rel PROVE StaticScrapeConfig(r, v)' = StaticScrapeConfig(r, v)
  <2>1. CASE \A m \in v : RelOf[m] # r
    BY <2>1 DEF StaticScrapeConfig
  <2>2. CASE \E m \in v : RelOf[m] = r
    <3>1. offer'[r] = offer[r] /\ \A m \in v : RelOf[m] = r => address'[m] = address[m]
      BY <2>2
    <3>2. RelationHosts(r, v)' = RelationHosts(r, v)
      BY <3>1 DEF RelationHosts
    <3>3. /\ \A i : Fixed(r, i)' = Fixed(r, i)
          /\ \A i, m : m \in RelationHosts(r, v) => Wild(r, i, m)' = Wild(r, i, m)
          /\ \A i : Sanitized(offer[r][i])' = Sanitized(offer[r][i])
      BY <3>1 DEF Wild, Fixed, WildJob, FixedJob, Sanitized, RelationHosts
    <3>4. StaticScrapeConfig(r, v) = Occurrences(r, v)
      BY <2>2 DEF StaticScrapeConfig, Occurrences, Wild, Fixed
    <3>5. StaticScrapeConfig(r, v)' = Occurrences(r, v)'
      BY <2>2 DEF StaticScrapeConfig, Occurrences, Wild, Fixed
    <3>6. Occurrences(r, v)' = Occurrences(r, v)
      BY <3>1, <3>2, <3>3 DEF Occurrences
    <3> QED BY <3>4, <3>5, <3>6
  <2> QED BY <2>1, <2>2
<1>2. ASSUME NEW r \in Rel
      PROVE  StaticScrapeJobs(r, v)' = StaticScrapeJobs(r, v) /\ Refuses(r, v)' = Refuses(r, v)
  BY <1>1 DEF StaticScrapeJobs, Refuses
<1>3. Jobs(v)' = Jobs(v)
  BY <1>2 DEF Jobs
<1>4. \A unit : Overriding(unit, v)' = Overriding(unit, v)
  BY DEF Overriding
<1>5. ASSUME NEW job PROVE ShownName(job, v)' = ShownName(job, v)
  <2>1. Overriding(job.unit, v)' = Overriding(job.unit, v)
    BY <1>4
  <2>2. CASE Overriding(job.unit, v) = {}
    BY <2>1, <2>2 DEF ShownName
  <2>3. CASE Overriding(job.unit, v) # {}
    <3> DEFINE last == CHOOSE m \in Overriding(job.unit, v) :
                         \A x \in Overriding(job.unit, v) : RelOf[x] <= RelOf[m]
    <3>1. last \in v
      BY <2>3, LastOverride DEF Overriding
    <3>2. last' = last
      BY <2>1
    <3>3. override'[last] = override[last]
      BY <3>1
    <3>4. ShownName(job, v) = [base |-> <<override[last]>>, hashes |-> <<>>]
      BY <2>3 DEF ShownName
    <3>5. ShownName(job, v)' = [base |-> <<override'[last']>>, hashes |-> <<>>]
      BY <2>1, <2>3 DEF ShownName
    <3> QED BY <3>2, <3>3, <3>4, <3>5
  <2> QED BY <2>2, <2>3
<1> QED BY <1>3, <1>5 DEF ActiveJobs, Translated, Text

-----------------------------------------------------------------------------
(* The shape of the state, and the jobs being current *)

(* Whatever is constructed with and looked aside, jobs are offered. *)
LEMMA OfferedJobs ==
  ASSUME NEW r \in Rel, NEW static \in Static[r], NEW lookaside \in Lookaside \cup {<<>>},
         NEW second
  PROVE  \A i \in DOMAIN ScrapeJobs(static, lookaside, second) :
           IsJob(ScrapeJobs(static, lookaside, second)[i])
<1> DEFINE S == {static[i] : i \in DOMAIN static} \cup {lookaside[i] : i \in DOMAIN lookaside}
           jobs == static \o (IF second /\ static # <<>> THEN lookaside \o lookaside ELSE lookaside)
<1>1. IsList(static) /\ \A i \in DOMAIN static : IsJob(static[i])
  BY JobAssumption
<1>2. IsList(lookaside) /\ \A i \in DOMAIN lookaside : IsJob(lookaside[i])
  <2>1. CASE lookaside = <<>>
    BY <2>1 DEF IsList
  <2>2. CASE lookaside # <<>>
    BY <2>2, JobAssumption
  <2> QED BY <2>1, <2>2
<1>3. static \in Seq(S) /\ lookaside \in Seq(S) /\ \A s \in S : IsJob(s)
  <2>1. static \in Seq(S)
    BY <1>1 DEF IsList
  <2>2. lookaside \in Seq(S)
    BY <1>2 DEF IsList
  <2> QED BY <1>1, <1>2, <2>1, <2>2
<1> HIDE DEF S
<1>4. jobs \in Seq(S)
  BY <1>3
<1>5. \A i \in DOMAIN jobs : IsJob(jobs[i])
  <2> HIDE DEF jobs
  <2> QED BY <1>3, <1>4
<1>6. \A i \in DOMAIN <<DefaultJob>> : IsJob(<<DefaultJob>>[i])
  <2>1. IsList(<<>>)
    BY DEF IsList
  <2>2. IsJob(DefaultJob)
    BY <2>1 DEF IsJob, DefaultJob, Spec4
  <2> QED BY <2>2
<1> QED BY <1>5, <1>6 DEF ScrapeJobs

LEMMA StaticTyped ==
  ASSUME TypeOK, OfferInv, NEW r \in Rel, NEW v \in SUBSET Remote,
         NEW job \in StaticScrapeJobs(r, v)
  PROVE  job.address \in Address \cup {"host"} /\ job.spec \in Spec4
<1>1. PICK o \in StaticScrapeConfig(r, v) : job = o[2] \/ job = Renamed(o[2])
  BY DEF StaticScrapeJobs, DedupeJobNames
<1>2. ASSUME NEW i \in DOMAIN offer[r], NEW m \in RelationHosts(r, v)
      PROVE  Wild(r, i, m)[2].address \in Address /\ Wild(r, i, m)[2].spec \in Spec4
  BY <1>2, SanitizedJob DEF Wild, WildJob, RelationHosts, TypeOK
<1>3. ASSUME NEW i \in DOMAIN offer[r]
      PROVE  Fixed(r, i)[2].address = "host" /\ Fixed(r, i)[2].spec \in Spec4
  BY <1>3, SanitizedJob DEF Fixed, FixedJob
<1>4. o[2].address \in Address \cup {"host"} /\ o[2].spec \in Spec4
  BY <1>1, <1>2, <1>3, Occurrence
<1> QED BY <1>1, <1>4, RenamedMade

LEMMA ActiveTyped ==
  ASSUME TypeOK, OfferInv, NEW v \in SUBSET Remote, NEW shown \in ActiveJobs(v)
  PROVE  shown[2].address \in Address \cup {"host"} /\ shown[2].spec \in {"plain", "other"}
<1>1. shown[2] \in Jobs(v) /\ shown[2].spec # "unsupported"
  BY DEF ActiveJobs, Translated, Supported
<1>2. PICK o \in Taken(v) : shown[2] = o[2] \/ shown[2] = Renamed(o[2])
  BY <1>1, JobsOfTaken DEF DedupeJobNames
<1>3. PICK r \in Rel : ~Refuses(r, v) /\ o[2] \in StaticScrapeJobs(r, v)
  BY <1>2, TakenMembers
<1>4. o[2].address \in Address \cup {"host"} /\ o[2].spec \in Spec4 /\ o[2].spec # "refused"
  BY <1>3, StaticTyped DEF Refuses
<1> QED BY <1>1, <1>2, <1>4, RenamedMade DEF Spec4

(* StoredState has the text for what the unit has in view, unless a hook   *)
(* is still to render it: a hook that skips finds it there already.        *)
CurrentInv ==
  ~again /\ ~due /\ changed = {} =>
    \A v \in SUBSET Remote : v = view => stored = Text(v)

(* Only a hook that fails after it wrote parts the file from StoredState.  *)
FileInv == torn \/ file = stored

ScrapeInv == TypeOK /\ OfferInv /\ CurrentInv /\ FileInv

LEMMA ScrapeInit == Init => ScrapeInv
<1> SUFFICES ASSUME Init PROVE ScrapeInv
  OBVIOUS
<1>1. /\ member \in [Remote -> {"absent", "present"}] /\ write = TRUE /\ leader \in BOOLEAN
      /\ override = [m \in Remote |-> NoName] /\ DOMAIN offer = Rel
      /\ view = {} /\ changed = {} /\ due = TRUE /\ again = FALSE /\ told = {}
      /\ file = [write |-> FALSE, jobs |-> {}] /\ stored = file /\ drifted = FALSE /\ torn = FALSE
      /\ offended \subseteq Rel /\ count = 0
  BY DEF Init
<1>2. PICK a \in Address :
        address = [m \in Remote |-> IF member[m] = "present" THEN a ELSE NoAddress]
  BY DEF Init
<1>3. OfferInv
  <2>1. ASSUME NEW r \in Rel PROVE \A i \in DOMAIN offer[r] : IsJob(offer[r][i])
    <3>1. PICK static \in Static[r] : offer[r] = ScrapeJobs(static, <<>>, FALSE)
      BY DEF Init
    <3> QED BY <3>1, OfferedJobs
  <2> QED BY <1>1, <2>1 DEF OfferInv
<1>4. \A text \in {file, stored} : text.write \in BOOLEAN /\ text.jobs = {}
  <2>1. file = [write |-> FALSE, jobs |-> {}] /\ stored = file
    BY <1>1
  <2>2. file.write = FALSE /\ file.jobs = {}
    BY <2>1, Zenon
  <2> QED BY <2>1, <2>2
<1>5. TypeOK
  BY <1>1, <1>2, <1>3, <1>4 DEF TypeOK, OfferInv
<1> QED BY <1>1, <1>3, <1>5 DEF ScrapeInv, CurrentInv, FileInv

(* A hook that configures renders what its unit has in view, or has to be  *)
(* run again.                                                              *)
LEMMA ConfigureKeeps ==
  ASSUME ScrapeInv, NEW v \in SUBSET Remote, Configure(v), view' = v, changed' \subseteq Rel,
         due' \in BOOLEAN, UNCHANGED <<provider, write, leader>>
  PROVE  ScrapeInv'
<1>1. Text(v)' = Text(v)
  BY NothingChanges DEF provider
<1>2. /\ {file', stored'} \subseteq {file, stored, Text(v)} /\ (~again' => stored' = Text(v))
      /\ FileInv' /\ drifted' \in BOOLEAN /\ torn' \in BOOLEAN
      /\ told' \subseteq told \cup Rel /\ again' \in BOOLEAN /\ count' \in Nat
  <2>1. told' \subseteq told \cup Rel
    BY DEF Configure
  <2>2. again' \in BOOLEAN /\ count' \in Nat
    <3>1. count \in Nat
      BY DEF ScrapeInv, TypeOK
    <3>2. \/ again' = FALSE /\ count' = count
          \/ again' = TRUE /\ count' = count + 1
      BY Zenon DEF Configure, Happens
    <3>3. again' \in BOOLEAN /\ (count' = count \/ count' = count + 1)
      BY <3>2, Zenon
    <3>4. \A n \in Nat : n + 1 \in Nat
      BY SMT
    <3> QED BY <3>1, <3>3, <3>4, Zenon
  <2>3. /\ {file', stored'} \subseteq {file, stored, Text(v)} /\ (~again' => stored' = Text(v))
        /\ FileInv' /\ drifted' \in BOOLEAN /\ torn' \in BOOLEAN
    <3> DEFINE text == Text(v)
    <3>1. \/ /\ text = stored /\ UNCHANGED <<file, stored, drifted, torn>>
          \/ /\ file' = text /\ stored' = text /\ drifted' = FALSE /\ torn' = FALSE
          \/ /\ again' = TRUE /\ UNCHANGED <<stored, drifted>>
             /\ \/ UNCHANGED <<file, torn>>
                \/ file' = text /\ torn' = TRUE
      BY DEF Configure, Configured, Unchanged, config
    <3>2. drifted \in BOOLEAN /\ torn \in BOOLEAN /\ (torn \/ file = stored)
      BY DEF ScrapeInv, TypeOK, FileInv
    <3> HIDE DEF text
    <3>3. /\ {file', stored'} \subseteq {file, stored, text} /\ (~again' => stored' = text)
          /\ (torn' \/ file' = stored') /\ drifted' \in BOOLEAN /\ torn' \in BOOLEAN
      BY <3>1, <3>2
    <3> QED BY <3>3 DEF text, FileInv
  <2> QED BY <2>1, <2>2, <2>3
<1>3. ASSUME NEW text \in {file, stored}'
      PROVE  /\ text.write \in BOOLEAN
             /\ \A shown \in text.jobs : shown[2].address \in Address \cup {"host"}
                                         /\ shown[2].spec \in {"plain", "other"}
  <2>1. text \in {file, stored} \/ text = Text(v)
    BY <1>2
  <2>2. CASE text \in {file, stored}
    BY <2>2 DEF ScrapeInv, TypeOK
  <2>3. CASE text = Text(v)
    <3>1. text.write = write /\ text.jobs = ActiveJobs(v) /\ write \in BOOLEAN
      BY <2>3 DEF Text, ScrapeInv, TypeOK
    <3> QED BY <3>1, ActiveTyped DEF ScrapeInv
  <2> QED BY <2>1, <2>2, <2>3
<1>4. TypeOK'
  BY <1>2, <1>3 DEF ScrapeInv, TypeOK, OfferInv, provider
<1>5. OfferInv'
  BY DEF ScrapeInv, OfferInv, provider
<1>6. CurrentInv'
  BY <1>1, <1>2 DEF CurrentInv
<1> QED BY <1>2, <1>4, <1>5, <1>6 DEF ScrapeInv

LEMMA HooksKeep ==
  ASSUME ScrapeInv, Hooks PROVE ScrapeInv'
<1>1. TypeOK /\ view \subseteq Remote /\ changed \subseteq Rel /\ due \in BOOLEAN
  BY DEF ScrapeInv, TypeOK
<1>2. ASSUME NEW m \in Remote, RelationJoined(m) PROVE ScrapeInv'
  <2>1. RelOf[m] \in Rel
    BY UnitAssumption
  <2>2. TypeOK'
    BY <1>1, <1>2, <2>1 DEF RelationJoined, TypeOK, provider, config
  <2>3. OfferInv' /\ CurrentInv' /\ FileInv'
    BY <1>2 DEF RelationJoined, ScrapeInv, OfferInv, CurrentInv, FileInv, provider, config
  <2> QED BY <2>2, <2>3 DEF ScrapeInv
<1>3. ASSUME NEW m \in Remote, RelationDeparted(m) PROVE ScrapeInv'
  <2>1. PICK v \in SUBSET Remote : v = view \ {m}
    BY <1>1
  <2> QED BY <1>1, <1>3, <2>1, ConfigureKeeps DEF RelationDeparted
<1>4. ASSUME NEW r \in Rel, RelationChanged(r) PROVE ScrapeInv'
  <2>1. PICK v \in SUBSET Remote : v = view
    BY <1>1
  <2> QED BY <1>1, <1>4, <2>1, ConfigureKeeps DEF RelationChanged
<1>5. CASE EndpointHook \/ Retry
  <2>1. PICK v \in SUBSET Remote : v = view
    BY <1>1
  <2> QED BY <1>1, <1>5, <2>1, ConfigureKeeps DEF EndpointHook, Retry
<1>6. CASE UpdateStatus
  <2>1. Text(view)' = Text(view)
    BY <1>1, <1>6, NothingChanges DEF UpdateStatus, provider
  <2>2. OfferInv' /\ CurrentInv' /\ FileInv'
    BY <1>6, <2>1 DEF UpdateStatus, ScrapeInv, OfferInv, CurrentInv, FileInv, provider
  <2>3. TypeOK'
    BY <1>1, <1>6 DEF UpdateStatus, TypeOK, provider
  <2> QED BY <2>2, <2>3 DEF ScrapeInv
<1> QED BY <1>2, <1>3, <1>4, <1>5, <1>6 DEF Hooks

(* What happens around the hooks leaves the jobs current or a hook due. *)
LEMMA WorldKeeps ==
  ASSUME ScrapeInv, World PROVE ScrapeInv'
<1>1. /\ TypeOK /\ OfferInv /\ CurrentInv /\ FileInv /\ view \in SUBSET Remote /\ changed \subseteq Rel
      /\ address \in [Remote -> Address \cup {NoAddress}]
      /\ override \in [Remote -> Override \cup {NoName}]
  BY DEF ScrapeInv, TypeOK
<1>f. UNCHANGED config => FileInv'
  BY <1>1 DEF FileInv, config
<1>2. ASSUME NEW m \in Remote, UnitArrives(m) \/ UnitLeaves(m) PROVE ScrapeInv'
  <2>1. \A v \in SUBSET Remote : Text(v)' = Text(v)
    BY <1>2, NothingChanges DEF UnitArrives, UnitLeaves
  <2>2. CurrentInv' /\ OfferInv'
    BY <1>1, <1>2, <2>1 DEF UnitArrives, UnitLeaves, own, config, CurrentInv, OfferInv
  <2>3. TypeOK'
    BY <1>1, <1>2 DEF UnitArrives, UnitLeaves, own, config, TypeOK, Happens
  <2> QED BY <1>2, <1>f, <2>2, <2>3 DEF ScrapeInv, UnitArrives, UnitLeaves, own
<1>3. ASSUME NEW m \in Remote, SetUnitIp(m) \/ SetJobName(m) PROVE ScrapeInv'
  <2>1. /\ UNCHANGED <<offer, write, view, due, again, config>>
        /\ changed' = changed \cup {r \in {RelOf[m]} : \E x \in view : RelOf[x] = r}
        /\ \A x \in Remote \ {m} : address'[x] = address[x] /\ override'[x] = override[x]
    BY <1>1, <1>3 DEF SetUnitIp, SetJobName, Notify
  <2>2. CurrentInv'
    <3>1. CASE m \in view
      BY <2>1, <3>1 DEF CurrentInv, config
    <3>2. CASE m \notin view
      <4>1. \A v \in SUBSET Remote : v = view => Text(v)' = Text(v)
        BY <2>1, <3>2, NothingChanges
      <4> QED BY <1>1, <2>1, <4>1 DEF CurrentInv, config
    <3> QED BY <3>1, <3>2
  <2>3. OfferInv'
    BY <1>1, <2>1 DEF OfferInv
  <2>4. TypeOK'
    <3>1. address' \in [Remote -> Address \cup {NoAddress}]
          /\ override' \in [Remote -> Override \cup {NoName}]
      BY <1>1, <1>3 DEF SetUnitIp, SetJobName
    <3>2. changed' \subseteq Rel
      BY <1>1, <2>1, UnitAssumption
    <3> QED BY <1>1, <1>3, <2>1, <3>1, <3>2 DEF SetUnitIp, SetJobName, TypeOK, Happens, config
  <2> QED BY <1>f, <2>1, <2>2, <2>3, <2>4 DEF ScrapeInv
<1>4. ASSUME NEW r \in Rel, SetScrapeJobSpec(r) PROVE ScrapeInv'
  <2>1. PICK m \in Remote, a \in Address : RelOf[m] = r /\ address' = [address EXCEPT ![m] = a]
    BY <1>4 DEF SetScrapeJobSpec
  <2>2. PICK static \in Static[r], lookaside \in Lookaside, second \in BOOLEAN :
          LET jobs == ScrapeJobs(static, lookaside, second)
          IN  /\ offer' = [offer EXCEPT ![r] = jobs]
              /\ offended' = IF Offends(jobs) THEN offended \cup {r} ELSE offended
    BY <1>4 DEF SetScrapeJobSpec
  <2>3. /\ UNCHANGED <<member, override, write, leader, view, due, again, config, told>>
        /\ changed' = changed \cup {q \in {r} : \E x \in view : RelOf[x] = q}
        /\ count' \in Nat
    BY <1>1, <1>4 DEF SetScrapeJobSpec, Notify, Happens, TypeOK
  <2>4. OfferInv'
    <3>1. \A i \in DOMAIN ScrapeJobs(static, lookaside, second) :
            IsJob(ScrapeJobs(static, lookaside, second)[i])
      BY OfferedJobs
    <3> QED BY <1>1, <2>2, <3>1 DEF OfferInv
  <2>5. CurrentInv'
    <3>1. CASE \E x \in view : RelOf[x] = r
      BY <2>3, <3>1 DEF CurrentInv, config
    <3>2. CASE \A x \in view : RelOf[x] # r
      <4>1. \A q \in Rel \ {r} : offer'[q] = offer[q]
        BY <1>1, <2>2 DEF OfferInv
      <4>2. \A x \in view : address'[x] = address[x]
        BY <1>1, <2>1, <3>2
      <4>3. \A v \in SUBSET Remote : v = view => Text(v)' = Text(v)
        BY <2>3, <3>2, <4>1, <4>2, NothingChanges
      <4> QED BY <1>1, <2>3, <4>3 DEF CurrentInv, config
    <3> QED BY <3>1, <3>2
  <2>6. TypeOK'
    <3>1. address' \in [Remote -> Address \cup {NoAddress}]
      BY <1>1, <2>1
    <3>2. changed' \cup told' \cup offended' \subseteq Rel
      BY <1>1, <2>2, <2>3 DEF TypeOK
    <3> QED BY <1>1, <2>3, <2>4, <3>1, <3>2 DEF TypeOK, OfferInv, config
  <2> QED BY <1>f, <2>3, <2>4, <2>5, <2>6 DEF ScrapeInv
<1>5. CASE WriteChanges
  <2>1. TypeOK'
    BY <1>1, <1>5 DEF WriteChanges, TypeOK, Happens, provider, config
  <2>2. OfferInv' /\ CurrentInv'
    BY <1>1, <1>5 DEF WriteChanges, OfferInv, CurrentInv, provider, config
  <2> QED BY <1>5, <1>f, <2>1, <2>2 DEF ScrapeInv, WriteChanges
<1>6. CASE LeaderChanges
  <2>1. \A v \in SUBSET Remote : Text(v)' = Text(v)
    BY <1>6, NothingChanges DEF LeaderChanges, provider
  <2>2. TypeOK'
    BY <1>1, <1>6 DEF LeaderChanges, TypeOK, Happens, provider, own, config
  <2>3. OfferInv' /\ CurrentInv'
    BY <1>1, <1>6, <2>1 DEF LeaderChanges, OfferInv, CurrentInv, provider, own, config
  <2> QED BY <1>6, <1>f, <2>2, <2>3 DEF ScrapeInv, LeaderChanges, own
<1> QED BY <1>2, <1>3, <1>4, <1>5, <1>6 DEF World

LEMMA ScrapeInvariance == Spec => []ScrapeInv
<1>1. ASSUME ScrapeInv, UNCHANGED vars PROVE ScrapeInv'
  <2>1. \A v \in SUBSET Remote : Text(v)' = Text(v)
    BY <1>1, NothingChanges DEF vars, provider
  <2> QED BY <1>1, <2>1 DEF ScrapeInv, TypeOK, OfferInv, CurrentInv, FileInv, vars, provider, own, config
<1>2. ScrapeInv /\ [Next]_vars => ScrapeInv'
  BY <1>1, HooksKeep, WorldKeeps DEF Next
<1> QED BY <1>2, ScrapeInit, PTL DEF Spec

(* In every reachable state: the type invariant. *)
THEOREM ScrapeTyped == Spec => []TypeOK
BY ScrapeInvariance, PTL DEF ScrapeInv

-----------------------------------------------------------------------------
(* Applications apart *)

(* Names of different applications differ in their first part, so that one *)
(* application's jobs are renamed for one another only.                    *)
NamesItsApp(job) == job.name.base[1] = job.app

LEMMA DedupeApart ==
  ASSUME NEW O, NEW P, NEW a, \A o \in O : NamesItsApp(o[2]),
         \A o : o \in P <=> o \in O /\ o[2].app = a
  PROVE  \A j : j \in DedupeJobNames(P) <=> j \in DedupeJobNames(O) /\ j.app = a
<1> DEFINE new(o, S) == IF \E other \in S \ {o} : other[2].name = o[2].name
                        THEN Renamed(o[2]) ELSE o[2]
<1>1. ASSUME NEW o \in P PROVE new(o, O) = new(o, P)
  <2>1. \A other \in O : other[2].name = o[2].name => other \in P
    BY DEF NamesItsApp
  <2>2. (\E other \in O \ {o} : other[2].name = o[2].name)
          <=> \E other \in P \ {o} : other[2].name = o[2].name
    BY <2>1
  <2> QED BY <2>2
<1>2. \A o \in O : new(o, O).app = o[2].app
  BY RenamedMade
<1>3. \A j : /\ j \in DedupeJobNames(O) <=> \E o \in O : j = new(o, O)
             /\ j \in DedupeJobNames(P) <=> \E o \in P : j = new(o, P)
  BY DEF DedupeJobNames
<1> HIDE DEF new
<1>4. ASSUME NEW j, j \in DedupeJobNames(P) PROVE j \in DedupeJobNames(O) /\ j.app = a
  <2>1. PICK o \in P : j = new(o, P)
    BY <1>3, <1>4
  <2>2. o \in O /\ o[2].app = a /\ j = new(o, O)
    BY <1>1, <2>1
  <2> QED BY <1>2, <1>3, <2>2
<1>5. ASSUME NEW j, j \in DedupeJobNames(O), j.app = a PROVE j \in DedupeJobNames(P)
  <2>1. PICK o \in O : j = new(o, O)
    BY <1>3, <1>5
  <2>2. o \in P
    BY <1>2, <1>5, <2>1
  <2> QED BY <1>1, <1>3, <2>1, <2>2
<1> QED BY <1>4, <1>5

Of(a, v) == {m \in v : AppOf[RelOf[m]] = a}

LEMMA TakenApart ==
  ASSUME OfferInv, NEW v \in SUBSET Remote, NEW a
  PROVE  \A o : o \in Taken(Of(a, v)) <=> o \in Taken(v) /\ o[2].app = a
<1>1. ASSUME NEW r \in Rel, AppOf[r] = a
      PROVE  /\ StaticScrapeJobs(r, v) = StaticScrapeJobs(r, Of(a, v))
             /\ Refuses(r, v) = Refuses(r, Of(a, v))
  <2>1. \A m : RelOf[m] = r => (m \in v <=> m \in Of(a, v))
    BY <1>1 DEF Of
  <2> QED BY <2>1, SameUnits
<1>2. ASSUME NEW r \in Rel, AppOf[r] # a PROVE StaticScrapeJobs(r, Of(a, v)) = {}
  <2>1. \A m \in Of(a, v) : RelOf[m] # r
    BY <1>2 DEF Of
  <2> QED BY <2>1, NoUnits
<1>3. \A r \in Rel : \A job \in StaticScrapeJobs(r, v) : job.app = AppOf[r]
  BY StaticMade
<1>4. ASSUME NEW o PROVE o \in Taken(v) /\ o[2].app = a <=> o \in Taken(Of(a, v))
  <2>1. ASSUME o \in Taken(v), o[2].app = a PROVE o \in Taken(Of(a, v))
    <3>1. PICK r \in Rel : ~Refuses(r, v) /\ \E job \in StaticScrapeJobs(r, v) : o = <<r, job>>
      BY <2>1, TakenMembers
    <3>2. AppOf[r] = a
      BY <1>3, <2>1, <3>1
    <3> QED BY <1>1, <3>1, <3>2, TakenMembers
  <2>2. ASSUME o \in Taken(Of(a, v)) PROVE o \in Taken(v) /\ o[2].app = a
    <3>1. PICK r \in Rel : /\ ~Refuses(r, Of(a, v))
                          /\ \E job \in StaticScrapeJobs(r, Of(a, v)) : o = <<r, job>>
      BY <2>2, TakenMembers
    <3>2. AppOf[r] = a
      BY <1>2, <3>1
    <3>3. ~Refuses(r, v) /\ \E job \in StaticScrapeJobs(r, v) : o = <<r, job>>
      BY <1>1, <3>1, <3>2
    <3> QED BY <1>3, <3>1, <3>2, <3>3, TakenMembers
  <2> QED BY <2>1, <2>2
<1> QED BY <1>4

LEMMA JobsApart ==
  ASSUME OfferInv, NEW v \in SUBSET Remote, NEW a
  PROVE  {job \in Jobs(v) : job.app = a} = Jobs(Of(a, v))
<1>1. ASSUME NEW o \in Taken(v) PROVE NamesItsApp(o[2])
  <2>1. PICK r \in Rel : \E job \in StaticScrapeJobs(r, v) : o = <<r, job>>
    BY <1>1, TakenMembers
  <2>2. PICK job \in StaticScrapeJobs(r, v) : o[2] = job
    BY <2>1
  <2>3. PICK n : MadeOf(job, n)
    BY StaticMade
  <2> QED BY <2>2, <2>3, MadeParts DEF NamesItsApp
<1>2. PICK O, P : O = Taken(v) /\ P = Taken(Of(a, v))
  OBVIOUS
<1>3. \A o \in O : NamesItsApp(o[2])
  BY <1>1, <1>2
<1>4. \A o : o \in P <=> o \in O /\ o[2].app = a
  BY <1>2, TakenApart
<1>5. \A j : j \in DedupeJobNames(P) <=> j \in DedupeJobNames(O) /\ j.app = a
  BY <1>3, <1>4, DedupeApart
<1> QED BY <1>2, <1>5, JobsOfTaken

LEMMA ShownApart ==
  ASSUME OfferInv, NEW v \in SUBSET Remote, NEW job \in Jobs(v)
  PROVE  ShownName(job, v) = ShownName(job, Of(job.app, v))
<1>1. PICK n : MadeOf(job, n)
  BY JobsMade
<1>2. ASSUME NEW m \in v, UnitName(m) = job.unit PROVE AppOf[RelOf[m]] = job.app
  <2>1. PICK k : job.unit = <<job.app, k>>
    BY <1>1, <1>2, NoneAssumption DEF MadeOf
  <2> QED BY <1>2, <2>1 DEF UnitName
<1>3. Overriding(job.unit, v) = Overriding(job.unit, Of(job.app, v))
  BY <1>2 DEF Overriding, Of
<1> QED BY <1>3 DEF ShownName

LEMMA TranslatedApart ==
  ASSUME OfferInv, NEW v \in SUBSET Remote, NEW a
  PROVE  {shown \in Translated(v) : shown[2].app = a} = Translated(Of(a, v))
<1>1. ASSUME NEW job PROVE job \in Jobs(v) /\ job.app = a <=> job \in Jobs(Of(a, v))
  BY JobsApart
<1>2. \A job \in Jobs(v) : job.app = a => ShownName(job, v) = ShownName(job, Of(a, v))
  BY ShownApart
<1> QED BY <1>1, <1>2 DEF Translated

(* Once the hooks have run, what StoredState holds is what the unit's view *)
(* renders to, and so is the file unless a hook was lost after it wrote.   *)
LEMMA TrustedCurrent ==
  ASSUME ScrapeInv, Settled, NEW v \in SUBSET Remote, v = view, NEW jobs \in Trusted
  PROVE  jobs = ActiveJobs(v)
<1>1. stored = Text(v) /\ (torn \/ file = stored)
  BY DEF ScrapeInv, CurrentInv, FileInv, Settled
<1>2. jobs = stored.jobs
  BY <1>1 DEF Trusted, rendered
<1> QED BY <1>1, <1>2 DEF Text

(* In every reachable state, once the hooks have run: an application's     *)
(* jobs are those it would have if it were the only one, in StoredState    *)
(* and, unless a hook was lost after it wrote, in the config.              *)
THEOREM AppsApartAlways == Spec => []AppsApart
<1>1. ScrapeInv => AppsApart
  <2> SUFFICES ASSUME ScrapeInv, Settled, write, NEW jobs \in Trusted, NEW a \in App
               PROVE  {shown \in jobs : shown[2].app = a} = Translated(Of(a, view))
    BY DEF AppsApart, Of
  <2>1. PICK v \in SUBSET Remote : v = view
    BY DEF ScrapeInv, TypeOK
  <2>2. jobs = Translated(v)
    BY <2>1, TrustedCurrent DEF ActiveJobs
  <2> QED BY <2>1, <2>2, TranslatedApart DEF ScrapeInv
<1> QED BY <1>1, ScrapeInvariance, PTL

-----------------------------------------------------------------------------
(* Targets *)

(* A hash changes no target. *)
LEMMA RenamedTarget == ASSUME NEW job PROVE TargetOf(Renamed(job)) = TargetOf(job)
<1>1. OfName(Renamed(job)) = OfName(job)
  BY RenamedMade DEF OfName
<1> QED BY <1>1, RenamedMade DEF TargetOf

(* What _dedupe_job_names makes of one occurrence among others. *)
Deduped(O, o) == IF \E other \in O \ {o} : other[2].name = o[2].name THEN Renamed(o[2]) ELSE o[2]

LEMMA DedupedJobs ==
  ASSUME NEW O
  PROVE  /\ \A j : j \in DedupeJobNames(O) <=> \E o \in O : j = Deduped(O, o)
         /\ \A o : /\ TargetOf(Deduped(O, o)) = TargetOf(o[2])
                   /\ Deduped(O, o).spec = o[2].spec
<1>1. \A j : j \in DedupeJobNames(O) <=> \E o \in O : j = Deduped(O, o)
  BY DEF DedupeJobNames, Deduped
<1>2. ASSUME NEW o
      PROVE  TargetOf(Deduped(O, o)) = TargetOf(o[2]) /\ Deduped(O, o).spec = o[2].spec
  BY RenamedTarget, RenamedMade DEF Deduped
<1> QED BY <1>1, <1>2

(* A job of a relation is told by its target: what is equal before         *)
(* _dedupe_job_names is equal after.                                       *)
LEMMA OneStatic ==
  ASSUME OfferInv, NEW r \in Rel, NEW v \in SUBSET Remote,
         NEW j \in StaticScrapeJobs(r, v), NEW k \in StaticScrapeJobs(r, v),
         TargetOf(j) = TargetOf(k)
  PROVE  j = k
<1>1. PICK O : O = StaticScrapeConfig(r, v)
  OBVIOUS
<1>2. PICK p \in O : j = Deduped(O, p)
  BY <1>1, DedupedJobs DEF StaticScrapeJobs
<1>3. PICK q \in O : k = Deduped(O, q)
  BY <1>1, DedupedJobs DEF StaticScrapeJobs
<1>4. TargetOf(p[2]) = TargetOf(q[2])
  BY <1>2, <1>3, DedupedJobs
<1>5. p[2] = q[2]
  <2>1. PICK n : MadeOf(p[2], n) /\ n = OfName(p[2])
    BY <1>1, ConfigMade, MadeParts
  <2>2. PICK w : MadeOf(q[2], w) /\ w = OfName(q[2])
    BY <1>1, ConfigMade, MadeParts
  <2>3. /\ p[2].app = q[2].app /\ p[2].unit = q[2].unit /\ p[2].address = q[2].address
        /\ n = w /\ p[2].spec = q[2].spec
    BY <1>4, <2>1, <2>2 DEF TargetOf
  <2>4. p[2].name.base = q[2].name.base
    BY <2>1, <2>2, <2>3 DEF MadeOf
  <2>5. Fresh(p[2]) /\ Fresh(q[2])
    BY <1>1, ConfigMade
  <2> QED BY <2>3, <2>4, <2>5 DEF Fresh, IsScrape
<1>6. CASE p = q
  BY <1>2, <1>3, <1>6
<1>7. CASE p # q
  BY <1>2, <1>3, <1>5, <1>7 DEF Deduped
<1> QED BY <1>6, <1>7

(* The targets of a relation's occurrences. *)
LEMMA OccurrenceTarget ==
  ASSUME OfferInv, NEW r \in Rel, NEW i \in DOMAIN offer[r]
  PROVE  LET job == Sanitized(offer[r][i])
         IN  /\ \A m \in Remote : RelOf[m] = r =>
                  /\ Wild(r, i, m)[2].spec = job.spec
                  /\ TargetOf(Wild(r, i, m)[2]) =
                       Target(AppOf[r], [unit |-> UnitName(m), address |-> address[m],
                                         of |-> job.name, spec |-> job.spec])
             /\ Fixed(r, i)[2].spec = job.spec
             /\ TargetOf(Fixed(r, i)[2]) =
                  Target(AppOf[r], [unit |-> NoUnit, address |-> "host",
                                    of |-> job.name, spec |-> job.spec])
<1>1. PICK job : job = Sanitized(offer[r][i])
  OBVIOUS
<1>2. IsList(job.name)
  BY <1>1, SanitizedJob
<1>3. ASSUME NEW m \in Remote, RelOf[m] = r
      PROVE  /\ WildJob(r, job, m).spec = job.spec
             /\ TargetOf(WildJob(r, job, m)) =
                  Target(AppOf[r], [unit |-> UnitName(m), address |-> address[m],
                                    of |-> job.name, spec |-> job.spec])
  <2>1. OfName(WildJob(r, job, m)) = job.name
    BY <1>2, <1>3, ExpansionMade, MadeParts
  <2> QED BY <2>1 DEF TargetOf, Target, WildJob
<1>4. /\ FixedJob(r, job).spec = job.spec
      /\ TargetOf(FixedJob(r, job)) =
           Target(AppOf[r], [unit |-> NoUnit, address |-> "host",
                             of |-> job.name, spec |-> job.spec])
  <2>1. OfName(FixedJob(r, job)) = job.name
    BY <1>2, HostMade, MadeParts
  <2> QED BY <2>1 DEF TargetOf, Target, FixedJob
<1> QED BY <1>1, <1>3, <1>4 DEF Wild, Fixed

UnitWant(job, m) ==
  [unit |-> UnitName(m), address |-> address[m], of |-> job.name, spec |-> job.spec]
HostWant(job) == [unit |-> NoUnit, address |-> "host", of |-> job.name, spec |-> job.spec]

LEMMA WantedMembers ==
  ASSUME NEW r \in Rel
  PROVE  \A want : want \in Wanted(r) <=>
           \E i \in DOMAIN offer[r] :
             /\ Sanitized(offer[r][i]).spec \in {"plain", "other"}
             /\ \/ \E m \in Present(r) : /\ Reached(r, Sanitized(offer[r][i]), m)
                                         /\ want = UnitWant(Sanitized(offer[r][i]), m)
                \/ /\ "fixed" \in Sanitized(offer[r][i]).targets
                   /\ want = HostWant(Sanitized(offer[r][i]))
<1> DEFINE jobs == {job \in Published(r) : job.spec \in {"plain", "other"}}
           units(m) == {UnitWant(job, m) : job \in {j \in jobs : Reached(r, j, m)}}
           hosts == {HostWant(job) : job \in {j \in jobs : "fixed" \in j.targets}}
<1>1. Wanted(r) = (UNION {units(m) : m \in Present(r)}) \cup hosts
  BY DEF Wanted, UnitWant, HostWant
<1>2. \A job : job \in jobs <=> \E i \in DOMAIN offer[r] :
                 job = Sanitized(offer[r][i]) /\ Sanitized(offer[r][i]).spec \in {"plain", "other"}
  BY DEF Published
<1> HIDE DEF jobs
<1>3. \A want, m : want \in units(m) <=>
        \E job \in jobs : Reached(r, job, m) /\ want = UnitWant(job, m)
  OBVIOUS
<1>4. \A want : want \in hosts <=> \E job \in jobs : "fixed" \in job.targets /\ want = HostWant(job)
  OBVIOUS
<1> HIDE DEF units, hosts
<1>5. \A want : want \in Wanted(r) <=> (\E m \in Present(r) : want \in units(m)) \/ want \in hosts
  BY <1>1
<1> QED BY <1>2, <1>3, <1>4, <1>5

(* What a relation brings, whichever hashes its jobs' names carry. *)
Scraped(r, v, target) ==
  \E job \in StaticScrapeJobs(r, v) : job.spec \in {"plain", "other"} /\ TargetOf(job) = target

LEMMA ConfigScraped ==
  ASSUME NEW r, NEW v
  PROVE  /\ Refuses(r, v) <=> \E o \in StaticScrapeConfig(r, v) : o[2].spec = "refused"
         /\ \A target : Scraped(r, v, target) <=>
              \E o \in StaticScrapeConfig(r, v) :
                o[2].spec \in {"plain", "other"} /\ TargetOf(o[2]) = target
<1>1. PICK O : O = StaticScrapeConfig(r, v)
  OBVIOUS
<1>2. \A job : job \in StaticScrapeJobs(r, v) <=> \E o \in O : job = Deduped(O, o)
  BY <1>1, DedupedJobs DEF StaticScrapeJobs
<1>3. \A o : TargetOf(Deduped(O, o)) = TargetOf(o[2]) /\ Deduped(O, o).spec = o[2].spec
  BY DedupedJobs
<1> QED BY <1>1, <1>2, <1>3 DEF Refuses, Scraped

(* With the units that are there in view, a relation is refused and brings *)
(* targets as its offer says.                                              *)
SeesAll(v) == v = {m \in Remote : member[m] = "present"}

LEMMA RelationInForce ==
  ASSUME OfferInv, NEW r \in Rel, NEW v, SeesAll(v)
  PROVE  InForce(r) <=> ~Refuses(r, v) /\ Present(r) # {}
<1> DEFINE J(i) == Sanitized(offer[r][i])
<1>1. \A m : /\ m \in RelationHosts(r, v) <=> m \in Present(r) /\ address[m] # NoAddress
             /\ m \in Present(r) <=> m \in v /\ RelOf[m] = r
             /\ m \in Present(r) => m \in Remote
  BY DEF RelationHosts, Present, SeesAll
<1>2. Refuses(r, v) <=>
        \E i \in DOMAIN offer[r] :
          /\ J(i).spec = "refused"
          /\ \/ "wild" \in J(i).targets /\ RelationHosts(r, v) # {}
             \/ "fixed" \in J(i).targets /\ Present(r) # {}
  <2>1. \A i \in DOMAIN offer[r] :
          /\ \A m \in RelationHosts(r, v) : Wild(r, i, m)[2].spec = J(i).spec
          /\ Fixed(r, i)[2].spec = J(i).spec
    <3>1. \A m \in RelationHosts(r, v) : m \in Remote /\ RelOf[m] = r
      BY <1>1
    <3> QED BY <3>1, OccurrenceTarget
  <2>2. (\E m \in v : RelOf[m] = r) <=> Present(r) # {}
    BY <1>1
  <2> HIDE DEF J
  <2>3. \A o : o \in StaticScrapeConfig(r, v) <=>
           \/ \E i \in DOMAIN offer[r] : \E m \in RelationHosts(r, v) :
                "wild" \in J(i).targets /\ o = Wild(r, i, m)
           \/ (\E m \in v : RelOf[m] = r) /\ \E i \in DOMAIN offer[r] :
                "fixed" \in J(i).targets /\ o = Fixed(r, i)
    BY Occurrence DEF J
  <2> QED BY <2>1, <2>2, <2>3, ConfigScraped
<1>3. \A i \in DOMAIN offer[r] : J(i).targets \in (SUBSET {"wild", "fixed"}) \ {{}}
  BY SanitizedJob
<1>4. InForce(r) <=>
        /\ Present(r) # {}
        /\ \A i \in DOMAIN offer[r] : J(i).spec = "refused" =>
             J(i).targets = {"wild"} /\ \A m \in Present(r) : address[m] = NoAddress
  BY DEF InForce, Published
<1> HIDE DEF J
<1>5. ASSUME NEW i \in DOMAIN offer[r]
      PROVE  /\ "fixed" \notin J(i).targets <=> J(i).targets = {"wild"}
             /\ J(i).targets = {"wild"} => "wild" \in J(i).targets
  BY <1>3
<1>6. RelationHosts(r, v) = {} <=> \A m \in Present(r) : address[m] = NoAddress
  BY <1>1
<1> QED BY <1>2, <1>4, <1>5, <1>6

LEMMA RelationTargets ==
  ASSUME OfferInv, NEW r \in Rel, NEW v, SeesAll(v),
         Present(r) # {}
  PROVE  \A target : Scraped(r, v, target) <=>
           \E want \in Wanted(r) : Target(AppOf[r], want) = target
<1> DEFINE J(i) == Sanitized(offer[r][i])
           unit(i, m) == Target(AppOf[r], UnitWant(J(i), m))
           host(i) == Target(AppOf[r], HostWant(J(i)))
           sound(i) == J(i).spec \in {"plain", "other"}
<1>1. /\ \A m : m \in RelationHosts(r, v) <=> m \in Present(r) /\ address[m] # NoAddress
      /\ \E m \in v : RelOf[m] = r
      /\ Present(r) \subseteq Remote /\ \A m \in Present(r) : RelOf[m] = r
  BY DEF RelationHosts, Present, SeesAll
<1>2. \A i \in DOMAIN offer[r] :
        /\ \A m \in Present(r) : /\ Wild(r, i, m)[2].spec = J(i).spec
                                 /\ TargetOf(Wild(r, i, m)[2]) = unit(i, m)
        /\ Fixed(r, i)[2].spec = J(i).spec
        /\ TargetOf(Fixed(r, i)[2]) = host(i)
  BY <1>1, OccurrenceTarget DEF UnitWant, HostWant
<1>3. \A want : want \in Wanted(r) <=>
           \E i \in DOMAIN offer[r] :
             /\ sound(i)
             /\ \/ \E m \in Present(r) : /\ "wild" \in J(i).targets /\ address[m] # NoAddress
                                         /\ want = UnitWant(J(i), m)
                \/ "fixed" \in J(i).targets /\ want = HostWant(J(i))
  BY WantedMembers DEF Reached
<1>4. \A o : o \in StaticScrapeConfig(r, v) <=>
           \/ \E i \in DOMAIN offer[r] : \E m \in RelationHosts(r, v) :
                "wild" \in J(i).targets /\ o = Wild(r, i, m)
           \/ \E i \in DOMAIN offer[r] : "fixed" \in J(i).targets /\ o = Fixed(r, i)
  BY <1>1, Occurrence
<1> DEFINE brings(target) ==
             \E i \in DOMAIN offer[r] :
               /\ sound(i)
               /\ \/ \E m \in Present(r) : /\ "wild" \in J(i).targets /\ address[m] # NoAddress
                                           /\ target = unit(i, m)
                  \/ "fixed" \in J(i).targets /\ target = host(i)
<1>5. ASSUME NEW target
      PROVE  (\E want \in Wanted(r) : Target(AppOf[r], want) = target) <=> brings(target)
  <2> HIDE DEF J
  <2> QED BY <1>3
<1>6. ASSUME NEW target PROVE Scraped(r, v, target) <=> brings(target)
  <2>1. Scraped(r, v, target) <=>
          \E o \in StaticScrapeConfig(r, v) :
            o[2].spec \in {"plain", "other"} /\ TargetOf(o[2]) = target
    BY ConfigScraped
  <2>2. \A i \in DOMAIN offer[r] : /\ \A m \in Present(r) : sound(i) <=> Wild(r, i, m)[2].spec \in {"plain", "other"}
                                   /\ sound(i) <=> Fixed(r, i)[2].spec \in {"plain", "other"}
    BY <1>2
  <2> HIDE DEF J, unit, host, sound
  <2>3. ASSUME Scraped(r, v, target) PROVE brings(target)
    <3>1. PICK o \in StaticScrapeConfig(r, v) :
            o[2].spec \in {"plain", "other"} /\ TargetOf(o[2]) = target
      BY <2>1, <2>3
    <3>2. CASE \E i \in DOMAIN offer[r] : \E m \in RelationHosts(r, v) :
                 "wild" \in J(i).targets /\ o = Wild(r, i, m)
      BY <1>1, <1>2, <2>2, <3>1, <3>2
    <3>3. CASE \E i \in DOMAIN offer[r] : "fixed" \in J(i).targets /\ o = Fixed(r, i)
      BY <1>2, <2>2, <3>1, <3>3
    <3> QED BY <1>4, <3>2, <3>3
  <2>4. ASSUME brings(target) PROVE Scraped(r, v, target)
    <3>1. PICK i \in DOMAIN offer[r] :
            /\ sound(i)
            /\ \/ \E m \in Present(r) : /\ "wild" \in J(i).targets /\ address[m] # NoAddress
                                        /\ target = unit(i, m)
               \/ "fixed" \in J(i).targets /\ target = host(i)
      BY <2>4
    <3>2. ASSUME NEW m \in Present(r), "wild" \in J(i).targets, address[m] # NoAddress,
                 target = unit(i, m)
          PROVE  Scraped(r, v, target)
      <4>1. PICK o \in StaticScrapeConfig(r, v) : o = Wild(r, i, m)
        BY <1>1, <1>4, <3>2
      <4>2. o[2].spec \in {"plain", "other"} /\ TargetOf(o[2]) = target
        BY <1>2, <2>2, <3>1, <3>2, <4>1
      <4> QED BY <2>1, <4>2
    <3>3. CASE "fixed" \in J(i).targets /\ target = host(i)
      <4>1. PICK o \in StaticScrapeConfig(r, v) : o = Fixed(r, i)
        BY <1>4, <3>3
      <4>2. o[2].spec \in {"plain", "other"} /\ TargetOf(o[2]) = target
        BY <1>2, <2>2, <3>1, <3>3, <4>1
      <4> QED BY <2>1, <4>2
    <3> QED BY <3>1, <3>2, <3>3
  <2> QED BY <2>3, <2>4
<1> QED BY <1>5, <1>6

(* What becomes of a relation's job in the config. *)
Brought(r, job, v) ==
  LET j == Deduped(Taken(v), <<r, job>>) IN <<ShownName(j, v), j>>

LEMMA TranslatedOrigin ==
  ASSUME TypeOK, OfferInv, NEW v \in SUBSET Remote, SeesAll(v)
  PROVE  /\ \A shown : shown \in Translated(v) <=>
              \E r \in Rel : InForce(r) /\ \E job \in StaticScrapeJobs(r, v) :
                job.spec \in {"plain", "other"} /\ shown = Brought(r, job, v)
         /\ \A r, job : TargetOf(Brought(r, job, v)[2]) = TargetOf(job)
<1>1. PICK T : T = Taken(v)
  OBVIOUS
<1>2. \A r, job : LET j == Deduped(T, <<r, job>>)
                  IN  /\ Brought(r, job, v) = <<ShownName(j, v), j>>
                      /\ TargetOf(j) = TargetOf(job) /\ j.spec = job.spec
  BY <1>1, DedupedJobs DEF Brought
<1>3. \A r \in Rel : StaticScrapeJobs(r, v) # {} => (InForce(r) <=> ~Refuses(r, v))
  <2>1. ASSUME NEW r \in Rel, Present(r) = {} PROVE StaticScrapeJobs(r, v) = {}
    <3>1. \A m \in v : RelOf[m] # r
      BY <2>1 DEF Present, SeesAll
    <3> QED BY <3>1, NoUnits
  <2> QED BY <2>1, RelationInForce
<1>4. ASSUME NEW r \in Rel, NEW job \in StaticScrapeJobs(r, v), ~Refuses(r, v)
      PROVE  job.spec \in {"plain", "other"} <=> job.spec # "unsupported"
  <2>1. job.spec \in Spec4 /\ job.spec # "refused"
    BY <1>4, StaticTyped DEF Refuses
  <2> QED BY <2>1 DEF Spec4
<1>5. \A j : j \in Jobs(v) <=>
        \E r \in Rel : ~Refuses(r, v) /\ \E job \in StaticScrapeJobs(r, v) : j = Deduped(T, <<r, job>>)
  <2>1. \A j : j \in Jobs(v) <=> \E o \in T : j = Deduped(T, o)
    BY <1>1, JobsOfTaken, DedupedJobs
  <2>2. \A o : o \in T <=>
          \E r \in Rel : ~Refuses(r, v) /\ \E job \in StaticScrapeJobs(r, v) : o = <<r, job>>
    BY <1>1, TakenMembers
  <2>3. ASSUME NEW j, NEW r \in Rel, ~Refuses(r, v), NEW job \in StaticScrapeJobs(r, v),
               j = Deduped(T, <<r, job>>)
        PROVE  j \in Jobs(v)
    <3>1. PICK o : o = <<r, job>>
      OBVIOUS
    <3> QED BY <2>1, <2>2, <2>3, <3>1
  <2>4. ASSUME NEW j \in Jobs(v)
        PROVE  \E r \in Rel : ~Refuses(r, v) /\ \E job \in StaticScrapeJobs(r, v) : j = Deduped(T, <<r, job>>)
    <3>1. PICK o \in T : j = Deduped(T, o)
      BY <2>1
    <3> QED BY <2>2, <3>1
  <2> QED BY <2>3, <2>4
<1>6. \A shown : shown \in Translated(v) <=>
        \E j \in Jobs(v) : j.spec # "unsupported" /\ shown = <<ShownName(j, v), j>>
  BY DEF Translated, Supported
<1>7. ASSUME NEW shown \in Translated(v)
      PROVE  \E r \in Rel : InForce(r) /\ \E job \in StaticScrapeJobs(r, v) :
                job.spec \in {"plain", "other"} /\ shown = Brought(r, job, v)
  <2>1. PICK j \in Jobs(v) : j.spec # "unsupported" /\ shown = <<ShownName(j, v), j>>
    BY <1>6, <1>7
  <2>2. PICK r \in Rel : ~Refuses(r, v) /\ \E job \in StaticScrapeJobs(r, v) : j = Deduped(T, <<r, job>>)
    BY <1>5, <2>1
  <2>3. PICK job \in StaticScrapeJobs(r, v) : j = Deduped(T, <<r, job>>)
    BY <2>2
  <2>4. job.spec \in {"plain", "other"} /\ shown = Brought(r, job, v)
    BY <1>2, <1>4, <2>1, <2>2, <2>3
  <2> QED BY <1>3, <2>2, <2>4
<1>8. ASSUME NEW r \in Rel, InForce(r), NEW job \in StaticScrapeJobs(r, v),
             job.spec \in {"plain", "other"}
      PROVE  Brought(r, job, v) \in Translated(v)
  <2>1. ~Refuses(r, v)
    BY <1>3, <1>8
  <2>2. PICK j : j = Deduped(T, <<r, job>>)
    OBVIOUS
  <2>3. j \in Jobs(v) /\ j.spec # "unsupported" /\ Brought(r, job, v) = <<ShownName(j, v), j>>
    BY <1>2, <1>5, <1>8, <2>1, <2>2
  <2> QED BY <1>6, <2>3
<1>9. ASSUME NEW r, NEW job PROVE TargetOf(Brought(r, job, v)[2]) = TargetOf(job)
  <2>1. PICK j : j = Deduped(T, <<r, job>>)
    OBVIOUS
  <2>2. Brought(r, job, v) = <<ShownName(j, v), j>> /\ TargetOf(j) = TargetOf(job)
    BY <1>2, <2>1
  <2>3. Brought(r, job, v)[2] = j
    BY <2>2
  <2> QED BY <2>2, <2>3
<1> QED BY <1>7, <1>8, <1>9

LEMMA ViewTargets ==
  ASSUME TypeOK, OfferInv, NEW v \in SUBSET Remote, SeesAll(v)
  PROVE  /\ {TargetOf(shown[2]) : shown \in Translated(v)}
              = UNION {{Target(AppOf[r], want) : want \in Wanted(r)} : r \in {x \in Rel : InForce(x)}}
         /\ \A target : Cardinality({shown \in Translated(v) : TargetOf(shown[2]) = target})
                          <= Cardinality(Asking(target))
<1>1. ASSUME NEW r \in Rel, InForce(r), NEW target
      PROVE  Scraped(r, v, target) <=> \E want \in Wanted(r) : Target(AppOf[r], want) = target
  BY <1>1, RelationTargets DEF InForce
<1>2. ASSUME NEW target
      PROVE  target \in {TargetOf(shown[2]) : shown \in Translated(v)} <=>
               \E r \in Rel : InForce(r) /\ Scraped(r, v, target)
  BY TranslatedOrigin DEF Scraped
<1>3. \A target : target \in {TargetOf(shown[2]) : shown \in Translated(v)} <=>
        \E r \in Rel : InForce(r) /\ \E want \in Wanted(r) : Target(AppOf[r], want) = target
  BY <1>1, <1>2
<1>4. ASSUME NEW target
      PROVE  Cardinality({shown \in Translated(v) : TargetOf(shown[2]) = target})
               <= Cardinality(Asking(target))
  <2> DEFINE S == {shown \in Translated(v) : TargetOf(shown[2]) = target}
             From(shown, r) == \E job \in StaticScrapeJobs(r, v) :
                                 TargetOf(job) = target /\ shown = Brought(r, job, v)
  <2>1. IsFiniteSet(Asking(target))
    <3>1. Asking(target) \subseteq Rel
      BY DEF Asking
    <3> QED BY <3>1, RelationAssumption, FS_Subset
  <2>2. ASSUME NEW shown \in S PROVE \E r \in Asking(target) : From(shown, r)
    <3>1. PICK r \in Rel : InForce(r) /\ \E job \in StaticScrapeJobs(r, v) :
            job.spec \in {"plain", "other"} /\ shown = Brought(r, job, v)
      BY TranslatedOrigin
    <3>2. PICK job \in StaticScrapeJobs(r, v) :
            job.spec \in {"plain", "other"} /\ shown = Brought(r, job, v)
      BY <3>1
    <3>3. TargetOf(job) = target
      BY <3>2, TranslatedOrigin
    <3>4. AppOf[r] = target.app
      BY <3>3, StaticMade DEF TargetOf
    <3>5. \E want \in Wanted(r) : Target(AppOf[r], want) = target
      BY <1>1, <3>1, <3>2, <3>3 DEF Scraped
    <3> QED BY <3>1, <3>2, <3>3, <3>4, <3>5 DEF Asking
  <2>3. \A r \in Rel : \A x, y : From(x, r) /\ From(y, r) => x = y
    BY OneStatic
  <2> HIDE DEF S, From
  <2> DEFINE f == [shown \in S |-> CHOOSE r \in Asking(target) : From(shown, r)]
  <2>4. \A shown \in S : f[shown] \in Asking(target) /\ From(shown, f[shown])
    BY <2>2
  <2>5. f \in Injection(S, Asking(target))
    <3>1. f \in [S -> Asking(target)]
      BY <2>4
    <3>2. ASSUME NEW x \in S, NEW y \in S, f[x] = f[y] PROVE x = y
      <4>1. f[x] \in Rel
        BY <2>4 DEF Asking
      <4> HIDE DEF f
      <4> QED BY <2>3, <2>4, <3>2, <4>1
    <3> HIDE DEF f
    <3> QED BY <3>1, <3>2 DEF Injection, IsInjective
  <2>6. Cardinality(S) <= Cardinality(Asking(target))
    <3> HIDE DEF f
    <3> QED BY <2>1, <2>5, FS_Injection
  <2> QED BY <2>6 DEF S
<1> QED BY <1>3, <1>4

(* In every reachable state, once the hooks have run: StoredState holds    *)
(* exactly the targets that the relations in force ask for, none more      *)
(* often than there are relations that ask for it, and the config scrapes  *)
(* them unless a hook was lost after it wrote.                             *)
THEOREM TargetsExactAlways == Spec => []TargetsExact
<1>1. ScrapeInv => TargetsExact
  <2> SUFFICES ASSUME ScrapeInv, Settled, NEW jobs \in Trusted
               PROVE  /\ {TargetOf(shown[2]) : shown \in jobs}
                          = IF write THEN UNION {{Target(AppOf[r], want) : want \in Wanted(r)} :
                                                   r \in {x \in Rel : InForce(x)}}
                            ELSE {}
                      /\ \A target \in {TargetOf(shown[2]) : shown \in jobs} :
                           Cardinality({shown \in jobs : TargetOf(shown[2]) = target})
                             <= Cardinality(Asking(target))
    BY DEF TargetsExact
  <2>1. PICK v \in SUBSET Remote : v = view
    BY DEF ScrapeInv, TypeOK
  <2>2. jobs = ActiveJobs(v) /\ SeesAll(v)
    BY <2>1, TrustedCurrent DEF Settled, SeesAll
  <2>3. CASE ~write
    BY <2>2, <2>3 DEF ActiveJobs
  <2>4. CASE write
    <3>1. jobs = Translated(v)
      BY <2>2, <2>4 DEF ActiveJobs
    <3>2. /\ {TargetOf(shown[2]) : shown \in Translated(v)}
              = UNION {{Target(AppOf[r], want) : want \in Wanted(r)} : r \in {x \in Rel : InForce(x)}}
          /\ \A target : Cardinality({shown \in Translated(v) : TargetOf(shown[2]) = target})
                          <= Cardinality(Asking(target))
      BY <2>2, ViewTargets DEF ScrapeInv
    <3> QED BY <2>4, <3>1, <3>2
  <2> QED BY <2>3, <2>4
<1> QED BY <1>1, ScrapeInvariance, PTL
=============================================================================
