--------------------------- MODULE TelemetryProofs ---------------------------
(***************************************************************************)
(* What the charm renders from options and relations loads exactly when no *)
(* two names meet in one label and host journal logs are not alone, and    *)
(* what then runs delivers exactly what was asked for: for any number of   *)
(* jobs, principals, units and matches.  The argument goes block by block  *)
(* (ConfigGraphProofs): a reference leads to one block, as labels are      *)
(* distinct, so that what each source delivers can be read off.            *)
(***************************************************************************)
EXTENDS Telemetry, ConfigGraphProofs

LEMMA Parts ==
  ASSUME NEW ref, NEW item, NEW to, NEW uses, NEW adds
  PROVE  /\ Block(ref, item, to, uses, adds).ref = ref
         /\ Block(ref, item, to, uses, adds).item = item
         /\ Block(ref, item, to, uses, adds).to = to
         /\ Block(ref, item, to, uses, adds).uses = uses
         /\ Block(ref, item, to, uses, adds).adds = adds
BY DEF Block

(* The reference of each block. *)
LEMMA Refs ==
  ASSUME NEW in
  PROVE  /\ ExporterBlock.ref = Exporter /\ TargetsBlock.ref = LocalTargets
         /\ LocalScrape(in).ref = Scrape(Plain("default"))
         /\ WriteBlock.ref = RemoteWrite
         /\ \A j : JobScrape(in, j).ref = Scrape(Plain(Sanitized[j.name]))
         /\ \A g : GroupProcessor(in, g).ref = Stage(g)
         /\ \A g, i : UnitJournal(g, i).ref =
                        Journal(Numbered(SourceBase(g), "journald", i, g.units))
         /\ \A g, i : MatchJournal(g, i).ref =
                        Journal(Numbered(SourceBase(g), "journal_match", i, g.matches))
         /\ \A g : PathsBlock(g).ref = PathsRef(g)
         /\ \A g : FilesBlock(g).ref =
                     Ref("loki.source.file", Label(Sanitized[g.name], "filelogs", 0))
         /\ \A i : HostJournal(in, i).ref =
                     Journal(Numbered("host_journald", Empty, i, HostMatches(in)))
         /\ RulesBlock.ref = JournalRules /\ SyslogRelabel.ref = SyslogRules
         /\ SyslogSource(in).ref = Syslog /\ SyslogStage.ref = RemoteSyslog
         /\ WriterBlock.ref = Writer
<1>1. /\ ExporterBlock.ref = Exporter /\ TargetsBlock.ref = LocalTargets
      /\ WriteBlock.ref = RemoteWrite /\ RulesBlock.ref = JournalRules
      /\ SyslogRelabel.ref = SyslogRules /\ SyslogStage.ref = RemoteSyslog
      /\ WriterBlock.ref = Writer
  BY DEF Block, ExporterBlock, TargetsBlock, WriteBlock, RulesBlock, SyslogRelabel,
     SyslogStage, WriterBlock
<1>2. LocalScrape(in).ref = Scrape(Plain("default")) /\ SyslogSource(in).ref = Syslog
  BY DEF Block, LocalScrape, SyslogSource
<1>3. \A j : JobScrape(in, j).ref = Scrape(Plain(Sanitized[j.name]))
  BY DEF Block, JobScrape
<1>4. \A g : GroupProcessor(in, g).ref = Stage(g)
  BY DEF Block, GroupProcessor
<1>5. \A g, i : /\ UnitJournal(g, i).ref =
                      Journal(Numbered(SourceBase(g), "journald", i, g.units))
                /\ MatchJournal(g, i).ref =
                      Journal(Numbered(SourceBase(g), "journal_match", i, g.matches))
  BY DEF Block, UnitJournal, MatchJournal
<1>6. \A g : /\ PathsBlock(g).ref = PathsRef(g)
             /\ FilesBlock(g).ref =
                  Ref("loki.source.file", Label(Sanitized[g.name], "filelogs", 0))
  BY DEF Block, PathsBlock, FilesBlock
<1>7. \A i : HostJournal(in, i).ref =
               Journal(Numbered("host_journald", Empty, i, HostMatches(in)))
  BY DEF Block, HostJournal
<1> QED BY <1>1, <1>2, <1>3, <1>4, <1>5, <1>6, <1>7

(* The kind of each reference. *)
LEMMA Kinds ==
  /\ Exporter.kind = "prometheus.exporter.unix" /\ LocalTargets.kind = "discovery.relabel"
  /\ \A label : Scrape(label).kind = "prometheus.scrape"
  /\ RemoteWrite.kind = "prometheus.remote_write"
  /\ \A g : Stage(g).kind = "loki.process" /\ PathsRef(g).kind = "local.file_match"
  /\ \A label : Ref("loki.source.file", label).kind = "loki.source.file"
  /\ \A label : Journal(label).kind = "loki.source.journal"
  /\ JournalRules.kind = "loki.relabel" /\ SyslogRules.kind = "loki.relabel"
  /\ Syslog.kind = "loki.source.syslog" /\ RemoteSyslog.kind = "loki.process"
  /\ Writer.kind = "loki.write"
BY DEF Ref, Exporter, LocalTargets, Scrape, RemoteWrite, Stage, Process, PathsRef, Journal,
   JournalRules, SyslogRules, Syslog, RemoteSyslog, Writer

(* The blocks of each kind. *)
IsProcess(in, b) ==
  (\E g \in Groups(in) : b = GroupProcessor(in, g)) \/ (in.syslog /\ in.loki /\ b = SyslogStage)
IsScrapeBlock(in, b) ==
  b = LocalScrape(in) \/ (in.remote /\ \E j \in in.jobs : b = JobScrape(in, j))
IsJournal(in, b) ==
  \/ \E g \in Groups(in) : \E i \in 1..g.units : b = UnitJournal(g, i)
  \/ \E g \in Groups(in) : \E i \in 1..g.matches : b = MatchJournal(g, i)
  \/ \E i \in 1..HostMatches(in) : b = HostJournal(in, i)
IsRules(in, b) == (Groups(in) # {} /\ b = RulesBlock) \/ b = SyslogRelabel

OfKind(in, b, kind) ==
  \/ kind = "prometheus.exporter.unix" /\ b = ExporterBlock
  \/ kind = "discovery.relabel" /\ b = TargetsBlock
  \/ kind = "prometheus.remote_write" /\ b = WriteBlock
  \/ kind = "prometheus.scrape" /\ IsScrapeBlock(in, b)
  \/ kind = "loki.process" /\ IsProcess(in, b)
  \/ kind = "loki.source.journal" /\ IsJournal(in, b)
  \/ kind = "local.file_match" /\ \E g \in Groups(in) : b = PathsBlock(g)
  \/ kind = "loki.source.file" /\ \E g \in Groups(in) : b = FilesBlock(g)
  \/ kind = "loki.relabel" /\ IsRules(in, b)
  \/ kind = "loki.source.syslog" /\ b = SyslogSource(in)
  \/ kind = "loki.write" /\ b = WriterBlock

LEMMA RenderedOfKind ==
  ASSUME NEW in, NEW b \in Rendered(in) PROVE OfKind(in, b, b.ref.kind)
<1>1. CASE MetricBlock(in, b)
  <2>1. CASE b = ExporterBlock \/ b = TargetsBlock \/ b = WriteBlock
    BY <2>1, Refs, Kinds DEF OfKind
  <2>2. CASE b = LocalScrape(in)
    BY <2>2, Refs, Kinds DEF OfKind, IsScrapeBlock
  <2>3. CASE in.remote /\ \E j \in in.jobs : b = JobScrape(in, j)
    <3>1. PICK j : b = JobScrape(in, j)
      BY <2>3
    <3>2. PICK label : b.ref = Scrape(label)
      BY <3>1, Refs
    <3>3. b.ref.kind = "prometheus.scrape"
      BY <3>2, Kinds
    <3> QED BY <2>3, <3>3 DEF OfKind, IsScrapeBlock
  <2> QED BY <1>1, <2>1, <2>2, <2>3 DEF MetricBlock
<1>2. ASSUME NEW g \in Groups(in), GroupBlock(in, g, b) PROVE OfKind(in, b, b.ref.kind)
  <2>1. CASE b = GroupProcessor(in, g)
    BY <2>1, Refs, Kinds DEF OfKind, IsProcess
  <2>2. CASE \E i \in 1..g.units : b = UnitJournal(g, i)
    BY <2>2, Refs, Kinds DEF OfKind, IsJournal
  <2>3. CASE \E i \in 1..g.matches : b = MatchJournal(g, i)
    BY <2>3, Refs, Kinds DEF OfKind, IsJournal
  <2>4. CASE b \in {PathsBlock(g), FilesBlock(g)}
    BY <2>4, Refs, Kinds DEF OfKind
  <2> QED BY <1>2, <2>1, <2>2, <2>3, <2>4 DEF GroupBlock
<1>3. CASE LogBlock(in, b)
  <2>1. CASE \E i \in 1..HostMatches(in) : b = HostJournal(in, i)
    BY <2>1, Refs, Kinds DEF OfKind, IsJournal
  <2>2. CASE in.syslog /\ in.loki /\ b = SyslogStage
    BY <2>2, Refs, Kinds DEF OfKind, IsProcess
  <2>3. CASE (Groups(in) # {} /\ b = RulesBlock) \/ b = SyslogRelabel
    BY <2>3, Refs, Kinds DEF OfKind, IsRules
  <2>4. CASE b = SyslogSource(in) \/ b = WriterBlock
    BY <2>4, Refs, Kinds DEF OfKind
  <2> QED BY <1>3, <2>1, <2>2, <2>3, <2>4 DEF LogBlock
<1> QED BY <1>1, <1>2, <1>3, Members

-----------------------------------------------------------------------------
(* Labels *)

LEMMA LabelParts ==
  ASSUME NEW base, NEW part, NEW index, NEW base2, NEW part2, NEW index2,
         Label(base, part, index) = Label(base2, part2, index2)
  PROVE  base = base2 /\ part = part2 /\ index = index2
<1>1. /\ Label(base, part, index).base = base /\ Label(base, part, index).part = part
      /\ Label(base, part, index).index = index
  BY DEF Label
<1>2. /\ Label(base2, part2, index2).base = base2 /\ Label(base2, part2, index2).part = part2
      /\ Label(base2, part2, index2).index = index2
  BY DEF Label
<1> QED BY <1>1, <1>2

LEMMA RefLabels ==
  ASSUME NEW kind, NEW x, NEW y, Ref(kind, x) = Ref(kind, y) PROVE x = y
<1>1. Ref(kind, x).label = x /\ Ref(kind, y).label = y
  BY DEF Ref
<1> QED BY <1>1

(* The sources of n items are numbered apart. *)
LEMMA NumberedApart ==
  ASSUME NEW base, NEW part, NEW n, NEW i \in 1..n, NEW k \in 1..n,
         Numbered(base, part, i, n) = Numbered(base, part, k, n)
  PROVE  i = k
<1>1. CASE n = 1
  BY <1>1
<1>2. CASE n # 1
  BY <1>2, LabelParts DEF Numbered
<1> QED BY <1>1, <1>2

LEMMA NumberedParts ==
  ASSUME NEW base, NEW part, NEW i, NEW n, NEW base2, NEW part2, NEW i2, NEW n2,
         Numbered(base, part, i, n) = Numbered(base2, part2, i2, n2)
  PROVE  base = base2 /\ part = part2
BY LabelParts DEF Numbered

(* Groups with sanitized names, the shape BuilderInput gives them. *)
Named(in) == \A g \in Groups(in) : Sanitized[g.name] # Empty

LEMMA BasesApart ==
  ASSUME NEW in, Named(in), NEW g \in Groups(in), NEW h \in Groups(in),
         SourceBase(g) = SourceBase(h)
  PROVE  Sanitized[g.name] = Sanitized[h.name]
BY DEF Named, SourceBase

LEMMA GroupsApart ==
  ASSUME NEW in, ~Collides(in), NEW g \in Groups(in), NEW h \in Groups(in),
         Sanitized[g.name] = Sanitized[h.name]
  PROVE  g = h
BY DEF Collides

LEMMA PlainApart == \A x, y : Plain(x) = Plain(y) => x = y
BY DEF Plain, Label

LEMMA KindsApart ==
  /\ \A x, y : Scrape(x) = Scrape(y) => x = y
  /\ \A x, y : Journal(x) = Journal(y) => x = y
  /\ \A x, y : Process(x) = Process(y) => x = y
BY DEF Scrape, Journal, Process, Ref

(* Two jobs are scraped under one label only when their names meet. *)
LEMMA ScrapesApart ==
  ASSUME NEW in, ~Collides(in), in.remote, NEW j \in in.jobs
  PROVE  /\ LocalScrape(in).ref # JobScrape(in, j).ref
         /\ \A k \in in.jobs : JobScrape(in, j).ref = JobScrape(in, k).ref => j = k
<1>1. Sanitized[j.name] # "default"
  BY DEF Collides
<1>2. LocalScrape(in).ref = Scrape(Plain("default"))
      /\ JobScrape(in, j).ref = Scrape(Plain(Sanitized[j.name]))
  BY Refs
<1>3. LocalScrape(in).ref # JobScrape(in, j).ref
  BY <1>1, <1>2, PlainApart, KindsApart
<1>4. ASSUME NEW k \in in.jobs, JobScrape(in, j).ref = JobScrape(in, k).ref PROVE j = k
  <2>1. Scrape(Plain(Sanitized[j.name])) = Scrape(Plain(Sanitized[k.name]))
    BY <1>4, Refs
  <2>2. Sanitized[j.name] = Sanitized[k.name]
    BY <2>1, PlainApart, KindsApart
  <2> QED BY <2>2 DEF Collides
<1> QED BY <1>3, <1>4

LEMMA StagesApart ==
  ASSUME NEW in, ~Collides(in), NEW g \in Groups(in)
  PROVE  /\ \A h \in Groups(in) : Stage(g) = Stage(h) => g = h
         /\ in.syslog /\ in.loki => Stage(g) # RemoteSyslog
<1>1. ASSUME NEW h \in Groups(in), Stage(g) = Stage(h) PROVE g = h
  BY <1>1, PlainApart, KindsApart, GroupsApart DEF Stage
<1>2. ASSUME in.syslog, in.loki PROVE Stage(g) # RemoteSyslog
  <2>1. Sanitized[g.name] # "remote_syslog"
    BY <1>2 DEF Collides
  <2> QED BY <2>1, PlainApart, KindsApart DEF Stage, RemoteSyslog
<1> QED BY <1>1, <1>2

LEMMA PartsApart ==
  ASSUME NEW base, NEW part, NEW i, NEW n, NEW base2, NEW part2, NEW i2, NEW n2, part # part2
  PROVE  Journal(Numbered(base, part, i, n)) # Journal(Numbered(base2, part2, i2, n2))
BY NumberedParts, KindsApart

(* The journal sources of two groups, of one, and of the host, are apart. *)
LEMMA JournalsApart ==
  ASSUME NEW in, Named(in), ~Collides(in), NEW g \in Groups(in), NEW h \in Groups(in)
  PROVE  /\ \A i \in 1..g.units, k \in 1..h.units :
              UnitJournal(g, i).ref = UnitJournal(h, k).ref => g = h /\ i = k
         /\ \A i \in 1..g.matches, k \in 1..h.matches :
              MatchJournal(g, i).ref = MatchJournal(h, k).ref => g = h /\ i = k
<1>1. ASSUME NEW i \in 1..g.units, NEW k \in 1..h.units,
             UnitJournal(g, i).ref = UnitJournal(h, k).ref
      PROVE  g = h /\ i = k
  <2>0. \A x, y : UnitJournal(x, y).ref =
                     Journal(Numbered(SourceBase(x), "journald", y, x.units))
    BY Refs
  <2>1. Numbered(SourceBase(g), "journald", i, g.units)
          = Numbered(SourceBase(h), "journald", k, h.units)
    BY <1>1, <2>0, KindsApart
  <2>2. SourceBase(g) = SourceBase(h)
    BY <2>1, NumberedParts
  <2>3. g = h
    BY <2>2, BasesApart, GroupsApart
  <2> QED BY <2>1, <2>3, NumberedApart
<1>2. ASSUME NEW i \in 1..g.matches, NEW k \in 1..h.matches,
             MatchJournal(g, i).ref = MatchJournal(h, k).ref
      PROVE  g = h /\ i = k
  <2>0. \A x, y : MatchJournal(x, y).ref =
                     Journal(Numbered(SourceBase(x), "journal_match", y, x.matches))
    BY Refs
  <2>1. Numbered(SourceBase(g), "journal_match", i, g.matches)
          = Numbered(SourceBase(h), "journal_match", k, h.matches)
    BY <1>2, <2>0, KindsApart
  <2>2. SourceBase(g) = SourceBase(h)
    BY <2>1, NumberedParts
  <2>3. g = h
    BY <2>2, BasesApart, GroupsApart
  <2> QED BY <2>1, <2>3, NumberedApart
<1> QED BY <1>1, <1>2

LEMMA HostsApart ==
  ASSUME NEW in, NEW i \in 1..HostMatches(in), NEW k \in 1..HostMatches(in),
         HostJournal(in, i).ref = HostJournal(in, k).ref
  PROVE  i = k
<1>1. \A x : HostJournal(in, x).ref =
               Journal(Numbered("host_journald", Empty, x, HostMatches(in)))
  BY Refs
<1>2. Numbered("host_journald", Empty, i, HostMatches(in))
        = Numbered("host_journald", Empty, k, HostMatches(in))
  BY <1>1, KindsApart
<1> QED BY <1>2, NumberedApart

LEMMA JournalKindsApart ==
  ASSUME NEW in, NEW g, NEW h, NEW i, NEW k
  PROVE  /\ UnitJournal(g, i).ref # MatchJournal(h, k).ref
         /\ UnitJournal(g, i).ref # HostJournal(in, k).ref
         /\ MatchJournal(g, i).ref # HostJournal(in, k).ref
<1>1. UnitJournal(g, i).ref = Journal(Numbered(SourceBase(g), "journald", i, g.units))
  BY Refs
<1>2. MatchJournal(g, i).ref = Journal(Numbered(SourceBase(g), "journal_match", i, g.matches))
  BY Refs
<1>3. MatchJournal(h, k).ref = Journal(Numbered(SourceBase(h), "journal_match", k, h.matches))
  BY Refs
<1>4. HostJournal(in, k).ref = Journal(Numbered("host_journald", Empty, k, HostMatches(in)))
  BY Refs
<1>5. UnitJournal(g, i).ref # MatchJournal(h, k).ref
  BY <1>1, <1>3, PartsApart
<1>6. UnitJournal(g, i).ref # HostJournal(in, k).ref
  BY <1>1, <1>4, PartsApart DEF Empty
<1>7. MatchJournal(g, i).ref # HostJournal(in, k).ref
  BY <1>2, <1>4, PartsApart DEF Empty
<1> QED BY <1>5, <1>6, <1>7

LEMMA FilesApart ==
  ASSUME NEW in, ~Collides(in), NEW g \in Groups(in), NEW h \in Groups(in)
  PROVE  /\ PathsBlock(g).ref = PathsBlock(h).ref => g = h
         /\ FilesBlock(g).ref = FilesBlock(h).ref => g = h
<1> DEFINE label(x) == Label(Sanitized[x.name], "filelogs", 0)
<1>1. label(g) = label(h) => g = h
  BY LabelParts, GroupsApart
<1> HIDE DEF label
<1>2. \A x : PathsBlock(x).ref = Ref("local.file_match", label(x))
             /\ FilesBlock(x).ref = Ref("loki.source.file", label(x))
  BY Refs DEF PathsRef, label
<1> QED BY <1>1, <1>2, RefLabels

LEMMA RulesApart == JournalRules # SyslogRules
BY RefLabels, PlainApart DEF JournalRules, SyslogRules

(* No label is used twice, when no names meet. *)
LEMMA LabelsApart ==
  ASSUME NEW in, Named(in), ~Collides(in) PROVE LabelsDistinct(Rendered(in))
<1> SUFFICES ASSUME NEW b \in Rendered(in), NEW c \in Rendered(in), b.ref = c.ref
             PROVE  b = c
  BY DEF LabelsDistinct
<1>1. PICK kind : kind = b.ref.kind /\ OfKind(in, b, kind) /\ OfKind(in, c, kind)
  BY RenderedOfKind
<1>2. CASE IsScrapeBlock(in, b) /\ IsScrapeBlock(in, c)
  BY <1>2, ScrapesApart DEF IsScrapeBlock
<1>3. CASE IsProcess(in, b) /\ IsProcess(in, c)
  <2>1. SyslogStage.ref = RemoteSyslog /\ \A g : GroupProcessor(in, g).ref = Stage(g)
    BY Refs
  <2> QED BY <1>3, <2>1, StagesApart DEF IsProcess
<1>4. CASE IsJournal(in, b) /\ IsJournal(in, c)
  <2> DEFINE Unit(x) == \E g \in Groups(in) : \E i \in 1..g.units : x = UnitJournal(g, i)
             Match(x) == \E g \in Groups(in) : \E i \in 1..g.matches : x = MatchJournal(g, i)
             Host(x) == \E i \in 1..HostMatches(in) : x = HostJournal(in, i)
  <2>1. CASE Unit(b) /\ Unit(c)
    BY <2>1, JournalsApart
  <2>2. CASE Match(b) /\ Match(c)
    BY <2>2, JournalsApart
  <2>3. CASE Host(b) /\ Host(c)
    BY <2>3, HostsApart
  <2>4. ~(Unit(b) /\ Match(c)) /\ ~(Unit(b) /\ Host(c)) /\ ~(Match(b) /\ Host(c))
    BY JournalKindsApart
  <2>5. ~(Match(b) /\ Unit(c)) /\ ~(Host(b) /\ Unit(c)) /\ ~(Host(b) /\ Match(c))
    BY JournalKindsApart
  <2> HIDE DEF Unit, Match, Host
  <2>6. (Unit(b) \/ Match(b) \/ Host(b)) /\ (Unit(c) \/ Match(c) \/ Host(c))
    BY <1>4 DEF IsJournal, Unit, Match, Host
  <2> QED BY <2>1, <2>2, <2>3, <2>4, <2>5, <2>6
<1>5. CASE IsRules(in, b) /\ IsRules(in, c)
  <2>1. RulesBlock.ref = JournalRules /\ SyslogRelabel.ref = SyslogRules
    BY Refs
  <2> QED BY <1>5, <2>1, RulesApart DEF IsRules
<1>6. CASE /\ \E g \in Groups(in) : b = PathsBlock(g)
           /\ \E g \in Groups(in) : c = PathsBlock(g)
  BY <1>6, FilesApart
<1>7. CASE /\ \E g \in Groups(in) : b = FilesBlock(g)
           /\ \E g \in Groups(in) : c = FilesBlock(g)
  BY <1>7, FilesApart
<1> QED BY <1>1, <1>2, <1>3, <1>4, <1>5, <1>6, <1>7 DEF OfKind

-----------------------------------------------------------------------------
(* Conversely, names that meet use a label twice. *)

(* Jobs that collect different things, none of them the local metrics. *)
JobsApart(in) ==
  \A j \in in.jobs : /\ j.item # Item("local", "self", 0) /\ j.item # Nothing
                     /\ \A k \in in.jobs : j.item = k.item => j = k
KeysApart(in) == \A g, h \in Groups(in) : g.key = h.key => g = h

LEMMA NamesMeet ==
  ASSUME NEW in, JobsApart(in), KeysApart(in), Collides(in)
  PROVE  ~LabelsDistinct(Rendered(in))
<1> SUFFICES ASSUME LabelsDistinct(Rendered(in)) PROVE FALSE
  OBVIOUS
<1> DEFINE B == Rendered(in)
<1>1. ASSUME in.remote, NEW j \in in.jobs, Sanitized[j.name] = "default" PROVE FALSE
  <2>1. LocalScrape(in) \in B /\ JobScrape(in, j) \in B
    BY <1>1, Members DEF MetricBlock
  <2>2. LocalScrape(in).ref = JobScrape(in, j).ref
    BY <1>1, Refs
  <2>3. LocalScrape(in) = JobScrape(in, j)
    BY <2>1, <2>2 DEF LabelsDistinct
  <2>4. LocalScrape(in).item = Item("local", "self", 0) /\ JobScrape(in, j).item = j.item
    BY Parts DEF LocalScrape, JobScrape
  <2> QED BY <2>3, <2>4 DEF JobsApart
<1>2. ASSUME in.remote, NEW j \in in.jobs, NEW k \in in.jobs, j # k,
             Sanitized[j.name] = Sanitized[k.name]
      PROVE  FALSE
  <2>1. JobScrape(in, j) \in B /\ JobScrape(in, k) \in B
    BY <1>2, Members DEF MetricBlock
  <2>2. JobScrape(in, j).ref = JobScrape(in, k).ref
    BY <1>2, Refs
  <2>3. JobScrape(in, j) = JobScrape(in, k)
    BY <2>1, <2>2 DEF LabelsDistinct
  <2>4. JobScrape(in, j).item = j.item /\ JobScrape(in, k).item = k.item
    BY Parts DEF JobScrape
  <2> QED BY <1>2, <2>3, <2>4 DEF JobsApart
<1>3. ASSUME NEW g \in Groups(in), Sanitized[g.name] = "remote_syslog", in.syslog, in.loki
      PROVE  FALSE
  <2>1. GroupProcessor(in, g) \in B /\ SyslogStage \in B
    BY <1>3, Members DEF GroupBlock, LogBlock
  <2>2. GroupProcessor(in, g).ref = SyslogStage.ref
    BY <1>3, Refs DEF Stage, RemoteSyslog
  <2>3. GroupProcessor(in, g) = SyslogStage
    BY <2>1, <2>2 DEF LabelsDistinct
  <2>4. GroupProcessor(in, g).adds = {g.key} /\ SyslogStage.adds = {}
    BY Parts DEF GroupProcessor, SyslogStage
  <2> QED BY <2>3, <2>4
<1>4. ASSUME NEW g \in Groups(in), NEW h \in Groups(in), g # h,
             Sanitized[g.name] = Sanitized[h.name]
      PROVE  FALSE
  <2>1. GroupProcessor(in, g) \in B /\ GroupProcessor(in, h) \in B
    BY Members DEF GroupBlock
  <2>2. GroupProcessor(in, g).ref = GroupProcessor(in, h).ref
    <3>1. GroupProcessor(in, g).ref = Stage(g) /\ GroupProcessor(in, h).ref = Stage(h)
      BY Refs
    <3> QED BY <1>4, <3>1 DEF Stage
  <2>3. GroupProcessor(in, g) = GroupProcessor(in, h)
    BY <2>1, <2>2 DEF LabelsDistinct
  <2>4. \A x : GroupProcessor(in, x).adds = {x.key}
    BY DEF GroupProcessor, Block
  <2>5. g.key = h.key
    BY <2>3, <2>4
  <2> QED BY <1>4, <2>5 DEF KeysApart
<1> QED BY <1>1, <1>2, <1>3, <1>4 DEF Collides

(* Host journal sources alone read rules nobody renders. *)
LEMMA RulesMissing ==
  ASSUME NEW in, HostMatches(in) \in Nat, HostLogsAlone(in)
  PROVE  ~Resolves(Rendered(in))
<1> SUFFICES ASSUME Resolves(Rendered(in)) PROVE FALSE
  OBVIOUS
<1>1. 1 \in 1..HostMatches(in) /\ Groups(in) = {}
  BY DEF HostLogsAlone
<1>2. HostJournal(in, 1) \in Rendered(in)
  BY <1>1, Members DEF LogBlock
<1>3. HostJournal(in, 1).uses = {JournalRules}
  BY Parts DEF HostJournal
<1>4. PICK b \in Rendered(in) : b.ref = JournalRules
  BY <1>2, <1>3 DEF Resolves, Declared
<1>5. OfKind(in, b, "loki.relabel")
  BY <1>4, RenderedOfKind, Kinds
<1>6. IsRules(in, b)
  BY <1>5 DEF OfKind
<1>7. SyslogRelabel.ref = SyslogRules
  BY Refs
<1> QED BY <1>1, <1>4, <1>6, <1>7, RulesApart DEF IsRules

(* What the builder renders loads exactly when names are apart and host *)
(* journal logs are not alone.                                          *)
LEMMA LoadableWhenApart ==
  ASSUME NEW in, Named(in), JobsApart(in), KeysApart(in), HostMatches(in) \in Nat
  PROVE  Loadable(Rendered(in)) <=> ~Collides(in) /\ ~HostLogsAlone(in)
<1>1. ASSUME ~Collides(in), ~HostLogsAlone(in) PROVE Loadable(Rendered(in))
  <2>1. Groups(in) # {} \/ HostMatches(in) = 0
    BY <1>1 DEF HostLogsAlone
  <2> QED BY <1>1, <2>1, LabelsApart, ReferencesResolve DEF Loadable
<1>2. ASSUME Loadable(Rendered(in)) PROVE ~Collides(in) /\ ~HostLogsAlone(in)
  BY <1>2, NamesMeet, RulesMissing DEF Loadable
<1> QED BY <1>1, <1>2

-----------------------------------------------------------------------------
(* The input of the builder *)

ValidPayload == Payload \ {NoPayload, Broken}

(* What options and relations can be, at any time. *)
IsGiven(g) ==
  /\ g \in [options : [manual : Seq(Name \cup {NoName}), units : Nat, kernel : BOOLEAN,
                       hostMatches : Nat, syslog : BOOLEAN, override : BOOLEAN],
            loki : BOOLEAN, remote : BOOLEAN,
            jobs : SUBSET [name : Name, unit : Scraped, supported : BOOLEAN],
            override : [Scraped -> Name \cup {NoName}],
            payload : [Relation -> Payload \cup {NoPayload}]]
  /\ \A j, k \in g.jobs : j.name = k.name => j = k

THEOREM GivenTyped == Spec => []IsGiven(given)
<1>1. Init => IsGiven(given)
  BY OptionAssumption DEF Init, IsGiven
<1>2. IsGiven(given) /\ [Next]_vars => IsGiven(given)'
  <2> SUFFICES ASSUME IsGiven(given), [Next]_vars PROVE IsGiven(given)'
    OBVIOUS
  <2>1. ASSUME UNCHANGED given PROVE IsGiven(given)'
    BY <2>1 DEF IsGiven
  <2>2. CASE ChangeOptions
    BY <2>2, OptionAssumption DEF ChangeOptions, Becomes, IsGiven
  <2>3. CASE EndpointsChange
    BY <2>3 DEF EndpointsChange, Becomes, IsGiven
  <2>4. CASE ScrapeJobsChange
    BY <2>4, JobAssumption DEF ScrapeJobsChange, Becomes, IsGiven
  <2>5. CASE PrincipalPublishes
    BY <2>5 DEF PrincipalPublishes, Becomes, IsGiven
  <2> QED BY <2>1, <2>2, <2>3, <2>4, <2>5 DEF Next, Refuse, Configure, vars
<1> QED BY <1>1, <1>2, PTL DEF Spec

LEMMA PayloadFields ==
  ASSUME NEW p \in ValidPayload
  PROVE  /\ p \in [name : Name, endpoints : Nat, units : Nat, matches : Nat, files : BOOLEAN]
         /\ \A i \in 1..p.endpoints : MachineName(p, i) \in Name
<1>1. p \in [name : Name, endpoints : Nat, units : Nat, matches : Nat, files : BOOLEAN]
  BY PayloadAssumption DEF ValidPayload
<1>2. ASSUME NEW i \in 1..p.endpoints PROVE MachineName(p, i) \in Name
  <2>1. CASE i = 1
    BY <1>1, <2>1 DEF MachineName
  <2>2. CASE i # 1
    <3>1. i \in 2..p.endpoints
      BY <1>1, <2>2
    <3> QED BY <2>2, <3>1, SuffixAssumption DEF MachineName, ValidPayload
  <2> QED BY <2>1, <2>2
<1> QED BY <1>1, <1>2

LEMMA SourcePayload ==
  ASSUME NEW g, IsGiven(g), NEW r \in Sources(g)
  PROVE  r \in Relation /\ g.payload[r] \in ValidPayload
BY DEF IsGiven, Sources, Validates, ValidPayload

LEMMA ItemParts ==
  ASSUME NEW from, NEW key, NEW index, NEW from2, NEW key2, NEW index2,
         Item(from, key, index) = Item(from2, key2, index2)
  PROVE  from = from2 /\ key = key2 /\ index = index2
<1>1. /\ Item(from, key, index).from = from /\ Item(from, key, index).key = key
      /\ Item(from, key, index).index = index
  BY DEF Item
<1>2. /\ Item(from2, key2, index2).from = from2 /\ Item(from2, key2, index2).key = key2
      /\ Item(from2, key2, index2).index = index2
  BY DEF Item
<1> QED BY <1>1, <1>2

(* A scrape job, as the three places it can come from make it. *)
JobOf(item, name, topology) == [item |-> item, name |-> name, topology |-> topology]
IsManual(g, j) ==
  ~g.options.override /\ \E i \in 1..Len(g.options.manual) :
    j = JobOf(Item("manual", g.options.manual[i], 0), g.options.manual[i], "self")
IsRelated(g, j) ==
  \E k \in g.jobs : k.supported /\ j = JobOf(Item("related", k.name, 0), JobName(g, k), k.unit)
IsMachine(g, j) ==
  \E r \in Sources(g) : \E i \in 1..g.payload[r].endpoints :
    j = JobOf(Item("machine", r, i), MachineName(g.payload[r], i), r)

LEMMA ActiveJob ==
  ASSUME NEW g
  PROVE  \A j : j \in ActiveJobs(g) <=>
           g.remote /\ (IsManual(g, j) \/ IsRelated(g, j) \/ IsMachine(g, j))
<1>1. \A j : j \in ManualJobs(g) <=> IsManual(g, j)
  BY DEF ManualJobs, OnlyIf, IsManual, JobOf
<1>2. \A j : j \in TranslatedJobs(g) <=> IsRelated(g, j)
  BY DEF TranslatedJobs, IsRelated, JobOf
<1>3. \A j : j \in MachineJobs(g) <=> IsMachine(g, j)
  BY DEF MachineJobs, IsMachine, JobOf
<1> QED BY <1>1, <1>2, <1>3 DEF ActiveJobs, OnlyIf

LEMMA JobParts ==
  ASSUME NEW item, NEW name, NEW topology
  PROVE  /\ JobOf(item, name, topology).item = item
         /\ JobOf(item, name, topology).name = name
         /\ JobOf(item, name, topology).topology = topology
BY DEF JobOf

(* Two jobs collect one thing only if they are one job. *)
LEMMA InputJobsApart ==
  ASSUME NEW g, IsGiven(g) PROVE JobsApart(BuilderInput(g))
<1> DEFINE jobs == ActiveJobs(g)
<1>1. BuilderInput(g).jobs = jobs
  BY DEF BuilderInput
<1>2. ASSUME NEW j \in jobs
      PROVE  \E from \in {"manual", "related", "machine"} :
               \E key, index : j.item = Item(from, key, index)
  BY <1>2, ActiveJob, JobParts DEF IsManual, IsRelated, IsMachine
<1>3. ASSUME NEW j \in jobs PROVE j.item # Item("local", "self", 0) /\ j.item # Nothing
  BY <1>2, <1>3, ItemParts DEF Nothing
<1>4. ASSUME NEW j \in jobs, NEW k \in jobs, j.item = k.item PROVE j = k
  <2>1. ASSUME IsManual(g, j), IsManual(g, k) PROVE j = k
    BY <1>4, <2>1, JobParts, ItemParts DEF IsManual
  <2>2. ASSUME IsRelated(g, j), IsRelated(g, k) PROVE j = k
    <3>1. PICK x \in g.jobs : j = JobOf(Item("related", x.name, 0), JobName(g, x), x.unit)
      BY <2>2 DEF IsRelated
    <3>2. PICK y \in g.jobs : k = JobOf(Item("related", y.name, 0), JobName(g, y), y.unit)
      BY <2>2 DEF IsRelated
    <3>3. x.name = y.name
      BY <1>4, <3>1, <3>2, JobParts, ItemParts
    <3>4. x = y
      BY <3>3 DEF IsGiven
    <3> QED BY <3>1, <3>2, <3>4
  <2>3. ASSUME IsMachine(g, j), IsMachine(g, k) PROVE j = k
    BY <1>4, <2>3, JobParts, ItemParts DEF IsMachine
  <2>4. /\ IsManual(g, j) => \E key, index : j.item = Item("manual", key, index)
        /\ IsRelated(g, j) => \E key, index : j.item = Item("related", key, index)
        /\ IsMachine(g, j) => \E key, index : j.item = Item("machine", key, index)
    BY JobParts DEF IsManual, IsRelated, IsMachine
  <2>5. /\ IsManual(g, k) => \E key, index : k.item = Item("manual", key, index)
        /\ IsRelated(g, k) => \E key, index : k.item = Item("related", key, index)
        /\ IsMachine(g, k) => \E key, index : k.item = Item("machine", key, index)
    BY JobParts DEF IsManual, IsRelated, IsMachine
  <2>6. /\ ~(IsManual(g, j) /\ IsRelated(g, k)) /\ ~(IsRelated(g, j) /\ IsManual(g, k))
        /\ ~(IsManual(g, j) /\ IsMachine(g, k)) /\ ~(IsMachine(g, j) /\ IsManual(g, k))
        /\ ~(IsRelated(g, j) /\ IsMachine(g, k)) /\ ~(IsMachine(g, j) /\ IsRelated(g, k))
    BY <1>4, <2>4, <2>5, ItemParts
  <2> QED BY <1>4, <2>1, <2>2, <2>3, <2>6, ActiveJob
<1> QED BY <1>1, <1>3, <1>4 DEF JobsApart

(* This unit's group, and those of the principals that collect logs. *)
OwnGroup(n) ==
  [key |-> "self", name |-> "juju", units |-> n, matches |-> 0, files |-> FALSE]
GroupOf(g, r) ==
  [key |-> r, name |-> g.payload[r].name, units |-> g.payload[r].units,
   matches |-> g.payload[r].matches, files |-> g.payload[r].files]
Logs(p) == p.units > 0 \/ p.matches > 0 \/ p.files

LEMMA InputGroups ==
  ASSUME NEW g
  PROVE  \A h : h \in Groups(BuilderInput(g)) <=>
           \/ g.options.units > 0 /\ h = OwnGroup(g.options.units)
           \/ \E r \in Sources(g) : Logs(g.payload[r]) /\ h = GroupOf(g, r)
<1>1. /\ BuilderInput(g).units = g.options.units
      /\ BuilderInput(g).groups = LogGroups(g)
  BY DEF BuilderInput
<1>2. \A h : h \in LogGroups(g) <=>
           \E r \in Sources(g) : Logs(g.payload[r]) /\ h = GroupOf(g, r)
  BY DEF LogGroups, Logs, GroupOf
<1>3. \A h : h \in Groups(BuilderInput(g)) <=>
           \/ BuilderInput(g).units > 0 /\ h = OwnGroup(BuilderInput(g).units)
           \/ h \in BuilderInput(g).groups
  BY DEF Groups, OnlyIf, OwnGroup
<1> QED BY <1>1, <1>2, <1>3

LEMMA InputNamed ==
  ASSUME NEW g, IsGiven(g) PROVE Named(BuilderInput(g)) /\ KeysApart(BuilderInput(g))
<1>1. "juju" \in Name /\ \A n \in Name : Sanitized[n] # Empty
  BY NameAssumption
<1>2. ASSUME NEW h \in Groups(BuilderInput(g)) PROVE Sanitized[h.name] # Empty
  <2>1. \A n, r : OwnGroup(n).name = "juju" /\ GroupOf(g, r).name = g.payload[r].name
    BY DEF OwnGroup, GroupOf
  <2>2. ASSUME NEW r \in Sources(g) PROVE g.payload[r].name \in Name
    <3>1. g.payload[r] \in ValidPayload
      BY SourcePayload
    <3> QED BY <3>1, PayloadFields
  <2>3. h = OwnGroup(g.options.units) \/ \E r \in Sources(g) : h = GroupOf(g, r)
    BY InputGroups
  <2>4. h.name \in Name
    BY <1>1, <2>1, <2>2, <2>3
  <2> QED BY <1>1, <2>4
<1>3. ASSUME NEW h \in Groups(BuilderInput(g)), NEW k \in Groups(BuilderInput(g)), h.key = k.key
      PROVE  h = k
  <2>1. \A r \in Sources(g) : r # "self"
    BY SourcePayload, KeyAssumption
  <2>2. h = OwnGroup(g.options.units) \/ \E r \in Sources(g) : h = GroupOf(g, r)
    BY InputGroups
  <2>3. k = OwnGroup(g.options.units) \/ \E r \in Sources(g) : k = GroupOf(g, r)
    BY InputGroups
  <2>4. OwnGroup(g.options.units).key = "self" /\ \A r : GroupOf(g, r).key = r
    BY DEF OwnGroup, GroupOf
  <2> QED BY <1>3, <2>1, <2>2, <2>3, <2>4
<1> QED BY <1>2, <1>3 DEF Named, KeysApart

LEMMA InputMatches ==
  ASSUME NEW g, IsGiven(g)
  PROVE  /\ HostMatches(BuilderInput(g)) = HostMatches(g.options)
         /\ HostMatches(g.options) \in Nat
<1>1. /\ BuilderInput(g).hostMatches = g.options.hostMatches
      /\ BuilderInput(g).kernel = g.options.kernel
  BY DEF BuilderInput
<1>2. g.options.hostMatches \in Nat
  BY DEF IsGiven
<1> QED BY <1>1, <1>2 DEF HostMatches

LEMMA InputLoads ==
  ASSUME NEW g, IsGiven(g) PROVE Loadable(Rendered(BuilderInput(g))) <=> Sound(g)
BY InputJobsApart, InputNamed, InputMatches, LoadableWhenApart DEF Sound

(* ConfigBuilder.build, _render_config_text: alloy loads what the charm     *)
(* renders exactly when no two names meet in a label and host journal logs  *)
(* are not alone, whatever is configured, related and published.            *)
THEOREM LoadsUnlessNamesMeetAlways == Spec => []LoadsUnlessNamesMeet
<1>1. IsGiven(given) => LoadsUnlessNamesMeet
  BY InputLoads DEF LoadsUnlessNamesMeet
<1> QED BY <1>1, GivenTyped, PTL

-----------------------------------------------------------------------------
(* What arrives: a reference leads to the one block that has it *)

Ends == {RemoteWrite, Writer}

(* The delivery of what b collects that comes through `stages` to r. *)
Arrival(blocks, b, stages, r) == Delivery(b.item, r, Topology(blocks, b, stages))

Carries(blocks, b, d) ==
  \/ \E r \in b.to \cap Ends : d = Arrival(blocks, b, {}, r)
  \/ \E c \in At(blocks, b.to) : \E r \in c.to \cap Ends : d = Arrival(blocks, b, {c}, r)

LEMMA DeliveredBySources ==
  ASSUME NEW blocks
  PROVE  \A d : d \in Delivered(blocks) <=>
           \E b \in blocks : b.item # Nothing /\ Carries(blocks, b, d)
<1> DEFINE arrives(b, stages, refs) == {Arrival(blocks, b, stages, r) : r \in refs \cap Ends}
           sent(b) == arrives(b, {}, b.to)
                        \cup (UNION {arrives(b, {c}, c.to) : c \in At(blocks, b.to)})
<1>1. ASSUME NEW b, NEW d PROVE d \in sent(b) <=> Carries(blocks, b, d)
  <2>1. \A stages, refs : d \in arrives(b, stages, refs) <=>
          \E r \in refs \cap Ends : d = Arrival(blocks, b, stages, r)
    OBVIOUS
  <2> HIDE DEF arrives
  <2>2. d \in sent(b) <=> \/ d \in arrives(b, {}, b.to)
                         \/ \E c \in At(blocks, b.to) : d \in arrives(b, {c}, c.to)
    OBVIOUS
  <2> QED BY <2>1, <2>2 DEF Carries
<1>2. Delivered(blocks) = UNION {sent(b) : b \in {c \in blocks : c.item # Nothing}}
  BY DEF Delivered, Arrival, Delivery, Ends
<1> HIDE DEF sent
<1> QED BY <1>1, <1>2

LEMMA AtOne ==
  ASSUME NEW blocks, LabelsDistinct(blocks), NEW c \in blocks
  PROVE  At(blocks, {c.ref}) = {c}
BY DEF At, LabelsDistinct

LEMMA AtNone == ASSUME NEW blocks PROVE At(blocks, {}) = {}
BY DEF At

(* Straight to an endpoint, which forwards to nothing. *)
LEMMA Straight ==
  ASSUME NEW blocks, LabelsDistinct(blocks), NEW b, NEW c \in blocks,
         b.to = {c.ref}, c.ref \in Ends, c.to = {}
  PROVE  \A d : Carries(blocks, b, d) <=> d = Arrival(blocks, b, {}, c.ref)
<1>1. At(blocks, b.to) = {c}
  BY AtOne
<1>2. b.to \cap Ends = {c.ref} /\ \A x \in {c} : x.to \cap Ends = {}
  OBVIOUS
<1> QED BY <1>1, <1>2 DEF Carries

(* Through a stage. *)
LEMMA Staged ==
  ASSUME NEW blocks, LabelsDistinct(blocks), NEW b, NEW c \in blocks,
         b.to = {c.ref}, c.ref \notin Ends
  PROVE  \A d : Carries(blocks, b, d) <=> \E r \in c.to \cap Ends : d = Arrival(blocks, b, {c}, r)
<1>1. At(blocks, b.to) = {c}
  BY AtOne
<1>2. b.to \cap Ends = {}
  OBVIOUS
<1> QED BY <1>1, <1>2 DEF Carries

LEMMA Nowhere ==
  ASSUME NEW blocks, NEW b, b.to = {} PROVE \A d : ~Carries(blocks, b, d)
BY AtNone DEF Carries

(* The topology of a block that reads one other block, and of one that reads none. *)
LEMMA TopologyOfReader ==
  ASSUME NEW blocks, LabelsDistinct(blocks), NEW b, NEW u \in blocks, b.uses = {u.ref}
  PROVE  /\ Topology(blocks, b, {}) = b.adds \cup u.adds
         /\ \A c : Topology(blocks, b, {c}) = b.adds \cup c.adds \cup u.adds
BY AtOne DEF Topology

LEMMA TopologyOfLoner ==
  ASSUME NEW blocks, NEW b, b.uses = {} PROVE Topology(blocks, b, {}) = b.adds
BY AtNone DEF Topology

LEMMA EndsAndStages ==
  /\ RemoteWrite \in Ends /\ Writer \in Ends /\ RemoteWrite # Writer
  /\ RemoteSyslog \notin Ends /\ \A g : Stage(g) \notin Ends
<1>1. RemoteWrite.kind = "prometheus.remote_write" /\ Writer.kind = "loki.write"
  BY Kinds
<1>2. RemoteSyslog.kind = "loki.process" /\ \A g : Stage(g).kind = "loki.process"
  BY Kinds
<1> QED BY <1>1, <1>2 DEF Ends

(* Where the rendered blocks send what they collect. *)
LEMMA Sends ==
  ASSUME NEW in
  PROVE  /\ LocalScrape(in).to = MetricsTo(in) /\ LocalScrape(in).uses = {LocalTargets}
         /\ \A j : JobScrape(in, j).to = MetricsTo(in) /\ JobScrape(in, j).uses = {}
         /\ \A g, i : UnitJournal(g, i).to = {Stage(g)} /\ UnitJournal(g, i).uses = {JournalRules}
         /\ \A g, i : MatchJournal(g, i).to = {Stage(g)} /\ MatchJournal(g, i).uses = {JournalRules}
         /\ \A g : FilesBlock(g).to = {Stage(g)} /\ FilesBlock(g).uses = {PathsRef(g)}
         /\ \A i : HostJournal(in, i).to = LogsTo(in) /\ HostJournal(in, i).uses = {JournalRules}
         /\ SyslogSource(in).to = OnlyIf(in.loki, {RemoteSyslog})
         /\ SyslogSource(in).uses = {SyslogRules}
         /\ \A g : GroupProcessor(in, g).to = LogsTo(in)
         /\ SyslogStage.to = {Writer} /\ WriteBlock.to = {} /\ WriterBlock.to = {}
<1>1. LocalScrape(in).to = MetricsTo(in) /\ LocalScrape(in).uses = {LocalTargets}
  BY DEF Block, LocalScrape
<1>2. \A j : JobScrape(in, j).to = MetricsTo(in) /\ JobScrape(in, j).uses = {}
  BY DEF Block, JobScrape
<1>3. \A g, i : UnitJournal(g, i).to = {Stage(g)} /\ UnitJournal(g, i).uses = {JournalRules}
  BY DEF Block, UnitJournal
<1>4. \A g, i : MatchJournal(g, i).to = {Stage(g)} /\ MatchJournal(g, i).uses = {JournalRules}
  BY DEF Block, MatchJournal
<1>5. \A g : FilesBlock(g).to = {Stage(g)} /\ FilesBlock(g).uses = {PathsRef(g)}
  BY DEF Block, FilesBlock
<1>6. \A i : HostJournal(in, i).to = LogsTo(in) /\ HostJournal(in, i).uses = {JournalRules}
  BY DEF Block, HostJournal
<1>7. SyslogSource(in).to = OnlyIf(in.loki, {RemoteSyslog}) /\ SyslogSource(in).uses = {SyslogRules}
  BY DEF Block, SyslogSource
<1>8. \A g : GroupProcessor(in, g).to = LogsTo(in)
  BY DEF Block, GroupProcessor
<1>9. SyslogStage.to = {Writer} /\ WriteBlock.to = {} /\ WriterBlock.to = {}
  BY DEF Block, SyslogStage, WriteBlock, WriterBlock
<1> QED BY <1>1, <1>2, <1>3, <1>4, <1>5, <1>6, <1>7, <1>8, <1>9

(* What they collect, and the topology they add. *)
LEMMA Collects ==
  ASSUME NEW in
  PROVE  /\ LocalScrape(in).item = Item("local", "self", 0) /\ LocalScrape(in).adds = {}
         /\ \A j : JobScrape(in, j).item = j.item /\ JobScrape(in, j).adds = {j.topology}
         /\ \A g, i : UnitJournal(g, i).item = Item("unit", g.key, i) /\ UnitJournal(g, i).adds = {}
         /\ \A g, i : MatchJournal(g, i).item = Item("match", g.key, i) /\ MatchJournal(g, i).adds = {}
         /\ \A g : FilesBlock(g).item = Item("files", g.key, 0) /\ FilesBlock(g).adds = {}
         /\ \A i : HostJournal(in, i).item = Item("host", "self", i) /\ HostJournal(in, i).adds = {}
         /\ SyslogSource(in).item = Item("syslog", "self", 0) /\ SyslogSource(in).adds = {}
         /\ \A g : GroupProcessor(in, g).adds = {g.key} /\ PathsBlock(g).adds = {}
         /\ SyslogStage.adds = {} /\ RulesBlock.adds = {} /\ SyslogRelabel.adds = {}
         /\ TargetsBlock.adds = {"self"}
<1>1. LocalScrape(in).item = Item("local", "self", 0) /\ LocalScrape(in).adds = {}
  BY DEF Block, LocalScrape
<1>2. \A j : JobScrape(in, j).item = j.item /\ JobScrape(in, j).adds = {j.topology}
  BY DEF Block, JobScrape
<1>3. \A g, i : UnitJournal(g, i).item = Item("unit", g.key, i) /\ UnitJournal(g, i).adds = {}
  BY DEF Block, UnitJournal
<1>4. \A g, i : MatchJournal(g, i).item = Item("match", g.key, i) /\ MatchJournal(g, i).adds = {}
  BY DEF Block, MatchJournal
<1>5. \A g : FilesBlock(g).item = Item("files", g.key, 0) /\ FilesBlock(g).adds = {}
  BY DEF Block, FilesBlock
<1>6. \A i : HostJournal(in, i).item = Item("host", "self", i) /\ HostJournal(in, i).adds = {}
  BY DEF Block, HostJournal
<1>7. SyslogSource(in).item = Item("syslog", "self", 0) /\ SyslogSource(in).adds = {}
  BY DEF Block, SyslogSource
<1>8. \A g : GroupProcessor(in, g).adds = {g.key} /\ PathsBlock(g).adds = {}
  BY DEF Block, GroupProcessor, PathsBlock
<1>9. /\ SyslogStage.adds = {} /\ RulesBlock.adds = {} /\ SyslogRelabel.adds = {}
      /\ TargetsBlock.adds = {"self"}
  BY DEF Block, SyslogStage, RulesBlock, SyslogRelabel, TargetsBlock
<1> QED BY <1>1, <1>2, <1>3, <1>4, <1>5, <1>6, <1>7, <1>8, <1>9

LEMMA Bare ==
  /\ ExporterBlock.item = Nothing /\ TargetsBlock.item = Nothing /\ WriteBlock.item = Nothing
  /\ \A in, g : GroupProcessor(in, g).item = Nothing
  /\ \A g : PathsBlock(g).item = Nothing
  /\ RulesBlock.item = Nothing /\ SyslogRelabel.item = Nothing /\ SyslogStage.item = Nothing
  /\ WriterBlock.item = Nothing
BY DEF Block, ExporterBlock, TargetsBlock, WriteBlock, GroupProcessor, PathsBlock, RulesBlock,
   SyslogRelabel, SyslogStage, WriterBlock

(* What each source delivers, source by source. *)

LEMMA LocalMetricsArrive ==
  ASSUME NEW in, LabelsDistinct(Rendered(in))
  PROVE  \A d : Carries(Rendered(in), LocalScrape(in), d) <=>
           in.remote /\ d = Delivery(Item("local", "self", 0), RemoteWrite, {"self"})
<1> DEFINE B == Rendered(in)
           b == LocalScrape(in)
<1>1. TargetsBlock \in B /\ (in.remote => WriteBlock \in B)
  BY Members DEF MetricBlock
<1>2. /\ TargetsBlock.ref = LocalTargets /\ TargetsBlock.adds = {"self"}
      /\ WriteBlock.ref = RemoteWrite /\ WriteBlock.to = {}
      /\ b.item = Item("local", "self", 0) /\ b.adds = {}
      /\ b.to = MetricsTo(in) /\ b.uses = {LocalTargets}
  BY Refs, Collects, Sends
<1> HIDE DEF b, B
<1>3. Topology(B, b, {}) = {} \cup {"self"}
  BY <1>1, <1>2, TopologyOfReader DEF B
<1>4. Arrival(B, b, {}, RemoteWrite) = Delivery(Item("local", "self", 0), RemoteWrite, {"self"})
  BY <1>2, <1>3 DEF Arrival
<1>5. ASSUME in.remote
      PROVE  \A d : Carries(B, b, d) <=> d = Arrival(B, b, {}, RemoteWrite)
  <2>1. b.to = {WriteBlock.ref} /\ WriteBlock.ref \in Ends
    BY <1>2, <1>5, EndsAndStages DEF MetricsTo, OnlyIf
  <2> QED BY <1>1, <1>2, <1>5, <2>1, Straight DEF B
<1>6. ASSUME ~in.remote PROVE \A d : ~Carries(B, b, d)
  BY <1>2, <1>6, Nowhere DEF MetricsTo, OnlyIf
<1>7. \A d : Carries(B, b, d) <=>
        in.remote /\ d = Delivery(Item("local", "self", 0), RemoteWrite, {"self"})
  BY <1>4, <1>5, <1>6
<1> QED BY <1>7 DEF B, b

LEMMA JobMetricsArrive ==
  ASSUME NEW in, LabelsDistinct(Rendered(in)), in.remote, NEW j \in in.jobs
  PROVE  \A d : Carries(Rendered(in), JobScrape(in, j), d) <=>
           d = Delivery(j.item, RemoteWrite, {j.topology})
<1> DEFINE B == Rendered(in)
           b == JobScrape(in, j)
<1>1. WriteBlock \in B
  BY Members DEF MetricBlock
<1>2. /\ WriteBlock.ref = RemoteWrite /\ WriteBlock.to = {}
      /\ b.item = j.item /\ b.adds = {j.topology}
      /\ b.to = MetricsTo(in) /\ b.uses = {}
  BY DEF Block, JobScrape, WriteBlock
<1> HIDE DEF b, B
<1>3. Topology(B, b, {}) = {j.topology}
  BY <1>2, TopologyOfLoner
<1>4. Arrival(B, b, {}, RemoteWrite) = Delivery(j.item, RemoteWrite, {j.topology})
  BY <1>2, <1>3 DEF Arrival
<1>5. b.to = {WriteBlock.ref} /\ WriteBlock.ref \in Ends
  BY <1>2, EndsAndStages DEF MetricsTo, OnlyIf
<1>6. \A d : Carries(B, b, d) <=> d = Arrival(B, b, {}, RemoteWrite)
  BY <1>1, <1>2, <1>5, Straight DEF B
<1> QED BY <1>4, <1>6 DEF B, b

(* A source of a group goes through the group's stage, and reads a block that *)
(* adds no topology.                                                          *)
LEMMA GroupSourceArrives ==
  ASSUME NEW in, LabelsDistinct(Rendered(in)), NEW g \in Groups(in), NEW b,
         NEW u \in Rendered(in), b.to = {Stage(g)}, b.uses = {u.ref}, b.adds = {}, u.adds = {}
  PROVE  \A d : Carries(Rendered(in), b, d) <=> in.loki /\ d = Delivery(b.item, Writer, {g.key})
<1> DEFINE B == Rendered(in)
           c == GroupProcessor(in, g)
<1>1. c \in B
  BY GroupRendered
<1>2. c.ref = Stage(g) /\ c.adds = {g.key} /\ c.to = LogsTo(in)
  BY DEF Block, GroupProcessor
<1> HIDE DEF c, B
<1>3. Topology(B, b, {c}) = {} \cup {g.key} \cup {}
  BY <1>1, <1>2, TopologyOfReader DEF B
<1>4. Arrival(B, b, {c}, Writer) = Delivery(b.item, Writer, {g.key})
  BY <1>3 DEF Arrival
<1>5. c.ref \notin Ends
  BY <1>2, EndsAndStages
<1>6. \A d : Carries(B, b, d) <=> \E r \in c.to \cap Ends : d = Arrival(B, b, {c}, r)
  BY <1>1, <1>2, <1>5, Staged DEF B
<1>7. c.to \cap Ends = IF in.loki THEN {Writer} ELSE {}
  BY <1>2, EndsAndStages DEF LogsTo, OnlyIf
<1> QED BY <1>4, <1>6, <1>7 DEF B

LEMMA UnitLogsArrive ==
  ASSUME NEW in, LabelsDistinct(Rendered(in)), NEW g \in Groups(in), NEW i, NEW d
  PROVE  Carries(Rendered(in), UnitJournal(g, i), d) <=>
           in.loki /\ d = Delivery(Item("unit", g.key, i), Writer, {g.key})
<1>1. RulesBlock \in Rendered(in)
  BY Members DEF LogBlock
<1>2. RulesBlock.ref = JournalRules /\ RulesBlock.adds = {}
  BY DEF Block, RulesBlock
<1>3. /\ UnitJournal(g, i).to = {Stage(g)} /\ UnitJournal(g, i).uses = {RulesBlock.ref}
      /\ UnitJournal(g, i).item = Item("unit", g.key, i) /\ UnitJournal(g, i).adds = {}
  BY <1>2 DEF Block, UnitJournal
<1>4. \A x : Carries(Rendered(in), UnitJournal(g, i), x) <=>
              in.loki /\ x = Delivery(UnitJournal(g, i).item, Writer, {g.key})
  BY <1>1, <1>2, <1>3, GroupSourceArrives
<1> QED BY <1>3, <1>4

LEMMA MatchLogsArrive ==
  ASSUME NEW in, LabelsDistinct(Rendered(in)), NEW g \in Groups(in), NEW i, NEW d
  PROVE  Carries(Rendered(in), MatchJournal(g, i), d) <=>
           in.loki /\ d = Delivery(Item("match", g.key, i), Writer, {g.key})
<1>1. RulesBlock \in Rendered(in)
  BY Members DEF LogBlock
<1>2. RulesBlock.ref = JournalRules /\ RulesBlock.adds = {}
  BY DEF Block, RulesBlock
<1>3. /\ MatchJournal(g, i).to = {Stage(g)} /\ MatchJournal(g, i).uses = {RulesBlock.ref}
      /\ MatchJournal(g, i).item = Item("match", g.key, i) /\ MatchJournal(g, i).adds = {}
  BY <1>2 DEF Block, MatchJournal
<1>4. \A x : Carries(Rendered(in), MatchJournal(g, i), x) <=>
              in.loki /\ x = Delivery(MatchJournal(g, i).item, Writer, {g.key})
  BY <1>1, <1>2, <1>3, GroupSourceArrives
<1> QED BY <1>3, <1>4

LEMMA FileLogsArrive ==
  ASSUME NEW in, LabelsDistinct(Rendered(in)), NEW g \in Groups(in), g.files, NEW d
  PROVE  Carries(Rendered(in), FilesBlock(g), d) <=>
           in.loki /\ d = Delivery(Item("files", g.key, 0), Writer, {g.key})
<1>1. PathsBlock(g) \in Rendered(in)
  BY Members DEF GroupBlock
<1>2. PathsBlock(g).ref = PathsRef(g) /\ PathsBlock(g).adds = {}
  BY DEF Block, PathsBlock
<1>3. /\ FilesBlock(g).to = {Stage(g)} /\ FilesBlock(g).uses = {PathsBlock(g).ref}
      /\ FilesBlock(g).item = Item("files", g.key, 0) /\ FilesBlock(g).adds = {}
  BY <1>2 DEF Block, FilesBlock
<1>4. \A x : Carries(Rendered(in), FilesBlock(g), x) <=>
              in.loki /\ x = Delivery(FilesBlock(g).item, Writer, {g.key})
  BY <1>1, <1>2, <1>3, GroupSourceArrives
<1> QED BY <1>3, <1>4

LEMMA HostLogsArrive ==
  ASSUME NEW in, LabelsDistinct(Rendered(in)), Groups(in) # {}, NEW i \in 1..HostMatches(in),
         HostMatches(in) \in Nat
  PROVE  \A d : Carries(Rendered(in), HostJournal(in, i), d) <=>
           in.loki /\ d = Delivery(Item("host", "self", i), Writer, {})
<1> DEFINE B == Rendered(in)
           b == HostJournal(in, i)
<1>1. RulesBlock \in B /\ (in.loki => WriterBlock \in B)
  BY Members DEF LogBlock, HasLogPipeline
<1>2. /\ RulesBlock.ref = JournalRules /\ RulesBlock.adds = {}
      /\ WriterBlock.ref = Writer /\ WriterBlock.to = {}
      /\ b.item = Item("host", "self", i) /\ b.adds = {}
      /\ b.to = LogsTo(in) /\ b.uses = {JournalRules}
  BY DEF Block, RulesBlock, WriterBlock, HostJournal
<1> HIDE DEF b, B
<1>3. Topology(B, b, {}) = {} \cup {}
  BY <1>1, <1>2, TopologyOfReader DEF B
<1>4. Arrival(B, b, {}, Writer) = Delivery(Item("host", "self", i), Writer, {})
  BY <1>2, <1>3 DEF Arrival
<1>5. ASSUME in.loki PROVE \A d : Carries(B, b, d) <=> d = Arrival(B, b, {}, Writer)
  <2>1. b.to = {WriterBlock.ref} /\ WriterBlock.ref \in Ends
    BY <1>2, <1>5, EndsAndStages DEF LogsTo, OnlyIf
  <2> QED BY <1>1, <1>2, <1>5, <2>1, Straight DEF B
<1>6. ASSUME ~in.loki PROVE \A d : ~Carries(B, b, d)
  BY <1>2, <1>6, Nowhere DEF LogsTo, OnlyIf
<1>7. \A d : Carries(B, b, d) <=> in.loki /\ d = Delivery(Item("host", "self", i), Writer, {})
  BY <1>4, <1>5, <1>6
<1> QED BY <1>7 DEF B, b

LEMMA SyslogArrives ==
  ASSUME NEW in, LabelsDistinct(Rendered(in)), in.syslog
  PROVE  \A d : Carries(Rendered(in), SyslogSource(in), d) <=>
           in.loki /\ d = Delivery(Item("syslog", "self", 0), Writer, {})
<1> DEFINE B == Rendered(in)
           b == SyslogSource(in)
<1>1. SyslogRelabel \in B /\ (in.loki => SyslogStage \in B)
  BY Members DEF LogBlock
<1>2. /\ SyslogRelabel.ref = SyslogRules /\ SyslogRelabel.adds = {}
      /\ SyslogStage.ref = RemoteSyslog /\ SyslogStage.to = {Writer} /\ SyslogStage.adds = {}
      /\ b.item = Item("syslog", "self", 0) /\ b.adds = {}
      /\ b.to = OnlyIf(in.loki, {RemoteSyslog}) /\ b.uses = {SyslogRules}
  BY DEF Block, SyslogRelabel, SyslogStage, SyslogSource
<1> HIDE DEF b, B
<1>3. Topology(B, b, {SyslogStage}) = {} \cup {} \cup {}
  BY <1>1, <1>2, TopologyOfReader DEF B
<1>4. Arrival(B, b, {SyslogStage}, Writer) = Delivery(Item("syslog", "self", 0), Writer, {})
  BY <1>2, <1>3 DEF Arrival
<1>5. ASSUME in.loki PROVE \A d : Carries(B, b, d) <=> d = Arrival(B, b, {SyslogStage}, Writer)
  <2>1. b.to = {SyslogStage.ref} /\ SyslogStage.ref \notin Ends
    BY <1>2, <1>5, EndsAndStages DEF OnlyIf
  <2>2. \A d : Carries(B, b, d) <=>
          \E r \in SyslogStage.to \cap Ends : d = Arrival(B, b, {SyslogStage}, r)
    BY <1>1, <1>5, <2>1, Staged DEF B
  <2>3. SyslogStage.to \cap Ends = {Writer}
    BY <1>2, EndsAndStages
  <2> QED BY <2>2, <2>3
<1>6. ASSUME ~in.loki PROVE \A d : ~Carries(B, b, d)
  BY <1>2, <1>6, Nowhere DEF OnlyIf
<1>7. \A d : Carries(B, b, d) <=> in.loki /\ d = Delivery(Item("syslog", "self", 0), Writer, {})
  BY <1>4, <1>5, <1>6
<1> QED BY <1>7 DEF B, b

(* What is delivered of one group, and of all that the builder is given. *)
OfGroup(g, d) ==
  \/ \E i \in 1..g.units : d = Delivery(Item("unit", g.key, i), Writer, {g.key})
  \/ \E i \in 1..g.matches : d = Delivery(Item("match", g.key, i), Writer, {g.key})
  \/ g.files /\ d = Delivery(Item("files", g.key, 0), Writer, {g.key})
OfInput(in, d) ==
  \/ in.remote /\ d = Delivery(Item("local", "self", 0), RemoteWrite, {"self"})
  \/ in.remote /\ \E j \in in.jobs : d = Delivery(j.item, RemoteWrite, {j.topology})
  \/ in.loki /\ \E g \in Groups(in) : OfGroup(g, d)
  \/ in.loki /\ \E i \in 1..HostMatches(in) : d = Delivery(Item("host", "self", i), Writer, {})
  \/ in.loki /\ in.syslog /\ d = Delivery(Item("syslog", "self", 0), Writer, {})

LEMMA SourceItems ==
  ASSUME NEW in, JobsApart(in)
  PROVE  /\ LocalScrape(in).item # Nothing /\ SyslogSource(in).item # Nothing
         /\ \A j \in in.jobs : JobScrape(in, j).item # Nothing
         /\ \A g, i : UnitJournal(g, i).item # Nothing /\ MatchJournal(g, i).item # Nothing
         /\ \A g : FilesBlock(g).item # Nothing
         /\ \A i : HostJournal(in, i).item # Nothing
<1>1. ASSUME NEW from, NEW key, NEW index, from # "nothing"
      PROVE  Item(from, key, index) # Nothing
  BY <1>1 DEF Item, Nothing
<1>2. LocalScrape(in).item # Nothing
  BY <1>1 DEF Block, LocalScrape
<1>3. SyslogSource(in).item # Nothing
  BY <1>1 DEF Block, SyslogSource
<1>4. \A j \in in.jobs : JobScrape(in, j).item # Nothing
  BY DEF Block, JobScrape, JobsApart
<1>5. \A g, i : UnitJournal(g, i).item # Nothing
  BY <1>1 DEF Block, UnitJournal
<1>6. \A g, i : MatchJournal(g, i).item # Nothing
  BY <1>1 DEF Block, MatchJournal
<1>7. \A g : FilesBlock(g).item # Nothing
  BY <1>1 DEF Block, FilesBlock
<1>8. \A i : HostJournal(in, i).item # Nothing
  BY <1>1 DEF Block, HostJournal
<1> QED BY <1>2, <1>3, <1>4, <1>5, <1>6, <1>7, <1>8

LEMMA InputDelivered ==
  ASSUME NEW in, LabelsDistinct(Rendered(in)), JobsApart(in), HostMatches(in) \in Nat,
         Groups(in) # {} \/ HostMatches(in) = 0
  PROVE  \A d : d \in Delivered(Rendered(in)) <=> OfInput(in, d)
<1> DEFINE B == Rendered(in)
           Gives(b, d) == b.item # Nothing /\ Carries(B, b, d)
<1>0. \A i \in 1..HostMatches(in) : Groups(in) # {}
  <2>1. 1..0 = {}
    OBVIOUS
  <2> QED BY <2>1
<1>1. ASSUME NEW b, NEW d, MetricBlock(in, b), Gives(b, d) PROVE OfInput(in, d)
  <2>1. CASE b = LocalScrape(in)
    BY <1>1, <2>1, LocalMetricsArrive DEF OfInput
  <2>2. ASSUME in.remote, NEW j \in in.jobs, b = JobScrape(in, j) PROVE OfInput(in, d)
    BY <1>1, <2>2, JobMetricsArrive DEF OfInput
  <2> QED BY <1>1, <2>1, <2>2, Bare DEF MetricBlock
<1>2. ASSUME NEW b, NEW d, NEW g \in Groups(in), GroupBlock(in, g, b), Gives(b, d)
      PROVE  in.loki /\ OfGroup(g, d)
  <2>1. ASSUME NEW i \in 1..g.units, b = UnitJournal(g, i) PROVE in.loki /\ OfGroup(g, d)
    <3>1. Carries(B, UnitJournal(g, i), d) <=> in.loki /\ d = Delivery(Item("unit", g.key, i), Writer, {g.key})
      BY <2>1, UnitLogsArrive
    <3> QED BY <1>2, <2>1, <3>1 DEF OfGroup
  <2>2. ASSUME NEW i \in 1..g.matches, b = MatchJournal(g, i) PROVE in.loki /\ OfGroup(g, d)
    <3>1. Carries(B, MatchJournal(g, i), d) <=> in.loki /\ d = Delivery(Item("match", g.key, i), Writer, {g.key})
      BY <2>2, MatchLogsArrive
    <3> QED BY <1>2, <2>2, <3>1 DEF OfGroup
  <2>3. ASSUME g.files, b = FilesBlock(g) PROVE in.loki /\ OfGroup(g, d)
    <3>1. Carries(B, FilesBlock(g), d) <=> in.loki /\ d = Delivery(Item("files", g.key, 0), Writer, {g.key})
      BY <2>3, FileLogsArrive
    <3> QED BY <1>2, <2>3, <3>1 DEF OfGroup
  <2> QED BY <1>2, <2>1, <2>2, <2>3, Bare DEF GroupBlock
<1>3. ASSUME NEW b, NEW d, LogBlock(in, b), Gives(b, d) PROVE OfInput(in, d)
  <2>1. ASSUME NEW i \in 1..HostMatches(in), b = HostJournal(in, i) PROVE OfInput(in, d)
    BY <1>0, <1>3, <2>1, HostLogsArrive DEF OfInput
  <2>2. ASSUME in.syslog, b = SyslogSource(in) PROVE OfInput(in, d)
    BY <1>3, <2>2, SyslogArrives DEF OfInput
  <2> QED BY <1>3, <2>1, <2>2, Bare DEF LogBlock
<1>4. ASSUME NEW d, NEW b \in B, Gives(b, d) PROVE OfInput(in, d)
  <2>1. ASSUME NEW g \in Groups(in), GroupBlock(in, g, b) PROVE OfInput(in, d)
    BY <1>2, <1>4, <2>1 DEF OfInput
  <2> QED BY <1>1, <1>3, <1>4, <2>1, Members
<1>5. ASSUME NEW d, OfInput(in, d) PROVE \E b \in B : Gives(b, d)
  <2>1. CASE in.remote /\ d = Delivery(Item("local", "self", 0), RemoteWrite, {"self"})
    <3>1. LocalScrape(in) \in B
      BY Members DEF MetricBlock
    <3> QED BY <2>1, <3>1, LocalMetricsArrive, SourceItems
  <2>2. ASSUME in.remote, NEW j \in in.jobs, d = Delivery(j.item, RemoteWrite, {j.topology})
        PROVE  \E b \in B : Gives(b, d)
    <3>1. JobScrape(in, j) \in B
      BY <2>2, Members DEF MetricBlock
    <3> QED BY <2>2, <3>1, JobMetricsArrive, SourceItems
  <2>3. ASSUME in.loki, NEW g \in Groups(in), OfGroup(g, d)
        PROVE  \E b \in B : Gives(b, d)
    <3>1. ASSUME NEW i \in 1..g.units, d = Delivery(Item("unit", g.key, i), Writer, {g.key})
          PROVE  \E b \in B : Gives(b, d)
      <4>1. UnitJournal(g, i) \in B
        BY <3>1, Members DEF GroupBlock
      <4>2. Carries(B, UnitJournal(g, i), d) <=> in.loki /\ d = Delivery(Item("unit", g.key, i), Writer, {g.key})
        BY UnitLogsArrive
      <4>3. UnitJournal(g, i).item # Nothing
        BY SourceItems
      <4> QED BY <2>3, <3>1, <4>1, <4>2, <4>3
    <3>2. ASSUME NEW i \in 1..g.matches, d = Delivery(Item("match", g.key, i), Writer, {g.key})
          PROVE  \E b \in B : Gives(b, d)
      <4>1. MatchJournal(g, i) \in B
        BY <3>2, Members DEF GroupBlock
      <4>2. Carries(B, MatchJournal(g, i), d) <=> in.loki /\ d = Delivery(Item("match", g.key, i), Writer, {g.key})
        BY MatchLogsArrive
      <4>3. MatchJournal(g, i).item # Nothing
        BY SourceItems
      <4> QED BY <2>3, <3>2, <4>1, <4>2, <4>3
    <3>3. ASSUME g.files, d = Delivery(Item("files", g.key, 0), Writer, {g.key})
          PROVE  \E b \in B : Gives(b, d)
      <4>1. FilesBlock(g) \in B
        BY <3>3, Members DEF GroupBlock
      <4> QED BY <2>3, <3>3, <4>1, FileLogsArrive, SourceItems
    <3> QED BY <2>3, <3>1, <3>2, <3>3 DEF OfGroup
  <2>4. ASSUME in.loki, NEW i \in 1..HostMatches(in),
               d = Delivery(Item("host", "self", i), Writer, {})
        PROVE  \E b \in B : Gives(b, d)
    <3>1. HostJournal(in, i) \in B
      BY <2>4, Members DEF LogBlock
    <3> QED BY <1>0, <2>4, <3>1, HostLogsArrive, SourceItems
  <2>5. CASE in.loki /\ in.syslog /\ d = Delivery(Item("syslog", "self", 0), Writer, {})
    <3>1. SyslogSource(in) \in B
      BY <2>5, Members DEF LogBlock
    <3> QED BY <2>5, <3>1, SyslogArrives, SourceItems
  <2> QED BY <1>5, <2>1, <2>2, <2>3, <2>4, <2>5 DEF OfInput
<1> QED BY <1>4, <1>5, DeliveredBySources

(* What is delivered is what was asked for. *)

LEMMA InputFields ==
  ASSUME NEW g
  PROVE  /\ BuilderInput(g).loki = g.loki /\ BuilderInput(g).remote = g.remote
         /\ BuilderInput(g).jobs = ActiveJobs(g) /\ BuilderInput(g).syslog = g.options.syslog
BY DEF BuilderInput

LEMMA MetricsPromised ==
  ASSUME NEW g, ~g.options.override, g.remote, NEW d
  PROVE  d \in PromisedMetrics(g) <=>
           \/ d = Delivery(Item("local", "self", 0), RemoteWrite, {"self"})
           \/ \E j \in ActiveJobs(g) : d = Delivery(j.item, RemoteWrite, {j.topology})
<1> DEFINE Manual == \E i \in 1..Len(g.options.manual) :
                       d = Delivery(Item("manual", g.options.manual[i], 0), RemoteWrite, {"self"})
           Related == \E k \in g.jobs :
                        k.supported /\ d = Delivery(Item("related", k.name, 0), RemoteWrite, {k.unit})
           Machine == \E r \in Sources(g) : \E i \in 1..g.payload[r].endpoints :
                        d = Delivery(Item("machine", r, i), RemoteWrite, {r})
           Of(j) == d = Delivery(j.item, RemoteWrite, {j.topology})
<1>1. d \in PromisedMetrics(g) <=>
        \/ d = Delivery(Item("local", "self", 0), RemoteWrite, {"self"})
        \/ Manual \/ Related \/ Machine
  <2> DEFINE Mine(r) == {Delivery(Item("machine", r, i), RemoteWrite, {r}) :
                           i \in 1..g.payload[r].endpoints}
             ManualSet == {Delivery(Item("manual", g.options.manual[i], 0), RemoteWrite, {"self"}) :
                             i \in 1..Len(g.options.manual)}
             RelatedSet == {Delivery(Item("related", j.name, 0), RemoteWrite, {j.unit}) :
                              j \in {k \in g.jobs : k.supported}}
  <2>1. (d \in ManualSet <=> Manual) /\ (d \in RelatedSet <=> Related)
    OBVIOUS
  <2>2. (\E r \in Sources(g) : d \in Mine(r)) <=> Machine
    OBVIOUS
  <2>3. PromisedMetrics(g) = {Delivery(Item("local", "self", 0), RemoteWrite, {"self"})}
          \cup ManualSet \cup RelatedSet \cup (UNION {Mine(r) : r \in Sources(g)})
    BY DEF PromisedMetrics
  <2> HIDE DEF Mine, ManualSet, RelatedSet, Manual, Related, Machine
  <2> QED BY <2>1, <2>2, <2>3
<1>2. \A item, name, topology :
        Of(JobOf(item, name, topology)) <=> d = Delivery(item, RemoteWrite, {topology})
  BY JobParts
<1> HIDE DEF Of
<1>3. (\E j \in ActiveJobs(g) : IsManual(g, j) /\ Of(j)) <=> Manual
  BY <1>2, ActiveJob DEF IsManual
<1>4. (\E j \in ActiveJobs(g) : IsRelated(g, j) /\ Of(j)) <=> Related
  <2>1. ASSUME NEW j, IsRelated(g, j), Of(j) PROVE Related
    BY <1>2, <2>1 DEF IsRelated
  <2>2. ASSUME Related PROVE \E j \in ActiveJobs(g) : IsRelated(g, j) /\ Of(j)
    <3>1. PICK k \in g.jobs :
            k.supported /\ d = Delivery(Item("related", k.name, 0), RemoteWrite, {k.unit})
      BY <2>2
    <3> DEFINE j == JobOf(Item("related", k.name, 0), JobName(g, k), k.unit)
    <3>2. IsRelated(g, j) /\ Of(j)
      BY <1>2, <3>1 DEF IsRelated
    <3> QED BY <3>2, ActiveJob
  <2> QED BY <2>1, <2>2
<1>5. (\E j \in ActiveJobs(g) : IsMachine(g, j) /\ Of(j)) <=> Machine
  <2>1. ASSUME NEW j, IsMachine(g, j), Of(j) PROVE Machine
    BY <1>2, <2>1 DEF IsMachine
  <2>2. ASSUME Machine PROVE \E j \in ActiveJobs(g) : IsMachine(g, j) /\ Of(j)
    <3>1. PICK r \in Sources(g) : \E i \in 1..g.payload[r].endpoints :
            d = Delivery(Item("machine", r, i), RemoteWrite, {r})
      BY <2>2
    <3>2. PICK i \in 1..g.payload[r].endpoints :
            d = Delivery(Item("machine", r, i), RemoteWrite, {r})
      BY <3>1
    <3> DEFINE j == JobOf(Item("machine", r, i), MachineName(g.payload[r], i), r)
    <3>3. IsMachine(g, j) /\ Of(j)
      BY <1>2, <3>2 DEF IsMachine
    <3> QED BY <3>3, ActiveJob
  <2> QED BY <2>1, <2>2
<1>6. (\E j \in ActiveJobs(g) : Of(j)) <=> Manual \/ Related \/ Machine
  BY <1>3, <1>4, <1>5, ActiveJob
<1> QED BY <1>1, <1>6 DEF Of

(* Of a principal without logs nothing is promised, and it has no group. *)
LEMMA PrincipalPromised ==
  ASSUME NEW g, IsGiven(g), NEW r \in Sources(g), NEW d
  PROVE  /\ d \in PromisedOfPrincipal(g, r) <=> OfGroup(GroupOf(g, r), d)
         /\ d \in PromisedOfPrincipal(g, r) => Logs(g.payload[r])
<1>1. d \in PromisedOfPrincipal(g, r) <=> OfGroup(GroupOf(g, r), d)
  <2> DEFINE h == GroupOf(g, r)
  <2>1. /\ h.key = r /\ h.units = g.payload[r].units /\ h.matches = g.payload[r].matches
        /\ h.files = g.payload[r].files
    BY DEF GroupOf
  <2> HIDE DEF h
  <2>2. OfGroup(h, d) <=>
          \/ \E i \in 1..g.payload[r].units : d = Delivery(Item("unit", r, i), Writer, {r})
          \/ \E i \in 1..g.payload[r].matches : d = Delivery(Item("match", r, i), Writer, {r})
          \/ g.payload[r].files /\ d = Delivery(Item("files", r, 0), Writer, {r})
    BY <2>1 DEF OfGroup
  <2> QED BY <2>2 DEF PromisedOfPrincipal, OnlyIf, h
<1>2. g.payload[r].units \in Nat /\ g.payload[r].matches \in Nat
  BY SourcePayload, PayloadFields
<1>3. ASSUME d \in PromisedOfPrincipal(g, r) PROVE Logs(g.payload[r])
  BY <1>2, <1>3 DEF PromisedOfPrincipal, OnlyIf, Logs
<1> QED BY <1>1, <1>3

LEMMA LogsPromised ==
  ASSUME NEW g, IsGiven(g), NEW d
  PROVE  d \in PromisedLogs(g) <=>
           \/ \E h \in Groups(BuilderInput(g)) : OfGroup(h, d)
           \/ \E i \in 1..HostMatches(g.options) : d = Delivery(Item("host", "self", i), Writer, {})
           \/ g.options.syslog /\ d = Delivery(Item("syslog", "self", 0), Writer, {})
<1> DEFINE own == OwnGroup(g.options.units)
           Own == \E i \in 1..g.options.units : d = Delivery(Item("unit", "self", i), Writer, {"self"})
           Principal == \E r \in Sources(g) : d \in PromisedOfPrincipal(g, r)
           Host == \E i \in 1..HostMatches(g.options) : d = Delivery(Item("host", "self", i), Writer, {})
           Sys == g.options.syslog /\ d = Delivery(Item("syslog", "self", 0), Writer, {})
<1>1. d \in PromisedLogs(g) <=> Own \/ Principal \/ Host \/ Sys
  BY DEF PromisedLogs, PromisedHostLogs, OnlyIf
<1>2. OfGroup(own, d) <=> Own
  <2>1. own.key = "self" /\ own.units = g.options.units /\ own.matches = 0 /\ ~own.files
    BY DEF OwnGroup
  <2>2. 1..own.matches = {}
    BY <2>1
  <2> QED BY <2>1, <2>2 DEF OfGroup
<1>3. Own => g.options.units > 0
  <2>1. g.options.units \in Nat
    BY DEF IsGiven
  <2> QED BY <2>1
<1> HIDE DEF Own, own
<1>4. (\E h \in Groups(BuilderInput(g)) : OfGroup(h, d)) <=> Own \/ Principal
  BY <1>2, <1>3, InputGroups, PrincipalPromised DEF own
<1> QED BY <1>1, <1>4

LEMMA PromisedIsDelivered ==
  ASSUME NEW g, IsGiven(g), ~g.options.override, Sound(g)
  PROVE  Delivered(Rendered(BuilderInput(g))) = Promised(g)
<1> DEFINE in == BuilderInput(g)
<1>1. Loadable(Rendered(in)) /\ ~HostLogsAlone(in)
  BY InputLoads DEF Sound
<1>2. HostMatches(in) = HostMatches(g.options) /\ HostMatches(in) \in Nat
  BY InputMatches
<1>3. Groups(in) # {} \/ HostMatches(in) = 0
  BY <1>1, <1>2 DEF HostLogsAlone
<1>4. \A d : d \in Delivered(Rendered(in)) <=> OfInput(in, d)
  BY <1>1, <1>2, <1>3, InputDelivered, InputJobsApart DEF Loadable
<1>5. ASSUME NEW d PROVE OfInput(in, d) <=> d \in Promised(g)
  <2>1. d \in Promised(g) <=> (g.remote /\ d \in PromisedMetrics(g)) \/ (g.loki /\ d \in PromisedLogs(g))
    BY DEF Promised, OnlyIf
  <2>2. /\ in.loki = g.loki /\ in.remote = g.remote /\ in.jobs = ActiveJobs(g)
        /\ in.syslog = g.options.syslog
    BY InputFields
  <2>3. d \in PromisedLogs(g) <=>
          \/ \E h \in Groups(in) : OfGroup(h, d)
          \/ \E i \in 1..HostMatches(in) : d = Delivery(Item("host", "self", i), Writer, {})
          \/ in.syslog /\ d = Delivery(Item("syslog", "self", 0), Writer, {})
    BY <1>2, <2>2, LogsPromised
  <2>4. g.remote =>
          (d \in PromisedMetrics(g) <=>
             \/ d = Delivery(Item("local", "self", 0), RemoteWrite, {"self"})
             \/ \E j \in in.jobs : d = Delivery(j.item, RemoteWrite, {j.topology}))
    BY <2>2, MetricsPromised
  <2> HIDE DEF in
  <2> QED BY <2>1, <2>2, <2>3, <2>4 DEF OfInput
<1> QED BY <1>4, <1>5

-----------------------------------------------------------------------------
(* What runs *)

(* When the hooks have run, the file is what options and relations ask for, *)
(* and what runs is the file, if it loads.                                  *)
ConfigCurrent ==
  ~pending /\ status # "blocked" =>
    config = ConfigText(given) /\ (Loadable(config) => running = config)

LEMMA ConfigCurrentAlways == Spec => []ConfigCurrent
<1>1. Init => ConfigCurrent
  BY DEF Init, ConfigCurrent
<1>2. ConfigCurrent /\ [Next]_vars => ConfigCurrent'
  <2> SUFFICES ASSUME ConfigCurrent, [Next]_vars PROVE ConfigCurrent'
    OBVIOUS
  <2>1. CASE Refuse
    BY <2>1 DEF Refuse, ConfigCurrent
  <2>2. CASE Configure
    BY <2>2 DEF Configure, ConfigCurrent
  <2>3. CASE pending'
    BY <2>3 DEF ConfigCurrent
  <2>4. CASE UNCHANGED vars
    BY <2>4 DEF ConfigCurrent, vars
  <2>5. ASSUME NEW g, Becomes(g) PROVE pending'
    BY <2>5 DEF Becomes
  <2> QED BY <2>1, <2>2, <2>3, <2>4, <2>5
      DEF Next, ChangeOptions, EndpointsChange, ScrapeJobsChange, PrincipalPublishes
<1> QED BY <1>1, <1>2, PTL DEF Spec

(* When the hooks have run and names are apart, alloy delivers every source *)
(* of every option and relation to the endpoints there are, once, with the  *)
(* topology of the application it comes from, and nothing else.             *)
THEOREM DeliversPromisedAlways == Spec => []DeliversPromised
<1>1. IsGiven(given) /\ ConfigCurrent => DeliversPromised
  <2> SUFFICES ASSUME IsGiven(given), ConfigCurrent, ~pending, status # "blocked",
                      ~given.options.override, Sound(given)
               PROVE  Delivered(running) = Promised(given)
    BY DEF DeliversPromised
  <2>1. config = Rendered(BuilderInput(given))
    BY DEF ConfigCurrent, ConfigText
  <2>2. running = config
    BY <2>1, InputLoads DEF ConfigCurrent
  <2> QED BY <2>1, <2>2, PromisedIsDelivered
<1> QED BY <1>1, GivenTyped, ConfigCurrentAlways, PTL
=============================================================================
