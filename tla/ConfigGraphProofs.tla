-------------------------- MODULE ConfigGraphProofs --------------------------
(***************************************************************************)
(* What the config builder renders refers to nothing it does not render,   *)
(* for any number of endpoints, jobs, groups, units and matches -- unless  *)
(* host journal logs are collected alone.  Then, what it renders block by  *)
(* block: the facts module TelemetryProofs builds on.                      *)
(***************************************************************************)
EXTENDS ConfigGraph, TLAPS

(* The blocks of a group are rendered, and their stage with them. *)
LEMMA GroupRendered ==
  ASSUME NEW in, NEW g \in Groups(in)
  PROVE  /\ GroupProcessor(in, g) \in Rendered(in)
         /\ GroupJournals(g) \subseteq Rendered(in)
         /\ GroupFiles(g) \subseteq Rendered(in)
BY DEF Rendered, LogBlocks, GroupBlocks

LEMMA DeclaredIfRendered ==
  ASSUME NEW blocks, NEW b \in blocks
  PROVE  b.ref \in Declared(blocks)
BY DEF Declared

(* Whatever has a Loki endpoint and collects logs has the writer; whatever *)
(* forwards metrics has the remote write.                                  *)
LEMMA EndsDeclared ==
  ASSUME NEW in
  PROVE  /\ MetricsTo(in) \subseteq Declared(Rendered(in))
         /\ HasLogPipeline(in) => LogsTo(in) \subseteq Declared(Rendered(in))
<1>1. MetricsTo(in) \subseteq Declared(Rendered(in))
  <2>1. CASE in.remote
    <3> DEFINE w == Block(RemoteWrite, Nothing, {}, {}, {})
    <3>1. w \in Rendered(in)
      BY <2>1 DEF Rendered, RemoteWriter, OnlyIf
    <3>2. w.ref = RemoteWrite
      BY DEF Block
    <3> QED BY <3>1, <3>2, <2>1, DeclaredIfRendered DEF MetricsTo, OnlyIf
  <2>2. CASE ~in.remote
    BY <2>2 DEF MetricsTo, OnlyIf
  <2> QED BY <2>1, <2>2
<1>2. ASSUME HasLogPipeline(in)
      PROVE  LogsTo(in) \subseteq Declared(Rendered(in))
  <2>1. CASE in.loki
    <3> DEFINE w == Block(Writer, Nothing, {}, {}, {})
    <3>1. w \in Rendered(in)
      BY <1>2, <2>1 DEF Rendered, LogBlocks, LokiWriter, OnlyIf
    <3>2. w.ref = Writer
      BY DEF Block
    <3> QED BY <3>1, <3>2, <2>1, DeclaredIfRendered DEF LogsTo, OnlyIf
  <2>2. CASE ~in.loki
    BY <2>2 DEF LogsTo, OnlyIf
  <2> QED BY <2>1, <2>2
<1> QED BY <1>1, <1>2

LEMMA RulesDeclared ==
  ASSUME NEW in, Groups(in) # {}
  PROVE  JournalRules \in Declared(Rendered(in))
<1> DEFINE w == Block(JournalRules, Nothing, {}, {}, {})
<1>1. w \in Rendered(in)
  BY DEF Rendered, LogBlocks, JournalRelabel, OnlyIf
<1>2. w.ref = JournalRules
  BY DEF Block
<1> QED BY <1>1, <1>2, DeclaredIfRendered

LEMMA StageDeclared ==
  ASSUME NEW in, NEW g \in Groups(in)
  PROVE  Stage(g) \in Declared(Rendered(in))
<1>1. GroupProcessor(in, g) \in Rendered(in)
  BY GroupRendered
<1>2. GroupProcessor(in, g).ref = Stage(g)
  BY DEF GroupProcessor, Block
<1> QED BY <1>1, <1>2, DeclaredIfRendered

(* ConfigBuilder.build: each receiver, target list and rule set that a      *)
(* rendered component names is rendered as well, whichever endpoints and    *)
(* sources there are.  The premise is needed: the rules of host journal     *)
(* sources are rendered for the sake of groups.                             *)
THEOREM ReferencesResolve ==
  ASSUME NEW in, Groups(in) # {} \/ HostMatches(in) = 0
  PROVE  Resolves(Rendered(in))
<1> DEFINE D == Declared(Rendered(in))
           Fine(b) == b.to \cup b.uses \subseteq D
<1>1. ASSUME NEW b \in LocalMetrics(in) PROVE Fine(b)
  <2>1. LocalMetrics(in) \subseteq Rendered(in)
    BY DEF Rendered
  <2>2. Exporter \in D /\ LocalTargets \in D
    <3> DEFINE e == Block(Exporter, Nothing, {}, {}, {})
               t == Block(LocalTargets, Nothing, {}, {Exporter}, {"self"})
    <3>1. e \in Rendered(in) /\ t \in Rendered(in)
      BY <2>1 DEF LocalMetrics
    <3>2. e.ref = Exporter /\ t.ref = LocalTargets
      BY DEF Block
    <3> QED BY <3>1, <3>2, DeclaredIfRendered
  <2> QED BY <1>1, <2>2, EndsDeclared DEF LocalMetrics, Block
<1>2. ASSUME NEW b \in RemoteWriter(in) PROVE Fine(b)
  BY <1>2 DEF RemoteWriter, OnlyIf, Block
<1>3. ASSUME NEW b \in MetricsBlocks(in) PROVE Fine(b)
  <2>1. PICK j \in in.jobs :
          b = Block(Scrape(Plain(Sanitized[j.name])), j.item, MetricsTo(in), {}, {j.topology})
    BY <1>3 DEF MetricsBlocks, OnlyIf
  <2>2. b.to = MetricsTo(in) /\ b.uses = {}
    BY <2>1 DEF Block
  <2> QED BY <2>2, EndsDeclared
<1>4. ASSUME NEW b \in JournalRelabel(in) PROVE Fine(b)
  BY <1>4 DEF JournalRelabel, OnlyIf, Block
<1>5. ASSUME NEW g \in Groups(in),
             NEW b \in {GroupProcessor(in, g)} \cup GroupJournals(g) \cup GroupFiles(g)
      PROVE  Fine(b)
  <2>1. Stage(g) \in D /\ JournalRules \in D /\ LogsTo(in) \subseteq D
    BY StageDeclared, RulesDeclared, EndsDeclared DEF HasLogPipeline
  <2>2. CASE b = GroupProcessor(in, g)
    BY <2>1, <2>2 DEF GroupProcessor, Block
  <2>3. CASE b \in GroupJournals(g)
    BY <2>1, <2>3 DEF GroupJournals, Block
  <2>4. CASE b \in GroupFiles(g)
    <3> DEFINE label == Label(Sanitized[g.name], "filelogs", 0)
               paths == Ref("local.file_match", label)
               p == Block(paths, Nothing, {}, {}, {})
    <3>1. p \in Rendered(in) /\ p.ref = paths
      BY <2>4, GroupRendered DEF GroupFiles, OnlyIf, Block
    <3>2. paths \in D
      BY <3>1, DeclaredIfRendered
    <3> QED BY <2>1, <2>4, <3>2 DEF GroupFiles, OnlyIf, Block
  <2> QED BY <1>5, <2>2, <2>3, <2>4
<1>6. ASSUME NEW b \in HostJournals(in) PROVE Fine(b)
  <2> DEFINE n == HostMatches(in)
  <2>0. PICK i \in 1..n :
          b = Block(Journal(Numbered("host_journald", Empty, i, n)), Item("host", "self", i),
                    LogsTo(in), {JournalRules}, {})
    BY <1>6 DEF HostJournals
  <2>1. HostMatches(in) # 0
    <3>1. 1..0 = {}
      OBVIOUS
    <3> QED BY <2>0, <3>1
  <2>2. JournalRules \in D /\ LogsTo(in) \subseteq D
    BY <2>1, RulesDeclared, EndsDeclared DEF HasLogPipeline
  <2>3. b.to = LogsTo(in) /\ b.uses = {JournalRules}
    BY <2>0 DEF Block
  <2> QED BY <2>2, <2>3
<1>7. ASSUME NEW b \in SyslogBlocks(in) PROVE Fine(b)
  <2>1. in.syslog /\ SyslogBlocks(in) \subseteq Rendered(in)
    BY <1>7 DEF SyslogBlocks, OnlyIf, Rendered, LogBlocks
  <2>2. SyslogRules \in D
    BY <2>1, DeclaredIfRendered DEF SyslogBlocks, SyslogRelabel, OnlyIf, Block
  <2>3. in.loki => RemoteSyslog \in D /\ Writer \in D
    <3> DEFINE s == Block(RemoteSyslog, Nothing, {Writer}, {}, {})
    <3>1. in.loki => s \in Rendered(in)
      BY <2>1 DEF SyslogBlocks, SyslogProcessor, OnlyIf
    <3>2. s.ref = RemoteSyslog
      BY DEF Block
    <3>3. in.loki => Writer \in D
      BY <2>1, EndsDeclared DEF HasLogPipeline, LogsTo, OnlyIf
    <3> QED BY <3>1, <3>2, <3>3, DeclaredIfRendered
  <2>4. CASE b = SyslogRelabel
    BY <2>4 DEF SyslogRelabel, Block
  <2>5. CASE b = SyslogSource(in)
    BY <2>2, <2>3, <2>5 DEF SyslogSource, OnlyIf, Block
  <2>6. CASE b \in SyslogProcessor(in)
    BY <2>3, <2>6 DEF SyslogProcessor, OnlyIf, Block
  <2> QED BY <1>7, <2>1, <2>4, <2>5, <2>6 DEF SyslogBlocks, OnlyIf
<1>8. ASSUME NEW b \in LokiWriter(in) PROVE Fine(b)
  BY <1>8 DEF LokiWriter, OnlyIf, Block
<1>9. ASSUME NEW b \in Rendered(in) PROVE Fine(b)
  BY <1>1, <1>2, <1>3, <1>4, <1>5, <1>6, <1>7, <1>8, <1>9
  DEF Rendered, LogBlocks, GroupBlocks
<1> QED BY <1>9 DEF Resolves

-----------------------------------------------------------------------------
(* The blocks, one by one *)

ExporterBlock == Block(Exporter, Nothing, {}, {}, {})
TargetsBlock == Block(LocalTargets, Nothing, {}, {Exporter}, {"self"})
LocalScrape(in) ==
  Block(Scrape(Plain("default")), Item("local", "self", 0), MetricsTo(in), {LocalTargets}, {})
WriteBlock == Block(RemoteWrite, Nothing, {}, {}, {})
JobScrape(in, j) ==
  Block(Scrape(Plain(Sanitized[j.name])), j.item, MetricsTo(in), {}, {j.topology})
RulesBlock == Block(JournalRules, Nothing, {}, {}, {})
UnitJournal(g, i) ==
  Block(Journal(Numbered(SourceBase(g), "journald", i, g.units)),
        Item("unit", g.key, i), {Stage(g)}, {JournalRules}, {})
MatchJournal(g, i) ==
  Block(Journal(Numbered(SourceBase(g), "journal_match", i, g.matches)),
        Item("match", g.key, i), {Stage(g)}, {JournalRules}, {})
PathsRef(g) == Ref("local.file_match", Label(Sanitized[g.name], "filelogs", 0))
PathsBlock(g) == Block(PathsRef(g), Nothing, {}, {}, {})
FilesBlock(g) ==
  Block(Ref("loki.source.file", Label(Sanitized[g.name], "filelogs", 0)),
        Item("files", g.key, 0), {Stage(g)}, {PathsRef(g)}, {})
HostJournal(in, i) ==
  Block(Journal(Numbered("host_journald", Empty, i, HostMatches(in))),
        Item("host", "self", i), LogsTo(in), {JournalRules}, {})
SyslogStage == Block(RemoteSyslog, Nothing, {Writer}, {}, {})
WriterBlock == Block(Writer, Nothing, {}, {}, {})

(* The blocks of the metrics, of one group, and of the rest of the logs. *)
MetricBlock(in, b) ==
  \/ b = ExporterBlock \/ b = TargetsBlock \/ b = LocalScrape(in)
  \/ in.remote /\ b = WriteBlock
  \/ in.remote /\ \E j \in in.jobs : b = JobScrape(in, j)

GroupBlock(in, g, b) ==
  \/ b = GroupProcessor(in, g)
  \/ \E i \in 1..g.units : b = UnitJournal(g, i)
  \/ \E i \in 1..g.matches : b = MatchJournal(g, i)
  \/ g.files /\ b \in {PathsBlock(g), FilesBlock(g)}

LogBlock(in, b) ==
  \/ Groups(in) # {} /\ b = RulesBlock
  \/ \E i \in 1..HostMatches(in) : b = HostJournal(in, i)
  \/ in.syslog /\ b \in {SyslogRelabel, SyslogSource(in)}
  \/ in.syslog /\ in.loki /\ b = SyslogStage
  \/ HasLogPipeline(in) /\ in.loki /\ b = WriterBlock

LEMMA Members ==
  ASSUME NEW in
  PROVE  \A b : b \in Rendered(in) <=>
           \/ MetricBlock(in, b)
           \/ \E g \in Groups(in) : GroupBlock(in, g, b)
           \/ LogBlock(in, b)
<1>1. ASSUME NEW b
      PROVE  b \in LocalMetrics(in) \cup RemoteWriter(in) \cup MetricsBlocks(in)
               <=> MetricBlock(in, b)
  BY DEF LocalMetrics, RemoteWriter, MetricsBlocks, OnlyIf, MetricBlock, ExporterBlock,
         TargetsBlock, LocalScrape, WriteBlock, JobScrape
<1>2. ASSUME NEW g, NEW b
      PROVE  b \in {GroupProcessor(in, g)} \cup GroupJournals(g) \cup GroupFiles(g)
               <=> GroupBlock(in, g, b)
  <2>1. b \in GroupJournals(g) <=> \/ \E i \in 1..g.units : b = UnitJournal(g, i)
                                   \/ \E i \in 1..g.matches : b = MatchJournal(g, i)
    BY DEF GroupJournals, UnitJournal, MatchJournal
  <2>2. b \in GroupFiles(g) <=> g.files /\ b \in {PathsBlock(g), FilesBlock(g)}
    BY DEF GroupFiles, OnlyIf, PathsBlock, FilesBlock, PathsRef
  <2> QED BY <2>1, <2>2 DEF GroupBlock
<1>3. ASSUME NEW b
      PROVE  b \in GroupBlocks(in) <=> \E g \in Groups(in) : GroupBlock(in, g, b)
  BY <1>2 DEF GroupBlocks
<1>4. ASSUME NEW b
      PROVE  b \in JournalRelabel(in) \cup HostJournals(in) \cup SyslogBlocks(in) \cup LokiWriter(in)
               <=> LogBlock(in, b)
  BY DEF JournalRelabel, HostJournals, SyslogBlocks, SyslogProcessor, LokiWriter, OnlyIf,
         LogBlock, RulesBlock, HostJournal, SyslogStage, WriterBlock
<1> QED BY <1>1, <1>3, <1>4 DEF Rendered, LogBlocks
=============================================================================
