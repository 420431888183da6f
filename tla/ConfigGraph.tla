----------------------------- MODULE ConfigGraph -----------------------------
(***************************************************************************)
(* The Alloy configuration that ConfigBuilder.build of                     *)
(* src/src/config_builder.py renders, as a graph.  A block is a component: *)
(* its kind and label, the components it forwards to (forward_to), those   *)
(* whose exports it reads (targets, relabel_rules), the Juju topology it   *)
(* adds to what passes through it, and, for a source, the item it collects.*)
(* The text inside the blocks (matches, relabelling rules, credentials,    *)
(* drop and limit stages) is left out.                                     *)
(*                                                                         *)
(* Two blocks of one kind and label differ in what they collect, so a set  *)
(* of blocks shows a label used twice.                                     *)
(***************************************************************************)
EXTENDS Naturals, FiniteSets

CONSTANTS
  Name,      \* names of jobs and of <application>_<unit number>
  Sanitized, \* _sanitize_component_name
  Relation,  \* machine-observability relations
  Scraped    \* remote units behind metrics-endpoint

(* No text at all; a sanitized name is never empty and has no dash. *)
Empty == "-"

ASSUME NameAssumption ==
  /\ {"default", "juju", "remote_syslog"} \subseteq Name
  /\ Sanitized \in [Name -> Name] /\ \A n \in Name : Sanitized[n] # Empty
  /\ \A n \in Name : Sanitized[Sanitized[n]] = Sanitized[n]
  /\ \A n \in {"default", "juju", "remote_syslog"} : Sanitized[n] = n

ASSUME KeyAssumption == "self" \notin Relation

(* What is collected: the index-th of its kind that `key` asks for. *)
Item(from, key, index) == [from |-> from, key |-> key, index |-> index]
Nothing == Item("nothing", Empty, 0)

(* base, base_part, base_index or base_part_index; no suffix for index 0. *)
Label(base, part, index) == [base |-> base, part |-> part, index |-> index]
Plain(base) == Label(base, Empty, 0)

Ref(kind, label) == [kind |-> kind, label |-> label]
Block(ref, item, to, uses, adds) ==
  [ref |-> ref, item |-> item, to |-> to, uses |-> uses, adds |-> adds]

RemoteWrite == Ref("prometheus.remote_write", Plain("metrics"))
Writer == Ref("loki.write", Plain("main"))
LocalTargets == Ref("discovery.relabel", Plain("local_metrics"))
Exporter == Ref("prometheus.exporter.unix", Plain("default"))
JournalRules == Ref("loki.relabel", Plain("journal"))
SyslogRules == Ref("loki.relabel", Plain("syslog"))
Scrape(label) == Ref("prometheus.scrape", label)
Journal(label) == Ref("loki.source.journal", label)
Syslog == Ref("loki.source.syslog", Plain("receiver"))
Process(label) == Ref("loki.process", label)

OnlyIf(condition, S) == IF condition THEN S ELSE {}

(* The labels of n sources: without a number when there is only one. *)
Numbered(base, part, i, n) == Label(base, part, IF n = 1 THEN 0 ELSE i)

-----------------------------------------------------------------------------
(* What the builder is given: whether there are Loki and remote-write       *)
(* endpoints, scrape jobs [item, name, topology], the number of             *)
(* systemd-units, journal-kernel, the number of journal-match-expressions,  *)
(* enable-syslogreceivers, and the groups of related principals             *)
(* [key, name, units, matches, files].                                      *)

MetricsTo(in) == OnlyIf(in.remote, {RemoteWrite})
LogsTo(in) == OnlyIf(in.loki, {Writer})

(* _host_journal_matches *)
HostMatches(in) == in.hostMatches + (IF in.kernel THEN 1 ELSE 0)

(* _effective_log_source_groups: this unit's systemd-units are a group too. *)
Groups(in) ==
  OnlyIf(in.units > 0,
         {[key |-> "self", name |-> "juju", units |-> in.units, matches |-> 0,
           files |-> FALSE]})
  \cup in.groups

HasLogPipeline(in) == Groups(in) # {} \/ HostMatches(in) > 0 \/ in.syslog

-----------------------------------------------------------------------------
(* The blocks *)

LocalMetrics(in) ==
  {Block(Exporter, Nothing, {}, {}, {}),
   Block(LocalTargets, Nothing, {}, {Exporter}, {"self"}),
   Block(Scrape(Plain("default")), Item("local", "self", 0), MetricsTo(in),
         {LocalTargets}, {})}

RemoteWriter(in) ==
  OnlyIf(in.remote, {Block(RemoteWrite, Nothing, {}, {}, {})})

MetricsBlocks(in) ==
  OnlyIf(in.remote,
    {Block(Scrape(Plain(Sanitized[j.name])), j.item, MetricsTo(in), {}, {j.topology}) :
       j \in in.jobs})

Stage(g) == Process(Plain(Sanitized[g.name]))

GroupProcessor(in, g) == Block(Stage(g), Nothing, LogsTo(in), {}, {g.key})

(* The group of this unit names its sources without a prefix. *)
SourceBase(g) == IF Sanitized[g.name] = "juju" THEN Empty ELSE Sanitized[g.name]

GroupJournals(g) ==
  {Block(Journal(Numbered(SourceBase(g), "journald", i, g.units)),
         Item("unit", g.key, i), {Stage(g)}, {JournalRules}, {}) : i \in 1..g.units}
  \cup
  {Block(Journal(Numbered(SourceBase(g), "journal_match", i, g.matches)),
         Item("match", g.key, i), {Stage(g)}, {JournalRules}, {}) : i \in 1..g.matches}

GroupFiles(g) ==
  LET label == Label(Sanitized[g.name], "filelogs", 0)
      paths == Ref("local.file_match", label)
  IN  OnlyIf(g.files,
        {Block(paths, Nothing, {}, {}, {}),
         Block(Ref("loki.source.file", label), Item("files", g.key, 0), {Stage(g)},
               {paths}, {})})

(* Mutant of HostJournals: host logs pass through this unit's group. *)
HostJournalsLabelled(in) ==
  {Block(Journal(Numbered("host_journald", Empty, i, HostMatches(in))),
         Item("host", "self", i),
         IF in.units > 0 THEN {Process(Plain("juju"))} ELSE LogsTo(in),
         {JournalRules}, {}) : i \in 1..HostMatches(in)}

HostJournals(in) ==
  {Block(Journal(Numbered("host_journald", Empty, i, HostMatches(in))),
         Item("host", "self", i), LogsTo(in), {JournalRules}, {})
     : i \in 1..HostMatches(in)}

JournalRelabel(in) ==
  OnlyIf(Groups(in) # {}, {Block(JournalRules, Nothing, {}, {}, {})})

SyslogRelabel == Block(SyslogRules, Nothing, {}, {}, {})

RemoteSyslog == Process(Plain("remote_syslog"))

(* Mutant of SyslogProcessor: the stage is rendered whatever the endpoints. *)
SyslogProcessorAlways(in) == {Block(RemoteSyslog, Nothing, {Writer}, {}, {})}

SyslogProcessor(in) ==
  OnlyIf(in.loki, {Block(RemoteSyslog, Nothing, {Writer}, {}, {})})

SyslogSource(in) ==
  Block(Syslog, Item("syslog", "self", 0), OnlyIf(in.loki, {RemoteSyslog}),
        {SyslogRules}, {})

SyslogBlocks(in) ==
  OnlyIf(in.syslog, {SyslogRelabel, SyslogSource(in)} \cup SyslogProcessor(in))

LokiWriter(in) ==
  OnlyIf(HasLogPipeline(in) /\ in.loki, {Block(Writer, Nothing, {}, {}, {})})

GroupBlocks(in) ==
  UNION {{GroupProcessor(in, g)} \cup GroupJournals(g) \cup GroupFiles(g)
           : g \in Groups(in)}

LogBlocks(in) ==
  JournalRelabel(in) \cup GroupBlocks(in) \cup HostJournals(in)
  \cup SyslogBlocks(in) \cup LokiWriter(in)

(* build *)
Rendered(in) ==
  LocalMetrics(in) \cup RemoteWriter(in) \cup MetricsBlocks(in) \cup LogBlocks(in)

-----------------------------------------------------------------------------
(* What alloy makes of it *)

Declared(blocks) == {b.ref : b \in blocks}

Resolves(blocks) == \A b \in blocks : b.to \cup b.uses \subseteq Declared(blocks)

LabelsDistinct(blocks) == \A b, c \in blocks : b.ref = c.ref => b = c

(* alloy loads a config whose references resolve and whose labels are used *)
(* once; alloy fmt, which the charm runs first, checks neither.            *)
Loadable(blocks) == Resolves(blocks) /\ LabelsDistinct(blocks)

At(blocks, refs) == {c \in blocks : c.ref \in refs}

(* The topology a source's data carries when it comes through `stages`. *)
Topology(blocks, b, stages) ==
  UNION {c.adds : c \in {b} \cup stages \cup At(blocks, b.uses)}

(* Where the data of each source ends up, and with what topology: directly *)
(* or through one stage.                                                   *)
Delivered(blocks) ==
  LET sources == {b \in blocks : b.item # Nothing}
      ends == {RemoteWrite, Writer}
      arrives(b, stages, refs) ==
        {[item |-> b.item, at |-> r, topology |-> Topology(blocks, b, stages)] :
           r \in refs \cap ends}
      staged(b) == UNION {arrives(b, {c}, c.to) : c \in At(blocks, b.to)}
  IN  UNION {arrives(b, {}, b.to) \cup staged(b) : b \in sources}
=============================================================================
