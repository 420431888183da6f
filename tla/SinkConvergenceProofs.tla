------------------------ MODULE SinkConvergenceProofs ------------------------
(***************************************************************************)
(* Proof that the sink relations' hooks converge: when a unit has run the  *)
(* hooks due to it, its config, what its syslog databag announces and the  *)
(* rules its relations carry agree with the world, whatever order events,  *)
(* hooks, refusals, failures and elections came in.                        *)
(*                                                                         *)
(* A hook acts on what it read when it began, so a state in the middle is  *)
(* seldom in agreement.  The invariant says who will mend it: a hook that  *)
(* is due and configures (refreshes, reconciles), or a stage the running   *)
(* hook has still before it, or the hook that is to be run again.          *)
(***************************************************************************)
EXTENDS SinkHooksProofs, FiniteSetTheorems

(* The shapes of what the units keep. *)
OnceEach == {q \in Seq(Endpoint) : Cardinality(Listed(q)) = Len(q)}
TextShape == [loki : OnceEach, write : OnceEach, syslog : BOOLEAN]
Reading == [loki : OnceEach, write : OnceEach, ask : Ask, requirer : BOOLEAN]
Draft == [rules : [Sink -> RuleMark], legacy : [Sink -> LegacyMark],
          unit : BOOLEAN, app : BOOLEAN, text : TextShape,
          drift : BOOLEAN, deferred : BOOLEAN, stale : BOOLEAN]
HookKind == Queueable \cup {"joined", "changed", "departed", "broken", "update-status"}
Hook == [kind : HookKind, sink : Sink \cup {Bottom}, todo : SUBSET (0..6),
         seen : Reading, draft : Draft, failed : BOOLEAN]
Announcement == {bag \in SUBSET [ready : BOOLEAN, address : Unit \cup {Bottom}] :
                   \A p, q \in bag : p = q}

TypeInv ==
  /\ member \in [Remote -> {Absent, "present", "left"}]
  /\ url \in [Remote -> Endpoint \cup {NoUrl}]
  /\ cloud \in [loki : SUBSET Endpoint, write : SUBSET Endpoint]
  /\ dying \subseteq Sink /\ ask \in Ask /\ requirer \in BOOLEAN /\ leader \in Unit
  /\ view \in [Unit -> SUBSET Remote]
  /\ scope \in [Unit -> SUBSET Sink] /\ changed \in [Unit -> SUBSET Sink]
  /\ queue \in [Unit -> SUBSET Queueable]
  /\ hook \in [Unit -> Hook \cup {Idle}]
  /\ config \in [Unit -> TextShape] /\ stored \in [Unit -> TextShape]
  /\ rules \in [Sink -> {Bottom, "library", "charm"}] /\ legacy \subseteq Sink
  /\ unitBag \in [Unit -> Announcement] /\ appBag \in Announcement
  /\ drifted \subseteq Unit /\ deferred \subseteq Unit
  /\ torn \subseteq Unit /\ stale \subseteq Unit /\ count \in Nat

(* A unit has the relations of the units it has seen join, and those that  *)
(* are not being removed; a unit it has seen is or was there.              *)
SightInv ==
  \A u \in Unit :
    /\ \A m \in view[u] : SinkOf[m] \in scope[u] /\ member[m] # Absent
    /\ Sink \ dying \subseteq scope[u]

(* The stages that configure, refresh the syslog databag or at least note  *)
(* that they could not, reconcile the rules.                               *)
ConfiguresAt(n, kind) ==
  \/ n \in {2, 3}
  \/ n = 5 /\ kind \notin {"upgrade-charm", "start", "update-status", "syslog"}
RefreshesAt(n, kind) == n = 2 \/ (n = 5 /\ kind \notin {"upgrade-charm", "start"})
ReconcilesAt(n, kind) ==
  n \in {0, 6} \/ (n = 5 /\ kind \in {"config-changed", "start", "update-status"})

Configures(kind, stages) == \E n \in stages : ConfiguresAt(n, kind)
Refreshes(kind, stages) == \E n \in stages : RefreshesAt(n, kind)
Reconciles(kind, stages) == \E n \in stages : ReconcilesAt(n, kind)

(* All the handlers u's hook has, run or not; a failed hook runs them again. *)
AllStages(u) == Stages(u, hook[u].kind, hook[u].sink)
Running(u) == ~Free(u) /\ ~hook[u].failed
Failed(u) == ~Free(u) /\ hook[u].failed

(* A hook is due that configures, and one that refreshes as well.  A       *)
(* relation-changed hook is sure to run only while the relation offers     *)
(* anything: relation-broken takes its place.                              *)
AsksAgain(u) == queue[u] \cap {"config-changed", "principal"} # {}
Offers(u, s) == KindOf[s] = "cloud" \/ \E m \in view[u] : SinkOf[m] = s
Due(u) == AsksAgain(u) \/ \E s \in changed[u] : Offers(u, s)
DueLoki(u) == AsksAgain(u) \/ \E s \in changed[u] : Offers(u, s) /\ KindOf[s] # "write"

Offered(u, kind) == Endpoints(kind, view[u], scope[u])
Serves(u, text) ==
  /\ Listed(text.loki) = Offered(u, "loki") /\ Listed(text.write) = Offered(u, "write")
  /\ text.syslog = ask.syslog

(* What u's hook has read is still so, or a hook is due. *)
SeenInv(u) ==
  Running(u) =>
    LET seen == hook[u].seen
    IN  /\ ~DueLoki(u) => Listed(seen.loki) = Offered(u, "loki") /\ seen.ask = ask
        /\ ~Due(u) => Listed(seen.write) = Offered(u, "write")
        /\ "syslog" \notin queue[u] => seen.requirer = requirer
        /\ ~seen.requirer => unitBag[u] = {}

(* What u's hook has put in its draft it puts there again when run again. *)
DraftInv(u) ==
  ~Free(u) =>
    LET h == hook[u]
    IN  /\ h.todo \subseteq AllStages(u)
        /\ h.draft.text # stored[u] => Configures(h.kind, AllStages(u))
        /\ h.draft.unit => h.seen.requirer
        /\ (\E s \in Sink : h.draft.rules[s] = "charm") => Reconciles(h.kind, AllStages(u))

(* Where the text does not serve the endpoints, something is going to      *)
(* write one that does.                                                    *)
TextInv(u) ==
  ask.verdict = "good" /\ ~Due(u) =>
    /\ Free(u) => Serves(u, stored[u])
    /\ Running(u) => Serves(u, hook[u].draft.text) \/ Configures(hook[u].kind, hook[u].todo)
    /\ Failed(u) => Serves(u, stored[u]) \/ Configures(hook[u].kind, AllStages(u))

(* The config file is ahead of StoredState only while a hook runs, and     *)
(* then it is what the hook is going to store.                             *)
FileInv(u) ==
  u \notin torn =>
    /\ ~Running(u) => config[u] = stored[u]
    /\ Running(u) => config[u] = hook[u].draft.text

Announced(u) ==
  \A p \in unitBag[u] : p.ready = (ask.syslog /\ Offered(u, "loki") # {})

(* Where the databag announces something else, and the unit has not given  *)
(* up telling, something will refresh it or give up.                       *)
ReadyInv(u) ==
  /\ ~requirer => unitBag[u] = {}
  /\ ask.verdict = "good" /\ ~DueLoki(u) /\ u \notin stale =>
       /\ Free(u) => Announced(u)
       /\ Running(u) =>
            \/ Announced(u)
            \/ /\ Refreshes(hook[u].kind, AllStages(u))
               /\ \/ hook[u].draft.unit \/ hook[u].draft.stale
                  \/ Refreshes(hook[u].kind, hook[u].todo)
       /\ Failed(u) => Announced(u) \/ Refreshes(hook[u].kind, AllStages(u))

(* Where the leader's relation lacks the charm's rules, something will     *)
(* reconcile them.                                                         *)
Promised(u, s) ==
  \/ rules[s] = "charm" \/ s \in changed[u] \/ "leader-elected" \in queue[u]
  \/ Running(u) /\ (hook[u].draft.rules[s] = "charm" \/ Reconciles(hook[u].kind, hook[u].todo))
  \/ Failed(u) /\ Reconciles(hook[u].kind, AllStages(u))

RuleInv(u) ==
  u = leader =>
    \A m \in view[u] : KindOf[SinkOf[m]] # "cloud" => Promised(u, SinkOf[m])

(* update-status has announced, or is going to. *)
StatusInv(u) ==
  Running(u) /\ hook[u].kind = "update-status" /\ 5 \notin hook[u].todo /\ hook[u].seen.requirer =>
    /\ hook[u].draft.unit
    /\ u = leader => hook[u].draft.app \/ "leader-elected" \in queue[u]

UnitInv(u) ==
  SeenInv(u) /\ DraftInv(u) /\ TextInv(u) /\ FileInv(u) /\ ReadyInv(u) /\ RuleInv(u) /\ StatusInv(u)

ConvergenceInv == TypeInv /\ SightInv /\ \A u \in Unit : UnitInv(u)
-----------------------------------------------------------------------------
(* Lists of endpoints *)

LEMMA OrderIsOnceEach ==
  ASSUME NEW S \in SUBSET Endpoint, NEW q \in Orders(S)
  PROVE  /\ q \in Seq(Endpoint) /\ Len(q) = Cardinality(S) /\ Listed(q) = S
         /\ IsFiniteSet(S) /\ Cardinality(S) \in Nat
<1>1. IsFiniteSet(S) /\ Cardinality(S) \in Nat
  BY EndpointAssumption, FS_Subset, FS_CardinalityType
<1>2. q \in [1..Cardinality(S) -> S] /\ \A x \in S : \E i \in DOMAIN q : q[i] = x
  BY DEF Orders
<1>3. q \in Seq(Endpoint) /\ Len(q) = Cardinality(S)
  BY <1>1, <1>2
<1>4. Listed(q) = S
  BY <1>2 DEF Listed
<1> QED BY <1>1, <1>3, <1>4

LEMMA ListedConcat ==
  ASSUME NEW p \in Seq(Endpoint), NEW q \in Seq(Endpoint)
  PROVE  Listed(p \o q) = Listed(p) \cup Listed(q) /\ Len(p \o q) = Len(p) + Len(q)
<1> DEFINE r == p \o q
<1>1. /\ Len(r) = Len(p) + Len(q) /\ DOMAIN r = 1..(Len(p) + Len(q))
      /\ \A i \in 1..Len(p) : r[i] = p[i]
      /\ \A i \in 1..Len(q) : r[Len(p) + i] = q[i]
      /\ Len(p) \in Nat /\ Len(q) \in Nat
  OBVIOUS
<1>2. ASSUME NEW i \in DOMAIN r PROVE r[i] \in Listed(p) \cup Listed(q)
  <2>1. CASE i <= Len(p)
    BY <1>1, <2>1 DEF Listed
  <2>2. CASE i > Len(p)
    <3>1. i - Len(p) \in 1..Len(q) /\ r[i] = q[i - Len(p)]
      BY <1>1, <2>2
    <3> QED BY <3>1 DEF Listed
  <2> QED BY <1>1, <2>1, <2>2
<1>3. ASSUME NEW i \in DOMAIN p PROVE p[i] \in Listed(r)
  BY <1>1 DEF Listed
<1>4. ASSUME NEW i \in DOMAIN q PROVE q[i] \in Listed(r)
  <2>1. Len(p) + i \in DOMAIN r /\ r[Len(p) + i] = q[i]
    BY <1>1
  <2> QED BY <2>1 DEF Listed
<1> HIDE DEF r
<1>5. Listed(r) = Listed(p) \cup Listed(q)
  BY <1>2, <1>3, <1>4 DEF Listed
<1> QED BY <1>1, <1>5 DEF r

(* _loki_endpoint_urls and _remote_write_endpoint_urls list every endpoint *)
(* of the relations and of Grafana Cloud exactly once.                     *)
LEMMA ListsOnceEach ==
  ASSUME TypeInv, NEW kind, NEW members \in SUBSET Remote, NEW sinks,
         NEW q \in Lists(kind, members, sinks)
  PROVE  q \in OnceEach /\ Listed(q) = Endpoints(kind, members, sinks)
<1>0. \E p \in Orders(RelationUrls(kind, members)) :
        \E r \in Orders(CloudUrls(kind, sinks) \ RelationUrls(kind, members)) : q = p \o r
  BY DEF Lists
<1> DEFINE S == RelationUrls(kind, members)
           T == CloudUrls(kind, sinks) \ S
<1>1. S \in SUBSET Endpoint
  BY DEF TypeInv, RelationUrls
<1>2. T \in SUBSET Endpoint
  BY DEF TypeInv, CloudUrls, CloudSignals
<1>3. PICK p \in Orders(S), r \in Orders(T) : q = p \o r
  BY <1>0
<1> HIDE DEF S, T
<1>4. /\ p \in Seq(Endpoint) /\ Len(p) = Cardinality(S) /\ Listed(p) = S
      /\ r \in Seq(Endpoint) /\ Len(r) = Cardinality(T) /\ Listed(r) = T
      /\ IsFiniteSet(S) /\ IsFiniteSet(T) /\ Cardinality(S) \in Nat /\ Cardinality(T) \in Nat
  BY <1>1, <1>2, OrderIsOnceEach
<1>5. q \in Seq(Endpoint) /\ Listed(q) = S \cup T /\ Len(q) = Cardinality(S) + Cardinality(T)
  <2>1. p \in Seq(Endpoint) /\ r \in Seq(Endpoint)
    BY <1>4
  <2>2. p \o r \in Seq(Endpoint)
    BY <2>1
  <2>3. Listed(p \o r) = Listed(p) \cup Listed(r) /\ Len(p \o r) = Len(p) + Len(r)
    BY <2>1, ListedConcat, Zenon
  <2> QED BY <1>3, <1>4, <2>2, <2>3, Zenon
<1>6. Cardinality(S \cup T) = Cardinality(S) + Cardinality(T)
  <2>1. Cardinality(S \cap T) = 0
    BY <1>4, FS_EmptySet, S \cap T = {} DEF T
  <2>2. Cardinality(S \cup T) = Cardinality(S) + Cardinality(T) - Cardinality(S \cap T)
    BY <1>4, FS_Union
  <2> QED BY <1>4, <2>1, <2>2
<1>7. S \cup T = Endpoints(kind, members, sinks)
  BY DEF S, T, Endpoints
<1> QED BY <1>5, <1>6, <1>7 DEF OnceEach

LEMMA NothingListed ==
  ASSUME NEW q \in OnceEach
  PROVE  Listed(q) = {} <=> q = <<>>
  BY DEF OnceEach, Listed

-----------------------------------------------------------------------------
(* Which handlers a hook has *)

LEMMA StageTable ==
  /\ \A kind, s : StagesOf(kind, s) \subseteq 1..6
  /\ \A s : /\ 5 \in StagesOf("config-changed", s)
            /\ {5, 6} \subseteq StagesOf("principal", s)
            /\ 6 \in StagesOf("leader-elected", s)
            /\ StagesOf("update-status", s) = {5}
  /\ \A s \in Sink, kind \in {"joined", "changed"} :
       /\ KindOf[s] = "loki" => {2, 6} \subseteq StagesOf(kind, s)
       /\ KindOf[s] = "write" => {3, 6} \subseteq StagesOf(kind, s)
       /\ KindOf[s] = "cloud" => 5 \in StagesOf(kind, s)
  /\ \A s \in Sink :
       /\ KindOf[s] = "loki" => 2 \in StagesOf("departed", s)
       /\ KindOf[s] = "write" => 3 \in StagesOf("departed", s)
       /\ KindOf[s] = "write" => 3 \in StagesOf("broken", s)
       /\ KindOf[s] = "cloud" => 5 \in StagesOf("broken", s)
<1>1. \A s \in Sink : s # Bottom
  BY SinkAssumption DEF Bottom
<1>2. \A kind, s : StagesOf(kind, s) \subseteq 1..6
  BY DEF StagesOf
<1>3. \A s : /\ 5 \in StagesOf("config-changed", s)
             /\ {5, 6} \subseteq StagesOf("principal", s)
             /\ 6 \in StagesOf("leader-elected", s)
  BY DEF StagesOf
<1>4. \A s : StagesOf("update-status", s) = {5}
  BY DEF StagesOf, LibraryLifecycle
<1>5. \A s \in Sink, kind \in {"joined", "changed"} :
        /\ KindOf[s] = "loki" => {2, 6} \subseteq StagesOf(kind, s)
        /\ KindOf[s] = "write" => {3, 6} \subseteq StagesOf(kind, s)
        /\ KindOf[s] = "cloud" => 5 \in StagesOf(kind, s)
  BY <1>1 DEF StagesOf, Observed
<1>6. \A s \in Sink :
        /\ KindOf[s] = "loki" => 2 \in StagesOf("departed", s)
        /\ KindOf[s] = "write" => 3 \in StagesOf("departed", s)
        /\ KindOf[s] = "write" => 3 \in StagesOf("broken", s)
        /\ KindOf[s] = "cloud" => 5 \in StagesOf("broken", s)
  BY <1>1 DEF StagesOf, Observed
<1> QED BY <1>2, <1>3, <1>4, <1>5, <1>6

(* A deferred start comes before the handlers of the hook. *)
LEMMA StagesTable ==
  ASSUME NEW u
  PROVE  \A kind, s : /\ StagesOf(kind, s) \subseteq Stages(u, kind, s)
                      /\ Stages(u, kind, s) \subseteq StagesOf(kind, s) \cup {0}
                      /\ Stages(u, kind, s) \subseteq 0..6
  BY StageTable DEF Stages

(* What the hooks that change a unit's view do in the end. *)
LEMMA HookTable ==
  ASSUME NEW u
  PROVE  /\ \A s \in Sink, kind \in {"joined", "changed"} :
              /\ Configures(kind, Stages(u, kind, s))
              /\ KindOf[s] # "write" => Refreshes(kind, Stages(u, kind, s))
              /\ KindOf[s] # "cloud" => Reconciles(kind, Stages(u, kind, s))
         /\ \A s \in Sink :
              /\ KindOf[s] # "cloud" => Configures("departed", Stages(u, "departed", s))
              /\ KindOf[s] = "loki" => Refreshes("departed", Stages(u, "departed", s))
              /\ KindOf[s] # "loki" => Configures("broken", Stages(u, "broken", s))
              /\ KindOf[s] = "cloud" => Refreshes("broken", Stages(u, "broken", s))
         /\ \A s : \A kind \in {"config-changed", "principal"} :
              Configures(kind, Stages(u, kind, s)) /\ Refreshes(kind, Stages(u, kind, s))
         /\ \A s : Reconciles("leader-elected", Stages(u, "leader-elected", s))
<1>1. \A s \in Sink : KindOf[s] \in Kind
  BY KindAssumption
<1>2. \A kind, s, n : n \in StagesOf(kind, s) => n \in Stages(u, kind, s)
  BY StagesTable
<1>3. \A kind, s, n : n \in Stages(u, kind, s) =>
        /\ ConfiguresAt(n, kind) => Configures(kind, Stages(u, kind, s))
        /\ RefreshesAt(n, kind) => Refreshes(kind, Stages(u, kind, s))
        /\ ReconcilesAt(n, kind) => Reconciles(kind, Stages(u, kind, s))
  BY DEF Configures, Refreshes, Reconciles
<1>4. \A s \in Sink, kind \in {"joined", "changed"} :
        /\ KindOf[s] = "loki" => {2, 6} \subseteq Stages(u, kind, s)
        /\ KindOf[s] = "write" => {3, 6} \subseteq Stages(u, kind, s)
        /\ KindOf[s] = "cloud" => 5 \in Stages(u, kind, s)
  BY <1>2, StageTable
<1>5. \A s \in Sink :
        /\ KindOf[s] = "loki" => 2 \in Stages(u, "departed", s)
        /\ KindOf[s] = "write" => 3 \in Stages(u, "departed", s)
        /\ KindOf[s] = "write" => 3 \in Stages(u, "broken", s)
        /\ KindOf[s] = "cloud" => 5 \in Stages(u, "broken", s)
  BY <1>2, StageTable
<1>6. \A s : /\ 5 \in Stages(u, "config-changed", s) /\ 5 \in Stages(u, "principal", s)
             /\ 6 \in Stages(u, "leader-elected", s)
  BY <1>2, StageTable
<1>7. \A kind : /\ ConfiguresAt(2, kind) /\ ConfiguresAt(3, kind) /\ RefreshesAt(2, kind)
                /\ ReconcilesAt(6, kind)
  BY DEF ConfiguresAt, RefreshesAt, ReconcilesAt
<1>8. \A kind \in {"joined", "changed", "broken", "config-changed", "principal"} :
        ConfiguresAt(5, kind) /\ RefreshesAt(5, kind)
  BY DEF ConfiguresAt, RefreshesAt
<1>9. ASSUME NEW s \in Sink, NEW kind \in {"joined", "changed"}
      PROVE  /\ Configures(kind, Stages(u, kind, s))
             /\ KindOf[s] # "write" => Refreshes(kind, Stages(u, kind, s))
             /\ KindOf[s] # "cloud" => Reconciles(kind, Stages(u, kind, s))
  BY <1>1, <1>3, <1>4, <1>7, <1>8 DEF Kind
<1>10. ASSUME NEW s \in Sink
       PROVE  /\ KindOf[s] # "cloud" => Configures("departed", Stages(u, "departed", s))
              /\ KindOf[s] = "loki" => Refreshes("departed", Stages(u, "departed", s))
              /\ KindOf[s] # "loki" => Configures("broken", Stages(u, "broken", s))
              /\ KindOf[s] = "cloud" => Refreshes("broken", Stages(u, "broken", s))
  BY <1>1, <1>3, <1>5, <1>7, <1>8 DEF Kind
<1> QED BY <1>3, <1>6, <1>7, <1>8, <1>9, <1>10

-----------------------------------------------------------------------------
(* What the pieces of the handlers leave alone *)

LEMMA PushedFrame ==
  ASSUME NEW u \in Unit, NEW d \in Draft, NEW sinks
  PROVE  LET e == Pushed(u, d, sinks)
         IN  /\ e \in Draft /\ e.text = d.text /\ e.unit = d.unit /\ e.app = d.app /\ e.stale = d.stale
             /\ \A s \in Sink : e.rules[s] \in {d.rules[s], "library"}
  BY DEF Pushed, Draft, RuleMark

LEMMA MetadataFrame ==
  ASSUME NEW u \in Unit, NEW d \in Draft, NEW sinks,
         NEW e \in {WithMetadata(u, d, sinks), MetadataRemoved(u, d)}
  PROVE  /\ e \in Draft /\ e.text = d.text /\ e.unit = d.unit /\ e.app = d.app /\ e.stale = d.stale
         /\ e.rules = d.rules
<1>1. CASE e = WithMetadata(u, d, sinks)
  BY <1>1 DEF WithMetadata, Draft, LegacyMark
<1>2. CASE e = MetadataRemoved(u, d)
  BY <1>2 DEF MetadataRemoved, Draft, LegacyMark
<1> QED BY <1>1, <1>2

LEMMA ReconciledFrame ==
  ASSUME NEW u \in Unit, NEW d \in Draft
  PROVE  LET e == Reconciled(u, d)
         IN  /\ e \in Draft /\ e.text = d.text /\ e.unit = d.unit /\ e.app = d.app /\ e.stale = d.stale
             /\ \A s \in Sink : /\ e.rules[s] \in {d.rules[s], "charm"}
                                /\ u = leader /\ s \in scope[u] /\ KindOf[s] \in {"loki", "write"} =>
                                     e.rules[s] = "charm"
  BY DEF Reconciled, Draft, RuleMark, Of

LEMMA TextOfReading ==
  ASSUME NEW seen \in Reading PROVE Text(seen) \in TextShape
  BY DEF Reading, Text, TextShape, Ask

LEMMA SyslogFrame ==
  ASSUME NEW u \in Unit, NEW d \in Draft, hook[u] \in Hook
  PROVE  LET e == SyslogRefreshed(u, d)
         IN  /\ e \in Draft /\ e.text = d.text /\ e.rules = d.rules /\ e.stale = d.stale
             /\ e.unit = (d.unit \/ hook[u].seen.requirer)
             /\ e.app = (d.app \/ (hook[u].seen.requirer /\ u = leader))
<1>1. hook[u].seen.requirer \in BOOLEAN /\ d.unit \in BOOLEAN /\ d.app \in BOOLEAN
  BY DEF Hook, Reading, Draft
<1>2. CASE hook[u].seen.requirer
  BY <1>1, <1>2 DEF SyslogRefreshed, Draft
<1>3. CASE ~hook[u].seen.requirer
  BY <1>1, <1>3 DEF SyslogRefreshed
<1> QED BY <1>1, <1>2, <1>3

LEMMA ConfigFrame ==
  ASSUME NEW u \in Unit, hook[u] \in Hook
  PROVE  LET d == hook[u].draft
             e == Configured(u, d)
         IN  /\ e \in Draft /\ e.rules = d.rules /\ e.unit = d.unit /\ e.app = d.app
             /\ e.stale = d.stale
             /\ e.text = IF Accepted(u) THEN Text(hook[u].seen) ELSE d.text
<1>1. hook[u].draft \in Draft /\ Text(hook[u].seen) \in TextShape
  BY TextOfReading DEF Hook
<1> QED BY <1>1 DEF Configured, Writes, Draft

(* What the hook notes of itself is in no databag. *)
LEMMA MarksFrame ==
  ASSUME NEW u \in Unit, NEW d \in Draft, NEW b \in BOOLEAN,
         NEW e \in {Untold(d), DriftNoted(u, d), [d EXCEPT !.deferred = b]}
  PROVE  /\ e \in Draft /\ e.text = d.text /\ e.unit = d.unit /\ e.app = d.app /\ e.rules = d.rules
         /\ d.stale => e.stale
         /\ Untold(d).stale
  BY DEF Untold, DriftNoted, Draft

-----------------------------------------------------------------------------
(* What a handler's step does to the hook of its unit *)

(* Stage n takes u's hook from draft d to draft e. *)
StageDraft(u, n, d, e) ==
  LET h == hook[u]
  IN  /\ e \in Draft
      /\ e.text = d.text \/ (ConfiguresAt(n, h.kind) /\ e.text = Text(h.seen))
      /\ ConfiguresAt(n, h.kind) /\ Accepted(u) => e.text = Text(h.seen)
      /\ e.unit => d.unit \/ h.seen.requirer
      /\ (d.unit => e.unit) /\ (d.app => e.app) /\ (d.stale => e.stale)
      /\ RefreshesAt(n, h.kind) /\ h.seen.requirer /\ Accepted(u) => e.unit \/ e.stale
      /\ n = 5 /\ h.kind = "update-status" /\ h.seen.requirer =>
           e.unit /\ (u = leader => e.app)
      /\ \A s \in Sink :
           /\ e.rules[s] = "charm" => d.rules[s] = "charm" \/ ReconcilesAt(n, h.kind)
           /\ ReconcilesAt(n, h.kind) /\ u = leader /\ s \in scope[u]
                /\ KindOf[s] \in {"loki", "write"} => e.rules[s] = "charm"
           /\ d.rules[s] = "charm" => e.rules[s] = "charm" \/ n \in {1, 4}

(* The unit's config file follows its draft; nothing else changes. *)
StageStep(u, n) ==
  \E e :
    /\ NextIs(u, n) /\ StageDraft(u, n, hook[u].draft, e) /\ Does(u, n, e) /\ count' \in Nat
    /\ \/ e.text = hook[u].draft.text /\ config' = config /\ torn' = torn
       \/ config' = [config EXCEPT ![u] = e.text] /\ torn' = torn \ {u}

LEMMA RunningHook ==
  ASSUME TypeInv, NEW u \in Unit, ~Free(u)
  PROVE  hook[u] \in Hook /\ hook[u].draft \in Draft
  BY DEF TypeInv, Free, Hook

LEMMA ServiceCounts ==
  ASSUME TypeInv, NEW up, Service(up) PROVE count' \in Nat
  BY DEF TypeInv, Service, Counted

LEMMA PushLokiStep ==
  ASSUME TypeInv, NEW u \in Unit, PushLokiRules(u) PROVE StageStep(u, 1)
<1> DEFINE e == Pushed(u, hook[u].draft, Targets(u, "loki"))
<1>1. NextIs(u, 1) /\ Does(u, 1, e) /\ config' = config /\ torn' = torn /\ count' \in Nat
  BY DEF PushLokiRules, TypeInv
<1>2. hook[u] \in Hook /\ hook[u].draft \in Draft
  BY <1>1, RunningHook DEF NextIs
<1>3. /\ e \in Draft /\ e.text = hook[u].draft.text /\ e.unit = hook[u].draft.unit
      /\ e.app = hook[u].draft.app /\ e.stale = hook[u].draft.stale
      /\ \A s \in Sink : e.rules[s] \in {hook[u].draft.rules[s], "library"}
  BY <1>2, PushedFrame
<1> HIDE DEF e
<1>4. StageDraft(u, 1, hook[u].draft, e)
  BY <1>3 DEF StageDraft, ConfiguresAt, RefreshesAt, ReconcilesAt
<1> QED BY <1>1, <1>3, <1>4 DEF StageStep

LEMMA PushWriteStep ==
  ASSUME TypeInv, NEW u \in Unit, PushWriteRules(u) PROVE StageStep(u, 4)
<1> DEFINE p == Pushed(u, hook[u].draft, Targets(u, "write"))
           e == WithMetadata(u, p, Targets(u, "write"))
<1>1. NextIs(u, 4) /\ Does(u, 4, e) /\ config' = config /\ torn' = torn /\ count' \in Nat
  BY DEF PushWriteRules, TypeInv
<1>2. hook[u] \in Hook /\ hook[u].draft \in Draft
  BY <1>1, RunningHook DEF NextIs
<1>3. /\ p \in Draft /\ p.text = hook[u].draft.text /\ p.unit = hook[u].draft.unit
      /\ p.app = hook[u].draft.app /\ p.stale = hook[u].draft.stale
      /\ \A s \in Sink : p.rules[s] \in {hook[u].draft.rules[s], "library"}
  BY <1>2, PushedFrame
<1>4. /\ e \in Draft /\ e.text = p.text /\ e.unit = p.unit /\ e.rules = p.rules
      /\ e.app = p.app /\ e.stale = p.stale
  BY <1>2, <1>3, MetadataFrame
<1> HIDE DEF e, p
<1>5. StageDraft(u, 4, hook[u].draft, e) /\ e.text = hook[u].draft.text
  BY <1>3, <1>4 DEF StageDraft, ConfiguresAt, RefreshesAt, ReconcilesAt
<1> QED BY <1>1, <1>5 DEF StageStep

(* A handler that configures writes the file as it changes its draft. *)
LEMMA FileFollows ==
  ASSUME NEW u \in Unit, WriteConfig(u), NEW e,
         e.text = IF Accepted(u) THEN Text(hook[u].seen) ELSE hook[u].draft.text
  PROVE  \/ e.text = hook[u].draft.text /\ config' = config /\ torn' = torn
         \/ config' = [config EXCEPT ![u] = e.text] /\ torn' = torn \ {u}
  BY DEF WriteConfig, Writes

LEMMA LokiStep ==
  ASSUME TypeInv, NEW u \in Unit, LokiEndpointChanged(u) PROVE StageStep(u, 2)
<1>0. PICK up \in BOOLEAN : Does(u, 2, OnLokiChanged(u, hook[u].draft, up)) /\ Service(up)
  BY DEF LokiEndpointChanged, Reloads
<1> DEFINE d == hook[u].draft
           c == Configured(u, d)
           r == SyslogRefreshed(u, c)
           q == Untold(c)
           e == OnLokiChanged(u, d, up)
<1>1. NextIs(u, 2) /\ Does(u, 2, e) /\ WriteConfig(u) /\ count' \in Nat
  BY <1>0, ServiceCounts DEF LokiEndpointChanged
<1>2. hook[u] \in Hook /\ d \in Draft
  BY <1>1, RunningHook DEF NextIs
<1>3. /\ c \in Draft /\ c.rules = d.rules /\ c.unit = d.unit /\ c.app = d.app /\ c.stale = d.stale
      /\ c.text = IF Accepted(u) THEN Text(hook[u].seen) ELSE d.text
  BY <1>2, ConfigFrame
<1>4. e = IF Refused(u) THEN d ELSE IF up THEN r ELSE q
  BY DEF OnLokiChanged
<1> HIDE DEF c
<1>5. /\ r \in Draft /\ r.text = c.text /\ r.rules = c.rules /\ r.stale = c.stale
      /\ r.unit = (c.unit \/ hook[u].seen.requirer)
      /\ r.app = (c.app \/ (hook[u].seen.requirer /\ u = leader))
  BY <1>2, <1>3, SyslogFrame
<1>6. /\ q \in Draft /\ q.text = c.text /\ q.rules = c.rules /\ q.unit = c.unit /\ q.app = c.app
      /\ q.stale
  BY <1>3, MarksFrame
<1> HIDE DEF d, e, r, q
<1>7. Refused(u) => ~Accepted(u)
  BY DEF Refused, Accepted
<1>8. e.text = IF Accepted(u) THEN Text(hook[u].seen) ELSE d.text
  BY <1>3, <1>4, <1>5, <1>6, <1>7
<1>9. d.unit \in BOOLEAN /\ d.app \in BOOLEAN /\ d.stale \in BOOLEAN /\ hook[u].seen.requirer \in BOOLEAN
  BY <1>2 DEF Draft, Hook, Reading
<1>10. StageDraft(u, 2, d, e)
  <2>1. /\ e \in Draft /\ e.rules = d.rules
        /\ e.unit => d.unit \/ hook[u].seen.requirer
        /\ (d.unit => e.unit) /\ (d.app => e.app) /\ (d.stale => e.stale)
    BY <1>2, <1>3, <1>4, <1>5, <1>6, <1>9
  <2>2. hook[u].seen.requirer /\ Accepted(u) => e.unit \/ e.stale
    BY <1>3, <1>4, <1>5, <1>6, <1>7, <1>9
  <2> QED BY <1>8, <2>1, <2>2 DEF StageDraft, ConfiguresAt, RefreshesAt, ReconcilesAt
<1> QED BY <1>1, <1>8, <1>10, FileFollows DEF StageStep, d

LEMMA MetricsStep ==
  ASSUME TypeInv, NEW u \in Unit, MetricsRelationChanged(u) PROVE StageStep(u, 3)
<1>0. PICK up \in BOOLEAN : Does(u, 3, OnMetricsChanged(u, hook[u].draft, up)) /\ Service(up)
  BY DEF MetricsRelationChanged, Reloads
<1> DEFINE d == hook[u].draft
           c == Configured(u, d)
           r == MetadataRemoved(u, c)
           e == OnMetricsChanged(u, d, up)
<1>1. NextIs(u, 3) /\ Does(u, 3, e) /\ WriteConfig(u) /\ count' \in Nat
  BY <1>0, ServiceCounts DEF MetricsRelationChanged
<1>2. hook[u] \in Hook /\ d \in Draft
  BY <1>1, RunningHook DEF NextIs
<1>3. /\ c \in Draft /\ c.rules = d.rules /\ c.unit = d.unit /\ c.app = d.app /\ c.stale = d.stale
      /\ c.text = IF Accepted(u) THEN Text(hook[u].seen) ELSE d.text
  BY <1>2, ConfigFrame
<1>4. e = IF Refused(u) THEN d ELSE IF up THEN r ELSE c
  BY DEF OnMetricsChanged
<1> HIDE DEF c
<1>5. /\ r \in Draft /\ r.text = c.text /\ r.rules = c.rules /\ r.unit = c.unit /\ r.app = c.app
      /\ r.stale = c.stale
  BY <1>2, <1>3, MetadataFrame
<1> HIDE DEF d, e, r
<1>6. Refused(u) => ~Accepted(u)
  BY DEF Refused, Accepted
<1>7. e.text = IF Accepted(u) THEN Text(hook[u].seen) ELSE d.text
  BY <1>3, <1>4, <1>5, <1>6
<1>8. /\ e \in Draft /\ e.rules = d.rules /\ e.unit = d.unit /\ e.app = d.app /\ e.stale = d.stale
  BY <1>2, <1>3, <1>4, <1>5
<1>9. StageDraft(u, 3, d, e)
  BY <1>7, <1>8 DEF StageDraft, ConfiguresAt, RefreshesAt, ReconcilesAt
<1> QED BY <1>1, <1>7, <1>9, FileFollows DEF StageStep, d

LEMMA RuleEventStep ==
  ASSUME TypeInv, NEW u \in Unit, RuleRelationEvent(u) PROVE StageStep(u, 6)
<1> DEFINE d == hook[u].draft
           r == MetadataRemoved(u, d)
           e == OnRuleEvent(u, d)
<1>1. NextIs(u, 6) /\ Does(u, 6, e) /\ config' = config /\ torn' = torn /\ count' \in Nat
  BY DEF RuleRelationEvent, TypeInv
<1>2. hook[u] \in Hook /\ d \in Draft
  BY <1>1, RunningHook DEF NextIs
<1>3. /\ r \in Draft /\ r.text = d.text /\ r.unit = d.unit /\ r.rules = d.rules
      /\ r.app = d.app /\ r.stale = d.stale
  BY <1>2, MetadataFrame
<1>4. e = Reconciled(u, r)
  BY DEF OnRuleEvent
<1> HIDE DEF d, r, e
<1>5. /\ e \in Draft /\ e.text = r.text /\ e.unit = r.unit /\ e.app = r.app /\ e.stale = r.stale
      /\ \A s \in Sink : /\ e.rules[s] \in {r.rules[s], "charm"}
                         /\ u = leader /\ s \in scope[u] /\ KindOf[s] \in {"loki", "write"} =>
                              e.rules[s] = "charm"
  BY <1>2, <1>3, <1>4, ReconciledFrame
<1>6. StageDraft(u, 6, d, e) /\ e.text = d.text
  BY <1>3, <1>5 DEF StageDraft, ConfiguresAt, RefreshesAt, ReconcilesAt
<1> QED BY <1>1, <1>6 DEF StageStep, d

(* config-changed, and the hooks of the cloud relations and principals:    *)
(* configure, drop the metadata, refresh; or give up after the write.      *)
LEMMA ObservabilityDraft ==
  ASSUME NEW u \in Unit, hook[u] \in Hook, hook[u].draft \in Draft, NEW up
  PROVE  LET d == hook[u].draft
             e == OnObservabilityChanged(u, d, up)
         IN  /\ e \in Draft /\ e.rules = d.rules
             /\ e.text = IF Accepted(u) THEN Text(hook[u].seen) ELSE d.text
             /\ e.unit => d.unit \/ hook[u].seen.requirer
             /\ (d.unit => e.unit) /\ (d.app => e.app) /\ (d.stale => e.stale)
             /\ Accepted(u) /\ hook[u].seen.requirer => e.unit \/ e.stale
<1> DEFINE d == hook[u].draft
           c == Configured(u, d)
           r == MetadataRemoved(u, c)
           q == SyslogRefreshed(u, r)
           g == Untold(c)
           e == OnObservabilityChanged(u, d, up)
<1>1. /\ c \in Draft /\ c.rules = d.rules /\ c.unit = d.unit /\ c.app = d.app /\ c.stale = d.stale
      /\ c.text = IF Accepted(u) THEN Text(hook[u].seen) ELSE d.text
  BY ConfigFrame
<1>2. e = IF Refused(u) THEN d ELSE IF up THEN q ELSE g
  BY DEF OnObservabilityChanged
<1>3. Refused(u) => ~Accepted(u)
  BY DEF Refused, Accepted
<1>4. d \in Draft /\ d.unit \in BOOLEAN /\ d.app \in BOOLEAN /\ d.stale \in BOOLEAN
        /\ hook[u].seen.requirer \in BOOLEAN
  BY DEF Draft, Hook, Reading
<1> HIDE DEF c
<1>5. /\ r \in Draft /\ r.text = c.text /\ r.rules = c.rules /\ r.unit = c.unit /\ r.app = c.app
      /\ r.stale = c.stale
  BY <1>1, MetadataFrame
<1>6. /\ g \in Draft /\ g.text = c.text /\ g.rules = c.rules /\ g.unit = c.unit /\ g.app = c.app
      /\ g.stale
  BY <1>1, MarksFrame
<1> HIDE DEF r, g
<1>7. /\ q \in Draft /\ q.text = r.text /\ q.rules = r.rules /\ q.stale = r.stale
      /\ q.unit = (r.unit \/ hook[u].seen.requirer)
      /\ q.app = (r.app \/ (hook[u].seen.requirer /\ u = leader))
  BY <1>5, SyslogFrame
<1> HIDE DEF q, d, e
<1>8. /\ e \in Draft /\ e.rules = d.rules
      /\ e.text = IF Accepted(u) THEN Text(hook[u].seen) ELSE d.text
  BY <1>1, <1>2, <1>3, <1>4, <1>5, <1>6, <1>7
<1>9. /\ e.unit => d.unit \/ hook[u].seen.requirer
      /\ (d.unit => e.unit) /\ (d.app => e.app) /\ (d.stale => e.stale)
  BY <1>1, <1>2, <1>4, <1>5, <1>6, <1>7
<1>10. Accepted(u) /\ hook[u].seen.requirer => e.unit \/ e.stale
  BY <1>1, <1>2, <1>3, <1>4, <1>5, <1>6, <1>7
<1> QED BY <1>8, <1>9, <1>10 DEF d, e

(* A start refreshes only when the service starts, and reconciles anyway. *)
LEMMA StartDraft ==
  ASSUME NEW u \in Unit, hook[u] \in Hook, NEW d \in Draft, NEW up
  PROVE  LET e == OnStart(u, d, up)
         IN  /\ e \in Draft /\ e.text = d.text
             /\ e.unit => d.unit \/ hook[u].seen.requirer
             /\ (d.unit => e.unit) /\ (d.app => e.app) /\ (d.stale => e.stale)
             /\ \A s \in Sink :
                  /\ e.rules[s] \in {d.rules[s], "charm"}
                  /\ u = leader /\ s \in scope[u] /\ KindOf[s] \in {"loki", "write"} =>
                       e.rules[s] = "charm"
<1> DEFINE m == MetadataRemoved(u, d)
           r == SyslogRefreshed(u, m)
           f == [d EXCEPT !.deferred = TRUE]
           c == IF up THEN r ELSE f
           e == OnStart(u, d, up)
<1>1. /\ m \in Draft /\ m.text = d.text /\ m.rules = d.rules /\ m.unit = d.unit /\ m.app = d.app
      /\ m.stale = d.stale
  BY MetadataFrame
<1>2. /\ f \in Draft /\ f.text = d.text /\ f.rules = d.rules /\ f.unit = d.unit /\ f.app = d.app
      /\ d.stale => f.stale
  BY MarksFrame
<1> HIDE DEF m, f
<1>3. /\ r \in Draft /\ r.text = m.text /\ r.rules = m.rules /\ r.stale = m.stale
      /\ r.unit = (m.unit \/ hook[u].seen.requirer)
      /\ r.app = (m.app \/ (hook[u].seen.requirer /\ u = leader))
  BY <1>1, SyslogFrame
<1> HIDE DEF r
<1>4. d.unit \in BOOLEAN /\ d.app \in BOOLEAN /\ hook[u].seen.requirer \in BOOLEAN
  BY DEF Draft, Hook, Reading
<1>5. /\ c \in Draft /\ c.text = d.text /\ c.rules = d.rules
      /\ c.unit => d.unit \/ hook[u].seen.requirer
      /\ (d.unit => c.unit) /\ (d.app => c.app) /\ (d.stale => c.stale)
  BY <1>1, <1>2, <1>3, <1>4
<1>6. e = Reconciled(u, c)
  BY DEF OnStart, m, r, f
<1> HIDE DEF c, e
<1>7. /\ e \in Draft /\ e.text = c.text /\ e.unit = c.unit /\ e.app = c.app /\ e.stale = c.stale
      /\ \A s \in Sink : /\ e.rules[s] \in {c.rules[s], "charm"}
                         /\ u = leader /\ s \in scope[u] /\ KindOf[s] \in {"loki", "write"} =>
                              e.rules[s] = "charm"
  BY <1>5, <1>6, ReconciledFrame
<1>8. /\ e \in Draft /\ e.text = d.text
      /\ e.unit => d.unit \/ hook[u].seen.requirer
      /\ (d.unit => e.unit) /\ (d.app => e.app) /\ (d.stale => e.stale)
      /\ \A s \in Sink : /\ e.rules[s] \in {d.rules[s], "charm"}
                         /\ u = leader /\ s \in scope[u] /\ KindOf[s] \in {"loki", "write"} =>
                              e.rules[s] = "charm"
  BY <1>5, <1>7
<1> QED BY <1>8 DEF e

(* update-status refreshes and reconciles whatever _configure would say.   *)
LEMMA StatusDraft ==
  ASSUME NEW u \in Unit, hook[u] \in Hook, NEW d \in Draft, NEW up
  PROVE  LET e == OnUpdateStatus(u, d, up)
         IN  /\ e \in Draft /\ e.text = d.text
             /\ e.unit = (d.unit \/ hook[u].seen.requirer)
             /\ e.app = (d.app \/ (hook[u].seen.requirer /\ u = leader))
             /\ d.stale => e.stale
             /\ \A s \in Sink :
                  /\ e.rules[s] \in {d.rules[s], "charm"}
                  /\ u = leader /\ s \in scope[u] /\ KindOf[s] \in {"loki", "write"} =>
                       e.rules[s] = "charm"
<1> DEFINE n == DriftNoted(u, d)
           c == IF up THEN n ELSE d
           r == SyslogRefreshed(u, c)
           e == OnUpdateStatus(u, d, up)
<1>1. /\ n \in Draft /\ n.text = d.text /\ n.rules = d.rules /\ n.unit = d.unit /\ n.app = d.app
      /\ d.stale => n.stale
  BY MarksFrame
<1> HIDE DEF n
<1>2. /\ c \in Draft /\ c.text = d.text /\ c.rules = d.rules /\ c.unit = d.unit /\ c.app = d.app
      /\ d.stale => c.stale
  BY <1>1
<1>3. e = Reconciled(u, r)
  BY DEF OnUpdateStatus, n
<1> HIDE DEF c
<1>4. /\ r \in Draft /\ r.text = c.text /\ r.rules = c.rules /\ r.stale = c.stale
      /\ r.unit = (c.unit \/ hook[u].seen.requirer)
      /\ r.app = (c.app \/ (hook[u].seen.requirer /\ u = leader))
  BY <1>2, SyslogFrame
<1> HIDE DEF r, e
<1>5. /\ e \in Draft /\ e.text = r.text /\ e.unit = r.unit /\ e.app = r.app /\ e.stale = r.stale
      /\ \A s \in Sink : /\ e.rules[s] \in {r.rules[s], "charm"}
                         /\ u = leader /\ s \in scope[u] /\ KindOf[s] \in {"loki", "write"} =>
                              e.rules[s] = "charm"
  BY <1>3, <1>4, ReconciledFrame
<1>6. /\ e \in Draft /\ e.text = d.text
      /\ e.unit = (d.unit \/ hook[u].seen.requirer)
      /\ e.app = (d.app \/ (hook[u].seen.requirer /\ u = leader))
      /\ d.stale => e.stale
      /\ \A s \in Sink : /\ e.rules[s] \in {d.rules[s], "charm"}
                         /\ u = leader /\ s \in scope[u] /\ KindOf[s] \in {"loki", "write"} =>
                              e.rules[s] = "charm"
  BY <1>2, <1>4, <1>5
<1> QED BY <1>6 DEF e

LEMMA DeferredStep ==
  ASSUME TypeInv, NEW u \in Unit, DeferredStart(u) PROVE StageStep(u, 0)
<1> DEFINE d == hook[u].draft
           f == [d EXCEPT !.deferred = FALSE]
<1>0. PICK up \in BOOLEAN : Does(u, 0, OnStart(u, f, up)) /\ Service(up)
  BY DEF DeferredStart
<1> DEFINE e == OnStart(u, f, up)
<1>1. NextIs(u, 0) /\ Does(u, 0, e) /\ config' = config /\ torn' = torn /\ count' \in Nat
  BY <1>0, ServiceCounts DEF DeferredStart
<1>2. hook[u] \in Hook /\ d \in Draft
  BY <1>1, RunningHook DEF NextIs
<1>3. /\ f \in Draft /\ f.text = d.text /\ f.rules = d.rules /\ f.unit = d.unit /\ f.app = d.app
      /\ d.stale => f.stale
  BY <1>2, MarksFrame
<1> HIDE DEF f
<1>4. /\ e \in Draft /\ e.text = f.text
      /\ e.unit => f.unit \/ hook[u].seen.requirer
      /\ (f.unit => e.unit) /\ (f.app => e.app) /\ (f.stale => e.stale)
      /\ \A s \in Sink : /\ e.rules[s] \in {f.rules[s], "charm"}
                         /\ u = leader /\ s \in scope[u] /\ KindOf[s] \in {"loki", "write"} =>
                              e.rules[s] = "charm"
  BY <1>2, <1>3, StartDraft
<1> HIDE DEF d, e
<1>5. StageDraft(u, 0, d, e) /\ e.text = d.text
  BY <1>3, <1>4 DEF StageDraft, ConfiguresAt, RefreshesAt, ReconcilesAt
<1> QED BY <1>1, <1>5 DEF StageStep, d

LEMMA OwnStep ==
  ASSUME TypeInv, NEW u \in Unit, OwnHandler(u) PROVE StageStep(u, 5)
<1>0. PICK up \in BOOLEAN : Does(u, 5, OwnDraft(u, hook[u].draft, up)) /\ Service(up)
  BY DEF OwnHandler, Reloads
<1> DEFINE h == hook[u]
           d == h.draft
           e == OwnDraft(u, d, up)
           o == OnObservabilityChanged(u, d, up)
<1>1. NextIs(u, 5) /\ Does(u, 5, e) /\ count' \in Nat
  BY <1>0, ServiceCounts DEF OwnHandler
<1>2. h \in Hook /\ d \in Draft
  BY <1>1, RunningHook DEF NextIs
<1>3. /\ o \in Draft /\ o.rules = d.rules
      /\ o.text = IF Accepted(u) THEN Text(h.seen) ELSE d.text
      /\ o.unit => d.unit \/ h.seen.requirer
      /\ (d.unit => o.unit) /\ (d.app => o.app) /\ (d.stale => o.stale)
      /\ Accepted(u) /\ h.seen.requirer => o.unit \/ o.stale
  BY <1>2, ObservabilityDraft
<1>4. d.unit \in BOOLEAN /\ d.app \in BOOLEAN /\ h.seen.requirer \in BOOLEAN
  BY <1>2 DEF Hook, Draft, Reading
<1>5. CASE h.kind = "config-changed"
  <2>1. e = Reconciled(u, o)
    BY <1>5 DEF OwnDraft, OnConfigChanged
  <2>2. WriteConfig(u)
    BY <1>5 DEF OwnHandler
  <2> HIDE DEF o, e
  <2>3. /\ e \in Draft /\ e.text = o.text /\ e.unit = o.unit /\ e.app = o.app /\ e.stale = o.stale
        /\ \A s \in Sink : /\ e.rules[s] \in {o.rules[s], "charm"}
                           /\ u = leader /\ s \in scope[u] /\ KindOf[s] \in {"loki", "write"} =>
                                e.rules[s] = "charm"
    BY <1>2, <1>3, <2>1, ReconciledFrame
  <2> HIDE DEF d
  <2>4. StageDraft(u, 5, d, e)
    BY <1>3, <1>4, <1>5, <2>3 DEF StageDraft, ConfiguresAt, RefreshesAt, ReconcilesAt
  <2>5. e.text = IF Accepted(u) THEN Text(h.seen) ELSE d.text
    BY <1>3, <2>3
  <2> QED BY <1>1, <2>2, <2>4, <2>5, FileFollows DEF StageStep, d
<1>6. CASE h.kind = "upgrade-charm"
  <2>1. e = MetadataRemoved(u, d)
    BY <1>6 DEF OwnDraft
  <2>2. config' = config /\ torn' = torn
    BY <1>6 DEF OwnHandler
  <2> HIDE DEF e
  <2>3. /\ e \in Draft /\ e.text = d.text /\ e.unit = d.unit /\ e.rules = d.rules
        /\ e.app = d.app /\ e.stale = d.stale
    BY <1>2, <2>1, MetadataFrame
  <2> HIDE DEF d
  <2>4. StageDraft(u, 5, d, e)
    BY <1>4, <1>6, <2>3 DEF StageDraft, ConfiguresAt, RefreshesAt, ReconcilesAt
  <2> QED BY <1>1, <2>2, <2>3, <2>4 DEF StageStep, d
<1>7. CASE h.kind = "update-status"
  <2>1. e = OnUpdateStatus(u, d, up)
    BY <1>7 DEF OwnDraft
  <2>2. config' = config /\ torn' = torn
    BY <1>7 DEF OwnHandler
  <2> HIDE DEF e
  <2>3. /\ e \in Draft /\ e.text = d.text
        /\ e.unit = (d.unit \/ h.seen.requirer)
        /\ e.app = (d.app \/ (h.seen.requirer /\ u = leader))
        /\ d.stale => e.stale
        /\ \A s \in Sink : /\ e.rules[s] \in {d.rules[s], "charm"}
                           /\ u = leader /\ s \in scope[u] /\ KindOf[s] \in {"loki", "write"} =>
                                e.rules[s] = "charm"
    BY <1>2, <2>1, StatusDraft
  <2> HIDE DEF d
  <2>4. StageDraft(u, 5, d, e)
    BY <1>4, <1>7, <2>3 DEF StageDraft, ConfiguresAt, RefreshesAt, ReconcilesAt
  <2> QED BY <1>1, <2>2, <2>3, <2>4 DEF StageStep, d
<1>8. CASE h.kind = "syslog"
  <2>1. e = SyslogRefreshed(u, d)
    BY <1>8 DEF OwnDraft
  <2>2. config' = config /\ torn' = torn
    BY <1>8 DEF OwnHandler
  <2> HIDE DEF e
  <2>3. /\ e \in Draft /\ e.text = d.text /\ e.rules = d.rules /\ e.unit = (d.unit \/ h.seen.requirer)
        /\ e.app = (d.app \/ (h.seen.requirer /\ u = leader)) /\ e.stale = d.stale
    BY <1>2, <2>1, SyslogFrame
  <2> HIDE DEF d
  <2>4. StageDraft(u, 5, d, e)
    BY <1>4, <1>8, <2>3 DEF StageDraft, ConfiguresAt, RefreshesAt, ReconcilesAt
  <2> QED BY <1>1, <2>2, <2>3, <2>4 DEF StageStep, d
<1>9. CASE h.kind = "start"
  <2>1. e = OnStart(u, d, up)
    BY <1>9 DEF OwnDraft
  <2>2. config' = config /\ torn' = torn
    BY <1>9 DEF OwnHandler
  <2> HIDE DEF e
  <2>3. /\ e \in Draft /\ e.text = d.text
        /\ e.unit => d.unit \/ h.seen.requirer
        /\ (d.unit => e.unit) /\ (d.app => e.app) /\ (d.stale => e.stale)
        /\ \A s \in Sink : /\ e.rules[s] \in {d.rules[s], "charm"}
                           /\ u = leader /\ s \in scope[u] /\ KindOf[s] \in {"loki", "write"} =>
                                e.rules[s] = "charm"
    BY <1>2, <2>1, StartDraft
  <2> HIDE DEF d
  <2>4. StageDraft(u, 5, d, e)
    BY <1>4, <1>9, <2>3 DEF StageDraft, ConfiguresAt, RefreshesAt, ReconcilesAt
  <2> QED BY <1>1, <2>2, <2>3, <2>4 DEF StageStep, d
<1>10. CASE h.kind \notin {"config-changed", "upgrade-charm", "start", "update-status", "syslog"}
  <2>1. e = o
    BY <1>10 DEF OwnDraft
  <2>2. WriteConfig(u)
    BY <1>10 DEF OwnHandler
  <2> HIDE DEF o, e, d
  <2>3. StageDraft(u, 5, d, e)
    BY <1>3, <1>4, <1>10, <2>1 DEF StageDraft, ConfiguresAt, RefreshesAt, ReconcilesAt
  <2>4. e.text = IF Accepted(u) THEN Text(h.seen) ELSE d.text
    BY <1>3, <2>1
  <2> QED BY <1>1, <2>2, <2>3, <2>4, FileFollows DEF StageStep, d
<1> QED BY <1>5, <1>6, <1>7, <1>8, <1>9, <1>10

(* The seven handlers. *)
LEMMA EveryStage ==
  ASSUME TypeInv, NEW u \in Unit, HookStep(u), ~HookEnds(u)
  PROVE  \E n \in 0..6 : StageStep(u, n)
<1>1. \/ StageStep(u, 0) \/ StageStep(u, 1) \/ StageStep(u, 2) \/ StageStep(u, 3)
      \/ StageStep(u, 4) \/ StageStep(u, 5) \/ StageStep(u, 6)
  BY DeferredStep, PushLokiStep, LokiStep, MetricsStep, PushWriteStep, OwnStep, RuleEventStep
     DEF HookStep
<1> QED BY <1>1

-----------------------------------------------------------------------------
(* What the beginning of a hook does *)

Fresh(u, kind, s, seen) ==
  [kind |-> kind, sink |-> s, todo |-> Stages(u, kind, s), seen |-> seen,
   draft |-> NoDraft(u), failed |-> FALSE]

(* What a beginning hook has read is what its unit is offered from now on. *)
ReadsWorld(u, seen) ==
  /\ seen \in Reading
  /\ Listed(seen.loki) = Endpoints("loki", view'[u], scope'[u])
  /\ Listed(seen.write) = Endpoints("write", view'[u], scope'[u])
  /\ seen.ask = ask /\ seen.requirer = requirer

(* What is due no more, and what is offered anew, the hook sees to.  *)
TakesOn(u, kind, stages) ==
  /\ Due(u) => Due(u)' \/ Configures(kind, stages)
  /\ DueLoki(u) => DueLoki(u)' \/ Refreshes(kind, stages)
  /\ \/ Endpoints("loki", view'[u], scope'[u]) = Offered(u, "loki")
     \/ Configures(kind, stages) /\ Refreshes(kind, stages)
  /\ \/ Endpoints("write", view'[u], scope'[u]) = Offered(u, "write")
     \/ Configures(kind, stages)
  /\ \/ Reconciles(kind, stages)
     \/ /\ "leader-elected" \in queue[u] => "leader-elected" \in queue'[u]
        /\ \A m \in view'[u] : KindOf[SinkOf[m]] # "cloud" =>
             m \in view[u] /\ (SinkOf[m] \in changed[u] => SinkOf[m] \in changed'[u])

(* The unit's own model of the world, and nobody else's, moves on. *)
MovesOn(u) ==
  /\ UNCHANGED <<world, config, state, bags, past>>
  /\ view' \in [Unit -> SUBSET Remote] /\ scope' \in [Unit -> SUBSET Sink]
  /\ changed' \in [Unit -> SUBSET Sink] /\ queue' \in [Unit -> SUBSET Queueable]
  /\ \A v \in Unit \ {u} : /\ view'[v] = view[v] /\ scope'[v] = scope[v]
                           /\ changed'[v] = changed[v] /\ queue'[v] = queue[v]
  /\ \A m \in view'[u] : SinkOf[m] \in scope'[u] /\ member[m] # Absent
  /\ Sink \ dying \subseteq scope'[u]

BeginStep(u) ==
  \E kind \in HookKind, s \in Sink \cup {Bottom} : \E seen :
    /\ hook' = [hook EXCEPT ![u] = Fresh(u, kind, s, seen)]
    /\ ReadsWorld(u, seen) /\ MovesOn(u) /\ TakesOn(u, kind, Stages(u, kind, s))
    /\ \/ Free(u)
       \/ Failed(u) /\ kind = hook[u].kind /\ s = hook[u].sink

LEMMA BeginReads ==
  ASSUME TypeInv, NEW u \in Unit, NEW kind, NEW s, NEW members \in SUBSET Remote, NEW sinks,
         Begin(u, kind, s, members, sinks), view'[u] = members, scope'[u] = sinks
  PROVE  \E seen : /\ hook' = [hook EXCEPT ![u] = Fresh(u, kind, s, seen)]
                   /\ ReadsWorld(u, seen)
<1>1. PICK seen \in Readings(members, sinks) :
        hook' = [hook EXCEPT ![u] = Fresh(u, kind, s, seen)]
  BY DEF Begin, Fresh
<1>2. /\ seen \in [loki : Lists("loki", members, sinks), write : Lists("write", members, sinks),
                   ask : {ask}, requirer : {requirer}]
      /\ ask \in Ask /\ requirer \in BOOLEAN
  BY DEF Readings, TypeInv
<1>3. /\ seen.loki \in OnceEach /\ Listed(seen.loki) = Endpoints("loki", members, sinks)
      /\ seen.write \in OnceEach /\ Listed(seen.write) = Endpoints("write", members, sinks)
  BY <1>2, ListsOnceEach
<1>4. ReadsWorld(u, seen)
  BY <1>2, <1>3 DEF ReadsWorld, Reading
<1> QED BY <1>1, <1>4

(* What a unit is offered depends on the members of a kind and on whether  *)
(* there is a cloud relation.                                              *)
LEMMA OfferedBy ==
  ASSUME NEW kind, NEW members, NEW others, NEW sinks, NEW rest,
         \A m : KindOf[SinkOf[m]] = kind => (m \in members <=> m \in others),
         Of("cloud", sinks) = Of("cloud", rest)
  PROVE  Endpoints(kind, members, sinks) = Endpoints(kind, others, rest)
<1>1. RelationUrls(kind, members) = RelationUrls(kind, others)
  BY DEF RelationUrls
<1>2. CloudUrls(kind, sinks) = CloudUrls(kind, rest)
  BY DEF CloudUrls, CloudSignals
<1> QED BY <1>1, <1>2 DEF Endpoints

LEMMA JoinedBegins ==
  ASSUME TypeInv, SightInv, NEW u \in Unit, NEW m \in Remote, RelationJoined(u, m)
  PROVE  BeginStep(u)
<1> DEFINE s == SinkOf[m]
           stages == Stages(u, "joined", s)
<1>1. /\ Free(u) /\ member[m] = "present" /\ s \in scope[u] /\ s \in Sink /\ KindOf[s] \in Kind
      /\ view' = [view EXCEPT ![u] = @ \cup {m}] /\ scope' = scope
      /\ changed' = [changed EXCEPT ![u] = @ \cup {s}] /\ queue' = queue
      /\ Begin(u, "joined", s, view[u] \cup {m}, scope[u])
      /\ UNCHANGED <<world, config, state, bags, past>>
  BY RemoteAssumption, KindAssumption DEF RelationJoined
<1>2. /\ view'[u] = view[u] \cup {m} /\ scope'[u] = scope[u] /\ view[u] \subseteq Remote
      /\ changed'[u] = changed[u] \cup {s} /\ queue'[u] = queue[u]
  BY <1>1 DEF TypeInv
<1>3. PICK seen : hook' = [hook EXCEPT ![u] = Fresh(u, "joined", s, seen)] /\ ReadsWorld(u, seen)
  BY <1>1, <1>2, BeginReads
<1>4. MovesOn(u)
  BY <1>1, <1>2 DEF MovesOn, TypeInv, SightInv, Absent
<1> HIDE DEF stages, s
<1>5. /\ Configures("joined", stages)
      /\ KindOf[s] # "write" => Refreshes("joined", stages)
      /\ KindOf[s] # "cloud" => Reconciles("joined", stages)
  BY <1>1, HookTable DEF stages
<1>6. KindOf[s] # "loki" => Endpoints("loki", view'[u], scope'[u]) = Offered(u, "loki")
  BY <1>2, OfferedBy DEF Offered, s
<1>7. TakesOn(u, "joined", stages)
  <2>1. DueLoki(u) => DueLoki(u)'
    BY <1>2 DEF DueLoki, Offers, AsksAgain
  <2>2. \A x \in view'[u] : KindOf[SinkOf[x]] # "cloud" /\ KindOf[s] = "cloud" =>
          x \in view[u] /\ (SinkOf[x] \in changed[u] => SinkOf[x] \in changed'[u])
    BY <1>2 DEF s
  <2> QED BY <1>1, <1>2, <1>5, <1>6, <2>1, <2>2 DEF TakesOn, Kind
<1> QED BY <1>1, <1>3, <1>4, <1>7 DEF BeginStep, HookKind, stages

LEMMA DepartedBegins ==
  ASSUME TypeInv, SightInv, NEW u \in Unit, NEW m \in Remote, RelationDeparted(u, m)
  PROVE  BeginStep(u)
<1> DEFINE s == SinkOf[m]
           stages == Stages(u, "departed", s)
<1>1. /\ Free(u) /\ m \in view[u] /\ s \in Sink /\ KindOf[s] \in Kind
      /\ view' = [view EXCEPT ![u] = @ \ {m}] /\ scope' = scope
      /\ changed' = changed /\ queue' = queue
      /\ Begin(u, "departed", s, view[u] \ {m}, scope[u])
      /\ UNCHANGED <<world, config, state, bags, past>>
  BY RemoteAssumption, KindAssumption DEF RelationDeparted
<1>2. view'[u] = view[u] \ {m} /\ scope'[u] = scope[u] /\ view[u] \subseteq Remote
  BY <1>1 DEF TypeInv
<1>3. PICK seen : hook' = [hook EXCEPT ![u] = Fresh(u, "departed", s, seen)] /\ ReadsWorld(u, seen)
  BY <1>1, <1>2, BeginReads
<1>4. MovesOn(u)
  BY <1>1, <1>2 DEF MovesOn, TypeInv, SightInv
<1> HIDE DEF stages, s
<1>5. /\ KindOf[s] # "cloud" => Configures("departed", stages)
      /\ KindOf[s] = "loki" => Refreshes("departed", stages)
  BY <1>1, HookTable DEF stages
<1>6. /\ KindOf[s] # "loki" => Endpoints("loki", view'[u], scope'[u]) = Offered(u, "loki")
      /\ KindOf[s] # "write" => Endpoints("write", view'[u], scope'[u]) = Offered(u, "write")
  BY <1>2, OfferedBy DEF Offered, s
<1>7. TakesOn(u, "departed", stages)
  <2>1. /\ Due(u) => Due(u)' \/ KindOf[s] # "cloud"
        /\ DueLoki(u) => DueLoki(u)' \/ KindOf[s] = "loki"
    BY <1>1, <1>2 DEF Due, DueLoki, Offers, AsksAgain, s, Kind
  <2> QED BY <1>1, <1>2, <1>5, <1>6, <2>1 DEF TakesOn, Kind
<1> QED BY <1>1, <1>3, <1>4, <1>7 DEF BeginStep, HookKind, stages

LEMMA ChangedBegins ==
  ASSUME TypeInv, SightInv, NEW u \in Unit, NEW s \in Sink, RelationChanged(u, s)
  PROVE  BeginStep(u)
<1> DEFINE stages == Stages(u, "changed", s)
<1>1. /\ Free(u) /\ KindOf[s] \in Kind
      /\ view' = view /\ scope' = scope
      /\ changed' = [changed EXCEPT ![u] = @ \ {s}] /\ queue' = queue
      /\ Begin(u, "changed", s, view[u], scope[u])
      /\ UNCHANGED <<world, config, state, bags, past>>
  BY KindAssumption DEF RelationChanged, BeginIn
<1>2. changed'[u] = changed[u] \ {s} /\ view[u] \subseteq Remote
  BY <1>1 DEF TypeInv
<1>3. PICK seen : hook' = [hook EXCEPT ![u] = Fresh(u, "changed", s, seen)] /\ ReadsWorld(u, seen)
  BY <1>1, <1>2, BeginReads
<1>4. MovesOn(u)
  BY <1>1, <1>2 DEF MovesOn, TypeInv, SightInv
<1> HIDE DEF stages
<1>5. /\ Configures("changed", stages)
      /\ KindOf[s] # "write" => Refreshes("changed", stages)
      /\ KindOf[s] # "cloud" => Reconciles("changed", stages)
  BY <1>1, HookTable DEF stages
<1>7. TakesOn(u, "changed", stages)
  <2>1. DueLoki(u) => DueLoki(u)' \/ KindOf[s] # "write"
    BY <1>1, <1>2 DEF DueLoki, Offers, AsksAgain
  <2>2. /\ Endpoints("loki", view'[u], scope'[u]) = Offered(u, "loki")
        /\ Endpoints("write", view'[u], scope'[u]) = Offered(u, "write")
    BY <1>1 DEF Offered
  <2>3. KindOf[s] = "cloud" =>
          \A x \in view'[u] : KindOf[SinkOf[x]] # "cloud" =>
             x \in view[u] /\ (SinkOf[x] \in changed[u] => SinkOf[x] \in changed'[u])
    BY <1>1, <1>2
  <2> QED BY <1>1, <1>5, <2>1, <2>2, <2>3 DEF TakesOn
<1> QED BY <1>1, <1>3, <1>4, <1>7 DEF BeginStep, HookKind, stages

LEMMA BrokenBegins ==
  ASSUME TypeInv, SightInv, NEW u \in Unit, NEW s \in Sink, RelationBroken(u, s)
  PROVE  BeginStep(u)
<1> DEFINE stages == Stages(u, "broken", s)
<1>1. /\ Free(u) /\ KindOf[s] \in Kind /\ s \in dying /\ \A m \in view[u] : SinkOf[m] # s
      /\ view' = view /\ scope' = [scope EXCEPT ![u] = @ \ {s}]
      /\ changed' = [changed EXCEPT ![u] = @ \ {s}] /\ queue' = queue
      /\ Begin(u, "broken", s, view[u], scope[u] \ {s})
      /\ UNCHANGED <<world, config, state, bags, past>>
  BY KindAssumption DEF RelationBroken
<1>2. /\ changed'[u] = changed[u] \ {s} /\ scope'[u] = scope[u] \ {s} /\ view'[u] = view[u]
      /\ view[u] \subseteq Remote
  BY <1>1 DEF TypeInv
<1>3. PICK seen : hook' = [hook EXCEPT ![u] = Fresh(u, "broken", s, seen)] /\ ReadsWorld(u, seen)
  BY <1>1, <1>2, BeginReads
<1>4. MovesOn(u)
  BY <1>1, <1>2 DEF MovesOn, TypeInv, SightInv
<1> HIDE DEF stages
<1>5. KindOf[s] = "cloud" => Configures("broken", stages) /\ Refreshes("broken", stages)
  BY <1>1, HookTable DEF stages
<1>6. KindOf[s] # "cloud" =>
        /\ Endpoints("loki", view'[u], scope'[u]) = Offered(u, "loki")
        /\ Endpoints("write", view'[u], scope'[u]) = Offered(u, "write")
  BY <1>2, OfferedBy DEF Offered, Of
<1>7. TakesOn(u, "broken", stages)
  <2>1. /\ Due(u) => Due(u)' \/ KindOf[s] = "cloud"
        /\ DueLoki(u) => DueLoki(u)' \/ KindOf[s] = "cloud"
    BY <1>1, <1>2 DEF Due, DueLoki, Offers, AsksAgain
  <2>2. \A x \in view'[u] : x \in view[u] /\ (SinkOf[x] \in changed[u] => SinkOf[x] \in changed'[u])
    BY <1>1, <1>2
  <2> QED BY <1>1, <1>5, <1>6, <2>1, <2>2 DEF TakesOn
<1> QED BY <1>1, <1>3, <1>4, <1>7 DEF BeginStep, HookKind, stages

LEMMA QueuedBegins ==
  ASSUME TypeInv, SightInv, NEW u \in Unit, NEW kind \in Queueable, QueuedHook(u, kind)
  PROVE  BeginStep(u)
<1> DEFINE stages == Stages(u, kind, Bottom)
<1>1. /\ Free(u) /\ view' = view /\ scope' = scope /\ changed' = changed
      /\ queue' = [queue EXCEPT ![u] = @ \ {kind}]
      /\ Begin(u, kind, Bottom, view[u], scope[u])
      /\ UNCHANGED <<world, config, state, bags, past>>
  BY DEF QueuedHook, BeginIn
<1>2. queue'[u] = queue[u] \ {kind} /\ view[u] \subseteq Remote
  BY <1>1 DEF TypeInv
<1>3. PICK seen : hook' = [hook EXCEPT ![u] = Fresh(u, kind, Bottom, seen)] /\ ReadsWorld(u, seen)
  BY <1>1, <1>2, BeginReads
<1>4. MovesOn(u)
  BY <1>1, <1>2 DEF MovesOn, TypeInv, SightInv
<1> HIDE DEF stages
<1>5. /\ kind \in {"config-changed", "principal"} => Configures(kind, stages) /\ Refreshes(kind, stages)
      /\ kind = "leader-elected" => Reconciles(kind, stages)
  BY <1>1, HookTable DEF stages
<1>7. TakesOn(u, kind, stages)
  <2>1. /\ Due(u) => Due(u)' \/ kind \in {"config-changed", "principal"}
        /\ DueLoki(u) => DueLoki(u)' \/ kind \in {"config-changed", "principal"}
    BY <1>1, <1>2 DEF Due, DueLoki, Offers, AsksAgain
  <2>2. /\ Endpoints("loki", view'[u], scope'[u]) = Offered(u, "loki")
        /\ Endpoints("write", view'[u], scope'[u]) = Offered(u, "write")
    BY <1>1 DEF Offered
  <2> QED BY <1>1, <1>2, <1>5, <2>1, <2>2 DEF TakesOn
<1> QED BY <1>1, <1>3, <1>4, <1>7 DEF BeginStep, HookKind, stages

(* update-status, and a failed hook that is run again, change nothing of   *)
(* what is due.                                                            *)
LEMMA BeginsAsIs ==
  ASSUME TypeInv, SightInv, NEW u \in Unit, NEW kind \in HookKind, NEW s \in Sink \cup {Bottom},
         BeginIn(u, kind, s), UNCHANGED <<world, due, config, state, bags, past>>,
         Free(u) \/ (Failed(u) /\ kind = hook[u].kind /\ s = hook[u].sink)
  PROVE  BeginStep(u)
<1> DEFINE stages == Stages(u, kind, s)
<1>1. /\ view' = view /\ scope' = scope /\ changed' = changed /\ queue' = queue
      /\ Begin(u, kind, s, view[u], scope[u])
      /\ UNCHANGED <<world, config, state, bags, past>>
      /\ view[u] \subseteq Remote
  BY DEF BeginIn, due, TypeInv
<1>2. PICK seen : hook' = [hook EXCEPT ![u] = Fresh(u, kind, s, seen)] /\ ReadsWorld(u, seen)
  BY <1>1, BeginReads
<1>3. MovesOn(u)
  BY <1>1 DEF MovesOn, TypeInv, SightInv
<1> HIDE DEF stages
<1>4. TakesOn(u, kind, stages)
  <2>1. (Due(u) => Due(u)') /\ (DueLoki(u) => DueLoki(u)')
    BY <1>1 DEF Due, DueLoki, Offers, AsksAgain
  <2>2. /\ Endpoints("loki", view'[u], scope'[u]) = Offered(u, "loki")
        /\ Endpoints("write", view'[u], scope'[u]) = Offered(u, "write")
    BY <1>1 DEF Offered
  <2> QED BY <1>1, <2>1, <2>2 DEF TakesOn
<1> QED BY <1>2, <1>3, <1>4 DEF BeginStep, stages

(* Every hook that begins, for the first time or again. *)
LEMMA EveryBegin ==
  ASSUME TypeInv, SightInv, NEW u \in Unit, HookBegins(u) \/ Retry(u)
  PROVE  BeginStep(u)
<1>1. CASE UpdateStatus(u)
  BY <1>1, BeginsAsIs DEF UpdateStatus, NothingDue, HookKind
<1>2. CASE Retry(u)
  <2>1. hook[u].kind \in HookKind /\ hook[u].sink \in Sink \cup {Bottom} /\ Failed(u)
    BY <1>2, RunningHook DEF Retry, Hook, Failed
  <2> QED BY <1>2, <2>1, BeginsAsIs DEF Retry
<1> QED
  BY <1>1, <1>2, JoinedBegins, DepartedBegins, ChangedBegins, BrokenBegins, QueuedBegins
     DEF HookBegins

-----------------------------------------------------------------------------
(* A unit that did nothing in the step *)

(* The world may have changed for it, but not without a hook to tell it.   *)
Told(v) ==
  /\ hook'[v] = hook[v] /\ config'[v] = config[v] /\ stored'[v] = stored[v]
  /\ view'[v] = view[v] /\ scope'[v] = scope[v] /\ (v \in torn' <=> v \in torn)
  /\ (v \in deferred' <=> v \in deferred) /\ (v \in stale' <=> v \in stale)
  /\ changed[v] \subseteq changed'[v] /\ queue[v] \subseteq queue'[v]
  /\ \A s \in Sink : rules[s] = "charm" => rules'[s] = "charm"
  /\ leader' = v => leader = v \/ "leader-elected" \in queue'[v]
  /\ ask' = ask \/ AsksAgain(v)'
  /\ \/ requirer' = requirer /\ unitBag'[v] = unitBag[v]
     \/ unitBag'[v] = {} /\ "syslog" \in queue'[v]
  /\ Offered(v, "loki")' = Offered(v, "loki") \/ DueLoki(v)'
  /\ Offered(v, "write")' = Offered(v, "write") \/ Due(v)'

LEMMA ToldKeeps ==
  ASSUME TypeInv, NEW v \in Unit, UnitInv(v), Told(v)
  PROVE  UnitInv(v)'
<1>1. /\ hook'[v] = hook[v] /\ config'[v] = config[v] /\ stored'[v] = stored[v]
      /\ view'[v] = view[v] /\ scope'[v] = scope[v] /\ (v \in torn' <=> v \in torn)
      /\ (v \in deferred' <=> v \in deferred) /\ (v \in stale' <=> v \in stale)
      /\ changed[v] \subseteq changed'[v] /\ queue[v] \subseteq queue'[v]
      /\ \A s \in Sink : rules[s] = "charm" => rules'[s] = "charm"
      /\ leader' = v => leader = v \/ "leader-elected" \in queue'[v]
      /\ ask' = ask \/ AsksAgain(v)'
      /\ \/ requirer' = requirer /\ unitBag'[v] = unitBag[v]
         \/ unitBag'[v] = {} /\ "syslog" \in queue'[v]
      /\ Offered(v, "loki")' = Offered(v, "loki") \/ DueLoki(v)'
      /\ Offered(v, "write")' = Offered(v, "write") \/ Due(v)'
  BY DEF Told
<1>2. /\ (Free(v))' = Free(v) /\ (Running(v))' = Running(v) /\ (Failed(v))' = Failed(v)
      /\ AllStages(v)' = AllStages(v)
  BY <1>1 DEF Free, Running, Failed, AllStages, Stages
<1>3. /\ DueLoki(v) => DueLoki(v)'
      /\ Due(v) => Due(v)'
      /\ DueLoki(v)' => Due(v)'
      /\ DueLoki(v) => Due(v)
      /\ AsksAgain(v)' => DueLoki(v)'
  BY <1>1 DEF DueLoki, Due, Offers, AsksAgain
<1>4. SeenInv(v)'
  BY <1>1, <1>2, <1>3 DEF UnitInv, SeenInv
<1>5. DraftInv(v)'
  BY <1>1, <1>2 DEF UnitInv, DraftInv
<1>6. TextInv(v)'
  BY <1>1, <1>2, <1>3 DEF UnitInv, TextInv, Serves
<1>7. FileInv(v)'
  BY <1>1, <1>2 DEF UnitInv, FileInv
<1>8. ReadyInv(v)'
  <2>1. unitBag'[v] = {} => Announced(v)'
    BY DEF Announced
  <2>2. ask' = ask /\ unitBag'[v] = unitBag[v] /\ Offered(v, "loki")' = Offered(v, "loki") =>
          Announced(v)' = Announced(v)
    BY DEF Announced
  <2>3. ask'.verdict = "good" /\ ~DueLoki(v)' =>
          ask' = ask /\ Offered(v, "loki")' = Offered(v, "loki") /\ ~DueLoki(v)
    BY <1>1, <1>3
  <2> QED BY <1>1, <1>2, <2>1, <2>2, <2>3 DEF UnitInv, ReadyInv
<1>9. RuleInv(v)'
  <2>1. \A m \in view[v] : SinkOf[m] \in Sink
    BY RemoteAssumption DEF TypeInv
  <2>2. \A s \in Sink : Promised(v, s) => Promised(v, s)'
    BY <1>1, <1>2 DEF Promised
  <2>3. "leader-elected" \in queue'[v] => \A s : Promised(v, s)'
    BY DEF Promised
  <2> QED BY <1>1, <2>1, <2>2, <2>3 DEF UnitInv, RuleInv
<1>10. StatusInv(v)'
  BY <1>1, <1>2 DEF UnitInv, StatusInv
<1> QED BY <1>4, <1>5, <1>6, <1>7, <1>8, <1>9, <1>10 DEF UnitInv

-----------------------------------------------------------------------------
(* The unit whose hook took the step *)

LEMMA HookIsNotIdle == \A h \in Hook : h # Idle
  BY DEF Hook, HookKind, Queueable, Idle, Bottom

LEMMA BeginUnit ==
  ASSUME TypeInv, NEW u \in Unit, UnitInv(u), BeginStep(u)
  PROVE  UnitInv(u)' /\ hook' \in [Unit -> Hook \cup {Idle}]
<1>0. PICK kind \in HookKind, s \in Sink \cup {Bottom} : \E reading :
        /\ hook' = [hook EXCEPT ![u] = Fresh(u, kind, s, reading)]
        /\ ReadsWorld(u, reading) /\ MovesOn(u) /\ TakesOn(u, kind, Stages(u, kind, s))
        /\ \/ Free(u)
           \/ Failed(u) /\ kind = hook[u].kind /\ s = hook[u].sink
  BY DEF BeginStep
<1>1. PICK seen :
        /\ hook' = [hook EXCEPT ![u] = Fresh(u, kind, s, seen)]
        /\ ReadsWorld(u, seen) /\ MovesOn(u) /\ TakesOn(u, kind, Stages(u, kind, s))
        /\ \/ Free(u)
           \/ Failed(u) /\ kind = hook[u].kind /\ s = hook[u].sink
  BY <1>0
<1> DEFINE stages == Stages(u, kind, s)
<1>2. hook'[u] = Fresh(u, kind, s, seen)
  BY <1>1 DEF TypeInv
<1>3. /\ hook'[u].kind = kind /\ hook'[u].sink = s /\ hook'[u].todo = stages
      /\ hook'[u].seen = seen /\ hook'[u].failed = FALSE
      /\ hook'[u].draft.text = stored[u] /\ hook'[u].draft.unit = FALSE
      /\ \A x \in Sink : hook'[u].draft.rules[x] = Kept
  BY <1>2 DEF Fresh, NoDraft
<1>4. NoDraft(u) \in Draft
  BY DEF NoDraft, Draft, TypeInv, RuleMark, LegacyMark
<1>5. Fresh(u, kind, s, seen) \in Hook
  BY <1>1, <1>4, StagesTable DEF Fresh, Hook, ReadsWorld
<1>6. Running(u)' /\ ~(Free(u))' /\ ~Failed(u)' /\ AllStages(u)' = stages
  <2>1. deferred' = deferred
    BY <1>1 DEF MovesOn, state
  <2> QED BY <1>2, <1>3, <1>5, <2>1, HookIsNotIdle DEF Running, Failed, Free, AllStages, Stages
<1>7. /\ url' = url /\ cloud' = cloud /\ ask' = ask /\ requirer' = requirer /\ leader' = leader
      /\ config' = config /\ stored' = stored /\ rules' = rules /\ unitBag' = unitBag
      /\ torn' = torn /\ stale' = stale
  BY <1>1 DEF MovesOn, world, state, bags, past
<1>8. /\ Offered(u, "loki")' = Endpoints("loki", view'[u], scope'[u])
      /\ Offered(u, "write")' = Endpoints("write", view'[u], scope'[u])
  BY <1>7 DEF Offered, Endpoints, RelationUrls, CloudUrls, CloudSignals
<1>9. /\ seen \in Reading /\ Listed(seen.loki) = Offered(u, "loki")'
      /\ Listed(seen.write) = Offered(u, "write")' /\ seen.ask = ask /\ seen.requirer = requirer
  BY <1>1, <1>8 DEF ReadsWorld
<1>10. /\ Due(u) => Due(u)' \/ Configures(kind, stages)
       /\ DueLoki(u) => DueLoki(u)' \/ Refreshes(kind, stages)
       /\ \/ Offered(u, "loki")' = Offered(u, "loki")
          \/ Configures(kind, stages) /\ Refreshes(kind, stages)
       /\ \/ Offered(u, "write")' = Offered(u, "write")
          \/ Configures(kind, stages)
       /\ \/ Reconciles(kind, stages)
          \/ /\ "leader-elected" \in queue[u] => "leader-elected" \in queue'[u]
             /\ \A m \in view'[u] : KindOf[SinkOf[m]] # "cloud" =>
                  m \in view[u] /\ (SinkOf[m] \in changed[u] => SinkOf[m] \in changed'[u])
  BY <1>1, <1>8 DEF TakesOn
<1>11. Free(u) \/ (Failed(u) /\ kind = hook[u].kind /\ stages = AllStages(u))
  BY <1>1 DEF AllStages
<1> HIDE DEF stages
<1>12. SeenInv(u)'
  BY <1>3, <1>7, <1>9 DEF SeenInv, UnitInv, ReadyInv
<1>13. DraftInv(u)'
  BY <1>3, <1>6, <1>7 DEF DraftInv, Kept
<1>14. TextInv(u)'
  <2> SUFFICES ASSUME ask.verdict = "good", ~Due(u)', ~Configures(kind, stages)
               PROVE  Serves(u, stored[u])'
    BY <1>3, <1>6, <1>7 DEF TextInv
  <2>1. Serves(u, stored[u])
    BY <1>10, <1>11 DEF UnitInv, TextInv
  <2> QED BY <1>7, <1>10, <2>1 DEF Serves
<1>15. FileInv(u)'
  BY <1>3, <1>6, <1>7, <1>11 DEF FileInv, UnitInv, Failed, Running
<1>16. ReadyInv(u)'
  <2>1. ~requirer' => unitBag'[u] = {}
    BY <1>7 DEF UnitInv, ReadyInv
  <2>2. ASSUME ask.verdict = "good", ~DueLoki(u)', u \notin stale, ~Refreshes(kind, stages)
        PROVE  Announced(u)'
    <3>1. Announced(u)
      BY <1>10, <1>11, <2>2 DEF UnitInv, ReadyInv
    <3> QED BY <1>7, <1>10, <2>2, <3>1 DEF Announced
  <2> QED BY <1>3, <1>6, <1>7, <2>1, <2>2 DEF ReadyInv
<1>17. RuleInv(u)'
  <2> SUFFICES ASSUME u = leader, NEW m \in view'[u], KindOf[SinkOf[m]] # "cloud"
               PROVE  Promised(u, SinkOf[m])'
    BY <1>7 DEF RuleInv
  <2>1. CASE Reconciles(kind, stages)
    BY <1>3, <1>6, <2>1 DEF Promised
  <2>2. CASE ~Reconciles(kind, stages)
    <3>1. Promised(u, SinkOf[m]) /\ m \in view[u] /\ (SinkOf[m] \in changed[u] => SinkOf[m] \in changed'[u])
      BY <1>10, <2>2 DEF UnitInv, RuleInv
    <3> QED BY <1>7, <1>10, <1>11, <2>2, <3>1 DEF Promised, Running, Failed
  <2> QED BY <2>1, <2>2
<1>18. StatusInv(u)'
  <2>1. 5 \in StagesOf("update-status", s)
    BY StageTable
  <2>2. kind = "update-status" => 5 \in stages
    BY <2>1, StagesTable DEF stages
  <2> QED BY <1>3, <2>2 DEF StatusInv
<1>19. hook' \in [Unit -> Hook \cup {Idle}]
  BY <1>1, <1>5 DEF TypeInv
<1> QED BY <1>12, <1>13, <1>14, <1>15, <1>16, <1>17, <1>18, <1>19 DEF UnitInv

LEMMA StageUnit ==
  ASSUME TypeInv, SightInv, HookInv, NEW u \in Unit, UnitInv(u), NEW n \in 0..6, StageStep(u, n)
  PROVE  UnitInv(u)' /\ hook' \in [Unit -> Hook \cup {Idle}]
<1> DEFINE h == hook[u]
           d == h.draft
           left == h.todo \ {n}
<1>1. PICK e :
        /\ NextIs(u, n) /\ StageDraft(u, n, d, e) /\ Does(u, n, e)
        /\ \/ e.text = d.text /\ config' = config /\ torn' = torn
           \/ config' = [config EXCEPT ![u] = e.text] /\ torn' = torn \ {u}
  BY DEF StageStep
<1>2. /\ h \in Hook /\ h # Idle /\ ~h.failed /\ n \in h.todo
      /\ d \in Draft /\ e \in Draft
  BY <1>1, RunningHook DEF NextIs, Free, StageDraft
<1>3. /\ hook' = [hook EXCEPT ![u].todo = @ \ {n}, ![u].draft = e]
      /\ UNCHANGED <<world, due, state, bags, stale>>
  BY <1>1 DEF Does
<1>4. hook'[u] = [h EXCEPT !.todo = left, !.draft = e]
  BY <1>3 DEF TypeInv
<1>5. hook'[u] \in Hook
  BY <1>2, <1>4 DEF Hook
<1>6. /\ hook'[u].kind = h.kind /\ hook'[u].sink = h.sink /\ hook'[u].seen = h.seen
      /\ hook'[u].failed = h.failed /\ hook'[u].todo = left /\ hook'[u].draft = e
  BY <1>2, <1>4 DEF Hook
<1>7. /\ Running(u)' /\ ~(Free(u))' /\ ~Failed(u)' /\ AllStages(u)' = AllStages(u)
      /\ Running(u) /\ ~Free(u) /\ ~Failed(u)
  <2>1. deferred' = deferred
    BY <1>3 DEF state
  <2> QED BY <1>2, <1>5, <1>6, <2>1, HookIsNotIdle DEF Running, Failed, Free, AllStages, Stages
<1>8. /\ url' = url /\ cloud' = cloud /\ ask' = ask /\ requirer' = requirer /\ leader' = leader
      /\ view' = view /\ scope' = scope /\ changed' = changed /\ queue' = queue
      /\ stored' = stored /\ rules' = rules /\ unitBag' = unitBag /\ stale' = stale
  BY <1>3 DEF world, due, state, bags
<1>9. /\ \A k : Offered(u, k)' = Offered(u, k)
      /\ Due(u)' = Due(u) /\ DueLoki(u)' = DueLoki(u) /\ Announced(u)' = Announced(u)
  BY <1>8 DEF Offered, Endpoints, RelationUrls, CloudUrls, CloudSignals, Due, DueLoki, Offers,
              AsksAgain, Announced
<1>10. /\ e.text = d.text \/ (ConfiguresAt(n, h.kind) /\ e.text = Text(h.seen))
       /\ ConfiguresAt(n, h.kind) /\ Accepted(u) => e.text = Text(h.seen)
       /\ e.unit => d.unit \/ h.seen.requirer
       /\ (d.unit => e.unit) /\ (d.app => e.app) /\ (d.stale => e.stale)
       /\ RefreshesAt(n, h.kind) /\ h.seen.requirer /\ Accepted(u) => e.unit \/ e.stale
       /\ n = 5 /\ h.kind = "update-status" /\ h.seen.requirer =>
            e.unit /\ (u = leader => e.app)
  BY <1>1 DEF StageDraft
<1>11. \A s \in Sink :
         /\ e.rules[s] = "charm" => d.rules[s] = "charm" \/ ReconcilesAt(n, h.kind)
         /\ ReconcilesAt(n, h.kind) /\ u = leader /\ s \in scope[u]
              /\ KindOf[s] \in {"loki", "write"} => e.rules[s] = "charm"
         /\ d.rules[s] = "charm" => e.rules[s] = "charm" \/ n \in {1, 4}
  BY <1>1 DEF StageDraft
<1>12. h.todo \subseteq AllStages(u) /\ n \in AllStages(u)
  BY <1>2, <1>7 DEF UnitInv, DraftInv
<1>13. /\ ConfiguresAt(n, h.kind) => Configures(h.kind, AllStages(u))
       /\ RefreshesAt(n, h.kind) => Refreshes(h.kind, AllStages(u))
       /\ ReconcilesAt(n, h.kind) => Reconciles(h.kind, AllStages(u))
       /\ Configures(h.kind, h.todo) => ConfiguresAt(n, h.kind) \/ Configures(h.kind, left)
       /\ Refreshes(h.kind, h.todo) => RefreshesAt(n, h.kind) \/ Refreshes(h.kind, left)
       /\ Reconciles(h.kind, h.todo) => ReconcilesAt(n, h.kind) \/ Reconciles(h.kind, left)
  BY <1>12 DEF Configures, Refreshes, Reconciles
<1>14. Text(h.seen).loki = h.seen.loki /\ Text(h.seen).write = h.seen.write
         /\ Text(h.seen).syslog = h.seen.ask.syslog
  BY DEF Text
<1>15. ~Due(u) => ~DueLoki(u)
  BY DEF Due, DueLoki
<1>16. /\ ~DueLoki(u) => Listed(h.seen.loki) = Offered(u, "loki") /\ h.seen.ask = ask
       /\ ~Due(u) => Listed(h.seen.write) = Offered(u, "write")
       /\ ~h.seen.requirer => unitBag[u] = {}
  BY <1>7 DEF UnitInv, SeenInv
<1>17. ~DueLoki(u) /\ ask.verdict = "good" => Accepted(u)
  BY <1>16 DEF Accepted
<1>18. SeenInv(u)'
  BY <1>6, <1>7, <1>8, <1>9 DEF UnitInv, SeenInv
<1>19. DraftInv(u)'
  <2>1. /\ d.text # stored[u] => Configures(h.kind, AllStages(u))
        /\ d.unit => h.seen.requirer
        /\ (\E s \in Sink : d.rules[s] = "charm") => Reconciles(h.kind, AllStages(u))
    BY <1>7 DEF UnitInv, DraftInv
  <2> HIDE DEF d, h, left
  <2>2. /\ left \subseteq AllStages(u)
        /\ e.text # stored[u] => Configures(h.kind, AllStages(u))
        /\ e.unit => h.seen.requirer
        /\ (\E s \in Sink : e.rules[s] = "charm") => Reconciles(h.kind, AllStages(u))
    BY <1>10, <1>11, <1>12, <1>13, <2>1 DEF left
  <2> QED BY <1>6, <1>7, <1>8, <2>2 DEF DraftInv
<1>20. TextInv(u)'
  <2> SUFFICES ASSUME ask.verdict = "good", ~Due(u), ~Configures(h.kind, left)
               PROVE  Serves(u, e.text)'
    BY <1>6, <1>7, <1>8, <1>9 DEF TextInv
  <2>1. Serves(u, d.text) \/ ConfiguresAt(n, h.kind)
    BY <1>7, <1>13 DEF UnitInv, TextInv
  <2>2. Serves(u, e.text)
    BY <1>10, <1>14, <1>15, <1>16, <1>17, <2>1 DEF Serves
  <2> QED BY <1>8, <1>9, <2>2 DEF Serves
<1>21. FileInv(u)'
  BY <1>1, <1>6, <1>7, <1>8 DEF FileInv, UnitInv, TypeInv
<1>22. ReadyInv(u)'
  <2>1. ~requirer => unitBag[u] = {}
    BY DEF UnitInv, ReadyInv
  <2>2. ASSUME ask.verdict = "good", ~DueLoki(u), u \notin stale
        PROVE  \/ Announced(u)
               \/ /\ Refreshes(h.kind, AllStages(u))
                  /\ e.unit \/ e.stale \/ Refreshes(h.kind, left)
    <3>1. \/ Announced(u)
          \/ /\ Refreshes(h.kind, AllStages(u))
             /\ d.unit \/ d.stale \/ Refreshes(h.kind, h.todo)
      BY <1>7, <2>2 DEF UnitInv, ReadyInv
    <3>2. unitBag[u] = {} => Announced(u)
      BY DEF Announced
    <3> QED BY <1>10, <1>13, <1>16, <1>17, <2>2, <3>1, <3>2
  <2> QED BY <1>6, <1>7, <1>8, <1>9, <2>1, <2>2 DEF ReadyInv
<1>23. RuleInv(u)'
  <2> SUFFICES ASSUME u = leader, NEW m \in view[u], KindOf[SinkOf[m]] # "cloud"
               PROVE  Promised(u, SinkOf[m])'
    BY <1>8 DEF RuleInv
  <2> DEFINE s == SinkOf[m]
  <2>1. s \in Sink /\ s \in scope[u] /\ KindOf[s] \in {"loki", "write"}
    BY RemoteAssumption, KindAssumption DEF SightInv, TypeInv, Kind
  <2>2. Promised(u, s)
    BY DEF UnitInv, RuleInv
  <2>3. n \in {1, 4} => Reconciles(h.kind, left)
    BY <1>2 DEF HookInv, StagesLeft, Cleans, Reconciles, ReconcilesAt
  <2> HIDE DEF s
  <2>4. d.rules[s] = "charm" \/ Reconciles(h.kind, h.todo) =>
          e.rules[s] = "charm" \/ Reconciles(h.kind, left)
    BY <1>11, <1>13, <2>1, <2>3
  <2>5. Promised(u, s)'
    BY <1>6, <1>7, <1>8, <2>2, <2>4 DEF Promised
  <2> QED BY <2>5 DEF s
<1>24. StatusInv(u)'
  <2> SUFFICES ASSUME h.kind = "update-status", h.seen.requirer, 5 \notin left
               PROVE  e.unit /\ (u = leader => e.app \/ "leader-elected" \in queue[u])
    BY <1>6, <1>8 DEF StatusInv
  <2>1. CASE n = 5
    BY <1>10, <2>1
  <2>2. CASE n # 5
    <3>1. d.unit /\ (u = leader => d.app \/ "leader-elected" \in queue[u])
      BY <1>7, <2>2 DEF UnitInv, StatusInv
    <3> QED BY <1>10, <3>1
  <2> QED BY <2>1, <2>2
<1>25. hook' \in [Unit -> Hook \cup {Idle}]
  BY <1>3, <1>4, <1>5 DEF TypeInv
<1> QED BY <1>18, <1>19, <1>20, <1>21, <1>22, <1>23, <1>24, <1>25 DEF UnitInv

LEMMA EndUnit ==
  ASSUME TypeInv, HiddenInv, NEW u \in Unit, UnitInv(u), HookEnds(u)
  PROVE  /\ UnitInv(u)'
         /\ \A s \in Sink : rules[s] = "charm" => rules'[s] = "charm"
         /\ hook' \in [Unit -> Hook \cup {Idle}] /\ stored' \in [Unit -> TextShape]
         /\ unitBag' \in [Unit -> Announcement] /\ appBag' \in Announcement
         /\ rules' \in [Sink -> {Bottom, "library", "charm"}] /\ legacy' \subseteq Sink
         /\ drifted' \subseteq Unit /\ deferred' \subseteq Unit /\ stale' \subseteq Unit
<1> DEFINE h == hook[u]
           d == h.draft
           payload == SyslogPayload(u, h.seen)
<1>1. /\ ~Free(u) /\ ~h.failed /\ h.todo = {}
      /\ rules' = [s \in Sink |-> IF d.rules[s] = Kept THEN rules[s] ELSE d.rules[s]]
      /\ legacy' = {s \in Sink : d.legacy[s] = "present" \/ (d.legacy[s] = Kept /\ s \in legacy)}
      /\ unitBag' = IF requirer /\ d.unit THEN [unitBag EXCEPT ![u] = {payload}] ELSE unitBag
      /\ appBag' = IF requirer /\ d.app THEN {payload} ELSE appBag
      /\ stored' = [stored EXCEPT ![u] = d.text]
      /\ drifted' = IF d.drift THEN drifted \cup {u} ELSE drifted \ {u}
      /\ deferred' = IF d.deferred THEN deferred \cup {u} ELSE deferred \ {u}
      /\ stale' = IF d.unit THEN stale \ {u} ELSE IF d.stale THEN stale \cup {u} ELSE stale
      /\ hook' = [hook EXCEPT ![u] = Idle]
      /\ UNCHANGED <<world, due, config, torn, count>>
  BY DEF HookEnds
<1>2. h \in Hook /\ d \in Draft /\ h # Idle
  BY <1>1, RunningHook DEF Free
<1>3. Running(u) /\ ~Failed(u) /\ Free(u)' /\ ~Running(u)' /\ ~Failed(u)' /\ hook'[u] = Idle
  BY <1>1 DEF Running, Failed, Free, TypeInv
<1>4. /\ url' = url /\ cloud' = cloud /\ ask' = ask /\ requirer' = requirer /\ leader' = leader
      /\ view' = view /\ scope' = scope /\ changed' = changed /\ queue' = queue
      /\ torn' = torn /\ config' = config
  BY <1>1 DEF world, due
<1>5. /\ \A k : Offered(u, k)' = Offered(u, k)
      /\ Due(u)' = Due(u) /\ DueLoki(u)' = DueLoki(u)
  BY <1>4 DEF Offered, Endpoints, RelationUrls, CloudUrls, CloudSignals, Due, DueLoki, Offers,
              AsksAgain
<1>6. \A kind : ~Configures(kind, {}) /\ ~Refreshes(kind, {}) /\ ~Reconciles(kind, {})
  BY DEF Configures, Refreshes, Reconciles
<1>7. \A s \in Sink : d.rules[s] \in {Kept, "charm"}
  <2>1. \A s \in Sink : d.rules[s] # "library"
    BY <1>1, <1>2 DEF HiddenInv, HookInv, Cleaned, Cleans
  <2> QED BY <1>2, <2>1 DEF Draft, RuleMark
<1>8. \A s \in Sink : rules[s] = "charm" \/ d.rules[s] = "charm" => rules'[s] = "charm"
  BY <1>1, <1>7 DEF Kept
<1>9. /\ payload \in [ready : BOOLEAN, address : Unit \cup {Bottom}]
      /\ payload.ready = (h.seen.ask.syslog /\ h.seen.loki # <<>>)
  BY <1>2 DEF SyslogPayload, Payload, Hook, Reading, Ask
<1>10. {payload} \in Announcement
  BY <1>9 DEF Announcement
<1>11. stored'[u] = d.text /\ d.text \in TextShape
  BY <1>1, <1>2 DEF TypeInv, Draft
<1> HIDE DEF payload
<1>12. SeenInv(u)' /\ DraftInv(u)' /\ StatusInv(u)'
  BY <1>3 DEF SeenInv, DraftInv, StatusInv
<1>13. TextInv(u)'
  <2> SUFFICES ASSUME ask.verdict = "good", ~Due(u) PROVE Serves(u, stored[u])'
    BY <1>3, <1>4, <1>5 DEF TextInv
  <2>1. Serves(u, d.text)
    BY <1>1, <1>3, <1>6 DEF UnitInv, TextInv
  <2> QED BY <1>4, <1>5, <1>11, <2>1 DEF Serves
<1>14. FileInv(u)'
  BY <1>1, <1>3, <1>4, <1>11 DEF FileInv, UnitInv
<1>15. ReadyInv(u)'
  <2>1. ~requirer => unitBag[u] = {}
    BY DEF UnitInv, ReadyInv
  <2>2. ~requirer => unitBag'[u] = {}
    BY <1>1, <2>1
  <2>3. ASSUME ask.verdict = "good", ~DueLoki(u), u \notin stale' PROVE Announced(u)'
    <3>1. CASE requirer /\ d.unit
      <4>1. unitBag'[u] = {payload}
        BY <1>1, <3>1 DEF TypeInv
      <4>2. Listed(h.seen.loki) = Offered(u, "loki") /\ h.seen.ask = ask
        BY <1>3, <2>3 DEF UnitInv, SeenInv
      <4>3. h.seen.loki \in OnceEach
        BY <1>2 DEF Hook, Reading
      <4>4. payload.ready = (ask.syslog /\ Offered(u, "loki") # {})
        BY <1>9, <4>2, <4>3, NothingListed
      <4> QED BY <1>4, <1>5, <4>1, <4>4 DEF Announced
    <3>2. CASE ~requirer
      BY <2>2, <3>2 DEF Announced
    <3>3. CASE requirer /\ ~d.unit
      <4>1. u \notin stale /\ ~d.stale
        BY <1>1, <2>3, <3>3
      <4>2. Announced(u) /\ unitBag' = unitBag
        BY <4>1, <1>1, <1>3, <1>6, <2>3, <3>3 DEF UnitInv, ReadyInv
      <4> QED BY <1>4, <1>5, <4>2 DEF Announced
    <3> QED BY <3>1, <3>2, <3>3
  <2> QED BY <1>3, <1>4, <1>5, <2>2, <2>3 DEF ReadyInv
<1>16. RuleInv(u)'
  <2> SUFFICES ASSUME u = leader, NEW m \in view[u], KindOf[SinkOf[m]] # "cloud"
               PROVE  Promised(u, SinkOf[m])'
    BY <1>4 DEF RuleInv
  <2>1. Promised(u, SinkOf[m]) /\ SinkOf[m] \in Sink
    BY RemoteAssumption DEF UnitInv, RuleInv, TypeInv
  <2> QED BY <1>1, <1>3, <1>4, <1>6, <1>8, <2>1 DEF Promised
<1>17. UnitInv(u)'
  BY <1>12, <1>13, <1>14, <1>15, <1>16 DEF UnitInv
<1>18. /\ hook' \in [Unit -> Hook \cup {Idle}] /\ stored' \in [Unit -> TextShape]
       /\ unitBag' \in [Unit -> Announcement] /\ appBag' \in Announcement
  BY <1>1, <1>10, <1>11 DEF TypeInv
<1>19. rules' \in [Sink -> {Bottom, "library", "charm"}] /\ legacy' \subseteq Sink
  BY <1>1, <1>7 DEF TypeInv
<1>20. drifted' \subseteq Unit /\ deferred' \subseteq Unit /\ stale' \subseteq Unit
  BY <1>1 DEF TypeInv
<1> QED BY <1>8, <1>17, <1>18, <1>19, <1>20

(* A hook that fails leaves to its next run what it had still to do, and   *)
(* what its draft held.                                                    *)
LEMMA AbandonUnit ==
  ASSUME TypeInv, NEW u \in Unit, UnitInv(u), ~Free(u), Abandon(u),
         UNCHANGED <<member, url, cloud, dying, ask, requirer, view, scope, changed, config,
                     state, bags, stale>>,
         queue[u] = queue'[u],
         leader' = u => leader = u
  PROVE  UnitInv(u)' /\ hook' \in [Unit -> Hook \cup {Idle}]
<1> DEFINE h == hook[u]
           d == h.draft
<1>1. /\ hook' = [hook EXCEPT ![u] = [@ EXCEPT !.todo = {}, !.draft = NoDraft(u), !.failed = TRUE]]
      /\ torn' = IF config[u] = stored[u] THEN torn ELSE torn \cup {u}
  BY DEF Abandon
<1>2. h \in Hook /\ d \in Draft
  BY RunningHook
<1>3. hook'[u] = [h EXCEPT !.todo = {}, !.draft = NoDraft(u), !.failed = TRUE]
  BY <1>1 DEF TypeInv
<1>4. NoDraft(u) \in Draft
  BY DEF NoDraft, Draft, TypeInv, RuleMark, LegacyMark
<1>5. hook'[u] \in Hook
  BY <1>2, <1>3, <1>4 DEF Hook
<1>6. /\ hook'[u].kind = h.kind /\ hook'[u].sink = h.sink /\ hook'[u].failed = TRUE
      /\ hook'[u].todo = {} /\ hook'[u].draft = NoDraft(u)
  BY <1>2, <1>3 DEF Hook
<1>7. /\ NoDraft(u).text = stored[u] /\ NoDraft(u).unit = FALSE
      /\ \A s \in Sink : NoDraft(u).rules[s] = Kept
  BY DEF NoDraft
<1>8. /\ Failed(u)' /\ ~(Free(u))' /\ ~Running(u)' /\ AllStages(u)' = AllStages(u)
      /\ (Running(u) \/ Failed(u))
  BY <1>5, <1>6, HookIsNotIdle DEF Running, Failed, Free, AllStages, Stages, state
<1>9. /\ url' = url /\ cloud' = cloud /\ ask' = ask /\ requirer' = requirer
      /\ view' = view /\ scope' = scope /\ changed' = changed /\ queue'[u] = queue[u]
      /\ stored' = stored /\ rules' = rules /\ unitBag' = unitBag
      /\ config' = config /\ stale' = stale
  BY DEF bags, state
<1>10. /\ \A k : Offered(u, k)' = Offered(u, k)
       /\ Due(u)' = Due(u) /\ DueLoki(u)' = DueLoki(u) /\ Announced(u)' = Announced(u)
  BY <1>9 DEF Offered, Endpoints, RelationUrls, CloudUrls, CloudSignals, Due, DueLoki, Offers,
              AsksAgain, Announced
<1>11. /\ h.todo \subseteq AllStages(u)
       /\ d.text # stored[u] => Configures(h.kind, AllStages(u))
       /\ \A s \in Sink : d.rules[s] = "charm" => Reconciles(h.kind, AllStages(u))
  BY DEF UnitInv, DraftInv
<1>12. /\ Configures(h.kind, h.todo) => Configures(h.kind, AllStages(u))
       /\ Refreshes(h.kind, h.todo) => Refreshes(h.kind, AllStages(u))
       /\ Reconciles(h.kind, h.todo) => Reconciles(h.kind, AllStages(u))
  BY <1>11 DEF Configures, Refreshes, Reconciles
<1>13. SeenInv(u)' /\ StatusInv(u)'
  BY <1>8 DEF SeenInv, StatusInv
<1>14. DraftInv(u)'
  BY <1>6, <1>7, <1>8, <1>9 DEF DraftInv, Kept
<1>15. TextInv(u)'
  <2> SUFFICES ASSUME ask.verdict = "good", ~Due(u)
               PROVE  Serves(u, stored[u])' \/ Configures(h.kind, AllStages(u))
    BY <1>6, <1>8, <1>9, <1>10 DEF TextInv
  <2>1. Serves(u, stored[u]) \/ Configures(h.kind, AllStages(u))
    BY <1>8, <1>11, <1>12 DEF UnitInv, TextInv
  <2> QED BY <1>9, <1>10, <2>1 DEF Serves
<1>16. FileInv(u)'
  BY <1>1, <1>8, <1>9 DEF FileInv
<1>17. ReadyInv(u)'
  BY <1>6, <1>8, <1>9, <1>10, <1>11, <1>12 DEF UnitInv, ReadyInv
<1>18. RuleInv(u)'
  <2> SUFFICES ASSUME u = leader, NEW m \in view[u], KindOf[SinkOf[m]] # "cloud"
               PROVE  Promised(u, SinkOf[m])'
    BY <1>9 DEF RuleInv
  <2>1. Promised(u, SinkOf[m]) /\ SinkOf[m] \in Sink
    BY RemoteAssumption DEF UnitInv, RuleInv, TypeInv
  <2> QED BY <1>6, <1>8, <1>9, <1>11, <1>12, <2>1 DEF Promised
<1>19. hook' \in [Unit -> Hook \cup {Idle}]
  BY <1>1, <1>3, <1>5 DEF TypeInv
<1> QED BY <1>13, <1>14, <1>15, <1>16, <1>17, <1>18, <1>19 DEF UnitInv

-----------------------------------------------------------------------------
(* What happens around the hooks *)

(* Nothing but the hooks of the units moves their own model, their bags or *)
(* their files.                                                            *)
LEMMA OfferedSame ==
  ASSUME NEW v, NEW k, view' = view, scope' = scope, cloud' = cloud,
         \A m \in view[v] : KindOf[SinkOf[m]] = k => url'[m] = url[m]
  PROVE  Offered(v, k)' = Offered(v, k)
<1>1. RelationUrls(k, view[v])' = RelationUrls(k, view[v])
  BY DEF RelationUrls
<1>2. CloudUrls(k, scope[v])' = CloudUrls(k, scope[v])
  BY DEF CloudUrls, CloudSignals
<1> QED BY <1>1, <1>2 DEF Offered, Endpoints

LEMMA RemoteTells ==
  ASSUME TypeInv, SightInv, NEW m \in Remote, NEW v \in Unit,
         RemoteArrives(m) \/ RemoteLeaves(m) \/ RemotePublishes(m)
  PROVE  Told(v)
<1>1. SinkOf[m] \in Sink /\ KindOf[SinkOf[m]] \in Kind
  BY RemoteAssumption, KindAssumption
<1>2. CASE RemoteArrives(m)
  <2>1. /\ view' = view /\ scope' = scope /\ cloud' = cloud
        /\ \A x \in view[v] : url'[x] = url[x]
    BY <1>2 DEF RemoteArrives, due, SightInv, TypeInv
  <2>2. Offered(v, "loki")' = Offered(v, "loki") /\ Offered(v, "write")' = Offered(v, "write")
    BY <2>1, OfferedSame
  <2> QED BY <1>2, <2>2 DEF RemoteArrives, Happens, Counted, due, state, bags, Told
<1>3. CASE RemoteLeaves(m)
  <2>1. view' = view /\ scope' = scope /\ cloud' = cloud /\ url' = url
    BY <1>3 DEF RemoteLeaves, due
  <2>2. Offered(v, "loki")' = Offered(v, "loki") /\ Offered(v, "write")' = Offered(v, "write")
    BY <2>1, OfferedSame
  <2> QED BY <1>3, <2>2 DEF RemoteLeaves, Happens, Counted, due, state, bags, Told
<1>4. CASE RemotePublishes(m)
  <2>1. /\ view' = view /\ scope' = scope /\ cloud' = cloud
        /\ \A x \in view[v] : x # m => url'[x] = url[x]
        /\ \A x \in view[v] : x = m => SinkOf[m] \in changed'[v]
        /\ changed[v] \subseteq changed'[v]
    BY <1>4 DEF RemotePublishes, Notify, TypeInv
  <2>2. /\ m \notin view[v] => Offered(v, "loki")' = Offered(v, "loki")
                                 /\ Offered(v, "write")' = Offered(v, "write")
        /\ KindOf[SinkOf[m]] = "write" => Offered(v, "loki")' = Offered(v, "loki")
    BY <2>1, OfferedSame
  <2>3. m \in view[v] => Due(v)' /\ (KindOf[SinkOf[m]] # "write" => DueLoki(v)')
    BY <2>1 DEF Due, DueLoki, Offers
  <2> QED BY <1>4, <2>1, <2>2, <2>3 DEF RemotePublishes, Happens, Counted, state, bags, Told
<1> QED BY <1>2, <1>3, <1>4

LEMMA RelationTells ==
  ASSUME TypeInv, SightInv, NEW s \in Sink, NEW v \in Unit, CloudChanges(s) \/ RemoveRelation(s)
  PROVE  Told(v)
<1>1. CASE CloudChanges(s)
  <2>1. s \in scope[v]
    BY <1>1 DEF CloudChanges, SightInv
  <2>2. s \in changed'[v] /\ changed[v] \subseteq changed'[v] /\ KindOf[s] = "cloud" /\ view' = view
    BY <1>1, <2>1 DEF CloudChanges, Notify
  <2>3. Due(v)' /\ DueLoki(v)'
    BY <2>2 DEF Due, DueLoki, Offers
  <2> QED BY <1>1, <2>2, <2>3 DEF CloudChanges, Happens, Counted, state, bags, Told
<1>2. CASE RemoveRelation(s)
  <2>1. view' = view /\ scope' = scope /\ cloud' = cloud /\ url' = url
    BY <1>2 DEF RemoveRelation, due
  <2>2. Offered(v, "loki")' = Offered(v, "loki") /\ Offered(v, "write")' = Offered(v, "write")
    BY <2>1, OfferedSame
  <2> QED BY <1>2, <2>2 DEF RemoveRelation, Happens, Counted, due, state, bags, Told
<1> QED BY <1>1, <1>2

LEMMA OperatorTells ==
  ASSUME TypeInv, NEW v \in Unit,
         AskChanges \/ RequirerChanges \/ Upgrade \/ (\E u \in Unit : Reboot(u))
  PROVE  Told(v)
<1>1. view' = view /\ scope' = scope /\ cloud' = cloud /\ url' = url
  BY DEF AskChanges, RequirerChanges, Upgrade, Reboot, world
<1>2. Offered(v, "loki")' = Offered(v, "loki") /\ Offered(v, "write")' = Offered(v, "write")
  BY <1>1, OfferedSame
<1>3. CASE AskChanges
  <2>1. AsksAgain(v)' /\ queue[v] \subseteq queue'[v]
    BY <1>3 DEF AskChanges, Enqueue, AsksAgain
  <2> QED BY <1>2, <1>3, <2>1 DEF AskChanges, Happens, Counted, state, bags, Told
<1>4. CASE RequirerChanges
  <2>1. unitBag'[v] = {} /\ "syslog" \in queue'[v] /\ queue[v] \subseteq queue'[v]
    BY <1>4 DEF RequirerChanges, Enqueue
  <2> QED BY <1>2, <1>4, <2>1 DEF RequirerChanges, Happens, Counted, state, Told
<1>5. CASE Upgrade
  <2>1. queue[v] \subseteq queue'[v]
    BY <1>5 DEF Upgrade, Enqueue
  <2> QED BY <1>2, <1>5, <2>1 DEF Upgrade, Happens, Counted, world, state, bags, Told
<1>6. CASE \E u \in Unit : Reboot(u)
  <2>1. queue[v] \subseteq queue'[v]
    BY <1>6 DEF Reboot, TypeInv
  <2> QED BY <1>2, <1>6, <2>1 DEF Reboot, Happens, Counted, world, state, bags, Told
<1> QED BY <1>3, <1>4, <1>5, <1>6

(* An election tells every unit but the old leader, whose hook fails.      *)
LEMMA ElectionUnits ==
  ASSUME TypeInv, NEW u \in Unit, LeaderElected(u), \A v \in Unit : UnitInv(v)
  PROVE  (\A v \in Unit : UnitInv(v)') /\ hook' \in [Unit -> Hook \cup {Idle}]
<1>0. PICK old \in Unit : old = leader
  BY DEF TypeInv
<1>1. /\ u # leader /\ leader' = u /\ leader \in Unit /\ Abandon(old)
      /\ queue' = [queue EXCEPT ![u] = @ \cup {"leader-elected"}]
      /\ UNCHANGED <<member, url, cloud, dying, ask, requirer, view, scope, changed, config,
                     state, bags, stale>>
  BY <1>0 DEF LeaderElected, TypeInv
<1>2. /\ queue'[u] = queue[u] \cup {"leader-elected"}
      /\ \A v \in Unit \ {u} : queue'[v] = queue[v]
  BY <1>1 DEF TypeInv
<1>3. ASSUME NEW v \in Unit, hook'[v] = hook[v], v \in torn' <=> v \in torn
      PROVE  UnitInv(v)'
  <2>1. Offered(v, "loki")' = Offered(v, "loki") /\ Offered(v, "write")' = Offered(v, "write")
    BY <1>1, OfferedSame
  <2>2. Told(v)
    BY <1>1, <1>2, <1>3, <2>1 DEF Told, bags, state
  <2> QED BY <2>2, ToldKeeps
<1>4. CASE Free(old)
  BY <1>1, <1>3, <1>4 DEF Abandon, TypeInv
<1>5. CASE ~Free(old)
  <2>1. UnitInv(old)' /\ hook' \in [Unit -> Hook \cup {Idle}]
    BY <1>0, <1>1, <1>2, <1>5, AbandonUnit
  <2>2. \A v \in Unit \ {old} : hook'[v] = hook[v] /\ (v \in torn' <=> v \in torn)
    BY <1>1, <1>5 DEF Abandon, TypeInv
  <2> QED BY <1>3, <2>1, <2>2
<1> QED BY <1>4, <1>5

-----------------------------------------------------------------------------
(* Every step *)

(* The other units notice nothing of a unit's hook. *)
LEMMA OthersKeep ==
  ASSUME TypeInv, NEW u \in Unit, \A v \in Unit : UnitInv(v),
         UNCHANGED <<url, cloud, ask, requirer, leader>>,
         \A v \in Unit \ {u} :
           /\ hook'[v] = hook[v] /\ config'[v] = config[v] /\ stored'[v] = stored[v]
           /\ view'[v] = view[v] /\ scope'[v] = scope[v] /\ changed'[v] = changed[v]
           /\ queue'[v] = queue[v] /\ unitBag'[v] = unitBag[v] /\ (v \in torn' <=> v \in torn)
           /\ (v \in deferred' <=> v \in deferred) /\ (v \in stale' <=> v \in stale),
         \A s \in Sink : rules[s] = "charm" => rules'[s] = "charm"
  PROVE  \A v \in Unit \ {u} : UnitInv(v)'
<1> SUFFICES ASSUME NEW v \in Unit \ {u} PROVE UnitInv(v)'
  OBVIOUS
<1>1. \A k : Offered(v, k)' = Offered(v, k)
  BY DEF Offered, Endpoints, RelationUrls, CloudUrls, CloudSignals
<1>2. Told(v)
  BY <1>1 DEF Told
<1> QED BY <1>2, ToldKeeps

LEMMA BeginKeepsAll ==
  ASSUME ConvergenceInv, NEW u \in Unit, BeginStep(u) PROVE ConvergenceInv'
<1>1. TypeInv /\ SightInv /\ \A v \in Unit : UnitInv(v)
  BY DEF ConvergenceInv
<1>2. UnitInv(u)' /\ hook' \in [Unit -> Hook \cup {Idle}]
  BY <1>1, BeginUnit
<1>3. MovesOn(u) /\ \A v \in Unit \ {u} : hook'[v] = hook[v]
  BY <1>1 DEF BeginStep, TypeInv
<1>4. \A v \in Unit \ {u} : UnitInv(v)'
  BY <1>1, <1>3, OthersKeep DEF MovesOn, world, state, bags, past
<1>5. TypeInv'
  BY <1>1, <1>2, <1>3 DEF TypeInv, MovesOn, world, state, bags, past
<1>6. SightInv'
  BY <1>1, <1>3 DEF SightInv, MovesOn, world
<1> QED BY <1>2, <1>4, <1>5, <1>6 DEF ConvergenceInv

LEMMA StageKeepsAll ==
  ASSUME ConvergenceInv, HookInv, NEW u \in Unit, NEW n \in 0..6, StageStep(u, n)
  PROVE  ConvergenceInv'
<1>1. TypeInv /\ SightInv /\ \A v \in Unit : UnitInv(v)
  BY DEF ConvergenceInv
<1>2. UnitInv(u)' /\ hook' \in [Unit -> Hook \cup {Idle}]
  BY <1>1, StageUnit
<1>3. PICK e : /\ StageDraft(u, n, hook[u].draft, e) /\ Does(u, n, e) /\ count' \in Nat
               /\ config' = config \/ config' = [config EXCEPT ![u] = e.text]
               /\ torn' = torn \/ torn' = torn \ {u}
  BY DEF StageStep
<1>4. /\ UNCHANGED <<world, due, state, bags, stale>> /\ count' \in Nat /\ torn' \subseteq Unit
      /\ \A v \in Unit \ {u} : /\ hook'[v] = hook[v] /\ config'[v] = config[v]
                               /\ (v \in torn' <=> v \in torn)
      /\ config' \in [Unit -> TextShape]
  BY <1>1, <1>3 DEF Does, TypeInv, StageDraft, Draft
<1>5. \A v \in Unit \ {u} : UnitInv(v)'
  BY <1>1, <1>4, OthersKeep DEF world, due, state, bags
<1>6. TypeInv'
  BY <1>1, <1>2, <1>4 DEF TypeInv, world, due, state, bags
<1>7. SightInv'
  BY <1>1, <1>4 DEF SightInv, world, due
<1> QED BY <1>2, <1>5, <1>6, <1>7 DEF ConvergenceInv

LEMMA EndKeepsAll ==
  ASSUME ConvergenceInv, HiddenInv, NEW u \in Unit, HookEnds(u) PROVE ConvergenceInv'
<1>1. TypeInv /\ SightInv /\ \A v \in Unit : UnitInv(v)
  BY DEF ConvergenceInv
<1>2. /\ UnitInv(u)'
      /\ \A s \in Sink : rules[s] = "charm" => rules'[s] = "charm"
      /\ hook' \in [Unit -> Hook \cup {Idle}] /\ stored' \in [Unit -> TextShape]
      /\ unitBag' \in [Unit -> Announcement] /\ appBag' \in Announcement
      /\ rules' \in [Sink -> {Bottom, "library", "charm"}] /\ legacy' \subseteq Sink
      /\ drifted' \subseteq Unit /\ deferred' \subseteq Unit /\ stale' \subseteq Unit
  BY <1>1, EndUnit
<1>3. /\ UNCHANGED <<world, due, config, torn, count>>
      /\ \A v \in Unit \ {u} :
           /\ hook'[v] = hook[v] /\ stored'[v] = stored[v] /\ unitBag'[v] = unitBag[v]
           /\ (v \in deferred' <=> v \in deferred) /\ (v \in stale' <=> v \in stale)
  BY <1>1 DEF HookEnds, TypeInv
<1>4. \A v \in Unit \ {u} : UnitInv(v)'
  BY <1>1, <1>2, <1>3, OthersKeep DEF world, due
<1>5. TypeInv'
  BY <1>1, <1>2, <1>3 DEF TypeInv, world, due
<1>6. SightInv'
  BY <1>1, <1>3 DEF SightInv, world, due
<1> QED BY <1>2, <1>4, <1>5, <1>6 DEF ConvergenceInv

LEMMA FailureKeepsAll ==
  ASSUME ConvergenceInv, NEW u \in Unit, HookFails(u) PROVE ConvergenceInv'
<1>1. TypeInv /\ SightInv /\ \A v \in Unit : UnitInv(v)
  BY DEF ConvergenceInv
<1>2. /\ ~Free(u) /\ Abandon(u) /\ count' = count + 1
      /\ UNCHANGED <<world, due, config, state, bags, stale>>
  BY DEF HookFails, Counted
<1>3. UnitInv(u)' /\ hook' \in [Unit -> Hook \cup {Idle}]
  BY <1>1, <1>2, AbandonUnit DEF world, due
<1>4. torn' \in {torn, torn \cup {u}} /\ \A v \in Unit \ {u} : hook'[v] = hook[v]
  BY <1>1, <1>2 DEF Abandon, TypeInv
<1>5. \A v \in Unit \ {u} : UnitInv(v)'
  BY <1>1, <1>2, <1>4, OthersKeep DEF world, due, state, bags
<1>6. TypeInv'
  BY <1>1, <1>2, <1>3, <1>4 DEF TypeInv, world, due, state, bags
<1>7. SightInv'
  BY <1>1, <1>2 DEF SightInv, world, due
<1> QED BY <1>3, <1>5, <1>6, <1>7 DEF ConvergenceInv

(* The step of the environment keeps the shapes, and what the units see.   *)
LEMMA EnvironmentKeepsAll ==
  ASSUME ConvergenceInv, Environment PROVE ConvergenceInv'
<1>1. TypeInv /\ SightInv /\ \A v \in Unit : UnitInv(v)
  BY DEF ConvergenceInv
<1>2. ASSUME NEW m \in Remote, RemoteArrives(m) \/ RemoteLeaves(m) \/ RemotePublishes(m)
      PROVE  ConvergenceInv'
  <2>1. \A v \in Unit : UnitInv(v)'
    BY <1>1, <1>2, RemoteTells, ToldKeeps
  <2>2. SinkOf[m] \in Sink
    BY RemoteAssumption
  <2>3. TypeInv'
    BY <1>1, <1>2, <2>2 DEF RemoteArrives, RemoteLeaves, RemotePublishes, Notify, Happens, Counted,
                            TypeInv, due, state, bags, Absent
  <2>4. SightInv'
    BY <1>1, <1>2 DEF RemoteArrives, RemoteLeaves, RemotePublishes, SightInv, TypeInv, due, Absent
  <2> QED BY <2>1, <2>3, <2>4 DEF ConvergenceInv
<1>3. ASSUME NEW s \in Sink, CloudChanges(s) \/ RemoveRelation(s) PROVE ConvergenceInv'
  <2>1. \A v \in Unit : UnitInv(v)'
    BY <1>1, <1>3, RelationTells, ToldKeeps
  <2>2. TypeInv'
    BY <1>1, <1>3, CloudAssumption DEF CloudChanges, RemoveRelation, Notify, Happens, Counted,
                                       TypeInv, due, state, bags, Absent
  <2>3. SightInv'
    BY <1>1, <1>3, RemoteAssumption DEF CloudChanges, RemoveRelation, SightInv, TypeInv, due, Absent
  <2> QED BY <2>1, <2>2, <2>3 DEF ConvergenceInv
<1>4. CASE AskChanges \/ RequirerChanges \/ Upgrade \/ \E u \in Unit : Reboot(u)
  <2>1. \A v \in Unit : UnitInv(v)'
    BY <1>1, <1>4, OperatorTells, ToldKeeps
  <2>2. TypeInv'
    <3>1. CASE AskChanges
      BY <1>1, <3>1 DEF AskChanges, Enqueue, Queueable, Happens, Counted, TypeInv, state, bags
    <3>2. CASE RequirerChanges
      BY <1>1, <3>2 DEF RequirerChanges, Enqueue, Queueable, Happens, Counted, TypeInv, Announcement, state
    <3>3. CASE Upgrade
      BY <1>1, <3>3 DEF Upgrade, Enqueue, Queueable, Happens, Counted, TypeInv, world, state, bags
    <3>4. CASE \E u \in Unit : Reboot(u)
      BY <1>1, <3>4 DEF Reboot, Queueable, Happens, Counted, TypeInv, world, state, bags
    <3> QED BY <1>4, <3>1, <3>2, <3>3, <3>4
  <2>3. SightInv'
    BY <1>1, <1>4 DEF AskChanges, RequirerChanges, Upgrade, Reboot, SightInv, world
  <2> QED BY <2>1, <2>2, <2>3 DEF ConvergenceInv
<1>5. ASSUME NEW u \in Unit, LeaderElected(u) PROVE ConvergenceInv'
  <2>1. (\A v \in Unit : UnitInv(v)') /\ hook' \in [Unit -> Hook \cup {Idle}]
    BY <1>1, <1>5, ElectionUnits
  <2>2. torn' \subseteq Unit
    BY <1>1, <1>5 DEF LeaderElected, Abandon, TypeInv
  <2>3. TypeInv'
    <3>1. /\ leader' = u /\ count' = count + 1
          /\ queue' = [queue EXCEPT ![u] = queue[u] \cup {"leader-elected"}]
          /\ UNCHANGED <<member, url, cloud, dying, ask, requirer, view, scope, changed,
                         config, stored, drifted, deferred, rules, legacy, unitBag, appBag,
                         stale>>
      BY <1>5 DEF LeaderElected, Counted, state, bags
    <3>2. queue' \in [Unit -> SUBSET Queueable]
      BY <1>1, <3>1 DEF Queueable, TypeInv
    <3>3. count' \in Nat
      BY <1>1, <3>1 DEF TypeInv
    <3> QED BY <1>1, <2>1, <2>2, <3>1, <3>2, <3>3 DEF TypeInv
  <2>4. SightInv'
    BY <1>1, <1>5 DEF LeaderElected, SightInv
  <2> QED BY <2>1, <2>3, <2>4 DEF ConvergenceInv
<1> QED BY <1>2, <1>3, <1>4, <1>5 DEF Environment

LEMMA ConvergenceNext ==
  ASSUME ConvergenceInv, HiddenInv, [Next]_vars PROVE ConvergenceInv'
<1>1. TypeInv /\ SightInv /\ HookInv
  BY DEF ConvergenceInv, HiddenInv
<1>2. ASSUME NEW u \in Unit, HookBegins(u) \/ Retry(u) PROVE ConvergenceInv'
  BY <1>1, <1>2, EveryBegin, BeginKeepsAll
<1>3. ASSUME NEW u \in Unit, HookStep(u), ~HookEnds(u) PROVE ConvergenceInv'
  BY <1>1, <1>3, EveryStage, StageKeepsAll
<1>4. ASSUME NEW u \in Unit, HookEnds(u) \/ HookFails(u) PROVE ConvergenceInv'
  BY <1>4, EndKeepsAll, FailureKeepsAll
<1>5. CASE UNCHANGED vars
  <2>1. \A v \in Unit : Told(v)
    <3>1. \A v, k : Offered(v, k)' = Offered(v, k)
      BY <1>5 DEF Offered, Endpoints, RelationUrls, CloudUrls, CloudSignals, vars, world, due
    <3> QED BY <1>5, <3>1 DEF Told, vars, world, due, state, bags, past
  <2>2. \A v \in Unit : UnitInv(v)'
    BY <1>1, <2>1, ToldKeeps DEF ConvergenceInv
  <2>3. TypeInv' /\ SightInv'
    BY <1>1, <1>5 DEF TypeInv, SightInv, vars, world, due, state, bags, past
  <2> QED BY <2>2, <2>3 DEF ConvergenceInv
<1> QED BY <1>2, <1>3, <1>4, <1>5, EnvironmentKeepsAll DEF Next

LEMMA ConvergenceInit == Init => ConvergenceInv
<1> SUFFICES ASSUME Init PROVE ConvergenceInv
  OBVIOUS
<1>1. << >> \in OnceEach
  <2>1. Listed(<< >>) = {}
    BY DEF Listed
  <2> QED BY <2>1, FS_EmptySet DEF OnceEach
<1>2. /\ ask \in Ask /\ leader \in Unit /\ requirer = TRUE /\ dying = {} /\ torn = {} /\ count = 0
      /\ drifted \subseteq Unit /\ deferred = {} /\ stale = {}
      /\ member = [m \in Remote |-> Absent] /\ url = [m \in Remote |-> NoUrl]
      /\ cloud = [loki |-> {}, write |-> {}]
      /\ view = [u \in Unit |-> {}] /\ scope = [u \in Unit |-> Sink]
      /\ changed = [u \in Unit |-> {}] /\ queue = [u \in Unit |-> {}]
      /\ hook = [u \in Unit |-> Idle]
      /\ config = [u \in Unit |-> [loki |-> <<>>, write |-> <<>>, syslog |-> ask.syslog]]
      /\ stored = config /\ rules = [s \in Sink |-> Bottom] /\ legacy = {}
      /\ unitBag = [u \in Unit |-> {Payload(u, ask.syslog, FALSE)}] /\ appBag = unitBag[leader]
  BY DEF Init, Ask, Verdict
<1>3. \A u \in Unit : Payload(u, ask.syslog, FALSE) \in [ready : BOOLEAN, address : Unit \cup {Bottom}]
                        /\ Payload(u, ask.syslog, FALSE).ready = FALSE
  BY <1>2 DEF Payload, Ask
<1>4. config \in [Unit -> TextShape]
  BY <1>1, <1>2 DEF TextShape, Ask
<1>5. TypeInv
  BY <1>2, <1>3, <1>4 DEF TypeInv, Announcement, Absent, Bottom
<1>6. SightInv
  BY <1>2 DEF SightInv
<1>7. \A u \in Unit : Offered(u, "loki") = {} /\ Offered(u, "write") = {}
  BY <1>2 DEF Offered, Endpoints, RelationUrls, CloudUrls, CloudSignals
<1>8. ASSUME NEW u \in Unit PROVE UnitInv(u)
  <2>1. /\ Free(u) /\ ~Running(u) /\ ~Failed(u) /\ view[u] = {} /\ unitBag[u] = {Payload(u, ask.syslog, FALSE)}
        /\ stored[u] = [loki |-> <<>>, write |-> <<>>, syslog |-> ask.syslog]
        /\ config[u] = stored[u]
    BY <1>2 DEF Free, Running, Failed
  <2>2. Serves(u, stored[u])
    BY <1>7, <2>1 DEF Serves, Listed
  <2>3. Announced(u)
    BY <1>3, <1>7, <2>1 DEF Announced
  <2> QED BY <1>2, <2>1, <2>2, <2>3 DEF UnitInv, SeenInv, DraftInv, TextInv, FileInv, ReadyInv,
                                        RuleInv, StatusInv
<1> QED BY <1>5, <1>6, <1>8 DEF ConvergenceInv

LEMMA Convergence == Spec => [](ConvergenceInv /\ HiddenInv)
<1>1. Init => ConvergenceInv /\ HiddenInv
  BY ConvergenceInit, HiddenInit
<1>2. ConvergenceInv /\ HiddenInv /\ [Next]_vars => (ConvergenceInv /\ HiddenInv)'
  BY ConvergenceNext, HiddenNext
<1> QED BY <1>1, <1>2, PTL DEF Spec

-----------------------------------------------------------------------------
(* What follows *)

(* A unit with nothing due owes nothing. *)
LEMMA SettledOwesNothing ==
  ASSUME NEW u \in Unit, Settled(u)
  PROVE  Free(u) /\ ~Due(u) /\ ~DueLoki(u) /\ ~Running(u) /\ ~Failed(u)
           /\ queue[u] = {} /\ changed[u] = {}
  BY DEF Settled, NothingDue, Due, DueLoki, AsksAgain, Running, Failed

(* Every variable of the sink relations keeps the shape the code gives it, *)
(* and neither a config nor StoredState ever lists an endpoint twice.      *)
THEOREM TypeOKAlways == Spec => []TypeOK
<1>1. ConvergenceInv => TypeOK
  <2> SUFFICES ASSUME TypeInv PROVE TypeOK
    BY DEF ConvergenceInv
  <2>1. ASSUME NEW u \in Unit, NEW q \in {config[u], stored[u]}
        PROVE  /\ Listed(q.loki) \cup Listed(q.write) \subseteq Endpoint /\ q.syslog \in BOOLEAN
               /\ Cardinality(Listed(q.loki)) = Len(q.loki)
               /\ Cardinality(Listed(q.write)) = Len(q.write)
    <3>1. q \in TextShape
      BY <2>1 DEF TypeInv
    <3>2. \A p \in OnceEach : Listed(p) \subseteq Endpoint /\ Cardinality(Listed(p)) = Len(p)
      BY DEF OnceEach, Listed
    <3> QED BY <3>1, <3>2 DEF TextShape
  <2>2. ASSUME NEW bag \in Announcement PROVE Cardinality(bag) <= 1
    <3>1. CASE bag = {}
      BY <3>1, FS_EmptySet
    <3>2. CASE bag # {}
      <4>1. PICK p \in bag : TRUE
        BY <3>2
      <4>2. bag = {p}
        BY <4>1 DEF Announcement
      <4> QED BY <4>2, FS_Singleton
    <3> QED BY <3>1, <3>2
  <2>3. \A bag \in {appBag} \cup {unitBag[u] : u \in Unit} : Cardinality(bag) <= 1
    BY <2>2 DEF TypeInv
  <2> QED BY <2>1, <2>3 DEF TypeInv, TypeOK
<1> QED BY <1>1, Convergence, PTL

(* Once a unit has run its hooks and nothing is refused, what it stored    *)
(* serves exactly the endpoints its relations offer, whatever order urls,  *)
(* departures, refusals, failures and elections came in; and so does its   *)
(* config file, unless a hook failed after writing it and none has written *)
(* it since (charm.py, _configure and the handlers that call it).          *)
THEOREM EndpointsCurrentAlways == Spec => []EndpointsCurrent
<1>1. ConvergenceInv => EndpointsCurrent
  <2> SUFFICES ASSUME ConvergenceInv, NEW u \in Unit, Settled(u), ask.verdict = "good"
               PROVE  /\ Listed(stored[u].loki) = Endpoints("loki", view[u], scope[u])
                      /\ Listed(stored[u].write) = Endpoints("write", view[u], scope[u])
                      /\ u \notin torn => config[u] = stored[u]
    BY DEF EndpointsCurrent
  <2>1. TextInv(u) /\ FileInv(u)
    BY DEF ConvergenceInv, UnitInv
  <2>2. Serves(u, stored[u])
    BY <2>1, SettledOwesNothing DEF TextInv
  <2>3. u \notin torn => config[u] = stored[u]
    BY <2>1, SettledOwesNothing DEF FileInv
  <2> QED BY <2>2, <2>3 DEF Serves, Offered
<1> QED BY <1>1, Convergence, PTL

(* A settled unit is announced to syslog clients as ready exactly if its   *)
(* config file has listeners and a way to Loki, unless a hook failed after *)
(* writing that file or gave up announcing it when it could not be         *)
(* reloaded (charm.py, _configure and _refresh_syslog_receiver_relations). *)
THEOREM ReadyMeansListeningAlways == Spec => []ReadyMeansListening
<1>1. ConvergenceInv => ReadyMeansListening
  <2> SUFFICES ASSUME ConvergenceInv, NEW u \in Unit, Settled(u), ask.verdict = "good",
                      u \notin torn \cup stale, NEW payload \in unitBag[u]
               PROVE  payload.ready = Listens(u)
    BY DEF ReadyMeansListening
  <2>1. TextInv(u) /\ FileInv(u) /\ ReadyInv(u)
    BY DEF ConvergenceInv, UnitInv
  <2>2. Serves(u, stored[u])
    BY <2>1, SettledOwesNothing DEF TextInv
  <2>3. config[u] = stored[u]
    BY <2>1, SettledOwesNothing DEF FileInv
  <2>4. Announced(u)
    BY <2>1, SettledOwesNothing DEF ReadyInv
  <2>5. stored[u].loki \in OnceEach
    BY DEF ConvergenceInv, TypeInv, TextShape
  <2>6. stored[u].loki # <<>> <=> Offered(u, "loki") # {}
    BY <2>2, <2>5, NothingListed DEF Serves
  <2> QED BY <2>2, <2>3, <2>4, <2>6 DEF Announced, Serves, Listens
<1> QED BY <1>1, Convergence, PTL

(* Once the leader has run its hooks, every relation with members carries  *)
(* the charm's rules, whoever led when they joined and whichever hook      *)
(* failed (charm.py, _on_rule_relation_event and _reconcile_rule_groups).  *)
THEOREM RulesReachReceiversAlways == Spec => []RulesReachReceivers
<1>1. ConvergenceInv => RulesReachReceivers
  BY SettledOwesNothing DEF ConvergenceInv, TypeInv, UnitInv, RuleInv, Promised, RulesReachReceivers
<1> QED BY <1>1, Convergence, PTL

(* A hook leaves its unit free only by ending well. *)
LEMMA OnlyEndsFree ==
  ASSUME ConvergenceInv, [Next]_vars, NEW u \in Unit, ~Free(u), Free(u)'
  PROVE  HookEnds(u)
<1>1. TypeInv /\ SightInv /\ hook[u] \in Hook /\ hook[u] # Idle /\ hook'[u] = Idle
        /\ hook \in [Unit -> Hook \cup {Idle}]
  BY RunningHook DEF ConvergenceInv, Free, TypeInv
<1>2. ASSUME NEW v \in Unit, v # u PROVE HookEnds(v) => hook'[u] = hook[u]
  BY <1>1, <1>2 DEF HookEnds
<1>3. ASSUME NEW v \in Unit, HookBegins(v) \/ Retry(v) PROVE FALSE
  <2>1. PICK kind \in HookKind, s \in Sink \cup {Bottom} : \E seen :
          hook' = [hook EXCEPT ![v] = Fresh(v, kind, s, seen)]
    BY <1>1, <1>3, EveryBegin DEF BeginStep
  <2>2. kind # Bottom
    BY DEF HookKind, Queueable, Bottom
  <2> QED BY <1>1, <2>1, <2>2 DEF Fresh, Idle
<1>4. ASSUME NEW v \in Unit, HookStep(v), ~HookEnds(v) PROVE FALSE
  <2>1. PICK n : NextIs(v, n) /\ \E e : Does(v, n, e)
    BY <1>1, <1>4, EveryStage DEF StageStep
  <2>2. PICK e : hook' = [hook EXCEPT ![v].todo = @ \ {n}, ![v].draft = e]
    BY <2>1 DEF Does
  <2>3. v = u
    BY <1>1, <2>2
  <2>4. hook'[u].kind = hook[u].kind
    BY <1>1, <2>2, <2>3 DEF Hook
  <2> QED BY <1>1, <2>4 DEF Hook, HookKind, Queueable, Idle, Bottom
<1>5. ASSUME NEW v \in Unit, Abandon(v) PROVE FALSE
  <2>1. hook' = [hook EXCEPT ![v] = [@ EXCEPT !.todo = {}, !.draft = NoDraft(v), !.failed = TRUE]]
    BY <1>1, <1>5 DEF Abandon
  <2>2. v = u
    BY <1>1, <2>1
  <2>3. hook'[u].kind = hook[u].kind
    BY <1>1, <2>1, <2>2 DEF Hook
  <2> QED BY <1>1, <2>3 DEF Hook, HookKind, Queueable, Idle, Bottom
<1>6. ASSUME Environment PROVE hook' = hook \/ \E v \in Unit : Abandon(v)
  <2>1. leader \in Unit
    BY <1>1 DEF TypeInv
  <2> QED BY <1>6, <2>1 DEF Environment, RemoteArrives, RemoteLeaves, RemotePublishes,
                        CloudChanges, RemoveRelation, AskChanges, RequirerChanges, Upgrade,
                        Reboot, LeaderElected
<1>7. UNCHANGED vars => hook' = hook
  BY DEF vars
<1>8. ASSUME NEW v \in Unit, HookFails(v) PROVE FALSE
  BY <1>5, <1>8 DEF HookFails
<1> QED BY <1>1, <1>2, <1>3, <1>4, <1>5, <1>6, <1>7, <1>8 DEF Next

(* Whatever was deferred, could not be reloaded or was elected before, an  *)
(* update-status that leaves nothing due, with nothing refused, leaves the *)
(* unit's syslog databag saying what its config file does, and on the      *)
(* leader the application's (charm.py, _on_update_status and               *)
(* _refresh_syslog_receiver_relations).                                    *)
THEOREM StatusTellsTruthAlways == Spec => StatusTellsTruth
<1>1. ASSUME ConvergenceInv, [Next]_vars, NEW u \in Unit,
             hook[u].kind = "update-status", NothingDue(u)', requirer,
             ask.verdict = "good", u \notin torn
      PROVE  LET truth == Payload(u, config[u].syslog, config[u].loki # <<>>)
             IN  unitBag'[u] = {truth} /\ (u = leader => appBag' = {truth})
  <2> DEFINE h == hook[u]
             d == h.draft
             payload == SyslogPayload(u, h.seen)
             truth == Payload(u, config[u].syslog, config[u].loki # <<>>)
  <2>1. ~Free(u) /\ Free(u)' /\ queue'[u] = {} /\ changed'[u] = {}
    BY <1>1 DEF Free, Idle, Bottom, NothingDue
  <2>2. HookEnds(u)
    BY <1>1, <2>1, OnlyEndsFree
  <2>3. /\ ~h.failed /\ h.todo = {} /\ h.kind = "update-status" /\ requirer
        /\ unitBag' = IF requirer /\ d.unit THEN [unitBag EXCEPT ![u] = {payload}] ELSE unitBag
        /\ appBag' = IF requirer /\ d.app THEN {payload} ELSE appBag
        /\ queue' = queue /\ changed' = changed
    BY <1>1, <2>2 DEF HookEnds, due
  <2>4. Running(u) /\ ~Due(u) /\ ~DueLoki(u) /\ "syslog" \notin queue[u]
          /\ "leader-elected" \notin queue[u]
    BY <2>1, <2>3 DEF Running, Due, DueLoki, AsksAgain
  <2>5. SeenInv(u) /\ TextInv(u) /\ FileInv(u) /\ StatusInv(u)
    BY <1>1 DEF ConvergenceInv, UnitInv
  <2>6. h.seen.requirer = requirer /\ Listed(h.seen.loki) = Offered(u, "loki") /\ h.seen.ask = ask
    BY <2>4, <2>5 DEF SeenInv
  <2>7. d.unit /\ (u = leader => d.app)
    BY <1>1, <2>3, <2>4, <2>5, <2>6 DEF StatusInv
  <2>8. ~Configures(h.kind, h.todo)
    BY <2>3 DEF Configures
  <2>9. config[u] = d.text /\ Serves(u, d.text)
    BY <1>1, <2>4, <2>5, <2>8 DEF TextInv, FileInv
  <2>10. /\ h.seen.loki # <<>> <=> Offered(u, "loki") # {}
         /\ d.text.loki # <<>> <=> Offered(u, "loki") # {}
    <3>1. h.seen.loki \in OnceEach /\ d.text.loki \in OnceEach
      BY <1>1, <2>1, RunningHook DEF ConvergenceInv, Hook, Reading, Draft, TextShape
    <3> QED BY <2>6, <2>9, <3>1, NothingListed DEF Serves
  <2>11. payload = truth
    <3>1. (h.seen.loki # <<>>) = (config[u].loki # <<>>)
      BY <2>9, <2>10
    <3>2. h.seen.ask.syslog = config[u].syslog
      BY <2>6, <2>9 DEF Serves
    <3> QED BY <3>1, <3>2 DEF SyslogPayload
  <2> HIDE DEF payload, truth
  <2> QED BY <1>1, <2>3, <2>7, <2>11 DEF ConvergenceInv, TypeInv, truth
<1>2. ConvergenceInv /\ [Next]_vars =>
        [\A u \in Unit :
           hook[u].kind = "update-status" /\ NothingDue(u)' /\ requirer
             /\ ask.verdict = "good" /\ u \notin torn =>
             LET truth == Payload(u, config[u].syslog, config[u].loki # <<>>)
             IN  unitBag'[u] = {truth} /\ (u = leader => appBag' = {truth})]_vars
  BY <1>1
<1> QED BY <1>2, Convergence, PTL DEF Spec, StatusTellsTruth
=============================================================================
