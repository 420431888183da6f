----------------------------- MODULE AlloyConfig -----------------------------
(***************************************************************************)
(* One unit's Alloy configuration: _configure of src/src/charm.py and the  *)
(* hooks around it (config-changed and the relation hooks that configure,  *)
(* start, update-status), with what they drive: the config file, the       *)
(* CUSTOM_ARGS of /etc/default/alloy, the systemd service.                 *)
(*                                                                         *)
(* The files and the service change at once; StoredState is written back   *)
(* only when the hook ends well (`mem` becomes `stored`).  A hook killed   *)
(* or raising between the two leaves the machine ahead of what the charm   *)
(* remembers, and Juju runs it again before any other.                     *)
(***************************************************************************)
EXTENDS Naturals

CONSTANTS
  Text,      \* configurations, as texts
  Verdict,   \* per text: "invalid" (alloy fmt refuses), "broken" (alloy does), "good"
  Package,   \* the text the Debian package installs
  NoText,    \* no config file; no last good config
  Args,      \* values of the option custom_args
  LiveArgs,  \* the arguments of live debugging
  NoArgs,    \* CUSTOM_ARGS not set; nothing remembered
  Wanted,    \* what options and relations may ask for
  Limit      \* how often each external event may happen

(* What there is to scrape: "manual" and "related" jobs lack a remote write, *)
(* "malformed" manual jobs and a relation "contract" error stop _configure.  *)
Metrics == {"served", "manual", "related", "malformed", "contract"}
Want == [text : Text, args : Args, live : BOOLEAN, syslog : BOOLEAN,
         metrics : Metrics]
Event == {"option", "edit", "exit", "cloud", "fault", "crash"}

ASSUME TextAssumption ==
  /\ Verdict \in [Text -> {"invalid", "broken", "good"}]
  /\ Package \in Text /\ Verdict[Package] = "good" /\ NoText \notin Text
ASSUME ArgsAssumption == LiveArgs \notin Args \cup {NoArgs} /\ NoArgs \notin Args
ASSUME WantedAssumption == Wanted \subseteq Want
ASSUME LimitAssumption == Limit \in [Event -> Nat]

VARIABLES
  want,       \* the options and relations as Juju has them
  reachable,  \* the Grafana Cloud endpoints answer
  disk,       \* /etc/alloy/config.alloy
  byHand,     \* the last to write it was not the charm
  args,       \* CUSTOM_ARGS in /etc/default/alloy
  service,    \* the systemd unit: is it up, on which config and arguments
  stored,     \* StoredState as persisted
  mem,        \* StoredState as the running hook sees it
  status,     \* the unit's workload status
  phase,      \* of _configure: "idle", "render", "defaults", "live", "apply"
  plan,       \* the options as the running hook sees them
  pending,    \* hooks Juju has queued
  failed,     \* the hook Juju retries first, or "none"
  started,    \* the start hook has run
  count       \* external events so far

machine == <<disk, byHand, args, service>>
memory == <<stored, mem>>
juju == <<pending, failed, started>>
world == <<want, reachable>>
vars == <<world, machine, memory, status, phase, plan, juju, count>>

Happens(e) ==
  /\ count[e] < Limit[e]
  /\ count' = [count EXCEPT ![e] = @ + 1]

Blank == [good |-> NoText, drifted |-> FALSE, args |-> NoArgs, live |-> FALSE,
          syslog |-> FALSE, prev |-> NoArgs, prevSet |-> FALSE]

(* After install: the package's config is on disk; config-changed, then start. *)
Init ==
  /\ want \in Wanted /\ reachable = TRUE
  /\ disk = Package /\ byHand = FALSE /\ args = NoArgs
  /\ service \in [up : BOOLEAN, text : {Package}, args : {NoArgs}]
  /\ stored = Blank /\ mem = Blank
  /\ status = "installed" /\ phase = "idle" /\ plan = want
  /\ pending = {"configure", "start"} /\ failed = "none" /\ started = FALSE
  /\ count = [e \in Event |-> 0]

-----------------------------------------------------------------------------
(* Helpers *)

Loads(t) == t \in Text /\ Verdict[t] = "good"

(* alloy fmt: syntax only. *)
Valid(t) == Verdict[t] # "invalid"

(* alloy.start and the second half of alloy.restart. *)
Launched ==
  IF Loads(disk) THEN [up |-> TRUE, text |-> disk, args |-> args]
                 ELSE [service EXCEPT !.up = FALSE]

(* Mutant of RestartRequired: live debugging alone asks for no restart. *)
RestartRequiredForArgs == plan.args # stored.args

(* New arguments: alloy has to be restarted, a reload keeps its arguments. *)
RestartRequired == plan.args # stored.args \/ plan.live # stored.live

(* Mutant of Unchanged: the text is not compared. *)
UnchangedButText ==
  /\ mem.good # NoText /\ ~mem.drifted
  /\ plan.args = mem.args /\ plan.live = mem.live /\ plan.syslog = mem.syslog

(* The short-circuit: what is asked for is what was applied last. *)
Unchanged ==
  /\ plan.text = mem.good /\ ~mem.drifted
  /\ plan.args = mem.args /\ plan.live = mem.live /\ plan.syslog = mem.syslog

PostConfigStatus(metrics) ==
  IF metrics \in {"manual", "related"} THEN "waiting" ELSE "active"

(* Mutant of Written: the text just written is not remembered. *)
WrittenForgotten == [mem EXCEPT !.drifted = FALSE]

Written == [mem EXCEPT !.good = plan.text, !.drifted = FALSE]

(* Mutant of Baseline: CUSTOM_ARGS is read after it was overwritten. *)
BaselineLive == LiveArgs

(* Mutant of Baseline: the first baseline is kept while debugging stays on. *)
BaselineFirst == IF mem.prevSet THEN mem.prev ELSE plan.args

(* The arguments to restore: read back when debugging is switched on, *)
(* the option from then on.                                           *)
Baseline == IF ~mem.prevSet /\ args # NoArgs THEN args ELSE plan.args

(* Mutant of AppliedArgs: switching debugging off restores nothing. *)
AppliedArgsKeepsLive == IF plan.live \/ mem.prevSet THEN LiveArgs ELSE args

AppliedArgs ==
  IF plan.live THEN LiveArgs ELSE IF mem.prevSet THEN mem.prev ELSE args

(* Mutant of DriftSeen: the reference is read back from disk every time. *)
DriftSeenNever == FALSE

DriftSeen == stored.good # NoText /\ disk # stored.good

-----------------------------------------------------------------------------
(* _configure *)

(* A queued hook, or the failed one again; either reads the options afresh. *)
BeginConfigure ==
  /\ phase = "idle"
  /\ \/ failed = "configure" /\ UNCHANGED pending
     \/ failed = "none" /\ "configure" \in pending /\ pending' = pending \ {"configure"}
  /\ phase' = "render" /\ plan' = want /\ mem' = stored
  /\ status' = "configuring"
  /\ UNCHANGED <<world, machine, stored, failed, started, count>>

(* The hook ends well with a status, and StoredState is committed. *)
Ends(m, s) ==
  /\ phase' = "idle" /\ status' = s
  /\ stored' = m /\ mem' = m
  /\ failed' = "none"
  /\ UNCHANGED <<world, plan, pending, started>>

(* ManualMetricsJobsError, or a broken machine-observability contract. *)
Refuse ==
  /\ phase = "render" /\ plan.metrics \in {"malformed", "contract"}
  /\ Ends(mem, "blocked")
  /\ UNCHANGED <<machine, count>>

Renders == phase = "render" /\ plan.metrics \notin {"malformed", "contract"}

SkipUnchanged ==
  /\ Renders /\ Unchanged
  /\ Ends(mem, PostConfigStatus(plan.metrics))
  /\ UNCHANGED <<machine, count>>

RejectInvalid ==
  /\ Renders /\ ~Unchanged /\ ~Valid(plan.text)
  /\ Ends(mem, "invalid")
  /\ UNCHANGED <<machine, count>>

WriteConfig ==
  /\ Renders /\ ~Unchanged /\ Valid(plan.text)
  /\ disk' = plan.text /\ byHand' = FALSE
  /\ mem' = Written
  /\ phase' = "defaults"
  /\ UNCHANGED <<world, args, service, stored, status, plan, juju, count>>

WriteDefaults ==
  /\ phase = "defaults"
  /\ args' = plan.args
  /\ phase' = "live"
  /\ UNCHANGED <<world, disk, byHand, service, memory, status, plan, juju, count>>

(* _apply_live_debugging, and the last_* assignments that follow it. *)
ApplyLiveDebugging ==
  /\ phase = "live"
  /\ args' = AppliedArgs
  /\ mem' = [mem EXCEPT !.args = plan.args, !.live = plan.live,
                        !.syslog = plan.syslog, !.prevSet = plan.live,
                        !.prev = IF plan.live THEN Baseline ELSE NoArgs]
  /\ phase' = "apply"
  /\ UNCHANGED <<world, disk, byHand, service, stored, status, plan, juju, count>>

Reloads == phase = "apply" /\ service.up /\ ~RestartRequired
Restarts == phase = "apply" /\ ~Reloads

(* SIGHUP: alloy keeps what it runs when it cannot load the file. *)
Reload ==
  /\ Reloads
  /\ service' = IF Loads(disk) THEN [service EXCEPT !.text = disk] ELSE service
  /\ Ends(mem, PostConfigStatus(plan.metrics))
  /\ UNCHANGED <<disk, byHand, args, count>>

(* `is-active` may hold for a moment although alloy is about to exit. *)
Restart ==
  /\ Restarts
  /\ service' = Launched
  /\ Ends(mem, PostConfigStatus(plan.metrics))
  /\ UNCHANGED <<disk, byHand, args, count>>

Faulty == IF Loads(disk) THEN Happens("fault") ELSE UNCHANGED count

(* CalledProcessError from systemctl: caught, reported as "No changes applied". *)
ApplyFails ==
  /\ phase = "apply"
  /\ IF Reloads THEN Happens("fault") /\ UNCHANGED service
                ELSE Faulty /\ service' = [service EXCEPT !.up = FALSE]
  /\ Ends(mem, "invalid")
  /\ UNCHANGED <<disk, byHand, args>>

(* RuntimeError from _wait_for_active: the hook fails, StoredState is lost. *)
RestartRaises ==
  /\ Restarts /\ Faulty
  /\ service' = [service EXCEPT !.up = FALSE]
  /\ phase' = "idle" /\ mem' = stored /\ failed' = "configure"
  /\ UNCHANGED <<world, disk, byHand, args, stored, status, plan, pending, started>>

-----------------------------------------------------------------------------
(* The other hooks *)

StartHook ==
  /\ phase = "idle" /\ "start" \in pending /\ failed \in {"none", "start"}
  /\ "configure" \in pending => started
  /\ started' = TRUE
  /\ UNCHANGED <<world, disk, byHand, args, memory, phase, plan>>

Start ==
  /\ StartHook
  /\ service' = IF service.up THEN service ELSE Launched
  /\ status' = "active"
  /\ pending' = pending \ {"start"} /\ failed' = "none"
  /\ UNCHANGED count

(* CalledProcessError defers the event; RuntimeError fails the hook. *)
StartFails ==
  /\ StartHook /\ ~service.up /\ Faulty
  /\ \/ status' = "unstarted" /\ failed' = "none"
     \/ status' = "starting" /\ failed' = "start"
  /\ UNCHANGED <<service, pending>>

DriftStatus(drifted) ==
  CASE drifted /\ status \notin {"waiting", "blocked", "cloud"} -> "drift"
    [] ~drifted /\ status = "drift" -> "active"
    [] OTHER -> status

(* Mutant of HealthStatus: the service is not looked at. *)
HealthStatusBlind(drifted) == DriftStatus(drifted)

HealthStatus(drifted) ==
  LET s == DriftStatus(drifted)
  IN  CASE ~service.up -> "down"
        [] service.up /\ drifted -> s
        [] service.up /\ ~drifted /\ ~reachable -> "cloud"
        [] service.up /\ ~drifted /\ reachable /\ s \in {"cloud", "down"} ->
             IF want.metrics = "related" THEN "waiting" ELSE "active"
        [] OTHER -> s

UpdateHook ==
  /\ phase = "idle" /\ started /\ failed \in {"none", "update"}
  /\ UNCHANGED <<world, machine, phase, plan, pending, started, count>>

(* A unit whose service is down is not checked for drift. *)
UpdateStatus ==
  /\ UpdateHook
  /\ status' = HealthStatus(DriftSeen)
  /\ stored' = IF ~service.up THEN stored
               ELSE [stored EXCEPT !.drifted = DriftSeen,
                                   !.good = IF @ = NoText THEN disk ELSE @]
  /\ mem' = stored' /\ failed' = "none"

(* Clearing an error, _post_config_status parses the payloads again, and a *)
(* malformed one raises unless a scrape job spares it: Juju then runs      *)
(* nothing else on the unit until the payload is good again.               *)
UpdateStatusRaises ==
  /\ UpdateHook
  /\ want.metrics = "contract"
  /\ service.up /\ ~DriftSeen /\ reachable /\ status \in {"cloud", "down"}
  /\ failed' = "update"
  /\ UNCHANGED <<memory, status>>

-----------------------------------------------------------------------------
(* The world *)

(* An option or a relation changes; Juju queues the hook. *)
ChangeOption ==
  /\ Happens("option")
  /\ \E w \in Wanted \ {want} : want' = w
  /\ pending' = pending \cup {"configure"}
  /\ UNCHANGED <<reachable, machine, memory, status, phase, plan, failed, started>>

EditByHand ==
  /\ Happens("edit")
  /\ \E t \in (Text \cup {NoText}) \ {disk} : disk' = t
  /\ byHand' = TRUE
  /\ UNCHANGED <<world, args, service, memory, status, phase, plan, juju>>

ServiceExits ==
  /\ service.up /\ Happens("exit")
  /\ service' = [service EXCEPT !.up = FALSE]
  /\ UNCHANGED <<world, disk, byHand, args, memory, status, phase, plan, juju>>

CloudChanges ==
  /\ Happens("cloud")
  /\ reachable' = ~reachable
  /\ UNCHANGED <<want, machine, memory, status, phase, plan, juju>>

(* The agent is killed in mid-hook: what the hook had in memory is lost. *)
Crash ==
  /\ phase # "idle" /\ Happens("crash")
  /\ phase' = "idle" /\ mem' = stored /\ failed' = "configure"
  /\ UNCHANGED <<world, machine, stored, status, plan, pending, started>>

(* The machine restarts between hooks; Juju announces it with start. *)
Reboot ==
  /\ phase = "idle" /\ started /\ Happens("crash")
  /\ service' = Launched
  /\ pending' = pending \cup {"start"}
  /\ UNCHANGED <<world, disk, byHand, args, memory, status, phase, plan, failed,
                 started>>

Configure ==
  \/ Refuse \/ SkipUnchanged \/ RejectInvalid \/ WriteConfig \/ WriteDefaults
  \/ ApplyLiveDebugging \/ Reload \/ Restart \/ ApplyFails \/ RestartRaises

Next ==
  \/ BeginConfigure \/ Configure \/ Start \/ StartFails
  \/ UpdateStatus \/ UpdateStatusRaises
  \/ ChangeOption \/ EditByHand \/ ServiceExits \/ CloudChanges \/ Crash \/ Reboot

Spec == Init /\ [][Next]_vars

(* Juju runs what it queued and repeats update-status for ever. *)
Fairness ==
  /\ WF_vars(BeginConfigure) /\ WF_vars(Configure)
  /\ WF_vars(Start \/ StartFails) /\ WF_vars(UpdateStatus \/ UpdateStatusRaises)

FairSpec == Spec /\ Fairness

-----------------------------------------------------------------------------
(* Properties *)

Memory == [good : Text \cup {NoText}, drifted : BOOLEAN, args : Args \cup {NoArgs},
           live : BOOLEAN, syslog : BOOLEAN, prev : Args \cup {NoArgs},
           prevSet : BOOLEAN]

Status == {"installed", "configuring", "blocked", "waiting", "active", "invalid",
           "unstarted", "starting", "drift", "down", "cloud"}

(* Every variable keeps its shape; in particular the remembered arguments *)
(* are an operator's, never the ones of live debugging.                   *)
TypeOK ==
  /\ want \in Wanted /\ plan \in Wanted /\ reachable \in BOOLEAN
  /\ disk \in Text \cup {NoText} /\ byHand \in BOOLEAN
  /\ args \in Args \cup {NoArgs, LiveArgs}
  /\ service \in [up : BOOLEAN, text : Text, args : Args \cup {NoArgs, LiveArgs}]
  /\ stored \in Memory /\ mem \in Memory
  /\ status \in Status /\ phase \in {"idle", "render", "defaults", "live", "apply"}
  /\ pending \subseteq {"configure", "start"}
  /\ failed \in {"none", "configure", "start", "update"} /\ started \in BOOLEAN
  /\ count \in [Event -> Nat]

Quiet == phase = "idle" /\ pending = {} /\ failed = "none"

Acceptable(w) == Verdict[w.text] # "invalid" /\ w.metrics \notin {"malformed", "contract"}

(* When nothing is left to do, a service that is up runs the arguments in  *)
(* /etc/default/alloy and, when the charm wrote it last and it loads, the  *)
(* config on disk: reloading where new arguments need a restart, or        *)
(* comparing with the wrong copy of them, leaves it behind the files       *)
(* (restart_required in _configure).                                       *)
ServiceCurrent ==
  Quiet /\ service.up =>
    /\ service.args = args
    /\ ~byHand /\ Loads(disk) => service.text = disk

(* Live debugging remembers a baseline exactly while it is on, and that is *)
(* the custom_args last applied: however enabling, changing the arguments  *)
(* and disabling interleave with hooks that are killed or raise            *)
(* (_apply_live_debugging).                                                *)
BaselineKept ==
  /\ stored.prevSet = stored.live
  /\ stored.prev = IF stored.prevSet THEN stored.args ELSE NoArgs

(* When nothing is left to do, the file is the config asked for, unless *)
(* someone edited it since (the short-circuit of _configure).           *)
TextConverged ==
  Quiet /\ Acceptable(want) => byHand \/ disk = want.text

(* When nothing is left to do, CUSTOM_ARGS is what the options ask for,   *)
(* unless an edit by hand made a restart fail: "Disabling restores        *)
(* previous args" (charmcraft.yaml:65).                                   *)
ArgsConverged ==
  Quiet /\ Acceptable(want) =>
    byHand \/ args = IF want.live THEN LiveArgs ELSE want.args

(* "Manual Alloy config change detected" is said only when someone did *)
(* change the file (_reconcile_config_drift_status).                   *)
DriftIsManual ==
  [][status # "drift" /\ status' = "drift" => byHand]_vars

(* A service that stays down is reported, unless a failing hook comes first *)
(* (_on_update_status).                                                     *)
DownReported ==
  ~service.up ~> service.up \/ status = "down" \/ failed # "none"

(* A file changed by hand is noticed, unless it is put right first, a hook *)
(* keeps failing, or the service is down: then nobody looks.               *)
EditDetected ==
  byHand /\ stored.good # NoText /\ disk # stored.good ~>
    stored.drifted \/ disk = stored.good \/ failed # "none" \/ ~service.up
=============================================================================
