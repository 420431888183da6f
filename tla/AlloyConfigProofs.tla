-------------------------- MODULE AlloyConfigProofs --------------------------
(***************************************************************************)
(* What AlloyConfig guarantees for every set of texts, arguments and wants *)
(* and any number of crashes, faults and edits.                            *)
(*                                                                         *)
(* What is persisted about live debugging can only be trusted if what the  *)
(* running hook holds is right too, and that depends on CUSTOM_ARGS having *)
(* been overwritten before it is read back: IInv adds both.                *)
(*                                                                         *)
(* Convergence is proved in two halves.  What the options ask for always   *)
(* ends up in StoredState (BeliefInv); that StoredState is right about the *)
(* file and CUSTOM_ARGS (TextInv, ArgsInv) needs a premise for each cause  *)
(* that the violating runs show, and no other.                             *)
(***************************************************************************)
EXTENDS AlloyConfig, TLAPS

USE DEF machine, memory, juju, world

(* What BaselineKept says of StoredState, for one copy of it. *)
Kept(m) ==
  /\ m.prevSet = m.live
  /\ m.prev = IF m.prevSet THEN m.args ELSE NoArgs

(* Between WriteDefaults and ApplyLiveDebugging the file is the option. *)
DefaultsWritten == phase = "live" => args = plan.args

(* What the charm wrote last, alloy fmt accepts. *)
Validated == ~byHand => disk \in Text /\ Verdict[disk] # "invalid"

IInv == TypeOK /\ DefaultsWritten /\ Kept(stored) /\ Kept(mem) /\ Validated

(* The initial state satisfies the invariant. *)
LEMMA InitIInv == Init => IInv
<1> SUFFICES ASSUME Init PROVE IInv
  OBVIOUS
<1> USE DEF Init
<1>1. Blank \in Memory /\ Kept(Blank)
  BY DEF Blank, Memory, Kept
<1>2. service \in [up : BOOLEAN, text : Text, args : Args \cup {NoArgs, LiveArgs}]
  BY TextAssumption
<1>4. count \in [Event -> Nat]
  OBVIOUS
<1>5. TypeOK
  BY <1>1, <1>2, <1>4, TextAssumption DEF TypeOK, Status
<1>6. Validated
  BY TextAssumption DEF Validated
<1> QED
  BY <1>1, <1>5, <1>6 DEF IInv, DefaultsWritten

(* A counted event keeps the counters' type. *)
LEMMA CountType ==
  ASSUME count \in [Event -> Nat], NEW e \in Event, Happens(e)
  PROVE  count' \in [Event -> Nat]
BY DEF Happens

(* A want is a record of its fields. *)
LEMMA PlanType ==
  ASSUME TypeOK
  PROVE  /\ plan \in Wanted /\ plan.text \in Text /\ plan.args \in Args
         /\ plan.live \in BOOLEAN /\ plan.syslog \in BOOLEAN /\ plan.metrics \in Metrics
BY WantedAssumption DEF TypeOK, Want

(* A launch keeps the shape of the service. *)
LEMMA LaunchedType ==
  ASSUME IInv
  PROVE  /\ Launched \in [up : BOOLEAN, text : Text, args : Args \cup {NoArgs, LiveArgs}]
         /\ [service EXCEPT !.up = FALSE]
              \in [up : BOOLEAN, text : Text, args : Args \cup {NoArgs, LiveArgs}]
BY DEF IInv, TypeOK, Launched, Loads

(* Every step keeps the invariant. *)
LEMMA NextIInv == IInv /\ [Next]_vars => IInv'
<1> SUFFICES ASSUME IInv, [Next]_vars PROVE IInv'
  OBVIOUS
<1> USE DEF IInv, TypeOK, DefaultsWritten, Kept, Validated
<1>p. /\ plan \in Wanted /\ plan.text \in Text /\ plan.args \in Args
      /\ plan.live \in BOOLEAN /\ plan.syslog \in BOOLEAN /\ plan.metrics \in Metrics
  BY PlanType
<1>s. PostConfigStatus(plan.metrics) \in Status
  BY DEF PostConfigStatus, Status
<1>f. ASSUME Faulty PROVE count' \in [Event -> Nat]
  BY <1>f, CountType DEF Faulty, Event
<1>1. CASE BeginConfigure
  BY <1>1 DEF BeginConfigure, Status
<1>2. CASE Refuse
  BY <1>2 DEF Refuse, Ends, Status
<1>3. CASE SkipUnchanged
  BY <1>3, <1>s DEF SkipUnchanged, Ends
<1>4. CASE RejectInvalid
  BY <1>4 DEF RejectInvalid, Ends, Status
<1>5. CASE WriteConfig
  <2>1. mem' \in Memory /\ mem'.prevSet = mem.prevSet /\ mem'.live = mem.live
        /\ mem'.prev = mem.prev /\ mem'.args = mem.args
    BY <1>5, <1>p DEF WriteConfig, Written, Memory
  <2> QED
    BY <1>5, <1>p, <2>1 DEF WriteConfig, Valid
<1>6. CASE WriteDefaults
  BY <1>6, <1>p DEF WriteDefaults
<1>7. CASE ApplyLiveDebugging
  <2>1. Baseline = plan.args
    BY <1>7 DEF ApplyLiveDebugging, Baseline
  <2>2. AppliedArgs \in Args \cup {NoArgs, LiveArgs}
    BY DEF AppliedArgs, Memory
  <2>3. mem' \in Memory
    BY <1>7, <1>p, <2>1 DEF ApplyLiveDebugging, Memory
  <2>4. Kept(mem)'
    BY <1>7, <1>p, <2>1 DEF ApplyLiveDebugging, Memory
  <2> QED
    BY <1>7, <2>2, <2>3, <2>4 DEF ApplyLiveDebugging
<1>8. CASE Reload
  BY <1>8, <1>s DEF Reload, Reloads, Ends, Loads
<1>9. CASE Restart
  BY <1>9, <1>s, LaunchedType DEF Restart, Restarts, Ends
<1>10. CASE ApplyFails
  <2>1. count' \in [Event -> Nat]
    BY <1>10, <1>f, CountType DEF ApplyFails, Event
  <2>2. service' = service \/ service' = [service EXCEPT !.up = FALSE]
    BY <1>10 DEF ApplyFails
  <2> QED
    BY <1>10, <2>1, <2>2, LaunchedType DEF ApplyFails, Ends, Status
<1>11. CASE RestartRaises
  BY <1>11, <1>f, LaunchedType DEF RestartRaises
<1>12. CASE Start
  BY <1>12, LaunchedType DEF Start, StartHook, Status
<1>13. CASE StartFails
  BY <1>13, <1>f DEF StartFails, StartHook, Status
<1>14. CASE UpdateStatus
  <2>1. stored' \in Memory /\ Kept(stored)'
    BY <1>14 DEF UpdateStatus, Memory, DriftSeen
  <2>2. status' \in Status
    BY <1>14 DEF UpdateStatus, HealthStatus, DriftStatus, Status, DriftSeen
  <2> QED
    BY <1>14, <2>1, <2>2 DEF UpdateStatus, UpdateHook
<1>15. CASE ChangeOption
  BY <1>15, CountType DEF ChangeOption, Event
<1>16. CASE EditByHand
  BY <1>16, CountType DEF EditByHand, Event
<1>17. CASE ServiceExits
  BY <1>17, CountType, LaunchedType DEF ServiceExits, Event
<1>18. CASE CloudChanges
  BY <1>18, CountType DEF CloudChanges, Event
<1>19. CASE Crash
  BY <1>19, CountType DEF Crash, Event
<1>20. CASE Reboot
  BY <1>20, CountType, LaunchedType DEF Reboot, Event
<1>21. CASE UpdateStatusRaises
  BY <1>21 DEF UpdateStatusRaises, UpdateHook
<1>22. CASE UNCHANGED vars
  BY <1>22 DEF vars
<1> QED
  BY <1>1, <1>2, <1>3, <1>4, <1>5, <1>6, <1>7, <1>8, <1>9, <1>10, <1>11, <1>12,
     <1>13, <1>14, <1>15, <1>16, <1>17, <1>18, <1>19, <1>20, <1>21, <1>22
  DEF Next, Configure

(* IInv holds in every reachable state. *)
THEOREM ConfigInvariance == Spec => []IInv
BY InitIInv, NextIInv, PTL DEF Spec

(* TypeOK for every value of the constants: in particular live debugging's *)
(* own arguments are never saved as the ones to restore.                   *)
THEOREM ConfigTyped == Spec => []TypeOK
<1>1. IInv => TypeOK
  BY DEF IInv
<1> QED
  BY <1>1, ConfigInvariance, PTL

(* The baseline of live debugging is kept exactly while it is on, whatever *)
(* hooks are killed or raise in between (_apply_live_debugging).           *)
THEOREM BaselineAlwaysKept == Spec => []BaselineKept
<1>1. IInv => BaselineKept
  BY DEF IInv, Kept, BaselineKept
<1> QED
  BY <1>1, ConfigInvariance, PTL

-----------------------------------------------------------------------------
(* What _configure believes, and what it leaves behind *)

(* StoredState holds what w asks for; the CUSTOM_ARGS that go with it. *)
Believes(m, w) ==
  m.good = w.text /\ m.args = w.args /\ m.live = w.live /\ m.syslog = w.syslog
Effective(m) == IF m.live THEN LiveArgs ELSE m.args

Early == phase \in {"idle", "render"}
ConfigureDue == "configure" \in pending \/ (phase = "idle" /\ failed = "configure")

(* What the options ask for is on its way to StoredState: held by the      *)
(* running hook, or by one that is due.                                    *)
BeliefInv ==
  /\ phase = "render" => mem = stored
  /\ phase # "idle" /\ ~ConfigureDue => plan = want
  /\ ~Early => mem.good = plan.text
  /\ phase = "apply" => Believes(mem, plan)
  /\ phase = "idle" /\ ~ConfigureDue /\ Acceptable(want) => Believes(stored, want)

(* The file is what StoredState says of it, or what the running hook is    *)
(* about to say.                                                           *)
TextInv ==
  /\ Early /\ stored.good # NoText => byHand \/ disk = stored.good
  /\ ~Early => byHand \/ disk = mem.good

(* The same of CUSTOM_ARGS. *)
ArgsInv ==
  /\ Early => byHand \/ args = Effective(stored)
  /\ phase = "apply" => byHand \/ args = Effective(mem)

(* No hook is killed, or raises, after it has written the file, unless it  *)
(* stumbles over an edit by hand.                                          *)
LosesNothing == Crash \/ RestartRaises => phase = "render" \/ byHand

(* Live debugging does not end in the hook that sees new custom_args. *)
EndsAlone == ApplyLiveDebugging => plan.live \/ ~mem.live \/ plan.args = mem.args

LEMMA InitBelief == Init => BeliefInv /\ TextInv /\ ArgsInv
BY DEF Init, Blank, BeliefInv, TextInv, ArgsInv, Early, ConfigureDue, Effective

(* The hook that configures either ends with what it holds, when that is   *)
(* what its plan asks for, or is run again.                                *)
LEMMA EndsBelieving ==
  ASSUME IInv, BeliefInv, NEW s, phase # "idle", Ends(mem, s),
         Acceptable(plan) => Believes(mem, plan)
  PROVE  BeliefInv'
<1> QED BY DEF BeliefInv, Ends, ConfigureDue, Early, Believes, Acceptable

LEMMA NextBelief ==
  ASSUME IInv, BeliefInv, [Next]_vars PROVE BeliefInv'
<1>t. TypeOK /\ plan \in Wanted /\ plan.text \in Text /\ plan.args \in Args
        /\ want \in Want /\ plan.live \in BOOLEAN /\ plan.syslog \in BOOLEAN
  BY PlanType, WantedAssumption DEF IInv, TypeOK
<1> USE DEF BeliefInv, Early, ConfigureDue
<1>1. CASE BeginConfigure
  BY <1>1 DEF BeginConfigure
<1>2. CASE Refuse
  BY <1>2, EndsBelieving DEF Refuse, Acceptable
<1>3. CASE SkipUnchanged
  <2>1. Believes(mem, plan)
    BY <1>3 DEF SkipUnchanged, Unchanged, Believes
  <2> QED BY <1>3, <2>1, EndsBelieving DEF SkipUnchanged, Renders
<1>4. CASE RejectInvalid
  BY <1>4, EndsBelieving DEF RejectInvalid, Renders, Acceptable, Valid
<1>5. CASE WriteConfig
  <2>1. mem'.good = plan.text
    BY <1>5, <1>t DEF WriteConfig, Written, TypeOK, Memory
  <2> QED BY <1>5, <2>1 DEF WriteConfig, Renders
<1>6. CASE WriteDefaults
  BY <1>6 DEF WriteDefaults
<1>7. CASE ApplyLiveDebugging
  <2>1. Believes(mem, plan)'
    BY <1>7, <1>t DEF ApplyLiveDebugging, Believes, TypeOK, Memory
  <2> QED BY <1>7, <2>1 DEF ApplyLiveDebugging, Believes
<1>8. CASE Reload \/ Restart \/ ApplyFails
  <2>1. phase = "apply" /\ \E s : Ends(mem, s)
    BY <1>8 DEF Reload, Reloads, Restart, Restarts, ApplyFails
  <2> QED BY <2>1, EndsBelieving
<1>9. CASE RestartRaises \/ Crash
  BY <1>9 DEF RestartRaises, Restarts, Crash
<1>10. CASE Start \/ StartFails
  BY <1>10 DEF Start, StartFails, StartHook
<1>11. CASE UpdateStatus
  <2>1. /\ phase = "idle" /\ failed # "configure" /\ failed' # "configure"
        /\ UNCHANGED <<want, plan, phase, pending>>
        /\ stored' = IF ~service.up THEN stored
                     ELSE [stored EXCEPT !.drifted = DriftSeen,
                                         !.good = IF @ = NoText THEN disk ELSE @]
        /\ mem' = stored'
    BY <1>11 DEF UpdateStatus, UpdateHook
  <2>2. ASSUME NEW w \in Want, Believes(stored, w) PROVE Believes(stored', w)
    <3>1. stored.good # NoText
      BY <2>2, TextAssumption DEF Believes, Want
    <3> QED BY <1>t, <2>1, <2>2, <3>1 DEF Believes, TypeOK, Memory
  <2> QED BY <1>t, <2>1, <2>2 DEF Believes, Acceptable
<1>12. CASE ChangeOption
  BY <1>12 DEF ChangeOption
<1>13. CASE EditByHand \/ ServiceExits \/ CloudChanges \/ Reboot
  BY <1>13 DEF EditByHand, ServiceExits, CloudChanges, Reboot
<1>14. CASE UpdateStatusRaises
  BY <1>14 DEF UpdateStatusRaises, UpdateHook
<1>15. CASE UNCHANGED vars
  BY <1>15 DEF vars
<1> QED
  BY <1>1, <1>2, <1>3, <1>4, <1>5, <1>6, <1>7, <1>8, <1>9, <1>10, <1>11, <1>12, <1>13, <1>14,
     <1>15
  DEF Next, Configure

LEMMA NextText ==
  ASSUME IInv, BeliefInv, TextInv, [Next]_vars, [LosesNothing]_vars PROVE TextInv'
<1>t. TypeOK /\ plan.text \in Text
  BY PlanType DEF IInv
<1> USE DEF TextInv, Early
<1>1. CASE BeginConfigure
  BY <1>1 DEF BeginConfigure
<1>2. CASE Refuse \/ SkipUnchanged \/ RejectInvalid
  BY <1>2 DEF Refuse, SkipUnchanged, RejectInvalid, Renders, Ends, BeliefInv
<1>3. CASE WriteConfig
  <2>1. mem'.good = plan.text
    BY <1>3, <1>t DEF WriteConfig, Written, TypeOK, Memory
  <2> QED BY <1>3, <2>1 DEF WriteConfig, Renders
<1>4. CASE WriteDefaults
  BY <1>4 DEF WriteDefaults
<1>5. CASE ApplyLiveDebugging
  <2>1. mem'.good = mem.good
    BY <1>5, <1>t DEF ApplyLiveDebugging, TypeOK, Memory
  <2> QED BY <1>5, <2>1 DEF ApplyLiveDebugging
<1>6. CASE Reload \/ Restart \/ ApplyFails
  BY <1>6 DEF Reload, Reloads, Restart, Restarts, ApplyFails, Ends
<1>7. CASE RestartRaises \/ Crash
  <2>1. LosesNothing \/ UNCHANGED vars
    OBVIOUS
  <2> QED BY <1>7, <2>1 DEF RestartRaises, Restarts, Crash, LosesNothing, vars
<1>8. CASE Start \/ StartFails
  BY <1>8 DEF Start, StartFails, StartHook
<1>9. CASE UpdateStatus
  <2>1. stored'.good = stored.good \/ (stored.good = NoText /\ stored'.good = disk)
    BY <1>9, <1>t DEF UpdateStatus, TypeOK, Memory
  <2> QED BY <1>9, <2>1 DEF UpdateStatus, UpdateHook
<1>10. CASE EditByHand
  BY <1>10 DEF EditByHand
<1>11. CASE ChangeOption \/ ServiceExits \/ CloudChanges \/ Reboot \/ UpdateStatusRaises
  BY <1>11 DEF ChangeOption, ServiceExits, CloudChanges, Reboot, UpdateStatusRaises, UpdateHook
<1>12. CASE UNCHANGED vars
  BY <1>12 DEF vars
<1> QED
  BY <1>1, <1>2, <1>3, <1>4, <1>5, <1>6, <1>7, <1>8, <1>9, <1>10, <1>11, <1>12
  DEF Next, Configure

LEMMA NextArgs ==
  ASSUME IInv, BeliefInv, ArgsInv, [Next]_vars, [LosesNothing]_vars, [EndsAlone]_vars
  PROVE  ArgsInv'
<1>t. TypeOK /\ plan.args \in Args /\ plan.live \in BOOLEAN
  BY PlanType DEF IInv
<1> USE DEF ArgsInv, Early
<1>1. CASE BeginConfigure
  BY <1>1 DEF BeginConfigure, Effective
<1>2. CASE Refuse \/ SkipUnchanged \/ RejectInvalid
  BY <1>2 DEF Refuse, SkipUnchanged, RejectInvalid, Renders, Ends, BeliefInv, Effective
<1>3. CASE WriteConfig \/ WriteDefaults
  BY <1>3 DEF WriteConfig, WriteDefaults
<1>4. CASE ApplyLiveDebugging
  <2>1. /\ phase = "live" /\ phase' = "apply" /\ byHand' = byHand /\ args = plan.args
        /\ args' = AppliedArgs /\ mem'.args = plan.args /\ mem'.live = plan.live
    BY <1>4, <1>t DEF ApplyLiveDebugging, IInv, DefaultsWritten, TypeOK, Memory
  <2>2. plan.live \/ ~mem.live \/ plan.args = mem.args
    BY <1>4, <2>1 DEF EndsAlone, vars
  <2>3. AppliedArgs = IF plan.live THEN LiveArgs ELSE plan.args
    BY <2>1, <2>2 DEF AppliedArgs, IInv, Kept
  <2> QED BY <2>1, <2>3 DEF Effective
<1>5. CASE Reload \/ Restart \/ ApplyFails
  BY <1>5 DEF Reload, Reloads, Restart, Restarts, ApplyFails, Ends, Effective
<1>6. CASE RestartRaises \/ Crash
  <2>1. LosesNothing \/ UNCHANGED vars
    OBVIOUS
  <2>2. CASE phase = "render"
    BY <1>6, <2>2 DEF RestartRaises, Restarts, Crash, Effective
  <2> QED BY <1>6, <2>1, <2>2 DEF RestartRaises, Restarts, Crash, LosesNothing, vars
<1>7. CASE Start \/ StartFails
  BY <1>7 DEF Start, StartFails, StartHook, Effective
<1>8. CASE UpdateStatus
  <2>1. stored'.args = stored.args /\ stored'.live = stored.live
    BY <1>8, <1>t DEF UpdateStatus, TypeOK, Memory
  <2> QED BY <1>8, <2>1 DEF UpdateStatus, UpdateHook, Effective
<1>9. CASE EditByHand
  BY <1>9 DEF EditByHand
<1>10. CASE ChangeOption \/ ServiceExits \/ CloudChanges \/ Reboot \/ UpdateStatusRaises
  BY <1>10 DEF ChangeOption, ServiceExits, CloudChanges, Reboot, UpdateStatusRaises, UpdateHook,
         Effective
<1>11. CASE UNCHANGED vars
  BY <1>11 DEF vars, Effective
<1> QED
  BY <1>1, <1>2, <1>3, <1>4, <1>5, <1>6, <1>7, <1>8, <1>9, <1>10, <1>11
  DEF Next, Configure

(* Whatever hooks are killed or raise, when nothing is left to do          *)
(* StoredState holds what the options and relations ask for: a config that *)
(* is not on disk then is one StoredState wrongly believes to be there     *)
(* (the assignments to last_* in _configure).                              *)
THEOREM WantedIsBelieved ==
  Spec => [](Quiet /\ Acceptable(want) => Believes(stored, want))
<1>1. Init => IInv /\ BeliefInv
  BY InitIInv, InitBelief
<1>2. IInv /\ BeliefInv /\ [Next]_vars => (IInv /\ BeliefInv)'
  BY NextIInv, NextBelief
<1>3. BeliefInv => (Quiet /\ Acceptable(want) => Believes(stored, want))
  BY DEF BeliefInv, Quiet, ConfigureDue
<1> QED BY <1>1, <1>2, <1>3, PTL DEF Spec

LEMMA TextKept == Spec /\ [][LosesNothing]_vars => [](IInv /\ BeliefInv /\ TextInv)
<1>1. Init => IInv /\ BeliefInv /\ TextInv
  BY InitIInv, InitBelief
<1>2. IInv /\ BeliefInv /\ TextInv /\ [Next]_vars /\ [LosesNothing]_vars
        => (IInv /\ BeliefInv /\ TextInv)'
  BY NextIInv, NextBelief, NextText
<1> QED BY <1>1, <1>2, PTL DEF Spec

LEMMA TextFollows == IInv /\ BeliefInv /\ TextInv => TextConverged
<1> SUFFICES ASSUME IInv, BeliefInv, TextInv, Quiet, Acceptable(want)
             PROVE  byHand \/ disk = want.text
  BY DEF TextConverged
<1>1. stored.good = want.text
  BY DEF BeliefInv, Quiet, ConfigureDue, Believes
<1>2. want.text # NoText
  BY TextAssumption, WantedAssumption DEF IInv, TypeOK, Want
<1> QED BY <1>1, <1>2 DEF TextInv, Early, Quiet

LEMMA DriftFollows ==
  ASSUME TextInv, [Next]_vars, status # "drift", status' = "drift" PROVE byHand
<1>1. UpdateStatus
  BY DEF Next, Configure, vars, BeginConfigure, Refuse, SkipUnchanged, RejectInvalid, WriteConfig,
         WriteDefaults, ApplyLiveDebugging, Reload, Restart, ApplyFails, RestartRaises, Ends,
         PostConfigStatus, Start, StartFails, UpdateStatusRaises, ChangeOption, EditByHand,
         ServiceExits, CloudChanges, Crash, Reboot
<1>2. phase = "idle" /\ DriftSeen
  BY <1>1 DEF UpdateStatus, UpdateHook, HealthStatus, DriftStatus
<1> QED BY <1>2 DEF TextInv, Early, DriftSeen

(* As long as no hook is lost after it wrote, the file is in the end the   *)
(* config asked for or an operator's: the one way round the short-circuit  *)
(* of _configure is StoredState falling behind the file.                   *)
THEOREM TextConvergedUnlessHookLost ==
  Spec /\ [][LosesNothing]_vars => []TextConverged
BY TextKept, TextFollows, PTL

(* As long as no hook is lost after it wrote, drift is reported only of a  *)
(* file someone else wrote (_reconcile_config_drift_status).               *)
THEOREM DriftIsManualUnlessHookLost ==
  Spec /\ [][LosesNothing]_vars => DriftIsManual
<1>1. TextInv /\ [Next]_vars => [status # "drift" /\ status' = "drift" => byHand]_vars
  BY DriftFollows
<1> QED BY <1>1, TextKept, PTL DEF Spec, DriftIsManual

(* CUSTOM_ARGS end up as the options ask if, besides, live debugging is    *)
(* never ended together with a change of custom_args: the two causes there *)
(* are of the opposite (_apply_live_debugging).                            *)
THEOREM ArgsConvergedUnlessHookLost ==
  Spec /\ [][LosesNothing]_vars /\ [][EndsAlone]_vars => []ArgsConverged
<1>1. Init => IInv /\ BeliefInv /\ ArgsInv
  BY InitIInv, InitBelief
<1>2. IInv /\ BeliefInv /\ ArgsInv /\ [Next]_vars /\ [LosesNothing]_vars /\ [EndsAlone]_vars
        => (IInv /\ BeliefInv /\ ArgsInv)'
  BY NextIInv, NextBelief, NextArgs
<1>3. BeliefInv /\ ArgsInv => ArgsConverged
  BY DEF BeliefInv, ArgsInv, ArgsConverged, Quiet, ConfigureDue, Believes, Early, Effective
<1> QED BY <1>1, <1>2, <1>3, PTL DEF Spec

-----------------------------------------------------------------------------
(* What the service runs *)

(* No hook is killed, or raises, after it has written the file. *)
WritesKept == ~RestartRaises /\ (Crash => phase = "render")

(* A reload does what systemctl is asked to do. *)
ReloadsSucceed == ApplyFails => ~Reloads

(* Between hooks CUSTOM_ARGS and the service are what StoredState says.    *)
(* While one writes, a service that is up still has the arguments of       *)
(* StoredState: those restart_required compares the options with.          *)
ServiceInv ==
  /\ Early =>
       /\ args = Effective(stored)
       /\ service.up =>
            service.args = args /\ (~byHand /\ Loads(disk) => service.text = disk)
  /\ ~Early => (service.up => service.args = Effective(stored))
  /\ phase = "apply" => args = Effective(mem)

LEMMA NextService ==
  ASSUME IInv, BeliefInv, ServiceInv, [Next]_vars,
         [WritesKept]_vars, [ReloadsSucceed]_vars, [EndsAlone]_vars
  PROVE  ServiceInv'
<1>t. TypeOK /\ plan.args \in Args /\ plan.live \in BOOLEAN
  BY PlanType DEF IInv
<1>l. Launched.up => Launched.text = disk /\ Launched.args = args /\ Loads(disk)
  BY <1>t DEF Launched, TypeOK
<1> USE DEF ServiceInv, Early
<1>1. CASE BeginConfigure
  BY <1>1 DEF BeginConfigure, Effective, Loads
<1>2. CASE Refuse \/ SkipUnchanged \/ RejectInvalid
  BY <1>2 DEF Refuse, SkipUnchanged, RejectInvalid, Renders, Ends, BeliefInv, Effective, Loads
<1>3. CASE WriteConfig \/ WriteDefaults
  BY <1>3 DEF WriteConfig, Renders, WriteDefaults, Effective
<1>4. CASE ApplyLiveDebugging
  <2>1. /\ phase = "live" /\ phase' = "apply" /\ UNCHANGED <<service, stored>> /\ args = plan.args
        /\ args' = AppliedArgs /\ mem'.args = plan.args /\ mem'.live = plan.live
    BY <1>4, <1>t DEF ApplyLiveDebugging, IInv, DefaultsWritten, TypeOK, Memory
  <2>2. plan.live \/ ~mem.live \/ plan.args = mem.args
    BY <1>4, <2>1 DEF EndsAlone, vars
  <2>3. AppliedArgs = IF plan.live THEN LiveArgs ELSE plan.args
    BY <2>1, <2>2 DEF AppliedArgs, IInv, Kept
  <2> QED BY <2>1, <2>3 DEF Effective
<1>5. CASE Reload
  <2>1. /\ phase = "apply" /\ phase' = "idle" /\ stored' = mem /\ UNCHANGED <<disk, byHand, args>>
        /\ service.up /\ plan.args = stored.args /\ plan.live = stored.live
        /\ service' = IF Loads(disk) THEN [service EXCEPT !.text = disk] ELSE service
    BY <1>5 DEF Reload, Reloads, RestartRequired, Ends
  <2>2. Effective(mem) = Effective(stored)
    BY <2>1 DEF BeliefInv, Believes, Effective
  <2>3. service'.args = service.args /\ (Loads(disk) => service'.text = disk)
    BY <2>1, <1>t DEF TypeOK
  <2>4. (Loads(disk) <=> Loads(disk)') /\ Effective(stored)' = Effective(mem)
    BY <2>1 DEF Loads, Effective
  <2> QED BY <2>1, <2>2, <2>3, <2>4
<1>6. CASE Restart \/ ApplyFails
  <2>1. /\ phase = "apply" /\ phase' = "idle" /\ stored' = mem /\ UNCHANGED <<disk, byHand, args>>
    BY <1>6 DEF Restart, Restarts, Reloads, ApplyFails, Ends
  <2>2. service' = Launched \/ service' = [service EXCEPT !.up = FALSE]
    <3>1. CASE Restart
      BY <3>1 DEF Restart
    <3>2. CASE ApplyFails
      <4>1. ~Reloads
        BY <3>2, <2>1 DEF ReloadsSucceed, vars
      <4> QED BY <3>2, <4>1 DEF ApplyFails
    <3> QED BY <1>6, <3>1, <3>2
  <2>3. service'.up => service'.args = args /\ service'.text = disk
    BY <1>l, <1>t, <2>2 DEF TypeOK
  <2> QED BY <2>1, <2>3 DEF Effective
<1>7. CASE RestartRaises \/ Crash
  <2>1. WritesKept \/ UNCHANGED vars
    OBVIOUS
  <2>2. CASE phase = "render" /\ Crash
    BY <2>2 DEF Crash, Effective, Loads
  <2>3. phase' # phase
    BY <1>7 DEF RestartRaises, Restarts, Crash
  <2> QED BY <1>7, <2>1, <2>2, <2>3 DEF WritesKept, vars
<1>8. CASE Start \/ StartFails \/ Reboot
  <2>1. /\ phase = "idle" /\ UNCHANGED <<phase, args, stored, disk, byHand>>
        /\ service' = service \/ service' = Launched
    BY <1>8 DEF Start, StartFails, StartHook, Reboot
  <2> QED BY <1>l, <2>1 DEF Effective, Loads
<1>9. CASE UpdateStatus
  <2>1. stored'.args = stored.args /\ stored'.live = stored.live
    BY <1>9, <1>t DEF UpdateStatus, TypeOK, Memory
  <2> QED BY <1>9, <2>1 DEF UpdateStatus, UpdateHook, Effective, Loads
<1>10. CASE EditByHand
  BY <1>10 DEF EditByHand, Effective
<1>11. CASE ServiceExits
  <2>1. ~service'.up
    BY <1>11, <1>t DEF ServiceExits, TypeOK
  <2> QED BY <1>11, <2>1 DEF ServiceExits, Effective
<1>12. CASE ChangeOption \/ CloudChanges \/ UpdateStatusRaises
  BY <1>12 DEF ChangeOption, CloudChanges, UpdateStatusRaises, UpdateHook, Effective, Loads
<1>13. CASE UNCHANGED vars
  BY <1>13 DEF vars, Effective, Loads
<1> QED
  BY <1>1, <1>2, <1>3, <1>4, <1>5, <1>6, <1>7, <1>8, <1>9, <1>10, <1>11, <1>12, <1>13
  DEF Next, Configure

(* A service that is up runs the files of the charm when nothing is left   *)
(* to do, unless a hook was lost after it wrote, a reload failed or live   *)
(* debugging ended with new custom_args: then CUSTOM_ARGS and StoredState, *)
(* by which a reload is preferred to a restart, are no longer the same     *)
(* (restart_required in _configure).                                       *)
THEOREM ServiceCurrentUnlessHookLost ==
  Spec /\ [][WritesKept]_vars /\ [][ReloadsSucceed]_vars /\ [][EndsAlone]_vars
    => []ServiceCurrent
<1>1. Init => IInv /\ BeliefInv /\ ServiceInv
  <2>1. Init => ServiceInv
    BY TextAssumption DEF Init, Blank, ServiceInv, Early, Effective
  <2> QED BY <2>1, InitIInv, InitBelief
<1>2. IInv /\ BeliefInv /\ ServiceInv /\ [Next]_vars
        /\ [WritesKept]_vars /\ [ReloadsSucceed]_vars /\ [EndsAlone]_vars
        => (IInv /\ BeliefInv /\ ServiceInv)'
  BY NextIInv, NextBelief, NextService
<1>3. ServiceInv => ServiceCurrent
  BY DEF ServiceInv, ServiceCurrent, Quiet, Early
<1> QED BY <1>1, <1>2, <1>3, PTL DEF Spec

-----------------------------------------------------------------------------
(* Machines on which nothing fails *)

(* No hook is killed, systemctl does not fail, and what alloy fmt accepts  *)
(* of the charm's renderings alloy can run.                                *)
Calm ==
  /\ Limit["crash"] = 0 /\ Limit["fault"] = 0
  /\ \A w \in Wanted : Verdict[w.text] # "broken"

LEMMA CalmLosesNothing ==
  ASSUME Calm, IInv, BeliefInv, TextInv, [Next]_vars PROVE LosesNothing
<1>1. count["crash"] \in Nat /\ count["fault"] \in Nat
  BY DEF IInv, TypeOK, Event
<1>2. ~Crash /\ ~Happens("fault")
  BY <1>1 DEF Calm, Crash, Happens
<1>3. ASSUME RestartRaises PROVE byHand
  <2>1. ~Loads(disk) /\ phase = "apply"
    BY <1>2, <1>3 DEF RestartRaises, Restarts, Faulty
  <2>2. plan \in Wanted /\ plan.text \in Text /\ mem.good = plan.text
    BY <2>1, PlanType DEF IInv, BeliefInv, Early
  <2>3. Verdict[plan.text] \in {"invalid", "good"}
    BY <2>2, TextAssumption DEF Calm
  <2> QED BY <2>1, <2>2, <2>3 DEF TextInv, Early, IInv, Validated, Loads
<1> QED BY <1>2, <1>3 DEF LosesNothing

(* On a machine on which nothing fails, the file is in the end the config  *)
(* asked for unless someone edited it, and drift is reported only then.    *)
THEOREM CalmConverges ==
  ASSUME Calm PROVE Spec => []TextConverged /\ DriftIsManual
<1>1. Init => IInv /\ BeliefInv /\ TextInv
  BY InitIInv, InitBelief
<1>2. IInv /\ BeliefInv /\ TextInv /\ [Next]_vars => (IInv /\ BeliefInv /\ TextInv)'
  BY CalmLosesNothing, NextIInv, NextBelief, NextText
<1>3. TextInv /\ [Next]_vars => [status # "drift" /\ status' = "drift" => byHand]_vars
  BY DriftFollows
<1> QED BY <1>1, <1>2, <1>3, TextFollows, PTL DEF Spec, DriftIsManual
=============================================================================
