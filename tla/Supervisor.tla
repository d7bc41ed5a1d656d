------------------------------- MODULE Supervisor -------------------------------
(*****************************************************************************)
(* The afanctl daemon: Supervisor::run and Supervisor::step_once             *)
(* (src/src/supervisor.rs) over one fan, with the death path of              *)
(* src/src/safety.rs and the restart of packaging/afanctl.service.           *)
(*                                                                           *)
(* The daemon is one thread.  A poll is cut at its Smc calls: between two of *)
(* them up to 2.7 s of settle windows pass, during which the firmware may    *)
(* take the fan back and the process may be killed.  `pc` is the next Smc    *)
(* call (or the start of the next step of the poll) of that thread.          *)
(*                                                                           *)
(* Abstractions:                                                             *)
(*  - the rpm target register is not a variable: an rpm write has an outcome *)
(*    and the tachometer may show anything in TachReadings;                  *)
(*  - the controller keeps its sensor-loss streak here; the speed it asks    *)
(*    for with a valid reading is any of Outputs(mode) (module Controller    *)
(*    says which one);                                                       *)
(*  - logs, recent_errors, the counters used only in messages                *)
(*    (auto_restore_attempts, auto_retry_log_polls, off_target_polls) and    *)
(*    the published state.json are left out;                                 *)
(*  - cmd.json is read only at pc = "cmd", so a client's write that lands    *)
(*    anywhere else in a poll is the same as one just before that step.      *)
(*                                                                           *)
(* A definition whose comment starts with "Seeded bug" is not part of the    *)
(* specification: it is a wrong version of the definition that follows it,   *)
(* kept to see that a property notices the difference.                       *)
(*****************************************************************************)
EXTENDS Integers

CONSTANTS
  HwMin, HwMax,        \* fan1_min and fan1_max, read from the hardware
  CfgMaxRpm,           \* the configured max_rpm
  CurveSpeeds,         \* the speeds a curve step may ask for
  HoldRequests,        \* the rpm values of `hold` commands, unclamped
  TachReadings,        \* what fan1_input may show
  StartModes,          \* the modes `afanctl daemon --mode` is started with
  SensorLossPolls,     \* SENSOR_LOSS_POLLS
  WriteFailFallback,   \* WRITE_FAIL_FALLBACK
  StallPolls,          \* STALL_POLLS
  VerifyTolerance,     \* VERIFY_TOLERANCE_RPM
  StallEpsilon,        \* STALL_TACH_EPSILON_RPM
  CmdMayBeUnreadable,  \* may reading cmd.json fail (permissions, I/O)?
  MaxDeaths,           \* bound on the deaths of the daemon in a behaviour
  None                 \* Option::None

ASSUME BandAssumption ==
  /\ HwMin \in Nat /\ HwMax \in Nat /\ HwMin <= HwMax
  /\ CfgMaxRpm \in Nat
  /\ CurveSpeeds \subseteq Nat /\ HoldRequests \subseteq Nat
  /\ TachReadings \subseteq Nat
  /\ None \notin Nat

ASSUME TunablesAssumption ==
  /\ SensorLossPolls \in Nat \ {0}
  /\ WriteFailFallback \in Nat \ {0}
  /\ StallPolls \in Nat \ {0}
  /\ VerifyTolerance \in Nat /\ StallEpsilon \in Nat
  /\ CmdMayBeUnreadable \in BOOLEAN
  /\ MaxDeaths \in Nat

\* RunMode.
Observe == [kind |-> "observe"]
Curve == [kind |-> "curve"]
Hold(rpm) == [kind |-> "hold", rpm |-> rpm]
RunMode == {Observe, Curve} \cup {Hold(rpm) : rpm \in HoldRequests}

ASSUME StartAssumption == StartModes \subseteq RunMode

\* What cmd.json may hold: nothing, a document parse_cmd rejects, or a valid
\* one.  The CLI's documents carry no timestamp, so a valid content is its mode.
NoCmd == [kind |-> "absent"]
Malformed == [kind |-> "malformed"]
CmdContents == RunMode \cup {NoCmd, Malformed}

VARIABLES
  \* --- the machine ---
  fan_mode,              \* the fan mode register: "Auto" or "Manual"
  cmd_file,              \* content of cmd.json
  deaths,                \* deaths of the daemon so far (bounded)
  \* --- fields of Supervisor ---
  mode,
  monitor_only,
  manual_armed,
  auto_restore_pending,
  last_written,
  prev_actual,
  write_failures,
  stall_polls,
  l2_absent,
  last_cmd,
  loss_streak,           \* Controller::loss_streak
  armed,                 \* safety::ARMED holds a usable descriptor
  \* --- the thread ---
  pc,
  after,                 \* where the thread goes on after degrade_to_auto
  inherited,             \* run(): the fan mode found at startup
  want,                  \* write_controlled(): the clamped target
  applied,               \* step_once(): act() wrote a speed this poll
  moved,                 \* l1_poll(): the tach moved since the last poll
  l1_ok                  \* l1_poll(): ~failed

machine == <<fan_mode, cmd_file, deaths>>
intent == <<mode, monitor_only>>
ownership == <<manual_armed, auto_restore_pending, last_written>>
counters == <<write_failures, stall_polls>>
l2 == <<l2_absent, armed>>
locals == <<inherited, want, applied, moved, l1_ok>>
vars == <<machine, intent, ownership, counters, l2, prev_actual, last_cmd,
          loss_streak, pc, after, locals>>

PollSteps == {"cmd", "release", "retry", "decide", "enter", "speed", "return",
              "l1", "l1mode", "l1track", "l1stall", "publish", "fallback"}
StartupSteps == {"boot", "probe", "reconcile"}
Steps == PollSteps \cup StartupSteps \cup {"dead"}

-----------------------------------------------------------------------------
(* Hardware calls and helpers *)

Clamp(rpm) == IF rpm < HwMin THEN HwMin ELSE IF rpm > HwMax THEN HwMax ELSE rpm

AbsDiff(a, b) == IF a >= b THEN a - b ELSE b - a

\* The register after a set_mode(m) or probe that returned Err: the write was
\* rejected or, when its read-back failed or the SMC adopted it after the
\* settle window, took effect all the same.
AfterFailed(m) == {fan_mode, m}

\* The speeds the controller may ask for with at least one valid sensor:
\* SetSpeed of the curve or of the held value, or EscalateMax.
Outputs(m) == {CfgMaxRpm} \cup (IF m = Curve THEN CurveSpeeds ELSE {m.rpm})

Controlling == ~monitor_only /\ mode # Observe

Goto(step) == pc' = step /\ UNCHANGED after

\* Seeded bug: falls back one failure late.
FailWriteLate(step) ==
  /\ write_failures' = write_failures + 1
  /\ IF write_failures + 1 > WriteFailFallback
     THEN pc' = "fallback" /\ after' = step
     ELSE Goto(step)

\* fail_write: count, and fall back at the limit before going on to `step`.
FailWrite(step) ==
  /\ write_failures' = write_failures + 1
  /\ IF write_failures + 1 >= WriteFailFallback
     THEN pc' = "fallback" /\ after' = step
     ELSE Goto(step)

-----------------------------------------------------------------------------
(* Supervisor::new and the startup part of run *)

\* The fields Supervisor::new sets, for a daemon started in mode m.
Fresh(m) ==
  /\ mode' = m /\ monitor_only' = FALSE
  /\ manual_armed' = FALSE /\ auto_restore_pending' = FALSE
  /\ last_written' = None /\ prev_actual' = None
  /\ write_failures' = 0 /\ stall_polls' = 0 /\ loss_streak' = 0
  /\ l2_absent' = FALSE /\ armed' = FALSE
  /\ last_cmd' = NoCmd
  /\ after' = "none" /\ inherited' = None /\ want' = None
  /\ applied' = FALSE /\ moved' = FALSE /\ l1_ok' = TRUE

Init ==
  /\ fan_mode \in {"Auto", "Manual"}
  /\ cmd_file = NoCmd
  /\ deaths = 0
  /\ mode \in StartModes /\ monitor_only = FALSE
  /\ manual_armed = FALSE /\ auto_restore_pending = FALSE
  /\ last_written = None /\ prev_actual = None
  /\ write_failures = 0 /\ stall_polls = 0 /\ loss_streak = 0
  /\ l2_absent = FALSE /\ armed = FALSE
  /\ last_cmd = NoCmd
  /\ pc = "boot"
  /\ after = "none" /\ inherited = None /\ want = None
  /\ applied = FALSE /\ moved = FALSE /\ l1_ok = TRUE

\* run(): snapshot the inherited mode before the probe writes AUTO.
SnapshotInherited ==
  /\ pc = "boot"
  /\ inherited' \in {fan_mode, "unreadable"}
  /\ Goto("probe")
  /\ UNCHANGED <<machine, intent, ownership, counters, l2, prev_actual,
                 last_cmd, loss_streak, want, applied, moved, l1_ok>>

\* probe_safe_restore verified AUTO through the death path's fd: L2 is armed.
ProbePasses ==
  /\ pc = "probe"
  /\ fan_mode' = "Auto"
  /\ armed' = TRUE
  /\ Goto("reconcile")
  /\ UNCHANGED <<cmd_file, deaths, intent, ownership, counters, l2_absent,
                 prev_actual, last_cmd, loss_streak, locals>>

\* The probe failed: no L2, and no startup in a control mode.
ProbeFails ==
  /\ pc = "probe"
  /\ fan_mode' \in AfterFailed("Auto")
  /\ l2_absent' = TRUE
  /\ mode' = Observe
  /\ Goto("reconcile")
  /\ UNCHANGED <<cmd_file, deaths, monitor_only, ownership, counters, armed,
                 prev_actual, last_cmd, loss_streak, locals>>

\* degrade_startup_to_observe
DegradeStartupToObserve ==
  /\ mode' = Observe
  /\ monitor_only' = TRUE
  /\ manual_armed' = FALSE
  /\ last_written' = None
  /\ write_failures' = 0
  /\ stall_polls' = 0
  /\ auto_restore_pending' = FALSE

\* reconcile_stale_state when there is nothing to restore: the predecessor
\* left AUTO, or the fan was unreadable (which degrades a control mode).
ReconcileNothing ==
  /\ pc = "reconcile"
  /\ inherited # "Manual"
  /\ IF inherited = "unreadable" /\ mode # Observe
     THEN DegradeStartupToObserve
     ELSE UNCHANGED <<intent, ownership, counters>>
  /\ inherited' = None
  /\ Goto("cmd")
  /\ UNCHANGED <<machine, l2, prev_actual, last_cmd, loss_streak, want,
                 applied, moved, l1_ok>>

\* reconcile_stale_state after a predecessor that died owning the fan.
ReconcileManual ==
  /\ pc = "reconcile"
  /\ inherited = "Manual"
  /\ \/ /\ fan_mode' = "Auto"
        /\ manual_armed' = FALSE
        /\ last_written' = None
        /\ UNCHANGED <<intent, auto_restore_pending, counters>>
     \/ /\ fan_mode' \in AfterFailed("Auto")
        /\ DegradeStartupToObserve
  /\ inherited' = None
  /\ Goto("cmd")
  /\ UNCHANGED <<cmd_file, deaths, l2, prev_actual, last_cmd, loss_streak,
                 want, applied, moved, l1_ok>>

-----------------------------------------------------------------------------
(* Step 1 of a poll: the command file *)

\* Seeded bug: no freshness gate.
FreshCmdUngated == cmd_file \in RunMode

FreshCmd == cmd_file \in RunMode /\ cmd_file # last_cmd

\* Nothing to apply: cmd.json is absent, rejected by parse_cmd or the last
\* applied command still; or, whatever it holds, it could not be read.
IgnoreCmdFile ==
  /\ pc = "cmd"
  /\ ~FreshCmd \/ CmdMayBeUnreadable
  /\ Goto("retry")
  /\ UNCHANGED <<machine, intent, ownership, counters, l2, prev_actual,
                 last_cmd, loss_streak, locals>>

\* apply_mode refuses control without L2 (after the freshness gate took the
\* content as seen).
RefuseCmd ==
  /\ pc = "cmd"
  /\ FreshCmd
  /\ l2_absent /\ cmd_file # Observe
  /\ last_cmd' = cmd_file
  /\ Goto("retry")
  /\ UNCHANGED <<machine, intent, ownership, counters, l2, prev_actual,
                 loss_streak, locals>>

\* apply_mode for curve/hold: clears the monitor-only latch, then takes the
\* new mode (the request may equal the current one).
ApplyControlCmd ==
  /\ pc = "cmd"
  /\ FreshCmd
  /\ cmd_file # Observe /\ ~l2_absent
  /\ last_cmd' = cmd_file
  /\ IF monitor_only
     THEN /\ monitor_only' = FALSE
          /\ write_failures' = 0
          /\ auto_restore_pending' = FALSE
     ELSE UNCHANGED <<monitor_only, write_failures, auto_restore_pending>>
  /\ mode' = cmd_file
  /\ Goto("retry")
  /\ UNCHANGED <<machine, manual_armed, last_written, stall_polls, l2,
                 prev_actual, loss_streak, locals>>

\* apply_mode for observe: with the fan armed the release is an Smc call of
\* its own (ReleaseForObserve).
ApplyObserveCmd ==
  /\ pc = "cmd"
  /\ FreshCmd
  /\ cmd_file = Observe
  /\ last_cmd' = cmd_file
  /\ IF mode # Observe /\ manual_armed
     THEN Goto("release") /\ UNCHANGED mode
     ELSE Goto("retry") /\ mode' = Observe
  /\ UNCHANGED <<machine, monitor_only, ownership, counters, l2, prev_actual,
                 loss_streak, locals>>

\* Seeded bug: the release fails and nothing retries it.
ReleaseForObserveOnce ==
  /\ pc = "release"
  /\ mode' = Observe
  /\ \/ /\ fan_mode' = "Auto"
        /\ manual_armed' = FALSE
        /\ last_written' = None
        /\ Goto("retry")
        /\ UNCHANGED write_failures
     \/ /\ fan_mode' \in AfterFailed("Auto")
        /\ FailWrite("retry")
        /\ UNCHANGED <<manual_armed, last_written>>
  /\ UNCHANGED <<cmd_file, deaths, monitor_only, auto_restore_pending,
                 stall_polls, l2, prev_actual, last_cmd, loss_streak, locals>>

\* The set_mode(Auto) of apply_mode: a failed release keeps the ownership and
\* arms the every-poll retry; the mode becomes Observe either way.
ReleaseForObserve ==
  /\ pc = "release"
  /\ mode' = Observe
  /\ \/ /\ fan_mode' = "Auto"
        /\ manual_armed' = FALSE
        /\ last_written' = None
        /\ auto_restore_pending' = FALSE
        /\ Goto("retry")
        /\ UNCHANGED write_failures
     \/ /\ fan_mode' \in AfterFailed("Auto")
        /\ auto_restore_pending' = TRUE
        /\ FailWrite("retry")
        /\ UNCHANGED <<manual_armed, last_written>>
  /\ UNCHANGED <<cmd_file, deaths, monitor_only, stall_polls, l2, prev_actual,
                 last_cmd, loss_streak, locals>>

-----------------------------------------------------------------------------
(* Step 1.5: auto_restore_retry *)

RetrySkipped ==
  /\ pc = "retry"
  /\ ~auto_restore_pending
  /\ Goto("decide")
  /\ UNCHANGED <<machine, intent, ownership, counters, l2, prev_actual,
                 last_cmd, loss_streak, locals>>

\* Seeded bug: claims success without a verified read-back.
RetryTrustsTheWrite ==
  /\ pc = "retry"
  /\ auto_restore_pending
  /\ fan_mode' \in AfterFailed("Auto")
  /\ auto_restore_pending' = FALSE
  /\ manual_armed' = FALSE
  /\ last_written' = None
  /\ stall_polls' = 0
  /\ Goto("decide")
  /\ UNCHANGED <<cmd_file, deaths, intent, write_failures, l2, prev_actual,
                 last_cmd, loss_streak, locals>>

\* Seeded bug: retries only on behalf of the monitor-only fallback.
RetryOnlyAfterFallback ==
  /\ pc = "retry"
  /\ auto_restore_pending /\ monitor_only
  /\ fan_mode' = "Auto"
  /\ auto_restore_pending' = FALSE
  /\ manual_armed' = FALSE
  /\ last_written' = None
  /\ stall_polls' = 0
  /\ Goto("decide")
  /\ UNCHANGED <<cmd_file, deaths, intent, write_failures, l2, prev_actual,
                 last_cmd, loss_streak, locals>>

\* The register already reads Auto, or set_mode(Auto) verified.
RetrySucceeds ==
  /\ pc = "retry"
  /\ auto_restore_pending
  /\ fan_mode' = "Auto"
  /\ auto_restore_pending' = FALSE
  /\ manual_armed' = FALSE
  /\ last_written' = None
  /\ stall_polls' = 0
  /\ Goto("decide")
  /\ UNCHANGED <<cmd_file, deaths, intent, write_failures, l2, prev_actual,
                 last_cmd, loss_streak, locals>>

\* set_mode(Auto) failed again; not counted, retried next poll.
RetryFails ==
  /\ pc = "retry"
  /\ auto_restore_pending
  /\ fan_mode' \in AfterFailed("Auto")
  /\ Goto("decide")
  /\ UNCHANGED <<cmd_file, deaths, intent, ownership, counters, l2,
                 prev_actual, last_cmd, loss_streak, locals>>

-----------------------------------------------------------------------------
(* Steps 2 and 3: sensors, controller_step, act *)

\* Seeded bug: hold keeps the held speed through a full sensor loss.
SensorsLostHolding ==
  /\ pc = "decide"
  /\ IF loss_streak + 1 >= SensorLossPolls
     THEN /\ loss_streak' = 0
          /\ Goto(IF Controlling /\ mode = Curve /\ manual_armed
                  THEN "return" ELSE "l1")
     ELSE /\ loss_streak' = loss_streak + 1
          /\ Goto("l1")
  /\ UNCHANGED <<machine, intent, ownership, counters, l2, prev_actual,
                 last_cmd, locals>>

\* Every sensor failed: the streak decides between "keep the output" and
\* ReturnToAuto, which only a controlling, armed daemon acts on.
SensorsLost ==
  /\ pc = "decide"
  /\ IF loss_streak + 1 >= SensorLossPolls
     THEN /\ loss_streak' = 0
          /\ Goto(IF Controlling /\ manual_armed THEN "return" ELSE "l1")
     ELSE /\ loss_streak' = loss_streak + 1
          /\ Goto("l1")
  /\ UNCHANGED <<machine, intent, ownership, counters, l2, prev_actual,
                 last_cmd, locals>>

\* write_controlled up to its first Smc call.
WriteControlled(target) ==
  /\ want' = target
  /\ Goto(IF ~manual_armed THEN "enter"
          ELSE IF last_written = target THEN "l1" ELSE "speed")

\* At least one sensor is valid: SetSpeed or EscalateMax, unless the daemon
\* only watches.
SensorsValid ==
  /\ pc = "decide"
  /\ loss_streak' = 0
  /\ IF Controlling
     THEN \E rpm \in Outputs(mode) : WriteControlled(Clamp(rpm))
     ELSE Goto("l1") /\ UNCHANGED want
  /\ UNCHANGED <<machine, intent, ownership, counters, l2, prev_actual,
                 last_cmd, inherited, applied, moved, l1_ok>>

\* enter_manual on behalf of write_controlled.
EnterManual ==
  /\ pc = "enter"
  /\ \/ /\ fan_mode' = "Manual"
        /\ manual_armed' = TRUE
        /\ Goto(IF last_written = want THEN "l1" ELSE "speed")
        /\ UNCHANGED write_failures
     \/ /\ fan_mode' \in AfterFailed("Manual")
        /\ FailWrite("l1")
        /\ UNCHANGED manual_armed
  /\ UNCHANGED <<cmd_file, deaths, intent, auto_restore_pending, last_written,
                 stall_polls, l2, prev_actual, last_cmd, loss_streak, locals>>

\* Seeded bug: a new target opens a fresh stall window.
WriteSpeedForgivesStall ==
  /\ pc = "speed"
  /\ \/ /\ last_written' = want
        /\ applied' = TRUE
        /\ stall_polls' = 0
        /\ Goto("l1")
        /\ UNCHANGED write_failures
     \/ /\ FailWrite("l1")
        /\ UNCHANGED <<last_written, applied, stall_polls>>
  /\ UNCHANGED <<machine, intent, manual_armed, auto_restore_pending, l2,
                 prev_actual, last_cmd, loss_streak, inherited, want, moved,
                 l1_ok>>

\* write_controlled's write_speed.
WriteSpeed ==
  /\ pc = "speed"
  /\ \/ /\ last_written' = want
        /\ applied' = TRUE
        /\ Goto("l1")
        /\ UNCHANGED write_failures
     \/ /\ FailWrite("l1")
        /\ UNCHANGED <<last_written, applied>>
  /\ UNCHANGED <<machine, intent, manual_armed, auto_restore_pending,
                 stall_polls, l2, prev_actual, last_cmd, loss_streak,
                 inherited, want, moved, l1_ok>>

\* Seeded bug: the written target outlives the ownership.
ReturnToAutoKeepsTarget ==
  /\ pc = "return"
  /\ \/ /\ fan_mode' = "Auto"
        /\ manual_armed' = FALSE
        /\ Goto("l1")
        /\ UNCHANGED write_failures
     \/ /\ fan_mode' \in AfterFailed("Auto")
        /\ FailWrite("l1")
        /\ UNCHANGED manual_armed
  /\ UNCHANGED <<cmd_file, deaths, intent, auto_restore_pending, last_written,
                 stall_polls, l2, prev_actual, last_cmd, loss_streak, locals>>

\* act's ReturnToAuto: a failure is counted but arms no retry.
ReturnToAuto ==
  /\ pc = "return"
  /\ \/ /\ fan_mode' = "Auto"
        /\ manual_armed' = FALSE
        /\ last_written' = None
        /\ Goto("l1")
        /\ UNCHANGED write_failures
     \/ /\ fan_mode' \in AfterFailed("Auto")
        /\ FailWrite("l1")
        /\ UNCHANGED <<manual_armed, last_written>>
  /\ UNCHANGED <<cmd_file, deaths, intent, auto_restore_pending, stall_polls,
                 l2, prev_actual, last_cmd, loss_streak, locals>>

Policy == INSTANCE PolicyContract

\* The speeds a mode itself asks for.
Asked(m) == IF m.kind = "hold" THEN {m.rpm} ELSE CurveSpeeds

\* controller_step: the step of the policy that a poll takes.
StepKind == IF monitor_only THEN "observe" ELSE mode.kind

\* act, up to its first Smc call.
Act(decision) ==
  \/ /\ monitor_only \/ decision.kind = "Observe"
     /\ Goto("l1") /\ UNCHANGED want
  \/ /\ ~monitor_only /\ decision.kind = "ReturnToAuto"
     /\ Goto(IF manual_armed THEN "return" ELSE "l1") /\ UNCHANGED want
  \/ /\ ~monitor_only /\ decision.kind = "SetSpeed"
     /\ WriteControlled(Clamp(decision.rpm))
  \/ /\ ~monitor_only /\ decision.kind = "EscalateMax"
     /\ WriteControlled(Clamp(CfgMaxRpm))

\* controller_step by a policy that keeps the contract, whatever it is, then act.
DecidesByPolicy ==
  /\ pc = "decide"
  /\ \E lost \in BOOLEAN :
       /\ loss_streak' = Policy!StreakAfter(lost, loss_streak)
       /\ \E decision \in Policy!Decisions(Asked(mode)) :
            /\ Policy!MayDecide(decision, StepKind, Asked(mode), lost, loss_streak)
            /\ Act(decision)
  /\ UNCHANGED <<machine, intent, ownership, counters, l2, prev_actual, last_cmd,
                 inherited, applied, moved, l1_ok>>

-----------------------------------------------------------------------------
(* Step 4: l1_poll *)

L1ReadFails ==
  /\ pc = "l1"
  /\ l1_ok' = FALSE
  /\ FailWrite("publish")
  /\ UNCHANGED <<machine, intent, ownership, stall_polls, l2, prev_actual,
                 last_cmd, loss_streak, inherited, want, applied, moved>>

\* A fan we do not own, or are trying to give back, is not verified.
L1NotOurs ==
  /\ pc = "l1"
  /\ ~manual_armed \/ auto_restore_pending
  /\ prev_actual' \in TachReadings
  /\ stall_polls' = IF manual_armed THEN stall_polls ELSE 0
  /\ Goto("publish")
  /\ UNCHANGED <<machine, intent, ownership, write_failures, l2, last_cmd,
                 loss_streak, locals>>

\* Seeded bug: re-asserts Manual on a fan that is being given back.
L1ReadsWhileReleasing ==
  /\ pc = "l1"
  /\ manual_armed
  /\ \E rpm \in TachReadings :
       /\ prev_actual' = rpm
       /\ moved' = (prev_actual # None /\ AbsDiff(rpm, prev_actual) > StallEpsilon)
  /\ Goto(IF fan_mode = "Manual" THEN "l1track" ELSE "l1mode")
  /\ UNCHANGED <<machine, intent, ownership, counters, l2, last_cmd,
                 loss_streak, inherited, want, applied, l1_ok>>

\* Our fan: remember the tach, and re-assert Manual first if the mode drifted.
L1Reads ==
  /\ pc = "l1"
  /\ manual_armed /\ ~auto_restore_pending
  /\ \E rpm \in TachReadings :
       /\ prev_actual' = rpm
       /\ moved' = (prev_actual # None /\ AbsDiff(rpm, prev_actual) > StallEpsilon)
  /\ Goto(IF fan_mode = "Manual" THEN "l1track" ELSE "l1mode")
  /\ UNCHANGED <<machine, intent, ownership, counters, l2, last_cmd,
                 loss_streak, inherited, want, applied, l1_ok>>

\* enter_manual on behalf of the mode-drift check.
L1ReassertManual ==
  /\ pc = "l1mode"
  /\ \/ /\ fan_mode' = "Manual"
        /\ manual_armed' = TRUE
        /\ Goto("l1track")
        /\ UNCHANGED <<write_failures, l1_ok>>
     \/ /\ fan_mode' \in AfterFailed("Manual")
        /\ l1_ok' = FALSE
        /\ FailWrite("l1track")
        /\ UNCHANGED manual_armed
  /\ UNCHANGED <<cmd_file, deaths, intent, auto_restore_pending, last_written,
                 stall_polls, l2, prev_actual, last_cmd, loss_streak,
                 inherited, want, applied, moved>>

\* The end of l1_poll: a healthy poll with a live target clears the count.
L1Verdict ==
  /\ write_failures' = IF l1_ok /\ last_written # None THEN 0 ELSE write_failures
  /\ Goto("publish")

OffTarget == AbsDiff(prev_actual, last_written) > VerifyTolerance

\* Nothing written yet, or the tach is within tolerance of it.
L1OnTarget ==
  /\ pc = "l1track"
  /\ IF last_written = None
     THEN UNCHANGED stall_polls
     ELSE ~OffTarget /\ stall_polls' = 0
  /\ L1Verdict
  /\ UNCHANGED <<machine, intent, ownership, l2, prev_actual, last_cmd,
                 loss_streak, locals>>

\* Off target: re-assert the written value unless act just wrote one.
L1Tracking ==
  /\ pc = "l1track"
  /\ last_written # None /\ OffTarget
  /\ \/ Goto("l1stall") /\ UNCHANGED <<write_failures, l1_ok>>
     \/ /\ ~monitor_only /\ ~applied
        /\ l1_ok' = FALSE
        /\ FailWrite("l1stall")
  /\ UNCHANGED <<machine, intent, ownership, stall_polls, l2, prev_actual,
                 last_cmd, loss_streak, inherited, want, applied, moved>>

\* The stall detector: StallPolls motionless off-target polls are a dead
\* actuator; only tach movement or convergence closes the window.
L1Stall ==
  /\ pc = "l1stall"
  /\ IF ~moved /\ stall_polls + 1 >= StallPolls
     THEN /\ stall_polls' = 0
          /\ l1_ok' = FALSE
          /\ pc' = "fallback" /\ after' = "publish"
          /\ UNCHANGED write_failures
     ELSE /\ stall_polls' = IF moved THEN 0 ELSE stall_polls + 1
          /\ L1Verdict
          /\ UNCHANGED l1_ok
  /\ UNCHANGED <<machine, intent, ownership, l2, prev_actual, last_cmd,
                 loss_streak, inherited, want, applied, moved>>

\* Seeded bug: gives the ownership up although the restore failed.
DegradeToAutoDisowns ==
  /\ pc = "fallback"
  /\ monitor_only' = TRUE
  /\ last_written' = None
  /\ write_failures' = 0
  /\ stall_polls' = 0
  /\ fan_mode' \in AfterFailed("Auto")
  /\ manual_armed' = FALSE
  /\ auto_restore_pending' = (fan_mode' # "Auto")
  /\ pc' = after /\ after' = "none"
  /\ UNCHANGED <<cmd_file, deaths, mode, l2, prev_actual, last_cmd,
                 loss_streak, locals>>

\* degrade_to_auto, called by fail_write and by the stall detector.
DegradeToAuto ==
  /\ pc = "fallback"
  /\ monitor_only' = TRUE
  /\ last_written' = None
  /\ write_failures' = 0
  /\ stall_polls' = 0
  /\ \/ /\ fan_mode' = "Auto"
        /\ manual_armed' = FALSE
        /\ auto_restore_pending' = FALSE
     \/ /\ fan_mode' \in AfterFailed("Auto")
        /\ auto_restore_pending' = TRUE
        /\ UNCHANGED manual_armed
  /\ pc' = after /\ after' = "none"
  /\ UNCHANGED <<cmd_file, deaths, mode, l2, prev_actual, last_cmd,
                 loss_streak, locals>>

\* Step 5: state.json reports ~monitor_only /\ l1_ok as `verified`; the
\* poll's locals end and the thread sleeps until the next poll.
Verified == ~monitor_only /\ l1_ok

PublishState ==
  /\ pc = "publish"
  /\ want' = None /\ applied' = FALSE /\ moved' = FALSE /\ l1_ok' = TRUE
  /\ Goto("cmd")
  /\ UNCHANGED <<machine, intent, ownership, counters, l2, prev_actual,
                 last_cmd, loss_streak, inherited>>

-----------------------------------------------------------------------------
(* The environment *)

\* A client replaces cmd.json (tmp file and rename) or removes it.
ClientWritesCmd ==
  /\ pc = "cmd"
  /\ cmd_file' \in CmdContents \ {cmd_file}
  /\ UNCHANGED <<fan_mode, deaths, intent, ownership, counters, l2,
                 prev_actual, last_cmd, loss_streak, pc, after, locals>>

\* The firmware takes the fan back (a resume from suspend, an SMC reset).
FirmwareReclaims ==
  /\ fan_mode = "Manual"
  /\ fan_mode' = "Auto"
  /\ UNCHANGED <<cmd_file, deaths, intent, ownership, counters, l2,
                 prev_actual, last_cmd, loss_streak, pc, after, locals>>

\* The process ends.  SIGKILL leaves the register alone; a panic or a caught
\* signal makes the one write of the death path, whose error is ignored.
Die ==
  /\ pc # "dead"
  /\ deaths < MaxDeaths
  /\ deaths' = deaths + 1
  /\ fan_mode' \in {fan_mode} \cup (IF armed THEN {"Auto"} ELSE {})
  /\ \E m \in StartModes : Fresh(m)
  /\ pc' = "dead"
  /\ UNCHANGED cmd_file

\* Restart=always.  The unit's RuntimeDirectory takes cmd.json with it; a
\* daemon in the foreground finds the file as it was.
Restart ==
  /\ pc = "dead"
  /\ pc' = "boot"
  /\ cmd_file' \in {cmd_file, NoCmd}
  /\ UNCHANGED <<fan_mode, deaths, intent, ownership, counters, l2,
                 prev_actual, last_cmd, loss_streak, after, locals>>

-----------------------------------------------------------------------------
Startup == SnapshotInherited \/ ProbePasses \/ ProbeFails
           \/ ReconcileNothing \/ ReconcileManual

CmdStep == IgnoreCmdFile \/ RefuseCmd \/ ApplyControlCmd \/ ApplyObserveCmd
           \/ ReleaseForObserve

RetryStep == RetrySkipped \/ RetrySucceeds \/ RetryFails

ActStep == SensorsLost \/ SensorsValid \/ EnterManual \/ WriteSpeed
           \/ ReturnToAuto

L1Step == L1ReadFails \/ L1NotOurs \/ L1Reads \/ L1ReassertManual
          \/ L1OnTarget \/ L1Tracking \/ L1Stall

Daemon == Startup \/ CmdStep \/ RetryStep \/ ActStep \/ L1Step
          \/ DegradeToAuto \/ PublishState

Next == Daemon \/ ClientWritesCmd \/ FirmwareReclaims \/ Die \/ Restart

Spec == Init /\ [][Next]_vars

\* The thread runs while the process lives and systemd restarts it when it
\* does not.  An AUTO write, tried again and again, verifies eventually.
Fairness == /\ WF_vars(Daemon) /\ WF_vars(Restart)
            /\ SF_vars(RetrySucceeds)
            /\ SF_vars(ReturnToAuto /\ ~manual_armed')
            /\ SF_vars(DegradeToAuto /\ ~manual_armed')

FairSpec == Spec /\ Fairness

-----------------------------------------------------------------------------
(* Properties *)

\* The types of the variables, by group.
MachineType ==
  /\ fan_mode \in {"Auto", "Manual"}
  /\ cmd_file \in CmdContents
  /\ deaths \in 0..MaxDeaths

FieldsType ==
  /\ mode \in RunMode
  /\ monitor_only \in BOOLEAN
  /\ manual_armed \in BOOLEAN
  /\ auto_restore_pending \in BOOLEAN
  /\ last_written \in Nat \cup {None}
  /\ prev_actual \in TachReadings \cup {None}
  /\ l2_absent \in BOOLEAN
  /\ last_cmd \in RunMode \cup {NoCmd}
  /\ armed \in BOOLEAN

CountersType ==
  /\ write_failures \in 0..WriteFailFallback
  /\ stall_polls \in 0..(StallPolls - 1)
  /\ loss_streak \in 0..(SensorLossPolls - 1)

ThreadType ==
  /\ pc \in Steps
  /\ after \in {"none", "retry", "l1", "l1track", "l1stall", "publish"}
  /\ inherited \in {None, "Auto", "Manual", "unreadable"}
  /\ want \in Nat \cup {None}
  /\ applied \in BOOLEAN /\ moved \in BOOLEAN /\ l1_ok \in BOOLEAN

TypeOK == MachineType /\ FieldsType /\ CountersType /\ ThreadType

\* The next Smc call writes Manual or a speed.
ControlWriteNext ==
  \/ pc \in {"enter", "speed", "l1mode"}
  \/ pc = "l1track" /\ last_written # None

\* A control write (Manual or a speed) is issued only in a control mode, never
\* while the monitor-only latch is set, and only with the death path armed:
\* l1_poll does not test the mode or the latch before it re-asserts Manual,
\* it relies on what the earlier steps left behind.
ControlWriteEntitled == ControlWriteNext => Controlling /\ armed

\* A fan the daemon still owns but no longer drives (observe, or monitor-only)
\* is being given back: the every-poll AUTO retry is armed.
UndrivenFanIsBeingReleased ==
  manual_armed /\ ~Controlling => auto_restore_pending

\* last_written makes write_controlled skip a write as redundant, so it must
\* not outlive the ownership of the fan or survive into monitor-only.
WrittenOnlyWhileOwned == last_written # None => manual_armed /\ ~monitor_only

\* The daemon forgets that it owns the fan only with the register in AUTO (or
\* by dying).
OwnershipEndsInAuto ==
  [][manual_armed /\ ~manual_armed' => fan_mode' = "Auto" \/ pc' = "dead"]_vars

\* A pending AUTO restore is dropped only with the register in AUTO, or by a
\* command that takes control again (or by dying).
PendingEndsInAutoOrRecommand ==
  [][auto_restore_pending /\ ~auto_restore_pending'
       => \/ fan_mode' = "Auto" \/ pc' = "dead"
          \/ pc = "cmd" /\ Controlling']_vars

\* What a poll does about its sensors is what act makes of a decision that the
\* contract allows: whatever policy keeps the contract, it does not show here.
ActsOnPolicy ==
  [][pc = "decide" /\ pc' \notin {"decide", "dead"} => DecidesByPolicy]_vars

\* Who has the fan, as FanCustody tells it.  A pending AUTO restore no longer
\* is a release once a command took control again.
Custodian ==
  IF pc \in StartupSteps \cup {"dead"} THEN "unattended"
  ELSE IF auto_restore_pending /\ ~Controlling THEN "releasing"
  ELSE IF manual_armed THEN "driven" ELSE "free"

Fan == INSTANCE FanCustody
         WITH register <- fan_mode, custody <- Custodian, net <- armed

\* The daemon implements FanCustody: whatever the interleaving of commands,
\* failing writes, firmware and death, Manual is written only over an armed
\* death path and never while the fan is being released, and a release is left
\* only through AUTO, a command or death.
KeepsCustody == Fan!CustodySpec

\* A pending AUTO restore ends: the fan is the firmware's again, or a command
\* took control again, or the process died.
RestoreEventuallyEnds ==
  auto_restore_pending ~> (fan_mode = "Auto" \/ Controlling \/ pc = "dead")

\* A fan whose tach never moves from a reading no target is near is not held
\* in Manual forever, whatever commands, write failures, read failures and
\* sensor losses come in between.
DeadFanGivenUp ==
  \A rpm \in TachReadings :
    (\A target \in HwMin..HwMax : AbsDiff(rpm, target) > VerifyTolerance)
      => ~<>[](manual_armed /\ ~auto_restore_pending /\ prev_actual = rpm)

\* Whatever the configuration, the curve and a hold ask for, the speeds that
\* write_controlled and L1 write are of the hardware band.
WrittenInBand ==
  want \in HwMin..HwMax \cup {None} /\ last_written \in HwMin..HwMax \cup {None}

\* A fan we drive whose tach stands still at a reading no target is near.
StandsAt(rpm) ==
  /\ \A target \in HwMin..HwMax : AbsDiff(rpm, target) > VerifyTolerance
  /\ manual_armed /\ ~auto_restore_pending
  /\ prev_actual = rpm /\ ~moved

\* While it does, nothing reopens the stall window (no command, new target,
\* failing call or lost sensor), and every poll that compares the tach with a
\* target counts, until the detector falls back.
StallWindowSurvives ==
  [][\A rpm \in TachReadings :
       StandsAt(rpm) /\ StandsAt(rpm)' =>
         \/ stall_polls' = stall_polls + (IF L1Stall THEN 1 ELSE 0)
         \/ L1Stall /\ pc' = "fallback"]_vars

\* If every sensor stays lost, the fan ends up with the firmware, whatever
\* commands arrive.
SensorLossReleases == <>[][~SensorsValid]_vars => <>[]~manual_armed

\* With the command file left alone the latch settles: a standing command is
\* not applied again and again, fallback after fallback.
LatchSettles ==
  \A c \in CmdContents :
    <>[](cmd_file = c) => <>[]monitor_only \/ <>[]~monitor_only

\* A comment in apply_mode: re-entering control supersedes an observe-release
\* that was still pending.
RecommandSupersedesRelease ==
  pc = "retry" /\ Controlling => ~auto_restore_pending

\* A note of apply_mode: an observe command that finds the fan not armed finds
\* it in AUTO.
UnarmedObserveFindsAuto ==
  [][ApplyObserveCmd /\ mode # Observe /\ ~manual_armed
       => fan_mode = "Auto"]_vars

-----------------------------------------------------------------------------
(* The inductive invariant behind the safety properties (SupervisorProofs) *)

\* A process that has not finished starting owns nothing.
StartupOwnsNothing ==
  pc \in StartupSteps \cup {"dead"} =>
    ~manual_armed /\ ~auto_restore_pending /\ last_written = None /\ ~monitor_only

\* After the probe, "no L2" and "death path armed" exclude each other, and
\* without L2 the mode is observe.
L2Consistent ==
  /\ pc \in {"dead", "boot", "probe"} => ~armed /\ ~l2_absent
  /\ pc \in PollSteps \cup {"reconcile"} =>
       (armed <=> ~l2_absent) /\ (l2_absent => mode = Observe)

\* What holds when the thread is about to make each control write.
CallContext ==
  /\ pc \in {"enter", "speed"} => Controlling /\ want \in Nat
  /\ pc = "speed" => manual_armed
  /\ pc = "l1mode" => Controlling /\ manual_armed
  /\ pc \in {"l1track", "l1stall"} => mode # Observe

\* The thread is in degrade_to_auto exactly when it knows where to return, and
\* outside of it the failure count is below the limit.
FallbackContext ==
  /\ pc = "fallback" =>
       after # "none" /\ (after \in {"l1track", "l1stall"} => mode # Observe)
  /\ pc # "fallback" => after = "none" /\ write_failures < WriteFailFallback

\* Where the thread stands, and what it then relies on.
ThreadContext ==
  StartupOwnsNothing /\ L2Consistent /\ CallContext /\ FallbackContext

\* Who owns the fan and what may be written to it.
Custody == ControlWriteEntitled /\ UndrivenFanIsBeingReleased /\ WrittenOnlyWhileOwned

Inv == TypeOK /\ Custody /\ ThreadContext
=============================================================================
