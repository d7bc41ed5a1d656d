------------------------------- MODULE TimedDaemon -------------------------------
(*****************************************************************************)
(* The poll loop of module Supervisor on a fan that works, and on a clock:   *)
(*  - the tachometer follows the target register at a bounded rate, and the  *)
(*    register follows the tachometer while the firmware has the fan         *)
(*    (MockSmc's tach-lag mode in src/src/smc.rs, "what real applesmc does");*)
(*  - every Smc call takes as long as its settle windows can last            *)
(*    (src/src/smc.rs, src/src/policy.rs), and the watchdog is pinged at the *)
(*    start and at the end of a poll.                                        *)
(* The time of a read or of a single write(2) is not counted: it is part of  *)
(* the margin the watchdog's budget leaves.                                  *)
(*                                                                           *)
(* A definition whose comment starts with "Seeded bug" is not part of the    *)
(* specification: it is a wrong version of the definition that follows it.   *)
(*****************************************************************************)
EXTENDS Supervisor

CONSTANTS
  Rate,             \* the tach moves at most so far between two polls
  IntervalMs,       \* the poll interval
  EchoSettleMs, ModeSettleMs, SettleSamples, WriteRetryMax,
  WatchdogMs,       \* WATCHDOG_UNIT_SEC
  MarginMs          \* what the interval's upper bound leaves of it

ASSUME FanAssumption == Rate \in Nat /\ Rate > StallEpsilon /\ StallPolls > 1
ASSUME ClockAssumption ==
  /\ IntervalMs \in Nat /\ WatchdogMs \in Nat /\ MarginMs \in Nat
  /\ EchoSettleMs \in Nat /\ ModeSettleMs \in Nat
  /\ SettleSamples \in Nat \ {0} /\ WriteRetryMax \in Nat

VARIABLES
  tach,       \* fan1_input
  target,     \* the target register
  gap,        \* ms since the last watchdog ping
  excuses     \* disturbances since the stall window was last closed

fanVars == <<tach, target>>
timedVars == <<vars, fanVars, gap, excuses>>

-----------------------------------------------------------------------------
(* The fan *)

TimedInit ==
  /\ Init
  /\ tach \in TachReadings /\ target = tach
  /\ gap = 0 /\ excuses = 0

\* MockSmc::tach_slew: towards the register, never past it.
TachSlew(from) ==
  IF target >= from
  THEN IF from + Rate < target THEN from + Rate ELSE target
  ELSE IF from > target + Rate THEN from - Rate ELSE target

\* read_fan: a fan in Manual has moved since the last poll, one in Auto goes
\* wherever the firmware wants it and takes the register along.
FanRead ==
  /\ IF fan_mode = "Manual"
     THEN tach' = TachSlew(tach) /\ UNCHANGED target
     ELSE tach' \in TachReadings /\ target' = tach'
  /\ prev_actual' = tach'

\* A write_speed to `rpm` that verified did so in Manual; one that failed may
\* have reached the register all the same, but not that of a fan in Auto.
SpeedWrite(rpm, verified) ==
  /\ IF verified
     THEN fan_mode = "Manual" /\ target' = rpm
     ELSE target' \in {target} \cup (IF fan_mode = "Manual" THEN {rpm} ELSE {})
  /\ UNCHANGED tach

\* A fan that goes back to the firmware keeps its speed for the moment.
ModeOnly ==
  /\ target' = IF fan_mode = "Manual" /\ fan_mode' = "Auto" THEN tach ELSE target
  /\ UNCHANGED tach

\* Seeded bug: no re-assert either when the controller asked for what is
\* written already.
TrackingSkippedIfRedundant == monitor_only \/ applied \/ want = last_written

\* l1_poll's re-assert is skipped.
TrackingSkipped == monitor_only \/ applied

FanMoves ==
  \/ (L1Reads \/ L1NotOurs) /\ FanRead
  \/ WriteSpeed /\ SpeedWrite(want, applied')
  \/ /\ L1Tracking
     /\ IF TrackingSkipped
        THEN UNCHANGED fanVars
        ELSE SpeedWrite(last_written, write_failures' = write_failures)
  \/ (Startup \/ CmdStep \/ RetryStep \/ SensorsLost \/ SensorsValid \/ EnterManual
      \/ ReturnToAuto \/ L1ReadFails \/ L1ReassertManual \/ L1OnTarget \/ L1Stall
      \/ DegradeToAuto \/ PublishState) /\ ModeOnly

-----------------------------------------------------------------------------
(* The clock *)

\* settle, settle_write: a sleep between every two samples of a window, and
\* the window of the re-issued write.
Settling(window_ms) ==
  (WriteRetryMax + 1) * (SettleSamples - 1) * (window_ms \div SettleSamples)

ModeWindow == Settling(ModeSettleMs)
EchoWindow == Settling(EchoSettleMs)
LongerWindow == IF ModeWindow >= EchoWindow THEN ModeWindow ELSE EchoWindow

\* The most that the writes of one poll can take: a pending release, the taking
\* of the fan, its speed, and the L1 check that finds it taken away again and
\* falls back; or one failed call of act and an L1 check that falls back.
LongestPoll ==
  LET taken == 4 * ModeWindow + EchoWindow
      held  == 2 * ModeWindow + EchoWindow + LongerWindow
  IN  IF taken >= held THEN taken ELSE held

\* The watchdog's budget (MAX_INTERVAL_S, WATCHDOG_UNIT_SEC).
ASSUME BudgetAssumption ==
  /\ IntervalMs + MarginMs <= WatchdogMs
  /\ LongestPoll + MarginMs <= WatchdogMs

ModeWriteNext ==
  \/ pc \in {"release", "return", "enter", "l1mode", "fallback"}
  \/ pc = "retry" /\ auto_restore_pending

SpeedWriteNext ==
  \/ pc = "speed"
  \/ pc = "l1track" /\ last_written # None /\ OffTarget /\ ~TrackingSkipped

\* How long the step at `pc` may last.
Lasts ==
  IF ModeWriteNext THEN Settling(ModeSettleMs)
  ELSE IF SpeedWriteNext THEN Settling(EchoSettleMs) ELSE 0

\* Seeded bug: one ping, at the end of the poll.
PingsAtTheEnd ==
  gap' = IF pc \in StartupSteps THEN 0
         ELSE IF pc = "publish" THEN IntervalMs ELSE gap + Lasts

\* run sends READY and pings for the first time; step_once pings at its start,
\* before the command file, and at its end, before run sleeps.
Pings ==
  gap' = IF pc \in StartupSteps \cup {"cmd"} THEN 0
         ELSE IF pc = "publish" THEN IntervalMs ELSE gap + Lasts

-----------------------------------------------------------------------------
(* Disturbances: the firmware takes the fan, or a write fails.               *)

Count == excuses' = IF excuses < StallPolls THEN excuses + 1 ELSE excuses

WriteFailed == write_failures' > write_failures \/ pc' = "fallback"

\* The stall window is closed.
Closed == pc \in {"l1track", "l1stall"} /\ pc' = "publish" /\ stall_polls' = 0

Excuse ==
  IF Closed THEN excuses' = 0
  ELSE IF WriteFailed THEN Count
  ELSE UNCHANGED excuses

Poll == FanMoves /\ Pings /\ Excuse

Reclaim == FirmwareReclaims /\ ModeOnly /\ Count /\ UNCHANGED gap

Command == ClientWritesCmd /\ UNCHANGED <<fanVars, gap, excuses>>

\* A dead daemon pings nobody, and nobody waits for it.
Dies == Die /\ ModeOnly /\ gap' = 0 /\ UNCHANGED excuses

Restarts == Restart /\ UNCHANGED <<fanVars, gap, excuses>>

TimedNext == Poll \/ Reclaim \/ Command \/ Dies \/ Restarts

TimedSpec == TimedInit /\ [][TimedNext]_timedVars
               /\ WF_timedVars(Poll) /\ WF_timedVars(Restarts)

-----------------------------------------------------------------------------
(* Properties *)

\* The watchdog is never kept waiting longer than the budget less its margin,
\* however many of the writes of one poll fail or settle late.
WatchdogFed == gap + MarginMs <= WatchdogMs

\* A fan that works is not taken for dead: the polls that count against it are
\* one, and two for every time the firmware took it or a write failed since the
\* window was last closed, wherever the commands and the curve send it
\* meanwhile.  (Two: a fan taken right after act wrote stays where it is for
\* another poll, because l1_poll skips the re-assert in favour of that write.
\* One: the first poll of all has no earlier reading to compare with.)
WorkingFanIsNoStall == stall_polls <= 2 * excuses + 1

\* The stall detector gives a fan that works up only after as many disturbances
\* as pay for a whole stall window: no sequence of commands, curve targets and
\* polls does that by itself.
StallFallbackIsExcused ==
  [][L1Stall /\ pc' = "fallback" => StallPolls <= 2 * excuses + 1]_timedVars

-----------------------------------------------------------------------------
(* The inductive invariant of the clock: what a poll has spent by each step  *)

\* The fan is driven, and not being given back.
Driven == manual_armed /\ ~auto_restore_pending

\* What the poll has spent when l1_poll checks a driven fan: it was taken in
\* this poll, and then a speed was written or none ever was, or one call was
\* made.
SpentBeforeL1 ==
  /\ gap <= 2 * ModeWindow + EchoWindow
  /\ applied \/ last_written = None \/ gap <= LongerWindow

SpentBeforeAct ==
  /\ pc = "release" => gap = 0
  /\ pc = "retry" =>
       /\ gap <= 2 * ModeWindow
       /\ mode # Observe => gap = 0
  /\ pc = "decide" =>
       /\ gap <= 3 * ModeWindow
       /\ Controlling => gap <= ModeWindow
       /\ Controlling /\ Driven => gap = 0

SpentInAct ==
  /\ pc = "enter" => gap <= ModeWindow /\ ~manual_armed
  /\ pc = "speed" =>
       /\ gap <= 2 * ModeWindow
       /\ last_written # None /\ Driven => gap = 0
  /\ pc = "return" => gap <= ModeWindow /\ (Driven => gap = 0)

SpentInL1 ==
  /\ pc = "l1" => gap <= 3 * ModeWindow + EchoWindow /\ (Driven => SpentBeforeL1)
  /\ pc = "l1mode" => SpentBeforeL1
  /\ pc = "l1track" =>
       /\ gap <= 4 * ModeWindow + EchoWindow
       /\ \/ last_written = None
          \/ applied /\ gap <= 3 * ModeWindow + EchoWindow
          \/ gap <= LongerWindow + ModeWindow
  /\ pc = "l1stall" =>
       \/ gap <= 3 * ModeWindow + EchoWindow
       \/ gap <= LongerWindow + ModeWindow + EchoWindow
       \/ stall_polls = 0 /\ gap <= LongerWindow + 2 * ModeWindow + EchoWindow
  /\ pc = "publish" => gap <= LongestPoll

SpentBeforeFallback ==
  pc = "fallback" =>
    /\ after = "retry" => gap <= ModeWindow /\ mode = Observe
    /\ after = "l1" => gap <= 2 * ModeWindow + EchoWindow
    /\ after = "l1track" => gap <= 3 * ModeWindow + EchoWindow
    /\ after = "l1stall" => gap <= LongerWindow + ModeWindow + EchoWindow
    /\ after = "publish" => gap + ModeWindow <= LongestPoll

Clock ==
  /\ gap \in Nat
  /\ pc \in StartupSteps \cup {"dead"} => gap = 0
  /\ pc = "cmd" => gap <= IntervalMs
  /\ SpentBeforeAct /\ SpentInAct /\ SpentInL1 /\ SpentBeforeFallback

-----------------------------------------------------------------------------
(* The inductive invariant behind WorkingFanIsNoStall: how often the stall   *)
(* window may still count without a further disturbance                      *)

\* The daemon compares the tach with a speed of its own.
Compared == Driven /\ last_written # None

\* The fan is on its way to that speed, or there already.
Obeys == fan_mode = "Manual" /\ target = last_written

\* A poll that has read the tach will count it: it did not move and is off.
\* The re-assert of that poll makes the fan obey, unless act wrote a speed: then
\* the fan may stand still for one poll more.
DebtInL1 ==
  IF moved \/ ~OffTarget THEN 0
  ELSE IF pc = "l1stall" \/ (pc = "l1track" /\ applied)
       THEN IF Obeys THEN 1 ELSE 2
       ELSE IF applied THEN 2 ELSE 1

\* Before it has, the fan moves if it obeys, and if it does not it owes one poll,
\* or two when act's speed of this poll was lost again.
DebtBeforeL1 == IF Obeys THEN 0 ELSE IF pc = "l1" /\ applied THEN 2 ELSE 1

StallDebt ==
  IF ~Compared \/ pc = "fallback" THEN 0
  ELSE IF pc \in {"l1mode", "l1track", "l1stall"} THEN DebtInL1 ELSE DebtBeforeL1

\* act's speed is forgotten at the end of the poll.
AppliedInPoll ==
  applied =>
    /\ pc \in {"l1", "l1mode", "l1track", "l1stall", "publish", "fallback"}
    /\ after # "retry"

\* The tach is where it was last read, and nothing is counted before that.
TachKnown ==
  /\ tach \in Nat /\ target \in Nat
  /\ prev_actual \in {None, tach}
  /\ prev_actual = None =>
       stall_polls = 0 /\ {pc, after} \cap {"l1mode", "l1track", "l1stall"} = {}

\* l1_poll goes on only with a driven fan; a fallback on the way closes the window.
Checked ==
  /\ pc \in {"l1mode", "l1track"} =>
       Driven \/ (last_written = None /\ stall_polls = 0)
  /\ pc = "l1stall" =>
       \/ Compared /\ OffTarget
       \/ last_written = None /\ stall_polls = 0

StallPaid ==
  /\ excuses \in 0..StallPolls
  /\ stall_polls + StallDebt <= 2 * excuses + 1

StallInv == AppliedInPoll /\ TachKnown /\ Checked /\ StallPaid
=============================================================================
