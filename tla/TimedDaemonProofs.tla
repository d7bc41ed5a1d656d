--------------------------- MODULE TimedDaemonProofs ---------------------------
(*****************************************************************************)
(* Proofs about TimedDaemon, for every length of the settle windows, every   *)
(* interval and every value of Supervisor's constants.                       *)
(*  - The watchdog is fed in time.  Clock says what a poll can have spent by *)
(*    each of its steps; it needs Supervisor's Inv, because a poll cannot do *)
(*    everything at once: a fan that is being given back is not checked, a   *)
(*    fan that is taken anew has no speed to re-assert, and a fallback       *)
(*    leaves nothing to check.                                               *)
(*  - A fan that works is not taken for dead.  StallInv is a budget: what    *)
(*    the stall window has counted, and what the fan may still make it count *)
(*    (StallDebt), is covered by the disturbances so far.                    *)
(*****************************************************************************)
EXTENDS TimedDaemon, SupervisorProofs

-----------------------------------------------------------------------------
(* Settle windows *)

LEMMA SettlingInNat ==
  ASSUME NEW window_ms \in Nat
  PROVE  Settling(window_ms) \in Nat
<1> DEFINE q == window_ms \div SettleSamples
<1>1. q \in Nat
  BY ClockAssumption
<1>2. WriteRetryMax + 1 \in Nat /\ SettleSamples - 1 \in Nat
  BY ClockAssumption
<1>3. (WriteRetryMax + 1) * (SettleSamples - 1) \in Nat
  BY <1>2
<1>. HIDE DEF q
<1>4. ((WriteRetryMax + 1) * (SettleSamples - 1)) * q \in Nat
  BY <1>1, <1>3
<1>. QED
  BY <1>4 DEF Settling, q

LEMMA Windows ==
  /\ ModeWindow \in Nat /\ EchoWindow \in Nat /\ LongerWindow \in Nat
  /\ LongestPoll \in Nat
  /\ ModeWindow <= LongerWindow /\ EchoWindow <= LongerWindow
  /\ LongerWindow = ModeWindow \/ LongerWindow = EchoWindow
  /\ 4 * ModeWindow + EchoWindow <= LongestPoll
  /\ 2 * ModeWindow + EchoWindow + LongerWindow <= LongestPoll
<1>1. ModeWindow \in Nat /\ EchoWindow \in Nat
  BY ClockAssumption, SettlingInNat DEF ModeWindow, EchoWindow
<1>. QED
  BY <1>1 DEF LongerWindow, LongestPoll

-----------------------------------------------------------------------------
(* Every step of the timed daemon is a step of module Supervisor *)

LEMMA TimedStepIsAStep ==
  ASSUME [TimedNext]_timedVars
  PROVE  [Next]_vars
BY DEF TimedNext, Poll, FanMoves, Reclaim, Command, Dies, Restarts, timedVars,
       Next, Daemon, ActStep, L1Step

\* The clock and the fan that works restrict the daemon and add nothing to what
\* it does: every theorem about Supervisor holds of it.
THEOREM TimedDaemonIsADaemon == TimedSpec => Spec
<1>1. TimedInit => Init
  BY DEF TimedInit
<1>2. [TimedNext]_timedVars => [Next]_vars
  BY TimedStepIsAStep
<1>. QED
  BY <1>1, <1>2, PTL DEF TimedSpec, Spec

\* The daemon on a clock, over a fan that moves, implements FanCustody.
THEOREM TimedDaemonKeepsCustody == TimedSpec => KeepsCustody
BY TimedDaemonIsADaemon, Refinement, PTL

LEMMA TimedInv == TimedSpec => []Inv
BY TimedDaemonIsADaemon, Invariance, PTL

-----------------------------------------------------------------------------
(* The clock *)

LEMMA InitClock == TimedInit => Clock
BY ClockAssumption
   DEF TimedInit, Init, Clock, SpentBeforeAct, SpentInAct, SpentInL1,
       SpentBeforeFallback

\* What a step of the poll does to the clock.
LEMMA PingsFacts ==
  ASSUME Clock, Pings
  PROVE  /\ gap' \in Nat
         /\ pc \in StartupSteps \cup {"cmd"} => gap' = 0
         /\ pc = "publish" => gap' = IntervalMs
         /\ pc \in {"release", "return", "enter", "l1mode", "fallback"} =>
              gap' = gap + ModeWindow
         /\ pc = "retry" =>
              gap' = IF auto_restore_pending THEN gap + ModeWindow ELSE gap
         /\ pc = "speed" => gap' = gap + EchoWindow
         /\ pc = "l1track" =>
              gap' = IF last_written # None /\ OffTarget /\ ~TrackingSkipped
                     THEN gap + EchoWindow ELSE gap
         /\ pc \in {"decide", "l1", "l1stall"} => gap' = gap
<1>1. gap \in Nat /\ Lasts \in Nat
  BY Windows DEF Clock, Lasts, ModeWindow, EchoWindow
<1>2. gap' \in Nat
  BY <1>1, ClockAssumption DEF Pings
<1>. QED
  BY <1>1, <1>2
     DEF Pings, Lasts, ModeWriteNext, SpeedWriteNext, ModeWindow, EchoWindow,
         StartupSteps

LEMMA StartupClock ==
  ASSUME Clock, Startup, Pings
  PROVE  Clock'
<1>1. pc \in StartupSteps /\ pc' \in StartupSteps \cup {"cmd"}
  BY DEF Startup, SnapshotInherited, ProbePasses, ProbeFails, ReconcileNothing,
         ReconcileManual, Goto, StartupSteps
<1>2. gap' = 0
  BY <1>1, PingsFacts
<1>. QED
  BY <1>1, <1>2, ClockAssumption
     DEF Clock, SpentBeforeAct, SpentInAct, SpentInL1, SpentBeforeFallback,
         StartupSteps

\* Everything before the release of an observe command costs nothing.
LEMMA CmdClock ==
  ASSUME Inv, Clock, CmdStep, Pings
  PROVE  Clock'
<1> USE Windows DEF Clock, SpentBeforeAct, SpentInAct, SpentInL1,
        SpentBeforeFallback, StartupSteps
<1>1. CASE IgnoreCmdFile \/ RefuseCmd \/ ApplyControlCmd \/ ApplyObserveCmd
  <2>1. pc = "cmd" /\ pc' \in {"release", "retry"} /\ gap' = 0
    BY <1>1, PingsFacts
       DEF IgnoreCmdFile, RefuseCmd, ApplyControlCmd, ApplyObserveCmd, Goto
  <2>. QED
    BY <2>1
<1>2. CASE ReleaseForObserve
  <2>1. /\ pc = "release" /\ gap' = ModeWindow /\ mode' = Observe
        /\ pc' = "retry" \/ (pc' = "fallback" /\ after' = "retry")
    BY <1>2, PingsFacts DEF ReleaseForObserve, FailWrite, Goto
  <2>. QED
    BY <2>1
<1>. QED
  BY <1>1, <1>2 DEF CmdStep

\* A retry that fails leaves the fan pending, one that succeeds leaves it free.
LEMMA RetryClock ==
  ASSUME Inv, Clock, RetryStep, Pings
  PROVE  Clock'
<1> USE Windows DEF Clock, SpentBeforeAct, SpentInAct, SpentInL1,
        SpentBeforeFallback, StartupSteps
<1>1. pc = "retry" /\ pc' = "decide" /\ gap' \in Nat
  BY PingsFacts DEF RetryStep, RetrySkipped, RetrySucceeds, RetryFails, Goto
<1>2. gap' = IF auto_restore_pending THEN gap + ModeWindow ELSE gap
  BY <1>1, PingsFacts
<1>3. /\ UNCHANGED <<mode, monitor_only>>
      /\ auto_restore_pending => ~Driven'
  BY DEF RetryStep, RetrySkipped, RetrySucceeds, RetryFails, intent, ownership,
         Driven
<1>4. gap' <= 3 * ModeWindow
  BY <1>1, <1>2
<1>5. Controlling' => gap' <= ModeWindow /\ (Driven' => gap' = 0)
  BY <1>1, <1>2, <1>3 DEF Controlling
<1>. QED
  BY <1>1, <1>4, <1>5

LEMMA ActClock ==
  ASSUME Inv, Clock, ActStep, Pings
  PROVE  Clock'
<1> USE Windows DEF Clock, SpentBeforeAct, SpentInAct, SpentInL1,
        SpentBeforeFallback, SpentBeforeL1, StartupSteps
<1>1. CASE SensorsLost \/ SensorsValid
  <2>1. /\ pc = "decide" /\ gap' = gap
        /\ pc' \in {"return", "enter", "speed", "l1"}
        /\ pc' # "l1" => Controlling
        /\ pc' = "enter" => ~manual_armed
        /\ UNCHANGED <<manual_armed, auto_restore_pending, last_written, applied>>
    BY <1>1, PingsFacts
       DEF SensorsLost, SensorsValid, WriteControlled, Goto, ownership, locals
  <2>2. Driven => Controlling
    BY DEF Inv, Custody, UndrivenFanIsBeingReleased, Driven
  <2>. QED
    BY <2>1, <2>2 DEF Driven
<1>2. CASE EnterManual
  <2>1. /\ pc = "enter" /\ gap' = gap + ModeWindow /\ gap' \in Nat
        /\ pc' \in {"speed", "l1"} \/ (pc' = "fallback" /\ after' = "l1")
        /\ pc' = "speed" => manual_armed'
    BY <1>2, PingsFacts DEF EnterManual, FailWrite, Goto
  <2>2. last_written' = None
    BY <1>2 DEF EnterManual, Inv, Custody, WrittenOnlyWhileOwned
  <2>3. gap' <= 2 * ModeWindow
    BY <2>1
  <2>. QED
    BY <2>1, <2>2, <2>3
<1>3. CASE WriteSpeed
  <2>1. /\ pc = "speed" /\ gap' = gap + EchoWindow /\ gap' \in Nat
        /\ pc' = "l1" \/ (pc' = "fallback" /\ after' = "l1")
        /\ applied' \/ UNCHANGED last_written
        /\ UNCHANGED <<manual_armed, auto_restore_pending>>
    BY <1>3, PingsFacts DEF WriteSpeed, FailWrite, Goto
  <2>2. gap' <= 2 * ModeWindow + EchoWindow
    BY <2>1
  <2>3. Driven' => applied' \/ last_written' = None \/ gap' <= LongerWindow
    BY <2>1 DEF Driven
  <2>. QED
    BY <2>1, <2>2, <2>3
<1>4. CASE ReturnToAuto
  BY <1>4, PingsFacts DEF ReturnToAuto, FailWrite, Goto, Driven
<1>. QED
  BY <1>1, <1>2, <1>3, <1>4 DEF ActStep

\* l1_poll: a fan that is not driven is only read, and one that is was either
\* taken in this poll, with nothing to re-assert, or cost one call so far.
LEMMA L1Clock ==
  ASSUME Inv, Clock, L1Step, Pings
  PROVE  Clock'
<1> USE Windows DEF Clock, SpentBeforeAct, SpentInAct, SpentInL1,
        SpentBeforeFallback, SpentBeforeL1, StartupSteps
<1>1. CASE L1ReadFails \/ L1NotOurs
  <2>1. /\ pc = "l1" /\ gap' = gap /\ gap' \in Nat
        /\ pc' = "publish" \/ (pc' = "fallback" /\ after' = "publish")
    BY <1>1, PingsFacts DEF L1ReadFails, L1NotOurs, FailWrite, Goto
  <2>2. gap' + ModeWindow <= LongestPoll
    BY <2>1
  <2>. QED
    BY <2>1, <2>2
<1>2. CASE L1Reads
  <2>1. /\ pc = "l1" /\ gap' = gap /\ gap' \in Nat /\ Driven
        /\ pc' \in {"l1mode", "l1track"}
        /\ UNCHANGED <<applied, last_written>>
    BY <1>2, PingsFacts DEF L1Reads, Goto, Driven, ownership
  <2>2. /\ gap' <= 2 * ModeWindow + EchoWindow
        /\ applied' \/ last_written' = None \/ gap' <= LongerWindow
    BY <2>1
  <2>. QED
    BY <2>1, <2>2
<1>3. CASE L1ReassertManual
  <2>1. /\ pc = "l1mode" /\ gap' = gap + ModeWindow /\ gap' \in Nat
        /\ pc' = "l1track" \/ (pc' = "fallback" /\ after' = "l1track")
        /\ UNCHANGED <<applied, last_written>>
    BY <1>3, PingsFacts DEF L1ReassertManual, FailWrite, Goto
  <2>2. /\ gap' <= 3 * ModeWindow + EchoWindow
        /\ applied' \/ last_written' = None \/ gap' <= LongerWindow + ModeWindow
    BY <2>1
  <2>. QED
    BY <2>1, <2>2
<1>4. CASE L1OnTarget
  <2>1. /\ pc = "l1track" /\ gap' = gap /\ gap' \in Nat /\ pc' = "publish"
    BY <1>4, PingsFacts DEF L1OnTarget, L1Verdict, Goto
  <2>2. gap' <= LongestPoll
    BY <2>1
  <2>. QED
    BY <2>1, <2>2
<1>5. CASE L1Tracking
  <2>1. /\ pc = "l1track" /\ last_written # None /\ gap' \in Nat
        /\ gap' = IF monitor_only \/ applied THEN gap ELSE gap + EchoWindow
        /\ pc' = "l1stall" \/ (pc' = "fallback" /\ after' = "l1stall" /\ ~applied)
    BY <1>5, PingsFacts DEF L1Tracking, TrackingSkipped, FailWrite, Goto
  <2>2. CASE applied
    BY <2>1, <2>2
  <2>3. CASE ~applied
    BY <2>1, <2>3
  <2>. QED
    BY <2>2, <2>3
<1>6. CASE L1Stall
  <2>1. pc = "l1stall" /\ gap' = gap /\ gap' \in Nat
    BY <1>6, PingsFacts DEF L1Stall
  <2>2. CASE pc' = "publish"
    BY <2>1, <2>2
  <2>3. CASE pc' = "fallback" /\ after' = "publish"
    <3>1. stall_polls + 1 >= StallPolls
      BY <1>6, <2>3 DEF L1Stall, L1Verdict, Goto
    <3>2. stall_polls # 0
      BY <3>1, FanAssumption, TunablesAssumption
    <3>. QED
      BY <2>1, <2>3, <3>2
  <2>. QED
    BY <1>6, <2>2, <2>3 DEF L1Stall, L1Verdict, Goto
<1>. QED
  BY <1>1, <1>2, <1>3, <1>4, <1>5, <1>6 DEF L1Step

\* After a fallback the fan is not driven, and has no speed to be off from.
LEMMA FallbackClock ==
  ASSUME Inv, Clock, DegradeToAuto, Pings
  PROVE  Clock'
<1> USE Windows DEF Clock, SpentBeforeAct, SpentInAct, SpentInL1,
        SpentBeforeFallback, SpentBeforeL1, StartupSteps
<1>1. /\ pc = "fallback" /\ gap' = gap + ModeWindow /\ gap' \in Nat
      /\ pc' = after /\ after' = "none"
      /\ after \in {"retry", "l1", "l1track", "l1stall", "publish"}
  BY PingsFacts
     DEF DegradeToAuto, Inv, TypeOK, ThreadType, ThreadContext, FallbackContext
<1>2. /\ last_written' = None /\ stall_polls' = 0 /\ ~Driven' /\ mode' = mode
  BY DEF DegradeToAuto, Driven
<1>. QED
  BY <1>1, <1>2

LEMMA PublishClock ==
  ASSUME Clock, PublishState, Pings
  PROVE  Clock'
BY PingsFacts, ClockAssumption
   DEF PublishState, Goto, Clock, SpentBeforeAct, SpentInAct, SpentInL1,
       SpentBeforeFallback, StartupSteps

\* The rest of the world takes none of the daemon's time.
LEMMA WorldClock ==
  ASSUME Clock, Reclaim \/ Command \/ Dies \/ Restarts
  PROVE  Clock'
<1> USE DEF Clock, SpentBeforeAct, SpentInAct, SpentInL1, SpentBeforeFallback,
        SpentBeforeL1, StartupSteps, Driven, Controlling
<1>1. CASE Reclaim \/ Command
  BY <1>1
     DEF Reclaim, Command, FirmwareReclaims, ClientWritesCmd, intent, ownership,
         counters, locals
<1>2. CASE Dies
  BY <1>2 DEF Dies, Die
<1>3. CASE Restarts
  BY <1>3 DEF Restarts, Restart
<1>. QED
  BY <1>1, <1>2, <1>3

LEMMA StepClock == Inv /\ Clock /\ [TimedNext]_timedVars => Clock'
<1> SUFFICES ASSUME Inv, Clock, [TimedNext]_timedVars
             PROVE  Clock'
  OBVIOUS
<1>1. CASE Poll
  <2>1. /\ Pings
        /\ Startup \/ CmdStep \/ RetryStep \/ ActStep \/ L1Step
           \/ DegradeToAuto \/ PublishState
    BY <1>1 DEF Poll, FanMoves, ActStep, L1Step
  <2>. QED
    BY <2>1, StartupClock, CmdClock, RetryClock, ActClock, L1Clock,
       FallbackClock, PublishClock
<1>2. CASE Reclaim \/ Command \/ Dies \/ Restarts
  BY <1>2, WorldClock
<1>3. CASE UNCHANGED timedVars
  BY <1>3
     DEF timedVars, vars, intent, ownership, counters, locals, Clock,
         SpentBeforeAct, SpentInAct, SpentInL1, SpentBeforeFallback,
         SpentBeforeL1, StartupSteps, Driven, Controlling
<1>. QED
  BY <1>1, <1>2, <1>3 DEF TimedNext

THEOREM ClockInvariance == TimedSpec => []Clock
BY InitClock, StepClock, TimedInv, PTL DEF TimedSpec

-----------------------------------------------------------------------------
\* The watchdog is always fed: whatever fails in a poll, and however late it
\* settles, the pings are never further apart than the interval or the longest
\* poll, whichever is longer, and the budget leaves its margin beyond both.
THEOREM WatchdogAlwaysFed == TimedSpec => []WatchdogFed
<1>1. Clock /\ Inv => WatchdogFed
  <2> SUFFICES ASSUME Clock, Inv
               PROVE  WatchdogFed
    OBVIOUS
  <2>1. gap \in Nat /\ (gap <= IntervalMs \/ gap <= LongestPoll)
    <3>1. pc \in Steps
      BY DEF Inv, TypeOK, ThreadType
    <3>2. pc = "fallback" =>
            after \in {"retry", "l1", "l1track", "l1stall", "publish"}
      BY DEF Inv, TypeOK, ThreadType, ThreadContext, FallbackContext
    <3>. QED
      BY <3>1, <3>2, Windows, ClockAssumption
         DEF Steps, PollSteps, StartupSteps, Clock, SpentBeforeAct, SpentInAct,
             SpentInL1, SpentBeforeL1, SpentBeforeFallback
  <2>. QED
    BY <2>1, Windows, ClockAssumption, BudgetAssumption DEF WatchdogFed
<1>. QED
  BY <1>1, ClockInvariance, TimedInv, PTL

-----------------------------------------------------------------------------
(* The stall window *)

LEMMA DebtBound == StallDebt \in 0..2 /\ StallDebt' \in 0..2
BY DEF StallDebt, DebtInL1, DebtBeforeL1

\* Arithmetic of the budget: s counted, d owed, e excused.
LEMMA BudgetGrows ==
  ASSUME NEW s \in Nat, NEW s1 \in Nat, NEW d \in Nat, NEW d1 \in Nat, NEW e \in Nat,
         s + d <= 2 * e + 1, s1 <= s, d1 <= 2
  PROVE  s1 + d1 <= 2 * (e + 1) + 1
OBVIOUS

LEMMA BudgetFull ==
  ASSUME NEW s \in Nat, NEW d \in Nat, NEW e \in Nat, s < e, d <= 2
  PROVE  s + d <= 2 * e + 1
OBVIOUS

LEMMA BudgetKept ==
  ASSUME NEW s \in Nat, NEW s1 \in Nat, NEW d \in Nat, NEW d1 \in Nat, NEW e \in Nat,
         s + d <= 2 * e + 1, s1 + d1 <= s + d
  PROVE  s1 + d1 <= 2 * e + 1
OBVIOUS

LEMMA BudgetFresh ==
  ASSUME NEW s \in Nat, NEW d \in Nat, NEW e \in Nat, s + d <= 1
  PROVE  s + d <= 2 * e + 1
OBVIOUS

LEMMA StallTypes ==
  ASSUME Inv, StallPaid
  PROVE  /\ stall_polls \in Nat /\ stall_polls < StallPolls
         /\ StallPolls \in Nat /\ excuses \in Nat /\ excuses <= StallPolls
         /\ StallDebt \in Nat
         /\ stall_polls + StallDebt <= 2 * excuses + 1
BY TunablesAssumption, DebtBound DEF Inv, TypeOK, CountersType, StallPaid

LEMMA NextTypes ==
  ASSUME Inv'
  PROVE  /\ stall_polls' \in Nat /\ stall_polls' < StallPolls
         /\ StallDebt' \in Nat /\ StallDebt' <= 2
BY TunablesAssumption, DebtBound DEF Inv, TypeOK, CountersType

\* A disturbance pays for everything the fan may owe after it.
LEMMA CountPays ==
  ASSUME Inv, Inv', StallPaid, Count, stall_polls' <= stall_polls
  PROVE  StallPaid'
<1>1. CASE excuses < StallPolls
  <2>1. excuses' = excuses + 1
    BY <1>1 DEF Count
  <2>2. stall_polls' + StallDebt' <= 2 * excuses' + 1
    BY <2>1, StallTypes, NextTypes, BudgetGrows
  <2>. QED
    BY <1>1, <2>1, <2>2, StallTypes DEF StallPaid
<1>2. CASE excuses = StallPolls
  <2>1. excuses' = excuses
    BY <1>2, StallTypes DEF Count
  <2>2. stall_polls' + StallDebt' <= 2 * excuses' + 1
    BY <1>2, <2>1, StallTypes, NextTypes, BudgetFull
  <2>. QED
    BY <1>2, <2>1, <2>2, StallTypes DEF StallPaid
<1>. QED
  BY <1>1, <1>2, StallTypes

\* What is counted and owed together may not grow by itself.
LEMMA QuietStep ==
  ASSUME Inv, Inv', StallPaid, UNCHANGED excuses,
         stall_polls' + StallDebt' <= stall_polls + StallDebt
  PROVE  StallPaid'
<1>1. stall_polls' + StallDebt' <= 2 * excuses' + 1
  BY StallTypes, NextTypes, BudgetKept
<1>. QED
  BY <1>1, StallTypes DEF StallPaid

\* A step that leaves the count of the window alone owes nothing new, unless a
\* write failed.
LEMMA PaidStep ==
  ASSUME Inv, Inv', StallPaid, Excuse, stall_polls' <= stall_polls, ~Closed,
         ~WriteFailed => StallDebt' <= StallDebt
  PROVE  StallPaid'
<1>1. CASE WriteFailed
  BY <1>1, CountPays DEF Excuse
<1>2. CASE ~WriteFailed
  <2>1. excuses' = excuses /\ StallDebt' <= StallDebt
    BY <1>2 DEF Excuse
  <2>2. stall_polls' + StallDebt' <= stall_polls + StallDebt
    BY <2>1, StallTypes, NextTypes
  <2>. QED
    BY <2>1, <2>2, QuietStep
<1>. QED
  BY <1>1, <1>2

\* Whatever is excused, one poll is free.
LEMMA FreshStep ==
  ASSUME Inv, Inv', StallPaid, Excuse, stall_polls' + StallDebt' <= 1
  PROVE  StallPaid'
<1>1. excuses' \in Nat /\ excuses' <= StallPolls
  BY StallTypes DEF Excuse, Count
<1>2. stall_polls' + StallDebt' <= 2 * excuses' + 1
  BY <1>1, NextTypes, BudgetFresh
<1>. QED
  BY <1>1, <1>2, StallTypes DEF StallPaid

\* A failed write is a disturbance.
LEMMA FailureCounts ==
  ASSUME Inv, NEW step, FailWrite(step)
  PROVE  WriteFailed
BY TunablesAssumption DEF FailWrite, WriteFailed, Inv, TypeOK, CountersType

\* Outside of the end of l1_poll nothing closes the window.
LEMMA OpenWindow ==
  ASSUME pc \notin {"l1track", "l1stall"}
  PROVE  ~Closed
BY DEF Closed

LEMMA InitStall == TimedInit => StallInv
<1> SUFFICES ASSUME TimedInit
             PROVE  StallInv
  OBVIOUS
<1>1. /\ tach \in Nat /\ target = tach
      /\ excuses = 0 /\ stall_polls = 0 /\ ~manual_armed /\ ~applied
      /\ prev_actual = None /\ pc = "boot" /\ after = "none"
  BY BandAssumption DEF TimedInit, Init
<1>. QED
  BY <1>1, TunablesAssumption
     DEF StallInv, AppliedInPoll, TachKnown, Checked, StallPaid, StallDebt, Compared,
         Driven

\* The steps before act: they keep or give up the fan and leave its speed alone.
LEMMA EarlyStall ==
  ASSUME Inv, Inv', StallInv, ModeOnly, Excuse, Startup \/ CmdStep \/ RetryStep
  PROVE  StallInv'
<1>1. /\ pc \in StartupSteps \cup {"cmd", "release", "retry"}
      /\ pc' \in StartupSteps \cup {"cmd", "release", "retry", "decide", "fallback"}
      /\ after' \in {after, "retry"}
      /\ UNCHANGED <<applied, prev_actual, moved>>
      /\ stall_polls' \in {stall_polls, 0}
  BY DEF Startup, SnapshotInherited, ProbePasses, ProbeFails, ReconcileNothing,
         ReconcileManual, DegradeStartupToObserve, CmdStep, IgnoreCmdFile, RefuseCmd,
         ApplyControlCmd, ApplyObserveCmd, ReleaseForObserve, RetryStep, RetrySkipped,
         RetrySucceeds, RetryFails, Goto, FailWrite, locals, counters, StartupSteps
<1>2. Compared' => /\ Compared /\ UNCHANGED <<fan_mode, last_written>>
                   /\ pc \notin StartupSteps
  <2>1. CASE Startup
    <3>1. ~manual_armed'
      BY <2>1
         DEF Startup, SnapshotInherited, ProbePasses, ProbeFails, ReconcileNothing,
             ReconcileManual, DegradeStartupToObserve, ownership, Inv, ThreadContext,
             StartupOwnsNothing, StartupSteps
    <3>. QED
      BY <3>1 DEF Compared, Driven
  <2>2. CASE CmdStep
    <3>1. CASE ReleaseForObserve
      BY <3>1 DEF ReleaseForObserve, Compared, Driven
    <3>2. CASE ApplyControlCmd
      BY <3>2
         DEF ApplyControlCmd, Compared, Driven, machine, Inv, Custody,
             WrittenOnlyWhileOwned, StartupSteps
    <3>3. CASE IgnoreCmdFile \/ RefuseCmd \/ ApplyObserveCmd
      BY <3>3
         DEF IgnoreCmdFile, RefuseCmd, ApplyObserveCmd, Compared, Driven, machine,
             ownership, StartupSteps
    <3>. QED
      BY <2>2, <3>1, <3>2, <3>3 DEF CmdStep
  <2>3. CASE RetryStep
    BY <2>3
       DEF RetryStep, RetrySkipped, RetrySucceeds, RetryFails, Compared, Driven,
           machine, ownership, StartupSteps
  <2>. QED
    BY <2>1, <2>2, <2>3
<1>3. tach' = tach /\ target' \in {target, tach}
      /\ (fan_mode' = fan_mode => target' = target)
  BY DEF ModeOnly
<1>4. (AppliedInPoll /\ TachKnown /\ Checked)'
  BY <1>1, <1>3 DEF StallInv, AppliedInPoll, TachKnown, Checked, StartupSteps
<1>5. StallDebt' <= StallDebt
  <2>1. CASE Compared' /\ pc' # "fallback"
    <3>1. StallDebt' = DebtBeforeL1' /\ StallDebt = DebtBeforeL1
      BY <1>1, <1>2, <2>1 DEF StallDebt, StartupSteps
    <3>2. DebtBeforeL1' = (IF Obeys' THEN 0 ELSE 1) /\ DebtBeforeL1 = (IF Obeys THEN 0 ELSE 1)
      BY <1>1, <1>2, <2>1 DEF DebtBeforeL1, StartupSteps
    <3>3. Obeys' = Obeys
      BY <1>2, <1>3, <2>1 DEF Obeys
    <3>. QED
      BY <3>1, <3>2, <3>3
  <2>2. CASE ~(Compared' /\ pc' # "fallback")
    <3>1. StallDebt' = 0
      BY <2>2 DEF StallDebt
    <3>. QED
      BY <3>1, DebtBound
  <2>. QED
    BY <2>1, <2>2
<1>6. stall_polls' <= stall_polls
  BY <1>1, TunablesAssumption DEF Inv, TypeOK, CountersType
<1>7. ~Closed
  BY <1>1, OpenWindow DEF StartupSteps
<1>8. StallPaid'
  BY <1>5, <1>6, <1>7, PaidStep DEF StallInv
<1>. QED
  BY <1>4, <1>8 DEF StallInv

\* act: a speed that verified makes the fan obey.
LEMMA ActStall ==
  ASSUME Inv, Inv', Clock, StallInv, Excuse,
         \/ (SensorsLost \/ SensorsValid \/ EnterManual \/ ReturnToAuto) /\ ModeOnly
         \/ WriteSpeed /\ SpeedWrite(want, applied')
  PROVE  StallInv'
<1>1. /\ pc \in {"decide", "enter", "speed", "return"}
      /\ pc' \in {"enter", "speed", "return", "l1", "fallback"}
      /\ after' \in {after, "l1"}
      /\ UNCHANGED <<prev_actual, stall_polls>>
      /\ applied' => pc' \in {"l1", "fallback"}
      /\ ~applied /\ after = "none"
  BY DEF SensorsLost, SensorsValid, WriteControlled, EnterManual, ReturnToAuto,
         WriteSpeed, Goto, FailWrite, locals, counters, StallInv, AppliedInPoll,
         Inv, ThreadContext, FallbackContext
<1>2. tach' = tach /\ target' \in Nat
  <2>1. CASE ModeOnly
    BY <2>1 DEF ModeOnly, StallInv, TachKnown
  <2>2. CASE WriteSpeed /\ SpeedWrite(want, applied')
    <3>1. want \in Nat
      BY <2>2 DEF WriteSpeed, Inv, ThreadContext, CallContext
    <3>. QED
      BY <2>2, <3>1 DEF SpeedWrite, StallInv, TachKnown
  <2>. QED
    BY <2>1, <2>2
<1>3. (AppliedInPoll /\ TachKnown /\ Checked)'
  BY <1>1, <1>2 DEF StallInv, AppliedInPoll, TachKnown, Checked
<1>4. ~WriteFailed => StallDebt' <= StallDebt
  <2>a. CASE ~(Compared' /\ pc' # "fallback")
    <3>1. StallDebt' = 0
      BY <2>a DEF StallDebt
    <3>. QED
      BY <3>1, DebtBound
  <2>0. SUFFICES ASSUME ~WriteFailed, Compared', pc' # "fallback"
                 PROVE  StallDebt' <= StallDebt
    BY <2>a
  <2>1. CASE (SensorsLost \/ SensorsValid) /\ ModeOnly
    <3>1. UNCHANGED <<fan_mode, target, manual_armed, auto_restore_pending,
                      last_written, applied>>
      BY <2>1 DEF SensorsLost, SensorsValid, ModeOnly, machine, ownership, locals
    <3>2. Compared /\ Obeys' = Obeys
      BY <2>0, <3>1 DEF Compared, Driven, Obeys
    <3>3. StallDebt' = DebtBeforeL1' /\ StallDebt = DebtBeforeL1
      BY <1>1, <2>0, <3>2 DEF StallDebt
    <3>4. DebtBeforeL1' = (IF Obeys' THEN 0 ELSE 1) /\ DebtBeforeL1 = (IF Obeys THEN 0 ELSE 1)
      BY <1>1, <3>1 DEF DebtBeforeL1
    <3>. QED
      BY <3>2, <3>3, <3>4
  <2>2. CASE EnterManual
    <3>1. last_written' = None
      BY <2>2
         DEF EnterManual, Clock, SpentInAct, Inv, Custody, WrittenOnlyWhileOwned
    <3>. QED
      BY <2>0, <3>1 DEF Compared
  <2>3. CASE ReturnToAuto
    BY <2>0, <2>3, FailureCounts DEF ReturnToAuto, Compared, Driven
  <2>4. CASE WriteSpeed /\ SpeedWrite(want, applied')
    <3>1. applied' /\ last_written' = want /\ fan_mode' = fan_mode
      BY <2>0, <2>4, FailureCounts DEF WriteSpeed, machine
    <3>2. Obeys' /\ pc' = "l1"
      BY <2>0, <2>4, <3>1, FailureCounts DEF SpeedWrite, Obeys, WriteSpeed, Goto
    <3>. QED
      BY <3>2, DebtBound DEF StallDebt, DebtBeforeL1
  <2>. QED
    BY <2>1, <2>2, <2>3, <2>4
<1>5. stall_polls' <= stall_polls
  BY <1>1, TunablesAssumption DEF Inv, TypeOK, CountersType
<1>6. ~Closed
  BY <1>1, OpenWindow
<1>7. StallPaid'
  BY <1>4, <1>5, <1>6, PaidStep DEF StallInv
<1>. QED
  BY <1>3, <1>7 DEF StallInv

-----------------------------------------------------------------------------
(* The stall window: l1_poll *)

\* A fan that obeys and did not move is where it was sent.
LEMMA SlewArrives ==
  ASSUME NEW from \in Nat, target \in Nat,
         ~(AbsDiff(TachSlew(from), from) > StallEpsilon)
  PROVE  TachSlew(from) = target
BY FanAssumption, TunablesAssumption DEF TachSlew, AbsDiff

LEMMA ReadFailsStall ==
  ASSUME Inv, Inv', StallInv, L1ReadFails, ModeOnly, Excuse
  PROVE  StallInv'
<1>1. /\ pc = "l1" /\ pc' \in {"publish", "fallback"}
      /\ after' \in {after, "publish"}
      /\ UNCHANGED <<applied, prev_actual, stall_polls>>
  BY DEF L1ReadFails, FailWrite, Goto
<1>2. tach' = tach /\ target' \in Nat
  BY DEF ModeOnly, StallInv, TachKnown
<1>3. (AppliedInPoll /\ TachKnown /\ Checked)'
  BY <1>1, <1>2 DEF StallInv, AppliedInPoll, TachKnown, Checked
<1>4. WriteFailed
  BY FailureCounts DEF L1ReadFails
<1>5. stall_polls' <= stall_polls /\ ~Closed
  BY <1>1, OpenWindow, StallTypes DEF StallInv
<1>6. StallPaid'
  BY <1>4, <1>5, PaidStep DEF StallInv
<1>. QED
  BY <1>3, <1>6 DEF StallInv

LEMMA NotOursStall ==
  ASSUME Inv, Inv', StallInv, L1NotOurs, FanRead, Excuse
  PROVE  StallInv'
<1>1. /\ pc = "l1" /\ pc' = "publish" /\ after' = after
      /\ stall_polls' \in {stall_polls, 0}
      /\ UNCHANGED <<manual_armed, auto_restore_pending, last_written, applied>>
      /\ ~manual_armed \/ auto_restore_pending
  BY DEF L1NotOurs, Goto, ownership, locals
<1>2. tach' \in Nat /\ target' \in Nat /\ prev_actual' = tach'
  BY BandAssumption DEF L1NotOurs, FanRead, StallInv, TachKnown
<1>3. (AppliedInPoll /\ TachKnown /\ Checked)'
  BY <1>1, <1>2, BandAssumption DEF StallInv, AppliedInPoll, TachKnown, Checked
<1>4. StallDebt' = 0
  BY <1>1 DEF StallDebt, Compared, Driven
<1>5. stall_polls' <= stall_polls /\ ~Closed /\ StallDebt' <= StallDebt
  BY <1>1, <1>4, OpenWindow, StallTypes DEF StallInv
<1>6. StallPaid'
  BY <1>5, PaidStep DEF StallInv
<1>. QED
  BY <1>3, <1>6 DEF StallInv

\* The read of a driven fan: one that obeys has moved or has arrived.
LEMMA ReadsStall ==
  ASSUME Inv, Inv', StallInv, L1Reads, FanRead, Excuse
  PROVE  StallInv'
<1>1. /\ pc = "l1" /\ pc' \in {"l1mode", "l1track"} /\ after' = after
      /\ pc' = "l1track" <=> fan_mode = "Manual"
      /\ UNCHANGED <<fan_mode, manual_armed, auto_restore_pending, last_written,
                     applied, stall_polls>>
      /\ manual_armed /\ ~auto_restore_pending
  BY DEF L1Reads, Goto, ownership, machine, counters
<1>2. /\ prev_actual' = tach' /\ tach' \in Nat /\ target' \in Nat
      /\ moved' = (prev_actual # None /\ AbsDiff(tach', prev_actual) > StallEpsilon)
  BY BandAssumption DEF L1Reads, FanRead, StallInv, TachKnown
<1>3. (AppliedInPoll /\ TachKnown /\ Checked)'
  BY <1>1, <1>2, BandAssumption
     DEF StallInv, AppliedInPoll, TachKnown, Checked, Driven
<1>4. stall_polls' <= stall_polls /\ ~Closed
  BY <1>1, OpenWindow, StallTypes DEF StallInv
<1>5. CASE last_written = None
  <2>1. StallDebt' = 0
    BY <1>1, <1>5 DEF StallDebt, Compared
  <2>. QED
    BY <1>3, <1>4, <2>1, StallTypes, PaidStep DEF StallInv
<1>6. CASE last_written # None
  <2>1. StallDebt = DebtBeforeL1 /\ StallDebt' = DebtInL1'
    BY <1>1, <1>6 DEF StallDebt, Compared, Driven
  <2>2. CASE ~Obeys
    <3>1. DebtBeforeL1 = IF applied THEN 2 ELSE 1
      BY <1>1, <2>2 DEF DebtBeforeL1
    <3>2. DebtInL1' <= IF applied THEN 2 ELSE 1
      BY <1>1 DEF DebtInL1
    <3>. QED
      BY <1>3, <1>4, <2>1, <3>1, <3>2, PaidStep DEF StallInv
  <2>3. CASE Obeys /\ prev_actual = None
    <3>1. pc' = "l1track" /\ stall_polls' = 0
      BY <1>1, <2>3 DEF Obeys, StallInv, TachKnown
    <3>2. Obeys'
      BY <1>1, <2>3 DEF Obeys, FanRead
    <3>3. DebtInL1' <= 1
      BY <3>1, <3>2 DEF DebtInL1
    <3>4. stall_polls' + StallDebt' <= 1
      BY <2>1, <3>1, <3>3, NextTypes
    <3>. QED
      BY <1>3, <3>4, FreshStep DEF StallInv
  <2>4. CASE Obeys /\ prev_actual # None
    <3>1. tach' = TachSlew(tach) /\ target = last_written /\ prev_actual = tach
      BY <2>4 DEF Obeys, FanRead, StallInv, TachKnown
    <3>2. ~moved' => tach' = target
      BY <1>2, <2>4, <3>1, SlewArrives DEF StallInv, TachKnown
    <3>3. ~moved' => ~OffTarget'
      BY <1>1, <1>2, <3>1, <3>2, TunablesAssumption DEF OffTarget, AbsDiff
    <3>4. DebtInL1' = 0
      BY <3>3 DEF DebtInL1
    <3>. QED
      BY <1>3, <1>4, <2>1, <3>4, StallTypes, PaidStep DEF StallInv
  <2>. QED
    BY <2>2, <2>3, <2>4
<1>. QED
  BY <1>5, <1>6

LEMMA ReassertStall ==
  ASSUME Inv, Inv', StallInv, L1ReassertManual, ModeOnly, Excuse
  PROVE  StallInv'
<1>1. /\ pc = "l1mode" /\ pc' \in {"l1track", "fallback"}
      /\ after' \in {after, "l1track"}
      /\ UNCHANGED <<auto_restore_pending, last_written, applied, moved, prev_actual,
                     stall_polls>>
      /\ manual_armed => manual_armed'
  BY DEF L1ReassertManual, FailWrite, Goto
<1>2. tach' = tach /\ target' \in Nat
  BY DEF ModeOnly, StallInv, TachKnown
<1>3. (AppliedInPoll /\ TachKnown /\ Checked)'
  BY <1>1, <1>2 DEF StallInv, AppliedInPoll, TachKnown, Checked, Driven
<1>4. stall_polls' <= stall_polls /\ ~Closed
  BY <1>1, OpenWindow, StallTypes DEF StallInv
<1>5. ~WriteFailed => StallDebt' <= StallDebt
  <2>1. CASE WriteFailed
    BY <2>1
  <2>2. CASE ~Compared'
    <3>1. StallDebt' = 0
      BY <2>2 DEF StallDebt
    <3>. QED
      BY <3>1, StallTypes DEF StallInv
  <2>3. CASE ~WriteFailed /\ Compared'
    <3>1. pc' = "l1track"
      BY <2>3, FailureCounts DEF L1ReassertManual, Goto
    <3>2. Compared
      BY <1>1, <2>3 DEF Compared, StallInv, Checked
    <3>3. StallDebt = DebtInL1 /\ StallDebt' = DebtInL1'
      BY <1>1, <2>3, <3>1, <3>2 DEF StallDebt
    <3>4. OffTarget' = OffTarget
      BY <1>1 DEF OffTarget
    <3>. QED
      BY <1>1, <3>1, <3>3, <3>4 DEF DebtInL1
  <2>. QED
    BY <2>1, <2>2, <2>3
<1>6. StallPaid'
  BY <1>4, <1>5, PaidStep DEF StallInv
<1>. QED
  BY <1>3, <1>6 DEF StallInv

LEMMA OnTargetStall ==
  ASSUME Inv, Inv', StallInv, L1OnTarget, ModeOnly, Excuse
  PROVE  StallInv'
<1>1. /\ pc = "l1track" /\ pc' = "publish" /\ after' = after
      /\ UNCHANGED <<last_written, applied, prev_actual>>
  BY DEF L1OnTarget, L1Verdict, Goto, ownership, locals
<1>2. tach' = tach /\ target' \in Nat
  BY DEF ModeOnly, StallInv, TachKnown
<1>3. (AppliedInPoll /\ TachKnown /\ Checked)'
  BY <1>1, <1>2 DEF StallInv, AppliedInPoll, TachKnown, Checked
<1>4. CASE last_written = None
  <2>1. StallDebt' = 0 /\ stall_polls' = stall_polls
    BY <1>1, <1>4 DEF StallDebt, Compared, L1OnTarget
  <2>2. CASE Closed
    <3>1. stall_polls' + StallDebt' <= 1
      BY <2>1, <2>2 DEF Closed
    <3>. QED
      BY <1>3, <3>1, FreshStep DEF StallInv
  <2>3. CASE ~Closed
    BY <1>3, <2>1, <2>3, StallTypes, PaidStep DEF StallInv
  <2>. QED
    BY <2>2, <2>3
<1>5. CASE last_written # None
  <2>1. stall_polls' = 0 /\ StallDebt' <= 1
    BY <1>1, <1>5 DEF L1OnTarget, StallDebt, DebtBeforeL1
  <2>2. stall_polls' + StallDebt' <= 1
    BY <2>1, NextTypes
  <2>. QED
    BY <1>3, <2>2, FreshStep DEF StallInv
<1>. QED
  BY <1>4, <1>5

\* A re-assert that verified makes the fan obey.
LEMMA TrackingStall ==
  ASSUME Inv, Inv', StallInv, L1Tracking, Excuse,
         IF TrackingSkipped
         THEN UNCHANGED fanVars
         ELSE SpeedWrite(last_written, write_failures' = write_failures)
  PROVE  StallInv'
<1>1. /\ pc = "l1track" /\ pc' \in {"l1stall", "fallback"}
      /\ after' \in {after, "l1stall"}
      /\ UNCHANGED <<fan_mode, manual_armed, auto_restore_pending, last_written,
                     applied, moved, prev_actual, stall_polls>>
      /\ last_written # None /\ OffTarget
  BY DEF L1Tracking, FailWrite, Goto, ownership, machine
<1>2. tach' = tach /\ target' \in Nat
  BY <1>1
     DEF SpeedWrite, fanVars, StallInv, TachKnown, Inv, TypeOK, FieldsType
<1>3. OffTarget'
  BY <1>1 DEF OffTarget
<1>4. (AppliedInPoll /\ TachKnown /\ Checked)'
  BY <1>1, <1>2, <1>3 DEF StallInv, AppliedInPoll, TachKnown, Checked, Compared, Driven
<1>5. stall_polls' <= stall_polls /\ ~Closed
  BY <1>1, StallTypes DEF Closed, StallInv
<1>6. Compared /\ Compared'
  BY <1>1 DEF Compared, Driven, StallInv, Checked
<1>7. ~WriteFailed => StallDebt' <= StallDebt
  <2>1. CASE WriteFailed
    BY <2>1
  <2>2. CASE ~WriteFailed
    <3>1. pc' = "l1stall" /\ write_failures' = write_failures
      BY <2>2, FailureCounts DEF L1Tracking, Goto
    <3>2. StallDebt = DebtInL1 /\ StallDebt' = DebtInL1'
      BY <1>1, <1>6, <3>1 DEF StallDebt
    <3>3. CASE moved
      <4>1. DebtInL1' = 0
        BY <1>1, <3>3 DEF DebtInL1
      <4>. QED
        BY <3>2, <4>1, StallTypes DEF StallInv
    <3>4. CASE ~moved /\ applied
      <4>1. Obeys' = Obeys
        BY <1>1, <3>4 DEF TrackingSkipped, fanVars, Obeys
      <4>. QED
        BY <1>1, <1>3, <3>1, <3>2, <3>4, <4>1 DEF DebtInL1
    <3>5. CASE ~moved /\ ~applied
      <4>1. ~TrackingSkipped
        BY <1>1, <3>5
           DEF TrackingSkipped, Inv, Custody, ControlWriteEntitled, ControlWriteNext,
               Controlling
      <4>2. Obeys'
        BY <1>1, <3>1, <4>1 DEF SpeedWrite, Obeys
      <4>. QED
        BY <1>1, <1>3, <3>1, <3>2, <3>5, <4>2 DEF DebtInL1
    <3>. QED
      BY <3>3, <3>4, <3>5
  <2>. QED
    BY <2>1, <2>2
<1>8. StallPaid'
  BY <1>5, <1>7, PaidStep DEF StallInv
<1>. QED
  BY <1>4, <1>8 DEF StallInv

\* A poll that counts has one less to come.
LEMMA CountingStall ==
  ASSUME Inv, Inv', StallInv, L1Stall, ModeOnly, Excuse
  PROVE  StallInv'
<1>1. /\ pc = "l1stall" /\ pc' \in {"publish", "fallback"}
      /\ after' \in {after, "publish"}
      /\ UNCHANGED <<fan_mode, manual_armed, auto_restore_pending, last_written,
                     applied, moved, prev_actual>>
  BY DEF L1Stall, L1Verdict, Goto, ownership, machine
<1>2. tach' = tach /\ target' = target
  BY <1>1 DEF ModeOnly
<1>3. (AppliedInPoll /\ TachKnown /\ Checked)'
  BY <1>1, <1>2 DEF StallInv, AppliedInPoll, TachKnown, Checked
<1>4. CASE pc' = "fallback"
  <2>1. stall_polls' = 0 /\ ~Closed /\ WriteFailed
    BY <1>4 DEF L1Stall, L1Verdict, Goto, Closed, WriteFailed
  <2>2. StallPaid'
    BY <2>1, StallTypes, PaidStep DEF StallInv
  <2>. QED
    BY <1>3, <2>2 DEF StallInv
<1>5. CASE pc' = "publish" /\ (moved \/ last_written = None)
  <2>1. StallDebt' <= 1 /\ (last_written = None => StallDebt' = 0)
    BY <1>1, <1>5 DEF StallDebt, DebtBeforeL1, Compared
  <2>2. IF moved THEN stall_polls' = 0 ELSE stall_polls' = stall_polls + 1
    BY <1>5 DEF L1Stall
  <2>3. last_written = None => stall_polls = 0
    BY <1>1 DEF StallInv, Checked, Compared
  <2>4. stall_polls' + StallDebt' <= 1
    BY <1>5, <2>1, <2>2, <2>3, NextTypes
  <2>. QED
    BY <1>3, <2>4, FreshStep DEF StallInv
<1>6. CASE pc' = "publish" /\ ~moved /\ last_written # None
  <2>1. stall_polls' = stall_polls + 1
    BY <1>6 DEF L1Stall
  <2>2. ~Closed /\ ~WriteFailed
    BY <1>6, <2>1, StallTypes
       DEF Closed, WriteFailed, L1Stall, L1Verdict, StallInv, Inv, TypeOK, CountersType
  <2>3. Compared /\ Compared' /\ OffTarget
    BY <1>1, <1>6 DEF Compared, Driven, StallInv, Checked
  <2>4. Obeys' = Obeys
    BY <1>1, <1>2 DEF Obeys
  <2>5. StallDebt = IF Obeys THEN 1 ELSE 2
    BY <1>1, <1>6, <2>3 DEF StallDebt, DebtInL1
  <2>6. StallDebt' = IF Obeys THEN 0 ELSE 1
    BY <1>6, <2>3, <2>4 DEF StallDebt, DebtBeforeL1
  <2>7. stall_polls' + StallDebt' <= stall_polls + StallDebt
    BY <2>1, <2>5, <2>6, StallTypes DEF StallInv
  <2>8. UNCHANGED excuses
    BY <2>2 DEF Excuse
  <2>. QED
    BY <1>3, <2>7, <2>8, QuietStep DEF StallInv
<1>. QED
  BY <1>1, <1>4, <1>5, <1>6

-----------------------------------------------------------------------------
(* The stall window: the rest of the steps *)

\* A fallback forgets the window and whatever the fan owes to it.
LEMMA FallbackStall ==
  ASSUME Inv, Inv', StallInv, DegradeToAuto, ModeOnly, Excuse
  PROVE  StallInv'
<1>1. /\ pc = "fallback" /\ pc' = after /\ after' = "none"
      /\ after \in {"retry", "l1", "l1track", "l1stall", "publish"}
      /\ stall_polls' = 0 /\ last_written' = None
      /\ UNCHANGED <<applied, prev_actual>>
  BY DEF DegradeToAuto, locals, Inv, TypeOK, ThreadType, ThreadContext, FallbackContext
<1>2. tach' = tach /\ target' \in Nat
  BY DEF ModeOnly, StallInv, TachKnown
<1>3. (AppliedInPoll /\ TachKnown /\ Checked)'
  BY <1>1, <1>2 DEF StallInv, AppliedInPoll, TachKnown, Checked
<1>4. StallDebt' = 0
  BY <1>1 DEF StallDebt, Compared
<1>5. stall_polls' <= stall_polls /\ StallDebt' <= StallDebt /\ ~Closed
  BY <1>1, <1>4, OpenWindow, StallTypes DEF StallInv
<1>6. StallPaid'
  BY <1>5, PaidStep DEF StallInv
<1>. QED
  BY <1>3, <1>6 DEF StallInv

LEMMA PublishStall ==
  ASSUME Inv, Inv', StallInv, PublishState, ModeOnly, Excuse
  PROVE  StallInv'
<1>1. /\ pc = "publish" /\ pc' = "cmd" /\ after' = after /\ ~applied'
      /\ UNCHANGED <<fan_mode, manual_armed, auto_restore_pending, last_written,
                     prev_actual, stall_polls>>
  BY DEF PublishState, Goto, machine, ownership, counters
<1>2. tach' = tach /\ target' = target
  BY <1>1 DEF ModeOnly
<1>3. (AppliedInPoll /\ TachKnown /\ Checked)'
  BY <1>1, <1>2 DEF StallInv, AppliedInPoll, TachKnown, Checked
<1>4. StallDebt' = StallDebt
  <2>1. Compared' = Compared /\ Obeys' = Obeys
    BY <1>1, <1>2 DEF Compared, Driven, Obeys
  <2>2. DebtBeforeL1' = DebtBeforeL1
    BY <1>1, <2>1 DEF DebtBeforeL1
  <2>. QED
    BY <1>1, <2>1, <2>2 DEF StallDebt
<1>5. stall_polls' <= stall_polls /\ StallDebt' <= StallDebt /\ ~Closed
  BY <1>1, <1>4, OpenWindow, StallTypes DEF StallInv
<1>6. StallPaid'
  BY <1>5, PaidStep DEF StallInv
<1>. QED
  BY <1>3, <1>6 DEF StallInv

LEMMA PollStall ==
  ASSUME Inv, Inv', Clock, StallInv, Poll
  PROVE  StallInv'
<1>1. FanMoves /\ Excuse
  BY DEF Poll
<1>2. CASE (L1Reads \/ L1NotOurs) /\ FanRead
  BY <1>1, <1>2, ReadsStall, NotOursStall
<1>3. CASE WriteSpeed /\ SpeedWrite(want, applied')
  BY <1>1, <1>3, ActStall
<1>4. CASE /\ L1Tracking
           /\ IF TrackingSkipped
              THEN UNCHANGED fanVars
              ELSE SpeedWrite(last_written, write_failures' = write_failures)
  BY <1>1, <1>4, TrackingStall
<1>5. CASE (Startup \/ CmdStep \/ RetryStep) /\ ModeOnly
  BY <1>1, <1>5, EarlyStall
<1>6. CASE (SensorsLost \/ SensorsValid \/ EnterManual \/ ReturnToAuto) /\ ModeOnly
  BY <1>1, <1>6, ActStall
<1>7. CASE (L1ReadFails \/ L1ReassertManual \/ L1OnTarget \/ L1Stall) /\ ModeOnly
  BY <1>1, <1>7, ReadFailsStall, ReassertStall, OnTargetStall, CountingStall
<1>8. CASE (DegradeToAuto \/ PublishState) /\ ModeOnly
  BY <1>1, <1>8, FallbackStall, PublishStall
<1>. QED
  BY <1>1, <1>2, <1>3, <1>4, <1>5, <1>6, <1>7, <1>8 DEF FanMoves

LEMMA ReclaimStall ==
  ASSUME Inv, Inv', StallInv, Reclaim
  PROVE  StallInv'
<1>1. UNCHANGED <<pc, after, manual_armed, auto_restore_pending, last_written,
                  applied, prev_actual, stall_polls>>
  BY DEF Reclaim, FirmwareReclaims, ownership, counters, locals
<1>2. tach' = tach /\ target' \in Nat /\ Count
  BY DEF Reclaim, ModeOnly, StallInv, TachKnown
<1>3. (AppliedInPoll /\ TachKnown /\ Checked)'
  BY <1>1, <1>2
     DEF StallInv, AppliedInPoll, TachKnown, Checked, Compared, Driven, OffTarget
<1>4. StallPaid'
  BY <1>1, <1>2, CountPays, StallTypes DEF StallInv
<1>. QED
  BY <1>3, <1>4 DEF StallInv

\* The variables the stall window depends on.
stallVars == <<fan_mode, target, tach, pc, after, manual_armed, auto_restore_pending,
               last_written, applied, moved, prev_actual, stall_polls, excuses>>

LEMMA IdleStall ==
  ASSUME StallInv, UNCHANGED stallVars
  PROVE  StallInv'
BY DEF stallVars, StallInv, AppliedInPoll, TachKnown, Checked, StallPaid, StallDebt,
       DebtInL1, DebtBeforeL1, Compared, Driven, Obeys, OffTarget

\* A daemon that dies, or that starts, has written nothing and counted nothing.
LEMMA LifeStall ==
  ASSUME Inv, Inv', StallInv, Dies \/ Restarts
  PROVE  StallInv'
<1>1. /\ pc' \in {"dead", "boot"} /\ UNCHANGED excuses
      /\ last_written' = None
  BY DEF Dies, Die, Fresh, Restarts, Restart, Inv, ThreadContext, StartupOwnsNothing,
         StartupSteps
<1>2. tach' = tach /\ target' \in Nat
  BY DEF Dies, Restarts, fanVars, ModeOnly, StallInv, TachKnown
<1>3. /\ stall_polls' \in {stall_polls, 0} /\ prev_actual' \in {None, prev_actual}
      /\ prev_actual' = None => stall_polls' = 0
      /\ ~applied' /\ after' = "none"
  BY DEF Dies, Die, Fresh, Restarts, Restart, counters, locals, StallInv, TachKnown,
         AppliedInPoll, Inv, ThreadContext, FallbackContext
<1>4. (AppliedInPoll /\ TachKnown /\ Checked)'
  BY <1>1, <1>2, <1>3 DEF StallInv, AppliedInPoll, TachKnown, Checked
<1>5. StallDebt' = 0
  BY <1>1 DEF StallDebt, Compared
<1>6. stall_polls' + StallDebt' <= stall_polls + StallDebt
  BY <1>3, <1>5, StallTypes DEF StallInv
<1>7. StallPaid'
  BY <1>1, <1>6, QuietStep DEF StallInv
<1>. QED
  BY <1>4, <1>7 DEF StallInv

LEMMA StepStall ==
  ASSUME Inv, Inv', Clock, StallInv, [TimedNext]_timedVars
  PROVE  StallInv'
<1>1. CASE Poll
  BY <1>1, PollStall
<1>2. CASE Reclaim
  BY <1>2, ReclaimStall
<1>3. CASE Command \/ UNCHANGED timedVars
  <2>1. UNCHANGED stallVars
    BY <1>3
       DEF Command, ClientWritesCmd, timedVars, fanVars, vars, machine, ownership,
           counters, locals, stallVars
  <2>. QED
    BY <2>1, IdleStall
<1>4. CASE Dies \/ Restarts
  BY <1>4, LifeStall
<1>. QED
  BY <1>1, <1>2, <1>3, <1>4 DEF TimedNext

\* What the stall window has counted and what the fan may still owe it are paid
\* for: one poll is free, and every disturbance since the window was last closed
\* pays for two.
THEOREM StallInvariance == TimedSpec => []StallInv
<1>1. TimedInit => StallInv
  BY InitStall
<1>2. Inv /\ Inv' /\ Clock /\ StallInv /\ [TimedNext]_timedVars => StallInv'
  BY StepStall
<1>. QED
  BY <1>1, <1>2, TimedInv, ClockInvariance, PTL DEF TimedSpec

\* A fan that works is not taken for dead, for every stall window, slew rate,
\* tolerance and band: the polls that count against it are bounded by twice the
\* disturbances since the window was last closed, and one.
THEOREM WorkingFanKept == TimedSpec => []WorkingFanIsNoStall
<1>1. Inv /\ StallInv => WorkingFanIsNoStall
  <2> SUFFICES ASSUME Inv, StallInv
               PROVE  WorkingFanIsNoStall
    OBVIOUS
  <2>. QED
    BY StallTypes DEF StallInv, WorkingFanIsNoStall
<1>. QED
  BY <1>1, TimedInv, StallInvariance, PTL

\* The detector gives up a fan that works only after as many disturbances as pay
\* for a whole stall window, whatever its length.
THEOREM StallFallbackExcused == TimedSpec => StallFallbackIsExcused
<1>1. Inv /\ StallInv /\ [TimedNext]_timedVars
        => [L1Stall /\ pc' = "fallback" => StallPolls <= 2 * excuses + 1]_timedVars
  <2> SUFFICES ASSUME Inv, StallInv, L1Stall, pc' = "fallback"
               PROVE  StallPolls <= 2 * excuses + 1
    OBVIOUS
  <2>1. pc = "l1stall" /\ ~moved /\ stall_polls + 1 >= StallPolls
    BY DEF L1Stall, L1Verdict, Goto
  <2>2. StallDebt >= 1 \/ stall_polls = 0
    BY <2>1 DEF StallInv, Checked, StallDebt, DebtInL1
  <2>3. stall_polls # 0
    BY <2>1, FanAssumption, StallTypes DEF StallInv
  <2>. QED
    BY <2>1, <2>2, <2>3, StallTypes DEF StallInv
<1>. QED
  BY <1>1, TimedInv, StallInvariance, PTL DEF TimedSpec, StallFallbackIsExcused
=============================================================================
