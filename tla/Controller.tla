------------------------------- MODULE Controller -------------------------------
(*****************************************************************************)
(* The pure control policy: the Controller state machine of                  *)
(* src/src/policy.rs.  One step is one poll in one of the three modes, over  *)
(* one reading per sensor; the supervisor chooses the mode of every poll.    *)
(*                                                                           *)
(* Temperatures are integers of milli-degrees, thresholds whole degrees and  *)
(* speeds rpm, as in the code.  overshoot_streak is a u32 there and stops at *)
(* OvershootPolls here: it is only ever compared with that constant.         *)
(*                                                                           *)
(* A definition whose comment starts with "Seeded bug" is not part of the    *)
(* specification: it is a wrong version of the definition that follows it.   *)
(*****************************************************************************)
EXTENDS Integers

CONSTANTS
  MinRpm, MaxRpm,      \* the configured curve band
  HighC, MaxC,         \* the configured thresholds; the ramp starts at HighC
  SlewMax,             \* SLEW_MAX_RPM_PER_POLL
  SensorLossPolls,     \* SENSOR_LOSS_POLLS
  OvershootPolls,      \* OVERSHOOT_POLLS
  Sensors,
  Temps,               \* the temperatures a valid sensor may read
  HoldRequests,        \* the rpm values of `hold`
  None                 \* Option::None

\* Config::check_structural, but for the poll interval: the configurations that
\* load and validate accept.
CheckStructural ==
  /\ MaxC \in 0..95 /\ HighC \in 0..95 /\ HighC < MaxC
  /\ MinRpm < MaxRpm

ASSUME ConfigAssumption ==
  MinRpm \in Nat /\ MaxRpm \in Nat /\ CheckStructural

ASSUME PolicyAssumption ==
  /\ SlewMax \in Nat \ {0}
  /\ SensorLossPolls \in Nat \ {0} /\ OvershootPolls \in Nat \ {0}
  /\ Temps \subseteq Nat
  /\ HoldRequests \subseteq Nat
  /\ None \notin Nat

LowC == HighC - 3

VARIABLES
  slew_rpm,            \* the slew-limited output
  ramping,             \* the hysteresis latch
  loss_streak, overshoot_streak,
  t_now,               \* this poll's effective temperature, None without one
  mode,                \* the mode of this poll: "observe", "curve", "hold"
  decision             \* what the poll decided

vars == <<slew_rpm, ramping, loss_streak, overshoot_streak, t_now, mode,
          decision>>

KeepWatching == [kind |-> "Observe"]
SetSpeed(rpm) == [kind |-> "SetSpeed", rpm |-> rpm]
EscalateMax == [kind |-> "EscalateMax"]
ReturnToAuto == [kind |-> "ReturnToAuto"]

Readings == [Sensors -> Temps \cup {None}]

\* absorb: the effective temperature is the hottest valid sensor.
EffectiveTemp(t, readings) ==
  /\ \E s \in Sensors : readings[s] = t
  /\ \A s \in Sensors : readings[s] # None => readings[s] <= t

AllFailed(readings) == \A s \in Sensors : readings[s] = None

-----------------------------------------------------------------------------
(* The curve *)

\* linear_target: from MinRpm at HighC to MaxRpm at MaxC.
LinearTarget(t) ==
  ((t - HighC * 1000) * (MaxRpm - MinRpm)) \div ((MaxC - HighC) * 1000) + MinRpm

\* Seeded bug: the line goes on above MaxC.
TargetUncapped(t) ==
  IF t < LowC * 1000 THEN MinRpm
  ELSE IF t >= HighC * 1000 THEN LinearTarget(t)
  ELSE IF ramping THEN slew_rpm ELSE MinRpm

\* Seeded bug: a direction gate, the target never comes down while ramping.
TargetRatchets(t) ==
  IF t < LowC * 1000 THEN MinRpm
  ELSE IF t >= MaxC * 1000 THEN MaxRpm
  ELSE IF t >= HighC * 1000 /\ LinearTarget(t) > slew_rpm THEN LinearTarget(t)
  ELSE IF ramping THEN slew_rpm ELSE MinRpm

\* target_for, its result.
Target(t) ==
  IF t < LowC * 1000 THEN MinRpm
  ELSE IF t >= MaxC * 1000 THEN MaxRpm
  ELSE IF t >= HighC * 1000 THEN LinearTarget(t)
  ELSE IF ramping THEN slew_rpm ELSE MinRpm

\* target_for, what it leaves in the hysteresis latch.
Ramps(t) == t >= HighC * 1000 \/ (ramping /\ t >= LowC * 1000)

\* slew_toward
SlewToward(from, target) ==
  IF target >= from
  THEN IF from + SlewMax < target THEN from + SlewMax ELSE target
  ELSE IF from - SlewMax > target THEN from - SlewMax ELSE target

\* overshoot_check: the streak after a poll at t.
Hot(t) == t >= (MaxC - 1) * 1000

\* Seeded bug: a cooler poll pauses the streak instead of ending it.
HotStreakPauses(t) ==
  IF Hot(t) /\ overshoot_streak < OvershootPolls
  THEN overshoot_streak + 1
  ELSE overshoot_streak

HotStreak(t) ==
  IF ~Hot(t) THEN 0
  ELSE IF overshoot_streak < OvershootPolls
  THEN overshoot_streak + 1
  ELSE overshoot_streak

-----------------------------------------------------------------------------
(* One poll *)

Init ==
  /\ slew_rpm = MinRpm
  /\ ramping = FALSE
  /\ loss_streak = 0 /\ overshoot_streak = 0
  /\ t_now = None
  /\ mode = "observe" /\ decision = KeepWatching

\* Seeded bug: a valid reading leaves the loss streak alone.
SeesKeepingStreak(t) ==
  /\ t_now' = t
  /\ UNCHANGED loss_streak
  /\ overshoot_streak' = HotStreak(t)

\* absorb, with a valid sensor.
Sees(t) ==
  /\ t_now' = t
  /\ loss_streak' = 0
  /\ overshoot_streak' = HotStreak(t)

Guarded == overshoot_streak' >= OvershootPolls

\* Seeded bug: the guard leaves the slew state where it was.
CurveEscalatesOnly(t) ==
  /\ mode' = "curve"
  /\ Sees(t) /\ Guarded
  /\ decision' = EscalateMax
  /\ UNCHANGED <<slew_rpm, ramping>>

CurveEscalates(t) ==
  /\ mode' = "curve"
  /\ Sees(t) /\ Guarded
  /\ slew_rpm' = MaxRpm
  /\ ramping' = TRUE
  /\ decision' = EscalateMax

CurveSets(t) ==
  /\ mode' = "curve"
  /\ Sees(t) /\ ~Guarded
  /\ slew_rpm' = SlewToward(slew_rpm, Target(t))
  /\ ramping' = Ramps(t)
  /\ decision' = SetSpeed(slew_rpm')

HoldEscalates(t) ==
  /\ mode' = "hold"
  /\ Sees(t) /\ Guarded
  /\ decision' = EscalateMax
  /\ UNCHANGED <<slew_rpm, ramping>>

HoldSets(t, held_rpm) ==
  /\ mode' = "hold"
  /\ Sees(t) /\ ~Guarded
  /\ decision' = SetSpeed(held_rpm)
  /\ UNCHANGED <<slew_rpm, ramping>>

Observes(t) ==
  /\ mode' = "observe"
  /\ Sees(t)
  /\ decision' = KeepWatching
  /\ UNCHANGED <<slew_rpm, ramping>>

\* Seeded bug: counts one lost poll too many.
LosesLate ==
  /\ loss_streak < SensorLossPolls
  /\ mode' \in {"observe", "curve", "hold"}
  /\ t_now' = None
  /\ loss_streak' = loss_streak + 1
  /\ overshoot_streak' = 0
  /\ decision' = KeepWatching
  /\ UNCHANGED <<slew_rpm, ramping>>

\* absorb without a valid sensor, before the streak reaches its limit: the
\* output stays whatever it was.
Loses ==
  /\ loss_streak + 1 < SensorLossPolls
  /\ mode' \in {"observe", "curve", "hold"}
  /\ t_now' = None
  /\ loss_streak' = loss_streak + 1
  /\ overshoot_streak' = 0
  /\ decision' = KeepWatching
  /\ UNCHANGED <<slew_rpm, ramping>>

\* Seeded bug: hold keeps its output through a full sensor loss.
GivesUpInCurve ==
  /\ loss_streak + 1 >= SensorLossPolls
  /\ mode' \in {"observe", "curve", "hold"}
  /\ t_now' = None
  /\ loss_streak' = 0 /\ overshoot_streak' = 0
  /\ IF mode' = "curve"
     THEN slew_rpm' = MinRpm /\ ramping' = FALSE
     ELSE UNCHANGED <<slew_rpm, ramping>>
  /\ decision' = IF mode' = "curve" THEN ReturnToAuto ELSE KeepWatching

\* ... and when it does: the fan goes back to the firmware, and a curve starts
\* afresh afterwards.
GivesUp ==
  /\ loss_streak + 1 >= SensorLossPolls
  /\ mode' \in {"observe", "curve", "hold"}
  /\ t_now' = None
  /\ loss_streak' = 0 /\ overshoot_streak' = 0
  /\ IF mode' = "curve"
     THEN slew_rpm' = MinRpm /\ ramping' = FALSE
     ELSE UNCHANGED <<slew_rpm, ramping>>
  /\ decision' = IF mode' = "observe" THEN KeepWatching ELSE ReturnToAuto

Curve(t) == CurveEscalates(t) \/ CurveSets(t)

Hold(t) == HoldEscalates(t) \/ \E held_rpm \in HoldRequests : HoldSets(t, held_rpm)

Next ==
  \E readings \in Readings :
    \/ \E t \in Temps :
         EffectiveTemp(t, readings) /\ (Curve(t) \/ Hold(t) \/ Observes(t))
    \/ AllFailed(readings) /\ (Loses \/ GivesUp)

Spec == Init /\ [][Next]_vars

-----------------------------------------------------------------------------
(* Properties *)

\* The types of the variables.
TypeOK ==
  /\ slew_rpm \in Nat
  /\ ramping \in BOOLEAN
  /\ loss_streak \in 0..(SensorLossPolls - 1)
  /\ overshoot_streak \in 0..OvershootPolls
  /\ t_now \in Temps \cup {None}
  /\ mode \in {"observe", "curve", "hold"}
  /\ decision \in {KeepWatching, EscalateMax, ReturnToAuto}
                  \cup [kind : {"SetSpeed"}, rpm : Nat]

\* The slew state, the base the limiter moves from in every later curve poll,
\* stays within the configured band through every change of mode, guard and
\* sensor loss, and so does every speed the curve asks for.
CurveInBand ==
  /\ slew_rpm \in MinRpm..MaxRpm
  /\ mode = "curve" /\ decision.kind = "SetSpeed" =>
       decision.rpm \in MinRpm..MaxRpm

Contract == INSTANCE PolicyContract

\* The policy keeps the contract the supervisor is built on: a loss is counted
\* and answered in time in every mode and never earlier, a curve asks for speeds
\* of its band and a hold for its own, and a poll that sees decides nothing else.
KeepsContract ==
  [][LET lost == t_now' = None
         speeds == IF mode' = "curve" THEN MinRpm..MaxRpm ELSE HoldRequests
     IN  /\ loss_streak' = Contract!StreakAfter(lost, loss_streak)
         /\ Contract!MayDecide(decision', mode', speeds, lost, loss_streak)]_vars
=============================================================================
