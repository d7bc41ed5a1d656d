----------------------------- MODULE PolicyContract -----------------------------
(*****************************************************************************)
(* What the supervisor may rely on of the control policy: the decisions that *)
(* a poll may come to (src/src/policy.rs), given only whether a sensor was   *)
(* read and how many polls in a row were lost before.  Temperatures, the     *)
(* hysteresis, the slew limiter and the overshoot guard are Controller's     *)
(* own; Controller keeps this contract, and Supervisor acts on it.           *)
(*****************************************************************************)
EXTENDS Naturals

CONSTANT SensorLossPolls   \* SENSOR_LOSS_POLLS

\* The last of SensorLossPolls lost polls in a row.
LastLost(streak) == streak + 1 >= SensorLossPolls

\* A valid reading ends the streak, and so does answering it.
StreakAfter(lost, streak) ==
  IF lost /\ ~LastLost(streak) THEN streak + 1 ELSE 0

\* Every decision there is, over the rpm values of `speeds`.
Decisions(speeds) ==
  [kind : {"Observe", "ReturnToAuto", "EscalateMax"}]
    \cup [kind : {"SetSpeed"}, rpm : speeds]

\* The decisions of a poll in a mode of this kind, when the mode itself asks
\* for one of `speeds`.
MayDecide(decision, kind, speeds, lost, streak) ==
  IF kind = "observe" \/ (lost /\ ~LastLost(streak))
  THEN decision.kind = "Observe"
  ELSE IF lost
  THEN decision.kind = "ReturnToAuto"
  ELSE \/ decision.kind = "EscalateMax"
       \/ decision.kind = "SetSpeed" /\ decision.rpm \in speeds
=============================================================================
