--------------------------- MODULE ControllerPlateau ---------------------------
(*****************************************************************************)
(* The Controller under a load that settles: at some point, after any past,  *)
(* the machine stays in curve mode at one temperature (PRD R10, the plateau  *)
(* trace family).                                                            *)
(*****************************************************************************)
EXTENDS ControllerHistory

VARIABLE load   \* the temperature it settled at, None as long as it varies

plateauVars == <<historyVars, load>>

PlateauInit == HistoryInit /\ load = None

Varies == load = None /\ HistoryNext /\ UNCHANGED load

\* The history stops here: only where the plateau leads matters from now on.
Settles ==
  /\ load = None
  /\ load' \in Temps
  /\ recent' = <<>> /\ commanded' = None
  /\ UNCHANGED vars

PlateauPoll ==
  /\ load # None
  /\ \E readings \in Readings : EffectiveTemp(load, readings)
  /\ Curve(load)
  /\ UNCHANGED <<recent, commanded, load>>

PlateauNext == Varies \/ Settles \/ PlateauPoll

\* The daemon polls for ever.
PlateauSpec ==
  PlateauInit /\ [][PlateauNext]_plateauVars /\ WF_plateauVars(PlateauPoll)

\* What a curve asks for once it settled at t: the band's ends outside of the
\* ramp and under the guard, the line in between, and between LowC and HighC
\* either the idle speed or, while ramping, the speed it arrived with.
SteadyDecision(t) ==
  IF Hot(t) THEN EscalateMax
  ELSE IF t < LowC * 1000 THEN SetSpeed(MinRpm)
  ELSE IF t >= HighC * 1000 THEN SetSpeed(LinearTarget(t))
  ELSE SetSpeed(IF ramping THEN slew_rpm ELSE MinRpm)

\* From any past, a plateau is answered with its own speed, reached from above
\* as from below, and then kept.
Converges ==
  \A t \in Temps : [](load = t => <>[](decision = SteadyDecision(t)))

\* How far the curve is from its answer: hot polls to go until the guard fires,
\* or the distance to the target.
ToGo ==
  IF Hot(load) THEN OvershootPolls - overshoot_streak
  ELSE AbsDiff(slew_rpm, Target(load))

\* Every poll on a plateau brings the answer nearer, by a full slew step or by a
\* hot poll, or it is there; and once there it is the answer.
PlateauApproaches ==
  [][PlateauPoll =>
       /\ ToGo' = 0 \/ ToGo' + (IF Hot(load) THEN 1 ELSE SlewMax) <= ToGo
       /\ ToGo' = 0 => decision' = SteadyDecision(load)']_plateauVars
=============================================================================
