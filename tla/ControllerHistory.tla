--------------------------- MODULE ControllerHistory ---------------------------
(*****************************************************************************)
(* Controller with two history variables, which only observe: the last polls *)
(* and the speed a curve session last asked for.                             *)
(*****************************************************************************)
EXTENDS Controller, Sequences

VARIABLES
  recent,      \* the last WindowLength polls, the latest one last
  commanded    \* the last speed asked for since the mode became "curve" or
               \* the fan was last given up, None when there is none

historyVars == <<vars, recent, commanded>>

WindowLength ==
  IF SensorLossPolls > OvershootPolls THEN SensorLossPolls ELSE OvershootPolls

\* A poll as the properties see it.
PollRecord(m, t, d) ==
  [ mode |-> m,
    heat |-> IF t = None THEN "lost" ELSE IF t >= (MaxC - 1) * 1000 THEN "hot" ELSE "cool",
    decision |-> d.kind ]

HistoryInit == Init /\ recent = <<>> /\ commanded = None

\* What the history records of a step.
Observed ==
  /\ recent' = Append(IF Len(recent) < WindowLength THEN recent ELSE Tail(recent),
                      PollRecord(mode', t_now', decision'))
  /\ commanded' =
       IF mode' # "curve" \/ decision'.kind = "ReturnToAuto" THEN None
       ELSE IF decision'.kind = "SetSpeed" THEN decision'.rpm
       ELSE IF decision'.kind = "EscalateMax" THEN MaxRpm
       ELSE IF mode = "curve" THEN commanded ELSE None

HistoryNext == Next /\ Observed

HistorySpec == HistoryInit /\ [][HistoryNext]_historyVars

\* The poll i polls before the latest one.
Back(i) == recent[Len(recent) - i]

\* The last n polls were all P: n of them happened, and each has its heat in H
\* and its mode in M.
LastPolls(n, heats, modes) ==
  /\ Len(recent) >= n
  /\ \A i \in 0..(n - 1) : Back(i).heat \in heats /\ Back(i).mode \in modes

Modes == {"observe", "curve", "hold"}
ControlModes == {"curve", "hold"}

-----------------------------------------------------------------------------
\* The overshoot guard (PRD R2) fires on the poll that completes
\* OvershootPolls hot polls in a row, in curve and in hold, whatever modes the
\* earlier ones were in, and never otherwise.
GuardFiresExactly ==
  recent # <<>> =>
    (Back(0).decision = "EscalateMax" <=>
       Back(0).mode \in ControlModes /\ LastPolls(OvershootPolls, {"hot"}, Modes))

\* Sensor loss: SensorLossPolls lost polls in a row in control modes, curve
\* and hold in any mix, contain a ReturnToAuto, and a ReturnToAuto ends at
\* least that many lost polls in a row.
LossIsAnswered ==
  /\ LastPolls(SensorLossPolls, {"lost"}, ControlModes) =>
       \E i \in 0..(SensorLossPolls - 1) : Back(i).decision = "ReturnToAuto"
  /\ recent # <<>> /\ Back(0).decision = "ReturnToAuto" =>
       LastPolls(SensorLossPolls, {"lost"}, Modes)

AbsDiff(a, b) == IF a >= b THEN a - b ELSE b - a

\* Within a curve session the speeds asked for are slew-limited, through
\* interim sensor losses and after the guard's jump to MaxRpm.
CurveSessionSlewed ==
  [][commanded # None /\ mode' = "curve" /\ decision'.kind = "SetSpeed"
       => AbsDiff(decision'.rpm, commanded) <= SlewMax]_historyVars
=============================================================================
