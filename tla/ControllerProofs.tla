---------------------------- MODULE ControllerProofs ----------------------------
(*****************************************************************************)
(* Proofs about Controller and ControllerHistory, for every configuration,   *)
(* set of sensors, set of temperatures and length of the two streaks:        *)
(*  - the types, and that the slew state stays in the configured band.  Both *)
(*    rest on one fact of arithmetic, DivBound: the line between HighC and   *)
(*    MaxC never leaves the band it was drawn in;                            *)
(*  - the overshoot guard fires on exactly the polls it should, lost sensors *)
(*    are answered in time and never early, and a curve session is           *)
(*    slew-limited.  The invariant says what the two counters know of the    *)
(*    window of recent polls;                                                *)
(*  - under a steady load the output approaches its plateau;                 *)
(*  - the policy keeps the contract that Supervisor relies on.               *)
(*****************************************************************************)
EXTENDS ControllerPlateau, TLAPS

\* What the validation of a configuration establishes.
LEMMA ValidConfiguration ==
  /\ MinRpm \in Nat /\ MaxRpm \in Nat /\ MinRpm < MaxRpm
  /\ HighC \in 0..95 /\ MaxC \in 0..95 /\ HighC < MaxC
BY ConfigAssumption DEF CheckStructural

\* A product scaled back by a divisor no smaller than one factor stays below
\* the other factor.
LEMMA DivBound ==
  \A a, b \in Nat, d \in Nat \ {0} : a <= d => (a * b) \div d \in 0..b
<1> SUFFICES ASSUME NEW a \in Nat, NEW b \in Nat, NEW d \in Nat \ {0}, a <= d
             PROVE  (a * b) \div d \in 0..b
  OBVIOUS
<1> DEFINE q == (a * b) \div d
<1>1. a * b \in Nat /\ a * b <= d * b
  OBVIOUS
<1>2. q \in Int /\ q * d <= a * b /\ a * b < (q + 1) * d
  BY <1>1
<1>3. q >= 0
  BY <1>1, <1>2
<1>4. q <= b
  BY <1>1, <1>2
<1>. QED
  BY <1>2, <1>3, <1>4

\* linear_target stays within the band on the ramp.
LEMMA LinearTargetInBand ==
  ASSUME NEW t \in Nat, t >= HighC * 1000, t < MaxC * 1000
  PROVE  LinearTarget(t) \in MinRpm..MaxRpm
<1> DEFINE a == t - HighC * 1000
           b == MaxRpm - MinRpm
           d == (MaxC - HighC) * 1000
<1>1. a \in Nat /\ b \in Nat /\ d \in Nat \ {0} /\ a <= d
  BY ValidConfiguration
<1>2. (a * b) \div d \in 0..b
  BY <1>1, DivBound
<1>. QED
  BY <1>2, ValidConfiguration DEF LinearTarget

\* target_for never aims outside of the band, whatever the temperature.
LEMMA TargetInBand ==
  ASSUME NEW t \in Nat, slew_rpm \in MinRpm..MaxRpm
  PROVE  Target(t) \in MinRpm..MaxRpm
<1>1. CASE t >= HighC * 1000 /\ t < MaxC * 1000
  BY <1>1, LinearTargetInBand, ValidConfiguration DEF Target, LowC
<1>2. CASE ~(t >= HighC * 1000 /\ t < MaxC * 1000)
  BY <1>2, ValidConfiguration DEF Target, LowC
<1>. QED
  BY <1>1, <1>2

\* slew_toward stays between where it is and where it goes.
LEMMA SlewStaysInBand ==
  ASSUME NEW from \in MinRpm..MaxRpm, NEW target \in MinRpm..MaxRpm
  PROVE  SlewToward(from, target) \in MinRpm..MaxRpm
BY ValidConfiguration, PolicyAssumption DEF SlewToward

IInv == TypeOK /\ CurveInBand

LEMMA InitIInv == Init => IInv
<1> SUFFICES ASSUME Init
             PROVE  IInv
  OBVIOUS
<1>1. slew_rpm \in Nat /\ slew_rpm \in MinRpm..MaxRpm
  BY ValidConfiguration DEF Init
<1>2. TypeOK
  <2>1. loss_streak \in 0..(SensorLossPolls - 1) /\ overshoot_streak \in 0..OvershootPolls
    BY PolicyAssumption DEF Init
  <2>2. ramping \in BOOLEAN
    BY DEF Init
  <2>. QED
    BY <1>1, <2>1, <2>2 DEF Init, TypeOK
<1>3. CurveInBand
  BY <1>1 DEF Init, CurveInBand
<1>. QED
  BY <1>2, <1>3 DEF IInv

\* What every poll with a valid sensor leaves in the streaks.
LEMMA SeesType ==
  ASSUME IInv, NEW t \in Temps, Sees(t)
  PROVE  /\ loss_streak' \in 0..(SensorLossPolls - 1)
         /\ overshoot_streak' \in 0..OvershootPolls
         /\ t_now' \in Temps
BY ValidConfiguration, PolicyAssumption DEF IInv, TypeOK, Sees, HotStreak

LEMMA CurveStep ==
  ASSUME IInv, NEW t \in Temps, Curve(t)
  PROVE  IInv'
<1>1. CASE CurveEscalates(t)
  <2>1. slew_rpm' \in MinRpm..MaxRpm /\ slew_rpm' \in Nat
    BY <1>1, ValidConfiguration DEF CurveEscalates
  <2>2. TypeOK'
    BY <1>1, <2>1, SeesType DEF CurveEscalates, TypeOK
  <2>3. CurveInBand'
    BY <1>1, <2>1 DEF CurveEscalates, CurveInBand, EscalateMax
  <2>. QED
    BY <2>2, <2>3 DEF IInv
<1>2. CASE CurveSets(t)
  <2>1. t \in Nat /\ slew_rpm \in MinRpm..MaxRpm
    BY PolicyAssumption DEF IInv, CurveInBand
  <2>2. slew_rpm' \in MinRpm..MaxRpm /\ slew_rpm' \in Nat
    BY <1>2, <2>1, TargetInBand, SlewStaysInBand, ValidConfiguration DEF CurveSets
  <2>3. ramping' \in BOOLEAN
    BY <1>2 DEF CurveSets, Ramps
  <2>4. decision' \in [kind : {"SetSpeed"}, rpm : Nat]
    BY <1>2, <2>2 DEF CurveSets, SetSpeed
  <2>5. TypeOK'
    BY <1>2, <2>2, <2>3, <2>4, SeesType DEF CurveSets, TypeOK
  <2>6. CurveInBand'
    BY <1>2, <2>2 DEF CurveSets, CurveInBand, SetSpeed
  <2>. QED
    BY <2>5, <2>6 DEF IInv
<1>. QED
  BY <1>1, <1>2 DEF Curve

LEMMA HoldStep ==
  ASSUME IInv, NEW t \in Temps, Hold(t)
  PROVE  IInv'
<1>1. CASE HoldEscalates(t)
  <2>1. TypeOK'
    BY <1>1, SeesType DEF HoldEscalates, TypeOK, IInv
  <2>2. CurveInBand'
    BY <1>1 DEF HoldEscalates, CurveInBand, IInv
  <2>. QED
    BY <2>1, <2>2 DEF IInv
<1>2. ASSUME NEW held_rpm \in HoldRequests, HoldSets(t, held_rpm)
      PROVE  IInv'
  <2>1. decision' \in [kind : {"SetSpeed"}, rpm : Nat]
    BY <1>2, PolicyAssumption DEF HoldSets, SetSpeed
  <2>2. TypeOK'
    BY <1>2, <2>1, SeesType DEF HoldSets, TypeOK, IInv
  <2>3. CurveInBand'
    BY <1>2 DEF HoldSets, CurveInBand, IInv
  <2>. QED
    BY <2>2, <2>3 DEF IInv
<1>. QED
  BY <1>1, <1>2 DEF Hold

LEMMA ObserveStep ==
  ASSUME IInv, NEW t \in Temps, Observes(t)
  PROVE  IInv'
<1>1. TypeOK'
  BY SeesType DEF Observes, TypeOK, IInv
<1>2. CurveInBand'
  BY DEF Observes, CurveInBand, IInv
<1>. QED
  BY <1>1, <1>2 DEF IInv

LEMMA LossStep ==
  ASSUME IInv, Loses \/ GivesUp
  PROVE  IInv'
<1>1. CASE Loses
  <2>1. TypeOK'
    BY <1>1, PolicyAssumption DEF Loses, TypeOK, IInv
  <2>2. CurveInBand'
    BY <1>1 DEF Loses, CurveInBand, IInv, KeepWatching
  <2>. QED
    BY <2>1, <2>2 DEF IInv
<1>2. CASE GivesUp
  <2>1. slew_rpm' \in MinRpm..MaxRpm /\ slew_rpm' \in Nat /\ ramping' \in BOOLEAN
    <3>1. CASE mode' = "curve"
      <4>1. slew_rpm' = MinRpm /\ ramping' = FALSE
        BY <1>2, <3>1 DEF GivesUp
      <4>2. slew_rpm' \in MinRpm..MaxRpm /\ slew_rpm' \in Nat
        BY <4>1, ValidConfiguration
      <4>3. ramping' \in BOOLEAN
        BY <4>1
      <4>. QED
        BY <4>2, <4>3
    <3>2. CASE mode' # "curve"
      BY <1>2, <3>2 DEF GivesUp, TypeOK, CurveInBand, IInv
    <3>. QED
      BY <3>1, <3>2
  <2>2. TypeOK'
    BY <1>2, <2>1, PolicyAssumption DEF GivesUp, TypeOK, IInv
  <2>3. CurveInBand'
    BY <1>2, <2>1 DEF GivesUp, CurveInBand, KeepWatching, ReturnToAuto
  <2>. QED
    BY <2>2, <2>3 DEF IInv
<1>. QED
  BY <1>1, <1>2

LEMMA StepIInv == IInv /\ [Next]_vars => IInv'
<1> SUFFICES ASSUME IInv, [Next]_vars
             PROVE  IInv'
  OBVIOUS
<1>1. CASE Next
  <2>1. ASSUME NEW t \in Temps, Curve(t) \/ Hold(t) \/ Observes(t)
        PROVE  IInv'
    BY <2>1, CurveStep, HoldStep, ObserveStep
  <2>2. CASE Loses \/ GivesUp
    BY <2>2, LossStep
  <2>. QED
    BY <1>1, <2>1, <2>2 DEF Next
<1>2. CASE UNCHANGED vars
  BY <1>2 DEF vars, IInv, TypeOK, CurveInBand
<1>. QED
  BY <1>1, <1>2

THEOREM Invariance == Spec => []IInv
BY InitIInv, StepIInv, PTL DEF Spec

\* The types of the controller's variables, the bounds of the two streaks
\* included.
THEOREM TypeCorrect == Spec => []TypeOK
<1>1. IInv => TypeOK
  BY DEF IInv
<1>. QED
  BY <1>1, Invariance, PTL

\* The slew state and the curve's speeds stay within the configured band
\* (policy.rs states it as an invariant of the field slew_rpm).
THEOREM BandInvariance == Spec => []CurveInBand
<1>1. IInv => CurveInBand
  BY DEF IInv
<1>. QED
  BY <1>1, Invariance, PTL

-----------------------------------------------------------------------------
(* The histories *)

Kinds == {"Observe", "SetSpeed", "EscalateMax", "ReturnToAuto"}

PollRecords ==
  [mode : Modes, heat : {"lost", "hot", "cool"}, decision : Kinds]

WindowOK == recent \in Seq(PollRecords) /\ Len(recent) <= WindowLength

\* The overshoot streak is the number of trailing hot polls, up to its limit.
HotStreakCounts ==
  \A n \in 1..OvershootPolls :
    overshoot_streak >= n <=> LastPolls(n, {"hot"}, Modes)

\* The loss streak counts trailing lost polls, all of them since the fan was
\* last given up.
LossStreakCounts ==
  /\ \A n \in 1..SensorLossPolls :
       loss_streak >= n => LastPolls(n, {"lost"}, Modes)
  /\ \A n \in 1..SensorLossPolls :
       LastPolls(n, {"lost"}, ControlModes)
         /\ (\A i \in 0..(n - 1) : Back(i).decision # "ReturnToAuto")
       => loss_streak >= n

\* A session's last speed is where the limiter stands.
SessionFollowsSlew == commanded # None => commanded = slew_rpm

HInv ==
  /\ IInv
  /\ WindowOK /\ HotStreakCounts /\ LossStreakCounts /\ SessionFollowsSlew
  /\ GuardFiresExactly /\ LossIsAnswered

-----------------------------------------------------------------------------
(* The window *)

LEMMA WindowFacts ==
  /\ SensorLossPolls \in Nat \ {0} /\ OvershootPolls \in Nat \ {0}
  /\ WindowLength \in Nat \ {0}
  /\ SensorLossPolls <= WindowLength /\ OvershootPolls <= WindowLength
BY PolicyAssumption DEF WindowLength

\* What a poll adds to the window: itself, in front of what was there.
LEMMA WindowMoves ==
  ASSUME WindowOK, NEW rec \in PollRecords,
         recent' = Append(IF Len(recent) < WindowLength THEN recent ELSE Tail(recent),
                          rec)
  PROVE  /\ WindowOK'
         /\ recent' # <<>>
         /\ Back(0)' = rec
         /\ \A n \in 1..WindowLength : Len(recent') >= n <=> Len(recent) >= n - 1
         /\ \A i \in 1..WindowLength : Len(recent) >= i /\ Len(recent') > i =>
              recent'[Len(recent') - i] = recent[Len(recent) - (i - 1)]
<1> DEFINE kept == IF Len(recent) < WindowLength THEN recent ELSE Tail(recent)
<1>1. recent \in Seq(PollRecords) /\ Len(recent) \in Nat /\ Len(recent) <= WindowLength
  BY DEF WindowOK
<1>2. kept \in Seq(PollRecords)
  <2>1. CASE Len(recent) < WindowLength
    BY <1>1, <2>1
  <2>2. CASE Len(recent) = WindowLength
    <3>1. recent # <<>>
      BY <2>2, WindowFacts
    <3>. QED
      BY <1>1, <2>2, <3>1
  <2>. QED
    BY <1>1, <2>1, <2>2, WindowFacts
<1>3. /\ Len(kept) = IF Len(recent) < WindowLength THEN Len(recent) ELSE WindowLength - 1
      /\ \A i \in 1..Len(kept) :
           kept[Len(kept) + 1 - i] = recent[Len(recent) + 1 - i]
  <2>1. CASE Len(recent) < WindowLength
    BY <1>1, <2>1
  <2>2. CASE Len(recent) = WindowLength
    <3>1. recent # <<>>
      BY <2>2, WindowFacts
    <3>2. Len(kept) = Len(recent) - 1 /\ \A j \in 1..Len(kept) : kept[j] = recent[j + 1]
      BY <1>1, <2>2, <3>1, WindowFacts
    <3>. QED
      BY <1>1, <2>2, <3>2, WindowFacts
  <2>. QED
    BY <1>1, <2>1, <2>2, WindowFacts
<1>4. /\ recent' \in Seq(PollRecords)
      /\ Len(recent') = Len(kept) + 1
      /\ recent'[Len(kept) + 1] = rec
      /\ \A j \in 1..Len(kept) : recent'[j] = kept[j]
  BY <1>2
<1>. HIDE DEF kept
<1>5. Len(kept) \in Nat
  BY <1>2
<1>6. WindowOK'
  BY <1>1, <1>3, <1>4, WindowFacts DEF WindowOK
<1>7. recent' # <<>>
  BY <1>4, <1>5
<1>8. Back(0)' = rec
  BY <1>4, <1>5 DEF Back
<1>9. \A n \in 1..WindowLength : Len(recent') >= n <=> Len(recent) >= n - 1
  BY <1>1, <1>3, <1>4, <1>5, WindowFacts
<1>10. ASSUME NEW i \in 1..WindowLength, Len(recent) >= i, Len(recent') > i
       PROVE  recent'[Len(recent') - i] = recent[Len(recent) - (i - 1)]
  <2>1. i \in 1..Len(kept) /\ Len(kept) + 1 - i \in 1..Len(kept)
    BY <1>4, <1>5, <1>10, WindowFacts
  <2>2. recent'[Len(kept) + 1 - i] = kept[Len(kept) + 1 - i]
    BY <1>4, <2>1
  <2>3. kept[Len(kept) + 1 - i] = recent[Len(recent) + 1 - i]
    BY <1>3, <2>1
  <2>4. Len(recent') - i = Len(kept) + 1 - i
    BY <1>4
  <2>5. Len(recent) - (i - 1) = Len(recent) + 1 - i
    BY <1>1
  <2>. QED
    BY <2>2, <2>3, <2>4, <2>5
<1>. QED
  BY <1>6, <1>7, <1>8, <1>9, <1>10

\* How a streak of polls grows by one.
LEMMA LastPollsGrow ==
  ASSUME WindowOK, NEW rec \in PollRecords,
         recent' = Append(IF Len(recent) < WindowLength THEN recent ELSE Tail(recent),
                          rec),
         NEW heats, NEW modes, NEW n \in 1..WindowLength
  PROVE  /\ LastPolls(n, heats, modes)' <=>
              /\ rec.heat \in heats /\ rec.mode \in modes
              /\ LastPolls(n - 1, heats, modes)
         /\ \A i \in 1..(n - 1) : LastPolls(n, heats, modes)' => Back(i)' = Back(i - 1)
<1>1. /\ recent \in Seq(PollRecords) /\ Len(recent) \in Nat
      /\ recent' \in Seq(PollRecords) /\ Len(recent') \in Nat
      /\ n \in Nat /\ n - 1 \in Nat /\ WindowLength \in Nat
  BY WindowMoves, WindowFacts DEF WindowOK
<1>2. Back(0)' = rec /\ (Len(recent') >= n <=> Len(recent) >= n - 1)
  BY WindowMoves
<1>3. ASSUME Len(recent') >= n, NEW i \in 1..(n - 1)
      PROVE  Back(i)' = Back(i - 1)
  <2>1. i \in 1..WindowLength /\ Len(recent) >= i /\ Len(recent') > i
    BY <1>1, <1>2, <1>3
  <2>2. recent'[Len(recent') - i] = recent[Len(recent) - (i - 1)]
    BY <2>1, WindowMoves
  <2>. QED
    BY <2>2 DEF Back
<1>4. ASSUME LastPolls(n, heats, modes)'
      PROVE  /\ rec.heat \in heats /\ rec.mode \in modes
             /\ LastPolls(n - 1, heats, modes)
  <2>1. Len(recent') >= n
        /\ \A i \in 0..(n - 1) : Back(i)'.heat \in heats /\ Back(i)'.mode \in modes
    BY <1>4 DEF LastPolls
  <2>2. rec.heat \in heats /\ rec.mode \in modes
    BY <1>1, <1>2, <2>1
  <2>3. ASSUME NEW j \in 0..((n - 1) - 1)
        PROVE  Back(j).heat \in heats /\ Back(j).mode \in modes
    <3>1. j + 1 \in 1..(n - 1) /\ j + 1 \in 0..(n - 1) /\ (j + 1) - 1 = j
      BY <1>1
    <3>2. Back(j + 1)' = Back(j)
      BY <1>3, <2>1, <3>1
    <3>. QED
      BY <2>1, <3>1, <3>2
  <2>. QED
    BY <1>2, <2>1, <2>2, <2>3 DEF LastPolls
<1>5. ASSUME rec.heat \in heats, rec.mode \in modes, LastPolls(n - 1, heats, modes)
      PROVE  LastPolls(n, heats, modes)'
  <2>1. Len(recent') >= n
    BY <1>2, <1>5 DEF LastPolls
  <2>2. ASSUME NEW i \in 0..(n - 1)
        PROVE  Back(i)'.heat \in heats /\ Back(i)'.mode \in modes
    <3>1. CASE i = 0
      BY <1>2, <1>5, <3>1
    <3>2. CASE i # 0
      <4>1. i \in 1..(n - 1) /\ i - 1 \in 0..((n - 1) - 1)
        BY <1>1, <3>2
      <4>2. Back(i)' = Back(i - 1)
        BY <1>3, <2>1, <4>1
      <4>. QED
        BY <1>5, <4>1, <4>2 DEF LastPolls
    <3>. QED
      BY <3>1, <3>2
  <2>. QED
    BY <2>1, <2>2 DEF LastPolls
<1>6. LastPolls(n, heats, modes)' => Len(recent') >= n
  BY DEF LastPolls
<1>. QED
  BY <1>3, <1>4, <1>5, <1>6

LEMMA NoPollsNeeded ==
  ASSUME NEW heats, NEW modes, WindowOK
  PROVE  LastPolls(0, heats, modes)
BY DEF LastPolls, WindowOK

-----------------------------------------------------------------------------
(* One poll *)

Latest == PollRecord(mode', t_now', decision')

\* What the properties see of a poll, and what it does to the streaks.
LEMMA PollFacts ==
  ASSUME IInv, Next
  PROVE  /\ Latest \in PollRecords
         /\ overshoot_streak' =
              IF Latest.heat # "hot" THEN 0
              ELSE IF overshoot_streak < OvershootPolls THEN overshoot_streak + 1
              ELSE overshoot_streak
         /\ Latest.decision = "EscalateMax" <=>
              Latest.mode \in ControlModes /\ overshoot_streak' >= OvershootPolls
         /\ Latest.heat # "lost" =>
              loss_streak' = 0 /\ Latest.decision # "ReturnToAuto"
         /\ Latest.heat = "lost" =>
              \/ loss_streak' = loss_streak + 1 /\ Latest.decision # "ReturnToAuto"
              \/ /\ loss_streak' = 0 /\ loss_streak + 1 >= SensorLossPolls
                 /\ Latest.decision = "ReturnToAuto" <=> Latest.mode \in ControlModes
<1>1. ASSUME NEW t \in Temps, Curve(t) \/ Hold(t) \/ Observes(t)
      PROVE  /\ t_now' = t /\ t \in Nat /\ loss_streak' = 0
             /\ overshoot_streak' = HotStreak(t)
             /\ mode' \in Modes
             /\ decision'.kind \in {"Observe", "SetSpeed", "EscalateMax"}
             /\ decision'.kind = "EscalateMax" <=>
                  mode' \in ControlModes /\ overshoot_streak' >= OvershootPolls
  <2>1. t \in Nat
    BY PolicyAssumption
  <2>2. CASE CurveEscalates(t)
    BY <2>1, <2>2 DEF CurveEscalates, Sees, Guarded, EscalateMax, Modes, ControlModes
  <2>3. CASE CurveSets(t)
    BY <2>1, <2>3 DEF CurveSets, Sees, Guarded, SetSpeed, Modes, ControlModes
  <2>4. CASE HoldEscalates(t)
    BY <2>1, <2>4 DEF HoldEscalates, Sees, Guarded, EscalateMax, Modes, ControlModes
  <2>5. ASSUME NEW held_rpm \in HoldRequests, HoldSets(t, held_rpm)
        PROVE  /\ t_now' = t /\ t \in Nat /\ loss_streak' = 0
               /\ overshoot_streak' = HotStreak(t)
               /\ mode' \in Modes
               /\ decision'.kind \in {"Observe", "SetSpeed", "EscalateMax"}
               /\ decision'.kind = "EscalateMax" <=>
                    mode' \in ControlModes /\ overshoot_streak' >= OvershootPolls
    BY <2>1, <2>5 DEF HoldSets, Sees, Guarded, SetSpeed, Modes, ControlModes
  <2>6. CASE Observes(t)
    BY <2>1, <2>6 DEF Observes, Sees, KeepWatching, Modes, ControlModes
  <2>. QED
    BY <1>1, <2>2, <2>3, <2>4, <2>5, <2>6 DEF Curve, Hold
<1>2. ASSUME Loses \/ GivesUp
      PROVE  /\ t_now' = None /\ overshoot_streak' = 0 /\ mode' \in Modes
             /\ decision'.kind \in {"Observe", "ReturnToAuto"}
             /\ \/ loss_streak' = loss_streak + 1 /\ decision'.kind # "ReturnToAuto"
                \/ /\ loss_streak' = 0 /\ loss_streak + 1 >= SensorLossPolls
                   /\ decision'.kind = "ReturnToAuto" <=> mode' \in ControlModes
  BY <1>2 DEF Loses, GivesUp, KeepWatching, ReturnToAuto, Modes, ControlModes
<1>3. ASSUME NEW t \in Temps, Curve(t) \/ Hold(t) \/ Observes(t)
      PROVE  Latest.heat = IF Hot(t) THEN "hot" ELSE "cool"
  <2>1. t_now' = t /\ t \in Nat
    BY <1>1, <1>3
  <2>. QED
    BY <2>1, PolicyAssumption DEF Latest, PollRecord, Hot
<1>4. Latest.mode = mode' /\ Latest.decision = decision'.kind
  BY DEF Latest, PollRecord
<1>5. OvershootPolls \in Nat \ {0} /\ SensorLossPolls \in Nat \ {0}
  BY WindowFacts
<1>6. CASE \E t \in Temps : Curve(t) \/ Hold(t) \/ Observes(t)
  <2>1. PICK t \in Temps : Curve(t) \/ Hold(t) \/ Observes(t)
    BY <1>6
  <2>2. Latest \in PollRecords
    BY <1>1, <1>3, <2>1 DEF Latest, PollRecord, PollRecords, Kinds
  <2>. QED
    BY <1>1, <1>3, <1>4, <2>1, <2>2 DEF HotStreak
<1>7. CASE Loses \/ GivesUp
  <2>1. Latest.heat = "lost"
    BY <1>2, <1>7 DEF Latest, PollRecord
  <2>2. Latest \in PollRecords
    BY <1>2, <1>7, <2>1 DEF Latest, PollRecord, PollRecords, Kinds
  <2>. QED
    BY <1>2, <1>4, <1>5, <1>7, <2>1, <2>2
<1>. QED
  BY <1>6, <1>7 DEF Next

-----------------------------------------------------------------------------
(* The invariant *)

\* HistoryNext, seen from the window.
LEMMA WindowStep ==
  ASSUME HInv, HistoryNext
  PROVE  /\ IInv /\ IInv' /\ Next /\ WindowOK /\ Latest \in PollRecords
         /\ recent' = Append(IF Len(recent) < WindowLength THEN recent
                             ELSE Tail(recent), Latest)
         /\ WindowOK' /\ Back(0)' = Latest
<1>1. /\ IInv /\ Next /\ WindowOK
      /\ recent' = Append(IF Len(recent) < WindowLength THEN recent
                          ELSE Tail(recent), Latest)
  BY DEF HInv, HistoryNext, Observed, Latest
<1>2. IInv' /\ Latest \in PollRecords
  BY <1>1, StepIInv, PollFacts
<1>. QED
  BY <1>1, <1>2, WindowMoves

LEMMA HotStreakStep ==
  ASSUME HInv, HistoryNext
  PROVE  HotStreakCounts' /\ GuardFiresExactly'
<1>1. /\ IInv /\ Next /\ WindowOK /\ Latest \in PollRecords
      /\ recent' = Append(IF Len(recent) < WindowLength THEN recent
                          ELSE Tail(recent), Latest)
      /\ Back(0)' = Latest /\ recent' # <<>>
  BY WindowStep, WindowMoves
<1>2. /\ overshoot_streak' =
           IF Latest.heat # "hot" THEN 0
           ELSE IF overshoot_streak < OvershootPolls THEN overshoot_streak + 1
           ELSE overshoot_streak
      /\ Latest.decision = "EscalateMax" <=>
           Latest.mode \in ControlModes /\ overshoot_streak' >= OvershootPolls
  BY <1>1, PollFacts
<1>3. overshoot_streak \in 0..OvershootPolls /\ OvershootPolls \in Nat \ {0}
  BY <1>1, WindowFacts DEF IInv, TypeOK
<1>4. Latest.mode \in Modes
  BY <1>1 DEF PollRecords
<1>5. ASSUME NEW n \in 1..OvershootPolls
      PROVE  overshoot_streak' >= n <=> LastPolls(n, {"hot"}, Modes)'
  <2>1. n \in 1..WindowLength
    BY WindowFacts
  <2>2. LastPolls(n, {"hot"}, Modes)' <=>
          Latest.heat = "hot" /\ LastPolls(n - 1, {"hot"}, Modes)
    BY <1>1, <1>4, <2>1, LastPollsGrow
  <2>3. LastPolls(n - 1, {"hot"}, Modes) <=> overshoot_streak >= n - 1
    <3>1. CASE n = 1
      BY <1>1, <1>3, <3>1, NoPollsNeeded
    <3>2. CASE n # 1
      <4>1. n - 1 \in 1..OvershootPolls
        BY <1>3, <3>2
      <4>2. \A m \in 1..OvershootPolls :
              overshoot_streak >= m <=> LastPolls(m, {"hot"}, Modes)
        BY DEF HInv, HotStreakCounts
      <4>. QED
        BY <4>1, <4>2
    <3>. QED
      BY <3>1, <3>2
  <2>. QED
    BY <1>2, <1>3, <2>2, <2>3
<1>6. HotStreakCounts'
  BY <1>5 DEF HotStreakCounts
<1>7. GuardFiresExactly'
  <2>1. OvershootPolls \in 1..OvershootPolls
    BY <1>3
  <2>2. overshoot_streak' >= OvershootPolls <=>
          LastPolls(OvershootPolls, {"hot"}, Modes)'
    BY <1>5, <2>1
  <2>. QED
    BY <1>1, <1>2, <2>2 DEF GuardFiresExactly
<1>. QED
  BY <1>6, <1>7

LEMMA LossStreakStep ==
  ASSUME HInv, HistoryNext
  PROVE  LossStreakCounts' /\ LossIsAnswered'
<1>1. /\ IInv /\ Next /\ WindowOK /\ Latest \in PollRecords
      /\ recent' = Append(IF Len(recent) < WindowLength THEN recent
                          ELSE Tail(recent), Latest)
      /\ Back(0)' = Latest
  BY WindowStep
<1>2. /\ Latest.heat # "lost" => loss_streak' = 0 /\ Latest.decision # "ReturnToAuto"
      /\ Latest.heat = "lost" =>
           \/ loss_streak' = loss_streak + 1 /\ Latest.decision # "ReturnToAuto"
           \/ /\ loss_streak' = 0 /\ loss_streak + 1 >= SensorLossPolls
              /\ Latest.decision = "ReturnToAuto" <=> Latest.mode \in ControlModes
  BY <1>1, PollFacts
<1>3. /\ loss_streak \in 0..(SensorLossPolls - 1)
      /\ loss_streak' \in 0..(SensorLossPolls - 1)
      /\ SensorLossPolls \in Nat \ {0}
  BY <1>1, WindowStep, WindowFacts DEF IInv, TypeOK
<1>4. Latest.mode \in Modes
  BY <1>1 DEF PollRecords
<1>5. ASSUME NEW n \in 1..SensorLossPolls
      PROVE  n \in 1..WindowLength
  BY WindowFacts
<1>6. ASSUME NEW n \in 0..(SensorLossPolls - 1), loss_streak >= n
      PROVE  LastPolls(n, {"lost"}, Modes)
  <2>1. CASE n = 0
    BY <1>1, <2>1, NoPollsNeeded
  <2>2. CASE n # 0
    <3>1. n \in 1..SensorLossPolls
      BY <1>3, <2>2
    <3>. QED
      BY <1>6, <3>1 DEF HInv, LossStreakCounts
  <2>. QED
    BY <2>1, <2>2
<1>7. ASSUME NEW n \in 1..SensorLossPolls, loss_streak' >= n
      PROVE  LastPolls(n, {"lost"}, Modes)'
  <2>1. Latest.heat = "lost" /\ loss_streak' = loss_streak + 1
    BY <1>2, <1>3, <1>7
  <2>2. n - 1 \in 0..(SensorLossPolls - 1) /\ loss_streak >= n - 1
    BY <1>3, <1>7, <2>1
  <2>3. LastPolls(n - 1, {"lost"}, Modes)
    BY <1>6, <2>2
  <2>. QED
    BY <1>1, <1>4, <1>5, <2>1, <2>3, LastPollsGrow
<1>8. ASSUME NEW n \in 1..SensorLossPolls,
             LastPolls(n, {"lost"}, ControlModes)',
             \A i \in 0..(n - 1) : Back(i)'.decision # "ReturnToAuto"
      PROVE  loss_streak' >= n
  <2>1. /\ Latest.heat = "lost" /\ Latest.mode \in ControlModes
        /\ LastPolls(n - 1, {"lost"}, ControlModes)
        /\ \A i \in 1..(n - 1) : Back(i)' = Back(i - 1)
    BY <1>1, <1>5, <1>8, LastPollsGrow
  <2>2. 0 \in 0..(n - 1)
    BY <1>3
  <2>3. Latest.decision # "ReturnToAuto"
    BY <1>1, <1>8, <2>2
  <2>4. loss_streak' = loss_streak + 1
    BY <1>2, <2>1, <2>3
  <2>5. CASE n = 1
    BY <1>3, <2>4, <2>5
  <2>6. CASE n # 1
    <3>1. n - 1 \in 1..SensorLossPolls
      BY <1>3, <2>6
    <3>2. ASSUME NEW j \in 0..((n - 1) - 1)
          PROVE  Back(j).decision # "ReturnToAuto"
      <4>1. j + 1 \in 1..(n - 1) /\ j + 1 \in 0..(n - 1) /\ (j + 1) - 1 = j
        BY <1>3
      <4>2. Back(j + 1)' = Back(j)
        BY <2>1, <4>1
      <4>. QED
        BY <1>8, <4>1, <4>2
    <3>3. loss_streak >= n - 1
      BY <2>1, <3>1, <3>2 DEF HInv, LossStreakCounts
    <3>. QED
      BY <1>3, <2>4, <3>3
  <2>. QED
    BY <2>5, <2>6
<1>9. LossStreakCounts'
  BY <1>7, <1>8 DEF LossStreakCounts
<1>10. SensorLossPolls \in 1..SensorLossPolls
       /\ SensorLossPolls - 1 \in 0..(SensorLossPolls - 1)
  BY <1>3
<1>11. LastPolls(SensorLossPolls, {"lost"}, ControlModes)' =>
         \E i \in 0..(SensorLossPolls - 1) : Back(i)'.decision = "ReturnToAuto"
  BY <1>3, <1>8, <1>10
<1>12. ASSUME Latest.decision = "ReturnToAuto"
       PROVE  LastPolls(SensorLossPolls, {"lost"}, Modes)'
  <2>1. Latest.heat = "lost" /\ loss_streak >= SensorLossPolls - 1
    BY <1>2, <1>3, <1>12
  <2>2. LastPolls(SensorLossPolls - 1, {"lost"}, Modes)
    BY <1>6, <1>10, <2>1
  <2>. QED
    BY <1>1, <1>4, <1>5, <1>10, <2>1, <2>2, LastPollsGrow
<1>13. LossIsAnswered'
  BY <1>1, <1>11, <1>12 DEF LossIsAnswered
<1>. QED
  BY <1>9, <1>13

\* slew_toward moves by at most SlewMax.
LEMMA SlewIsLimited ==
  ASSUME NEW from \in Nat, NEW target \in Nat
  PROVE  AbsDiff(SlewToward(from, target), from) <= SlewMax
BY PolicyAssumption DEF SlewToward, AbsDiff

\* A speed that the curve sets.
LEMMA CurveSetsSlewed ==
  ASSUME IInv, Next, mode' = "curve", decision'.kind = "SetSpeed"
  PROVE  /\ decision'.rpm = slew_rpm'
         /\ AbsDiff(decision'.rpm, slew_rpm) <= SlewMax
<1>1. PICK t \in Temps : CurveSets(t)
  BY DEF Next, Curve, Hold, CurveEscalates, HoldEscalates, HoldSets, Observes,
         Loses, GivesUp, EscalateMax, KeepWatching, ReturnToAuto
<1>2. t \in Nat /\ slew_rpm \in MinRpm..MaxRpm
  BY PolicyAssumption DEF IInv, CurveInBand
<1>3. Target(t) \in MinRpm..MaxRpm
  BY <1>2, TargetInBand
<1>4. slew_rpm \in Nat /\ Target(t) \in Nat
  BY <1>2, <1>3, ValidConfiguration
<1>5. decision'.rpm = slew_rpm' /\ slew_rpm' = SlewToward(slew_rpm, Target(t))
  BY <1>1 DEF CurveSets, SetSpeed
<1>. QED
  BY <1>4, <1>5, SlewIsLimited

LEMMA SessionStep ==
  ASSUME HInv, HistoryNext
  PROVE  SessionFollowsSlew'
<1>1. IInv /\ Next
  BY WindowStep
<1>2. commanded' =
        IF mode' # "curve" \/ decision'.kind = "ReturnToAuto" THEN None
        ELSE IF decision'.kind = "SetSpeed" THEN decision'.rpm
        ELSE IF decision'.kind = "EscalateMax" THEN MaxRpm
        ELSE IF mode = "curve" THEN commanded ELSE None
  BY DEF HistoryNext, Observed
<1>3. CASE mode' # "curve" \/ decision'.kind = "ReturnToAuto"
  BY <1>2, <1>3 DEF SessionFollowsSlew
<1>4. CASE mode' = "curve" /\ decision'.kind = "SetSpeed"
  BY <1>1, <1>2, <1>4, CurveSetsSlewed DEF SessionFollowsSlew
<1>5. CASE mode' = "curve" /\ decision'.kind = "EscalateMax"
  <2>1. slew_rpm' = MaxRpm
    BY <1>1, <1>5
       DEF Next, Curve, Hold, CurveEscalates, CurveSets, HoldEscalates, HoldSets,
           Observes, Loses, GivesUp, SetSpeed, KeepWatching, ReturnToAuto
  <2>. QED
    BY <1>2, <1>5, <2>1 DEF SessionFollowsSlew
<1>6. CASE /\ mode' = "curve"
           /\ decision'.kind \notin {"ReturnToAuto", "SetSpeed", "EscalateMax"}
  <2>1. slew_rpm' = slew_rpm
    BY <1>1, <1>6
       DEF Next, Curve, Hold, CurveEscalates, CurveSets, HoldEscalates, HoldSets,
           Observes, Loses, GivesUp, SetSpeed, EscalateMax, ReturnToAuto
  <2>. QED
    BY <1>2, <1>6, <2>1 DEF SessionFollowsSlew, HInv
<1>. QED
  BY <1>3, <1>4, <1>5, <1>6

LEMMA InitHInv == HistoryInit => HInv
<1> SUFFICES ASSUME HistoryInit
             PROVE  HInv
  OBVIOUS
<1>1. IInv /\ recent = <<>> /\ commanded = None
  BY InitIInv DEF HistoryInit
<1>2. recent \in Seq(PollRecords) /\ Len(recent) = 0
  BY <1>1
<1>3. WindowOK
  BY <1>2, WindowFacts DEF WindowOK
<1>4. \A n \in Nat \ {0} : \A heats, modes : ~LastPolls(n, heats, modes)
  BY <1>2 DEF LastPolls
<1>5. overshoot_streak = 0 /\ loss_streak = 0
  BY DEF HistoryInit, Init
<1>6. HotStreakCounts
  BY <1>4, <1>5 DEF HotStreakCounts
<1>7. LossStreakCounts
  BY <1>4, <1>5 DEF LossStreakCounts
<1>8. LossIsAnswered
  BY <1>1, <1>4, WindowFacts DEF LossIsAnswered
<1>. QED
  BY <1>1, <1>3, <1>6, <1>7, <1>8
     DEF HInv, SessionFollowsSlew, GuardFiresExactly

LEMMA StepHInv == HInv /\ [HistoryNext]_historyVars => HInv'
<1> SUFFICES ASSUME HInv, [HistoryNext]_historyVars
             PROVE  HInv'
  OBVIOUS
<1>1. CASE HistoryNext
  BY <1>1, WindowStep, HotStreakStep, LossStreakStep, SessionStep DEF HInv
<1>2. CASE UNCHANGED historyVars
  BY <1>2
     DEF historyVars, vars, HInv, IInv, TypeOK, CurveInBand, WindowOK,
         HotStreakCounts, LossStreakCounts, SessionFollowsSlew, LastPolls, Back,
         GuardFiresExactly, LossIsAnswered
<1>. QED
  BY <1>1, <1>2

THEOREM HistoryInvariance == HistorySpec => []HInv
BY InitHInv, StepHInv, PTL DEF HistorySpec

-----------------------------------------------------------------------------
\* The overshoot guard fires on exactly the polls it should (policy.rs: "the
\* overshoot guard bypasses slew in every mode"), whatever the modes before.
THEOREM GuardIsExact == HistorySpec => []GuardFiresExactly
<1>1. HInv => GuardFiresExactly
  BY DEF HInv
<1>. QED
  BY <1>1, HistoryInvariance, PTL

\* Lost sensors give the fan back in time and never early, in any mix of modes.
THEOREM LossIsAlwaysAnswered == HistorySpec => []LossIsAnswered
<1>1. HInv => LossIsAnswered
  BY DEF HInv
<1>. QED
  BY <1>1, HistoryInvariance, PTL

\* A curve session never asks for a speed further than SlewMax from the last.
THEOREM SessionsAreSlewed == HistorySpec => CurveSessionSlewed
<1>1. ASSUME HInv, [HistoryNext]_historyVars
      PROVE  [commanded # None /\ mode' = "curve" /\ decision'.kind = "SetSpeed"
                => AbsDiff(decision'.rpm, commanded) <= SlewMax]_historyVars
  BY <1>1, CurveSetsSlewed DEF HInv, SessionFollowsSlew, HistoryNext
<1>. QED
  BY <1>1, HistoryInvariance, PTL DEF HistorySpec, CurveSessionSlewed

-----------------------------------------------------------------------------
(* The plateau *)

PlateauInv == IInv /\ load \in Temps \cup {None}

LEMMA PlateauInvariance == PlateauSpec => []PlateauInv
<1>1. PlateauInit => PlateauInv
  BY InitIInv DEF PlateauInit, HistoryInit, PlateauInv
<1>2. PlateauInv /\ [PlateauNext]_plateauVars => PlateauInv'
  <2> SUFFICES ASSUME PlateauInv, [PlateauNext]_plateauVars
               PROVE  PlateauInv'
    OBVIOUS
  <2>1. CASE Varies
    BY <2>1, StepIInv DEF Varies, HistoryNext, PlateauInv
  <2>2. CASE Settles
    BY <2>2, StepIInv DEF Settles, PlateauInv
  <2>3. CASE PlateauPoll
    BY <2>3, CurveStep DEF PlateauPoll, PlateauInv
  <2>4. CASE UNCHANGED plateauVars
    BY <2>4, StepIInv DEF plateauVars, historyVars, PlateauInv
  <2>. QED
    BY <2>1, <2>2, <2>3, <2>4 DEF PlateauNext
<1>. QED
  BY <1>1, <1>2, PTL DEF PlateauSpec

LEMMA NoDistance ==
  ASSUME NEW n \in Nat
  PROVE  AbsDiff(n, n) = 0
<1>1. n - n = 0
  OBVIOUS
<1>. QED
  BY <1>1 DEF AbsDiff

\* slew_toward arrives or comes a full step nearer.
LEMMA SlewApproaches ==
  ASSUME NEW from \in Nat, NEW target \in Nat, NEW to, to = SlewToward(from, target)
  PROVE  to = target \/ AbsDiff(to, target) + SlewMax <= AbsDiff(from, target)
BY PolicyAssumption DEF SlewToward, AbsDiff

\* A hot poll of a plateau is one of the guard's, and the last one is answered.
LEMMA HotPlateau ==
  ASSUME PlateauInv, load \in Temps, load' = load, Hot(load), Curve(load)
  PROVE  /\ ToGo' = 0 \/ ToGo' + 1 <= ToGo
         /\ ToGo' = 0 => decision' = SteadyDecision(load)'
<1>1. /\ overshoot_streak \in 0..OvershootPolls /\ OvershootPolls \in Nat
      /\ ToGo = OvershootPolls - overshoot_streak
      /\ ToGo' = OvershootPolls - overshoot_streak'
  BY PolicyAssumption DEF PlateauInv, IInv, TypeOK, ToGo, Hot
<1>2. overshoot_streak' =
        IF overshoot_streak < OvershootPolls THEN overshoot_streak + 1
        ELSE overshoot_streak
  BY DEF Curve, CurveEscalates, CurveSets, Sees, HotStreak
<1>3. ToGo' = 0 => decision' = EscalateMax
  BY <1>1, <1>2 DEF Curve, CurveEscalates, CurveSets, Guarded
<1>4. SteadyDecision(load)' = EscalateMax
  BY DEF SteadyDecision, Hot
<1>. QED
  BY <1>1, <1>2, <1>3, <1>4

\* A cooler one moves the speed towards a target that stays where it is.
LEMMA CoolPlateau ==
  ASSUME PlateauInv, load \in Temps, load' = load, ~Hot(load), Curve(load)
  PROVE  /\ ToGo' = 0 \/ ToGo' + SlewMax <= ToGo
         /\ ToGo' = 0 => decision' = SteadyDecision(load)'
<1>1. /\ load \in Nat /\ slew_rpm \in MinRpm..MaxRpm /\ slew_rpm \in Nat
      /\ load < MaxC * 1000
  BY PolicyAssumption, ValidConfiguration DEF PlateauInv, IInv, CurveInBand, TypeOK, Hot
<1>2. CurveSets(load)
  BY PolicyAssumption DEF Curve, CurveEscalates, Guarded, Sees, HotStreak
<1>3. /\ slew_rpm' = SlewToward(slew_rpm, Target(load))
      /\ ramping' = Ramps(load)
      /\ decision' = SetSpeed(slew_rpm')
  BY <1>2 DEF CurveSets
<1>4. Target(load) \in MinRpm..MaxRpm /\ Target(load) \in Nat
  BY <1>1, TargetInBand, ValidConfiguration
<1>5. ToGo = AbsDiff(slew_rpm, Target(load)) /\ ToGo' = AbsDiff(slew_rpm', Target(load)')
  BY DEF ToGo, Hot
<1>6. Target(load)' \in {Target(load), slew_rpm'}
  <2>1. CASE load < LowC * 1000
    BY <2>1 DEF Target, LowC
  <2>2. CASE ~(load < LowC * 1000) /\ load >= HighC * 1000
    BY <1>1, <2>2 DEF Target, LowC, LinearTarget
  <2>3. CASE ~(load < LowC * 1000) /\ ~(load >= HighC * 1000) /\ ramping
    <3>1. ramping'
      <4>1. load >= LowC * 1000
        BY <1>1, <2>3, ValidConfiguration DEF LowC
      <4>2. Ramps(load)
        BY <2>3, <4>1 DEF Ramps
      <4>. QED
        BY <1>3, <4>2
    <3>. QED
      BY <1>1, <2>3, <3>1 DEF Target, LowC
  <2>4. CASE ~(load < LowC * 1000) /\ ~(load >= HighC * 1000) /\ ~ramping
    <3>1. ~ramping'
      BY <1>3, <2>4 DEF Ramps
    <3>. QED
      BY <1>1, <2>4, <3>1 DEF Target, LowC
  <2>. QED
    BY <2>1, <2>2, <2>3, <2>4
<1>7. slew_rpm' \in Nat
  BY <1>1, <1>3, <1>4, SlewStaysInBand, ValidConfiguration
<1>8. Target(load)' \in Nat
  BY <1>4, <1>6, <1>7
<1>9. ToGo' = 0 \/ ToGo' + SlewMax <= ToGo
  <2>1. CASE Target(load)' = Target(load)
    <3>1. slew_rpm' = Target(load)
            \/ AbsDiff(slew_rpm', Target(load)) + SlewMax <= AbsDiff(slew_rpm, Target(load))
      BY <1>1, <1>3, <1>4, SlewApproaches
    <3>2. slew_rpm' = Target(load) => AbsDiff(slew_rpm', Target(load)) = 0
      BY <1>4 DEF AbsDiff
    <3>. QED
      BY <1>5, <2>1, <3>1, <3>2
  <2>2. CASE Target(load)' = slew_rpm'
    <3>1. ToGo' = AbsDiff(slew_rpm', slew_rpm')
      BY <1>5, <2>2
    <3>2. AbsDiff(slew_rpm', slew_rpm') = 0
      BY <1>7, NoDistance
    <3>. QED
      BY <3>1, <3>2
  <2>. QED
    BY <1>6, <2>1, <2>2
<1>10. ToGo' = 0 => slew_rpm' = Target(load)'
  BY <1>5, <1>7, <1>8 DEF AbsDiff
<1>11. SteadyDecision(load)' = SetSpeed(Target(load)')
  BY <1>1, ValidConfiguration DEF SteadyDecision, Hot, Target, LowC, LinearTarget
<1>. QED
  BY <1>3, <1>9, <1>10, <1>11

\* The ranking argument behind Converges: on a plateau the curve is at most a
\* guard's streak, or a band's width in slew steps, away from its answer.
THEOREM PlateausAreApproached == PlateauSpec => PlateauApproaches
<1>1. PlateauInv /\ [PlateauNext]_plateauVars =>
        [PlateauPoll =>
           /\ ToGo' = 0 \/ ToGo' + (IF Hot(load) THEN 1 ELSE SlewMax) <= ToGo
           /\ ToGo' = 0 => decision' = SteadyDecision(load)']_plateauVars
  <2> SUFFICES ASSUME PlateauInv, PlateauPoll
               PROVE  /\ ToGo' = 0 \/ ToGo' + (IF Hot(load) THEN 1 ELSE SlewMax) <= ToGo
                      /\ ToGo' = 0 => decision' = SteadyDecision(load)'
    OBVIOUS
  <2>1. load \in Temps /\ load' = load /\ Curve(load)
    BY DEF PlateauInv, PlateauPoll
  <2>. QED
    BY <2>1, HotPlateau, CoolPlateau
<1>. QED
  BY <1>1, PlateauInvariance, PTL DEF PlateauSpec, PlateauApproaches

-----------------------------------------------------------------------------
(* The contract with the supervisor *)

\* A poll that sees: the streak is over, and a decision is the guard's or one of
\* the speeds its mode asks for.
LEMMA SeeingKeepsContract ==
  ASSUME IInv, IInv', NEW t \in Temps, Curve(t) \/ Hold(t) \/ Observes(t)
  PROVE  /\ t_now' # None /\ loss_streak' = 0
         /\ mode' = "observe" => decision'.kind = "Observe"
         /\ mode' # "observe" =>
              \/ decision'.kind = "EscalateMax"
              \/ /\ decision'.kind = "SetSpeed"
                 /\ decision'.rpm \in IF mode' = "curve" THEN MinRpm..MaxRpm
                                                         ELSE HoldRequests
<1>1. t # None
  BY PolicyAssumption
<1>2. CASE CurveEscalates(t) \/ CurveSets(t)
  <2>1. /\ t_now' # None /\ loss_streak' = 0
        /\ mode' = "curve"
        /\ decision'.kind = "EscalateMax" \/ decision'.kind = "SetSpeed"
    BY <1>1, <1>2 DEF CurveEscalates, CurveSets, Sees, EscalateMax, SetSpeed
  <2>2. decision'.kind = "SetSpeed" => decision'.rpm \in MinRpm..MaxRpm
    BY <2>1 DEF IInv, CurveInBand
  <2>. QED
    BY <2>1, <2>2
<1>3. CASE HoldEscalates(t)
  BY <1>1, <1>3 DEF HoldEscalates, Sees, EscalateMax
<1>4. CASE \E held_rpm \in HoldRequests : HoldSets(t, held_rpm)
  BY <1>1, <1>4 DEF HoldSets, Sees, SetSpeed
<1>5. CASE Observes(t)
  BY <1>1, <1>5 DEF Observes, Sees, KeepWatching
<1>. QED
  BY <1>2, <1>3, <1>4, <1>5 DEF Curve, Hold

\* A poll that sees nothing is counted, and answered when the streak is full.
LEMMA LosingKeepsContract ==
  ASSUME IInv, Loses \/ GivesUp
  PROVE  /\ t_now' = None
         /\ loss_streak' = Contract!StreakAfter(TRUE, loss_streak)
         /\ decision'.kind =
              IF mode' # "observe" /\ Contract!LastLost(loss_streak)
              THEN "ReturnToAuto" ELSE "Observe"
<1>1. CASE Loses
  <2>1. ~(loss_streak + 1 >= SensorLossPolls)
    BY <1>1, PolicyAssumption DEF Loses, IInv, TypeOK
  <2>. QED
    BY <1>1, <2>1 DEF Loses, KeepWatching, Contract!StreakAfter, Contract!LastLost
<1>2. CASE GivesUp
  BY <1>2 DEF GivesUp, KeepWatching, ReturnToAuto, Contract!StreakAfter,
              Contract!LastLost
<1>. QED
  BY <1>1, <1>2

\* The policy keeps the contract in every configuration: a supervisor proved
\* right for every policy that keeps it is right for this one.
THEOREM PolicyKeepsContract == Spec => KeepsContract
<1> DEFINE Kept ==
      LET lost == t_now' = None
          speeds == IF mode' = "curve" THEN MinRpm..MaxRpm ELSE HoldRequests
      IN  /\ loss_streak' = Contract!StreakAfter(lost, loss_streak)
          /\ Contract!MayDecide(decision', mode', speeds, lost, loss_streak)
<1>1. ASSUME IInv, IInv', [Next]_vars
      PROVE  [Kept]_vars
  <2>1. CASE \E t \in Temps : Curve(t) \/ Hold(t) \/ Observes(t)
    BY <1>1, <2>1, SeeingKeepsContract
       DEF Contract!StreakAfter, Contract!MayDecide
  <2>2. CASE Loses \/ GivesUp
    BY <1>1, <2>2, LosingKeepsContract DEF Contract!MayDecide
  <2>3. CASE UNCHANGED vars
    BY <2>3
  <2>. QED
    BY <1>1, <2>1, <2>2, <2>3 DEF Next
<1>2. IInv /\ IInv' /\ [Next]_vars => [Kept]_vars
  BY <1>1
<1>. QED
  BY <1>2, Invariance, PTL DEF Spec, KeepsContract
==============================================================================
