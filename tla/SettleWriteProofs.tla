--------------------------- MODULE SettleWriteProofs ---------------------------
(*****************************************************************************)
(* Proofs about SettleWrite, for every attribute, tolerance, number of       *)
(* re-issues and number of samples: a verified write leaves nothing else in  *)
(* flight, settle_write keeps the promise of FanWrite, and a call neither    *)
(* goes on nor sleeps longer than its windows allow.                         *)
(*****************************************************************************)
EXTENDS SettleWrite, TLAPS

LEMMA InitInv == Init => Inv
BY SettleAssumption
   DEF Init, Inv, TypeOK, NothingElseInFlight, OutcomeWhenIdle

LEMMA CallStep ==
  ASSUME Inv, NEW value \in Values, Call(value)
  PROVE  Inv'
BY SettleAssumption
   DEF Inv, TypeOK, NothingElseInFlight, OutcomeWhenIdle, Call

LEMMA WriterStep ==
  ASSUME Inv, Writer
  PROVE  Inv'
<1> USE DEF Inv, TypeOK, NothingElseInFlight, OutcomeWhenIdle
<1>1. CASE Write
  BY <1>1, SettleAssumption DEF Write
<1>2. CASE SyscallFails
  BY <1>2 DEF SyscallFails, Return
<1>3. CASE SampleMatches
  BY <1>3 DEF SampleMatches, Return
<1>4. CASE SampleDiffers
  BY <1>4, SettleAssumption DEF SampleDiffers
<1>5. CASE WindowExpires
  BY <1>5, SettleAssumption DEF WindowExpires, Return
<1>. QED
  BY <1>1, <1>2, <1>3, <1>4, <1>5 DEF Writer

LEMMA SmcStep ==
  ASSUME Inv, Adopt \/ FirmwareSets
  PROVE  Inv'
BY ValuesAssumption
   DEF Inv, TypeOK, NothingElseInFlight, OutcomeWhenIdle, Adopt, FirmwareSets

LEMMA StepInv == Inv /\ [Next]_vars => Inv'
<1> SUFFICES ASSUME Inv, [Next]_vars
             PROVE  Inv'
  OBVIOUS
<1>1. CASE Next
  BY <1>1, CallStep, WriterStep, SmcStep DEF Next
<1>2. CASE UNCHANGED vars
  BY <1>2 DEF vars, Inv, TypeOK, NothingElseInFlight, OutcomeWhenIdle
<1>. QED
  BY <1>1, <1>2

THEOREM Invariance == Spec => []Inv
BY InitInv, StepInv, PTL DEF Spec

\* The types of the variables: the window and the re-issues are bounded.
THEOREM TypeCorrect == Spec => []TypeOK
<1>1. Inv => TypeOK
  BY DEF Inv
<1>. QED
  BY <1>1, Invariance, PTL

\* Nothing but the value of the call can land during its window or after its Ok.
THEOREM NothingElseLands == Spec => []NothingElseInFlight
<1>1. Inv => NothingElseInFlight
  BY DEF Inv
<1>. QED
  BY <1>1, Invariance, PTL

-----------------------------------------------------------------------------
\* The SMC's tick is the only step of this model, the firmware's apart, that
\* changes the register, and after an Ok it can only put the verified value there.
LEMMA VerifiedStep ==
  ASSUME Inv, Next, outcome = "ok", register \in Accepted(wanted),
         UNCHANGED wanted
  PROVE  register' \in Accepted(wanted) \/ register' \in FirmwareValues
<1>1. CASE Adopt
  <2>1. in_flight = wanted /\ wanted \in Values
    BY <1>1 DEF Adopt, Inv, TypeOK, NothingElseInFlight
  <2>2. wanted \in Accepted(wanted)
    BY <2>1, ValuesAssumption DEF Accepted
  <2>. QED
    BY <1>1, <2>1, <2>2 DEF Adopt
<1>2. CASE FirmwareSets
  BY <1>2 DEF FirmwareSets
<1>3. CASE Writer \/ \E value \in Values : Call(value)
  BY <1>3 DEF Writer, Write, SyscallFails, SampleMatches, SampleDiffers,
              WindowExpires, Call
<1>. QED
  BY <1>1, <1>2, <1>3 DEF Next

\* A verified value leaves the register only by the firmware's hand.
THEOREM VerifiedValuesStay == Spec => VerifiedValueStays
<1>1. Inv /\ [Next]_vars =>
        [outcome = "ok" /\ register \in Accepted(wanted) /\ UNCHANGED wanted
           => register' \in Accepted(wanted) \/ register' \in FirmwareValues]_vars
  BY VerifiedStep
<1>. QED
  BY <1>1, Invariance, PTL DEF Spec, VerifiedValueStays

-----------------------------------------------------------------------------
\* The refinement: samples and re-issues are steps FanWrite does not see.
LEMMA InitRefines == Init => Promise!Init
BY DEF Init, Promise!Init

LEMMA StepRefines ==
  ASSUME Inv, [Next]_vars
  PROVE  [Promise!Next]_(Promise!vars)
<1>1. ASSUME NEW value \in Values, Call(value)
      PROVE  Promise!Call(value)
  BY <1>1 DEF Call, Promise!Call
<1>2. CASE Write
  BY <1>2 DEF Write, Promise!Next, Promise!Issue
<1>3. CASE SyscallFails
  BY <1>3 DEF SyscallFails, Return, Promise!Next, Promise!ReturnErr
<1>4. CASE SampleMatches
  BY <1>4
     DEF SampleMatches, Return, Inv, NothingElseInFlight, Accepted,
         Promise!Next, Promise!ReturnOk, Promise!Accepted
<1>5. CASE SampleDiffers
  BY <1>5 DEF SampleDiffers, Promise!vars
<1>6. CASE WindowExpires
  <2>1. CASE reissues_left > 0
    BY <1>6, <2>1 DEF WindowExpires, Promise!vars
  <2>2. CASE ~(reissues_left > 0)
    BY <1>6, <2>2 DEF WindowExpires, Return, Promise!Next, Promise!ReturnErr
  <2>. QED
    BY <2>1, <2>2
<1>7. CASE Adopt
  BY <1>7 DEF Adopt, Promise!Next, Promise!Adopt
<1>8. CASE FirmwareSets
  BY <1>8 DEF FirmwareSets, Promise!Next, Promise!FirmwareSets
<1>9. CASE UNCHANGED vars
  BY <1>9 DEF vars, Promise!vars
<1>. QED
  BY <1>1, <1>2, <1>3, <1>4, <1>5, <1>6, <1>7, <1>8, <1>9
     DEF Next, Writer, Promise!Next

\* settle_write implements FanWrite: its promise may be relied on.
THEOREM Refinement == Spec => KeepsPromise
BY InitRefines, StepRefines, Invariance, PTL
   DEF Spec, KeepsPromise, Promise!Spec

-----------------------------------------------------------------------------
(* How long a call may take *)

\* One window fewer leaves that many steps, or sleeps, fewer.
LEMMA WindowLess ==
  ASSUME NEW r \in Nat \ {0}, NEW w \in Nat
  PROVE  r * w = (r - 1) * w + w
OBVIOUS

LEMMA WindowsWithin ==
  ASSUME NEW r \in Nat, NEW n \in Nat, NEW w \in Nat, r <= n
  PROVE  r * w \in Nat /\ r * w + w <= (n + 1) * w
<1>1. r * w \in Nat /\ r * w <= n * w
  OBVIOUS
<1>2. (n + 1) * w = n * w + w
  OBVIOUS
<1>. QED
  BY <1>1, <1>2

\* What a call may still do when it has r re-issues left and k samples of w + 1
\* behind it.
LEMMA WriterSteps ==
  ASSUME Inv, Writer
  PROVE  StepsLeft' < StepsLeft /\ SleepsLeft' <= SleepsLeft
                /\ (SampleDiffers => SleepsLeft' < SleepsLeft)
<1> DEFINE W == SettleSamples + 1
           Z == SettleSamples - 1
           r == reissues_left
<1>1. /\ W \in Nat /\ Z \in Nat /\ SettleSamples \in Nat \ {0} /\ r \in Nat
      /\ sampled \in 0..Z
  BY SettleAssumption DEF Inv, TypeOK
<1>2. r * W \in Nat /\ r * Z \in Nat
  BY <1>1
<1>3. CASE Write
  <2>1. StepsLeft = r * W + W /\ StepsLeft' = r * W + SettleSamples
    BY <1>1, <1>3 DEF Write, StepsLeft
  <2>2. SleepsLeft = r * Z + Z /\ SleepsLeft' = r * Z + Z
    BY <1>1, <1>3 DEF Write, SleepsLeft
  <2>3. ~SampleDiffers
    BY <1>3 DEF Write, SampleDiffers
  <2>. QED
    BY <1>1, <1>2, <2>1, <2>2, <2>3
<1>4. CASE SyscallFails \/ SampleMatches
  <2>1. StepsLeft' = 0 /\ SleepsLeft' = 0
    BY <1>4 DEF SyscallFails, SampleMatches, Return, StepsLeft, SleepsLeft
  <2>2. StepsLeft > 0 /\ SleepsLeft >= 0
    BY <1>1, <1>2, <1>4 DEF SyscallFails, SampleMatches, StepsLeft, SleepsLeft
  <2>3. ~SampleDiffers
    BY <1>4 DEF SyscallFails, SampleMatches, Return, SampleDiffers
  <2>. QED
    BY <1>1, <1>2, <2>1, <2>2, <2>3
<1>5. CASE SampleDiffers
  <2>1. StepsLeft = r * W + (SettleSamples - sampled)
        /\ StepsLeft' = r * W + (SettleSamples - (sampled + 1))
    BY <1>5 DEF SampleDiffers, StepsLeft
  <2>2. SleepsLeft = r * Z + (Z - sampled) /\ SleepsLeft' = r * Z + (Z - (sampled + 1))
    BY <1>5 DEF SampleDiffers, SleepsLeft
  <2>. QED
    BY <1>1, <1>2, <2>1, <2>2
<1>6. CASE WindowExpires /\ reissues_left > 0
  <2>1. StepsLeft = r * W + (SettleSamples - sampled) /\ SleepsLeft = r * Z + (Z - sampled)
    BY <1>6 DEF WindowExpires, StepsLeft, SleepsLeft
  <2>2. StepsLeft' = (r - 1) * W + W /\ SleepsLeft' = (r - 1) * Z + Z
    BY <1>6 DEF WindowExpires, StepsLeft, SleepsLeft
  <2>3. r * W = (r - 1) * W + W /\ r * Z = (r - 1) * Z + Z
    BY <1>1, <1>6, WindowLess
  <2>4. ~SampleDiffers
    BY <1>6 DEF WindowExpires, SampleDiffers
  <2>. QED
    BY <1>1, <1>2, <2>1, <2>2, <2>3, <2>4
<1>7. CASE WindowExpires /\ ~(reissues_left > 0)
  <2>1. StepsLeft' = 0 /\ SleepsLeft' = 0
    BY <1>7 DEF WindowExpires, Return, StepsLeft, SleepsLeft
  <2>2. StepsLeft > 0 /\ SleepsLeft >= 0
    BY <1>1, <1>2, <1>7 DEF WindowExpires, StepsLeft, SleepsLeft
  <2>3. ~SampleDiffers
    BY <1>7 DEF WindowExpires, Return, SampleDiffers
  <2>. QED
    BY <1>1, <1>2, <2>1, <2>2, <2>3
<1>. QED
  BY <1>3, <1>4, <1>5, <1>6, <1>7 DEF Writer

\* Only the thread itself, and the start of a call, changes what is left.
LEMMA OthersWait ==
  ASSUME [Next]_vars, ~Writer, ~\E value \in Values : Call(value)
  PROVE  UNCHANGED <<StepsLeft, SleepsLeft>> /\ ~SampleDiffers
BY DEF Next, Writer, Adopt, FirmwareSets, vars, StepsLeft, SleepsLeft

\* settle_write comes to an end: every step of a call is one of boundedly many.
THEOREM CallsEnd == Spec => CallsAreBounded
<1>1. Inv /\ [Next]_vars =>
        [/\ Writer => StepsLeft' < StepsLeft
         /\ pc # "idle" => StepsLeft' <= StepsLeft]_vars
  <2> SUFFICES ASSUME Inv, [Next]_vars
               PROVE  /\ Writer => StepsLeft' < StepsLeft
                      /\ pc # "idle" => StepsLeft' <= StepsLeft
    OBVIOUS
  <2>1. StepsLeft \in Int /\ StepsLeft' \in Int
    BY SettleAssumption, StepInv DEF StepsLeft, Inv, TypeOK
  <2>2. CASE Writer
    BY <2>1, <2>2, WriterSteps
  <2>3. CASE \E value \in Values : Call(value)
    BY <2>3 DEF Call, Writer, Write, SyscallFails, SampleMatches, SampleDiffers,
                WindowExpires
  <2>4. CASE ~Writer /\ ~\E value \in Values : Call(value)
    BY <2>1, <2>4, OthersWait
  <2>. QED
    BY <2>2, <2>3, <2>4
<1>. QED
  BY <1>1, Invariance, PTL DEF Spec, CallsAreBounded

LEMMA SleepsBound ==
  ASSUME Inv
  PROVE  SleepsLeft \in 0..((WriteRetryMax + 1) * (SettleSamples - 1))
<1> DEFINE Z == SettleSamples - 1
           r == reissues_left
           M == (WriteRetryMax + 1) * Z
<1>1. Z \in Nat /\ r \in Nat /\ r <= WriteRetryMax /\ WriteRetryMax \in Nat /\ sampled \in 0..Z
  BY SettleAssumption DEF Inv, TypeOK
<1>2. r * Z \in Nat /\ r * Z + Z <= M
  BY <1>1, WindowsWithin
<1>3. M \in Nat
  BY <1>1
<1>4. SleepsLeft \in {0, r * Z + Z, r * Z + (Z - sampled)}
  BY DEF SleepsLeft
<1>. HIDE DEF M
<1>5. SleepsLeft \in 0..M
  BY <1>1, <1>2, <1>3, <1>4
<1>. QED
  BY <1>5 DEF M

\* A verified write sleeps at most through the windows of its writes: the
\* duration TimedDaemon gives to every Smc call.
THEOREM CallsSettleInTime == Spec => SleepsAreBounded
<1> DEFINE Bounded == SleepsLeft \in 0..((WriteRetryMax + 1) * (SettleSamples - 1))
<1>1. Inv => Bounded
  BY SleepsBound
<1>2. Inv /\ Bounded /\ Bounded' /\ [Next]_vars =>
        [/\ SleepsLeft' \in 0..((WriteRetryMax + 1) * (SettleSamples - 1))
         /\ SampleDiffers => SleepsLeft' < SleepsLeft
         /\ pc # "idle" => SleepsLeft' <= SleepsLeft]_vars
  <2> SUFFICES ASSUME Inv, Bounded, Bounded', [Next]_vars
               PROVE  /\ SampleDiffers => SleepsLeft' < SleepsLeft
                      /\ pc # "idle" => SleepsLeft' <= SleepsLeft
    OBVIOUS
  <2>1. SleepsLeft \in Int
    BY SettleAssumption
  <2>2. CASE Writer
    BY <2>2, WriterSteps
  <2>3. CASE \E value \in Values : Call(value)
    BY <2>3 DEF Call, SampleDiffers
  <2>4. CASE ~Writer /\ ~\E value \in Values : Call(value)
    BY <2>1, <2>4, OthersWait
  <2>. QED
    BY <2>2, <2>3, <2>4
<1>. QED
  BY <1>1, <1>2, Invariance, PTL DEF Spec, SleepsAreBounded
=============================================================================
