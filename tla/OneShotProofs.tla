----------------------------- MODULE OneShotProofs -----------------------------
(*****************************************************************************)
(* Proofs about OneShot, for every value of Supervisor's constants: success  *)
(* is reported of a released fan only, and a caught death releases it but    *)
(* for the one gap.                                                          *)
(*                                                                           *)
(* Both are about single steps.  What they need to know of the past is which *)
(* verb can be where, also after a fallback in the middle of a poll, and     *)
(* that an armed descriptor is an open file until once drops its supervisor  *)
(* (OneShotInv).                                                             *)
(*                                                                           *)
(* VerbsEnd needs it too: it says where a fallback returns to.               *)
(*****************************************************************************)
EXTENDS OneShot, TLAPS

\* Where a fallback returns to.
ReturnPoints == {"retry", "l1", "l1track", "l1stall", "publish"}

\* Each verb has its own steps.
VerbContext ==
  /\ \/ pc \in {"boot", "exited"}
     \/ verb = "once" /\ pc \in PollSteps \cup {"probe", "build", "reopen", "restore"}
     \/ verb = "selftest-panic" /\ pc \in {"probe", "panic"}
     \/ verb = "roundtrip" /\ pc \in {"manual", "holdspeed", "observe", "giveback"}
  /\ verb \in Verbs
  /\ pc = "fallback" => after \in ReturnPoints

\* An armed descriptor is an open file, except when once is between two
\* backends; an outcome is the end of the process.
DescriptorContext ==
  /\ descriptor \in {"none", "open", "closed"}
  /\ armed /\ pc \notin {"reopen", "exited"} => descriptor = "open"
  /\ armed /\ pc = "reopen" => descriptor = "closed"
  /\ result # "none" => pc = "exited"

OneShotInv == VerbContext /\ DescriptorContext

LEMMA OneShotInitInv == OneShotInit => OneShotInv
BY DEF OneShotInit, Init, OneShotInv, VerbContext, DescriptorContext

\* The steps of the poll stay in the poll and leave the process alone.
LEMMA PollStays ==
  ASSUME OneShotInv, Poll
  PROVE  /\ verb = "once" /\ pc \in PollSteps \ {"publish"}
         /\ pc' \in PollSteps
         /\ pc' = "fallback" => after' \in ReturnPoints
         /\ UNCHANGED armed /\ UNCHANGED process
<1> USE DEF Poll, Goto, FailWrite, PollSteps, ReturnPoints, l2
<1>1. CASE CmdStep
  BY <1>1
     DEF CmdStep, IgnoreCmdFile, RefuseCmd, ApplyControlCmd, ApplyObserveCmd,
         ReleaseForObserve
<1>2. CASE RetryStep
  BY <1>2 DEF RetryStep, RetrySkipped, RetrySucceeds, RetryFails
<1>3. CASE ActStep
  <2>1. CASE SensorsLost
    BY <2>1 DEF SensorsLost
  <2>2. CASE SensorsValid
    BY <2>2 DEF SensorsValid, WriteControlled
  <2>3. CASE EnterManual \/ WriteSpeed \/ ReturnToAuto
    BY <2>3 DEF EnterManual, WriteSpeed, ReturnToAuto
  <2>. QED
    BY <1>3, <2>1, <2>2, <2>3 DEF ActStep
<1>4. CASE L1Step
  <2>1. CASE L1ReadFails \/ L1NotOurs \/ L1Reads \/ L1ReassertManual
    BY <2>1 DEF L1ReadFails, L1NotOurs, L1Reads, L1ReassertManual
  <2>2. CASE L1OnTarget \/ L1Tracking \/ L1Stall
    BY <2>2 DEF L1OnTarget, L1Tracking, L1Stall, L1Verdict
  <2>. QED
    BY <1>4, <2>1, <2>2 DEF L1Step
<1>5. CASE DegradeToAuto
  BY <1>5 DEF DegradeToAuto, OneShotInv, VerbContext
<1>. QED
  BY <1>1, <1>2, <1>3, <1>4, <1>5

\* What each verb does outside of a poll.
LEMMA OwnStep ==
  ASSUME OneShotInv, Own
  PROVE  OneShotInv'
<1> USE DEF OneShotInv, VerbContext, DescriptorContext, Verbs, Exit, process
<1>1. CASE OpenFails \/ OpenSucceeds
  BY <1>1 DEF OpenFails, OpenSucceeds
<1>2. CASE Probed \/ NotProbed
  BY <1>2 DEF Probed, NotProbed, AfterProbe
<1>3. CASE Build
  BY <1>3 DEF Build, PollSteps
<1>4. CASE Poll
  BY <1>4, PollStays DEF PollSteps
<1>5. CASE DropSupervisor \/ Reopen
  BY <1>5 DEF DropSupervisor, Reopen, PollSteps
<1>6. CASE RestoreOnExit
  <2>1. pc' = "exited" /\ descriptor' = "closed" /\ verb' = verb
    BY <1>6 DEF RestoreOnExit
  <2>. QED
    BY <2>1
<1>7. CASE RoundtripManual \/ RoundtripSpeed \/ RoundtripObserve
  <2>1. /\ pc \in {"manual", "holdspeed", "observe"}
        /\ pc' \in {"holdspeed", "observe", "giveback"}
        /\ UNCHANGED <<armed, verb, descriptor, result>>
    BY <1>7 DEF RoundtripManual, RoundtripSpeed, RoundtripObserve
  <2>2. verb = "roundtrip"
    BY <2>1 DEF PollSteps
  <2>. QED
    BY <2>1, <2>2
<1>8. CASE RoundtripGiveBack \/ DeliberatePanic
  BY <1>8 DEF RoundtripGiveBack, DeliberatePanic, Dies
<1>. QED
  BY <1>1, <1>2, <1>3, <1>4, <1>5, <1>6, <1>7, <1>8 DEF Own

LEMMA OneShotStepInv == OneShotInv /\ [OneShotNext]_oneShotVars => OneShotInv'
<1> SUFFICES ASSUME OneShotInv, [OneShotNext]_oneShotVars
             PROVE  OneShotInv'
  OBVIOUS
<1> USE DEF OneShotInv, VerbContext, DescriptorContext, process
<1>1. CASE Own
  BY <1>1, OwnStep
<1>2. CASE (ClientWritesCmd \/ FirmwareReclaims) /\ UNCHANGED process
  BY <1>2 DEF ClientWritesCmd, FirmwareReclaims, l2
<1>3. CASE CaughtSignal \/ Killed
  BY <1>3 DEF CaughtSignal, Killed, Dies
<1>4. CASE UNCHANGED oneShotVars
  BY <1>4 DEF oneShotVars, vars, l2
<1>. QED
  BY <1>1, <1>2, <1>3, <1>4 DEF OneShotNext

THEOREM OneShotInvariance == OneShotSpec => []OneShotInv
BY OneShotInitInv, OneShotStepInv, PTL DEF OneShotSpec

-----------------------------------------------------------------------------
\* live_once_report and roundtrip_manual_test report success only when their
\* last write has put the fan in AUTO, a round trip only when it has seen
\* Manual before.
LEMMA SuccessStep ==
  ASSUME OneShotInv, OneShotNext, result' = "ok", result = "none"
  PROVE  fan_mode' = "Auto" /\ (verb = "roundtrip" => observed = "Manual")
<1> USE DEF Exit, process
<1>1. CASE RestoreOnExit
  BY <1>1 DEF RestoreOnExit, OneShotInv, VerbContext
<1>2. CASE RoundtripGiveBack
  BY <1>2 DEF RoundtripGiveBack
<1>3. CASE Poll
  BY <1>3, PollStays
<1>4. CASE Own /\ ~RestoreOnExit /\ ~RoundtripGiveBack /\ ~Poll
  BY <1>4
     DEF Own, OpenFails, OpenSucceeds, Probed, NotProbed, Build, DropSupervisor,
         Reopen, RoundtripManual, RoundtripSpeed, RoundtripObserve,
         DeliberatePanic, Dies
<1>5. CASE CaughtSignal \/ Killed
  BY <1>5 DEF CaughtSignal, Killed, Dies
<1>. QED
  BY <1>1, <1>2, <1>3, <1>4, <1>5 DEF OneShotNext

THEOREM SuccessIsRelease == OneShotSpec => SuccessMeansReleased
<1>1. OneShotInv /\ [OneShotNext]_oneShotVars
        => [result' = "ok" /\ result = "none" =>
              /\ fan_mode' = "Auto"
              /\ verb = "roundtrip" => observed = "Manual"]_oneShotVars
  BY SuccessStep
<1>. QED
  BY <1>1, OneShotInvariance, PTL DEF OneShotSpec, SuccessMeansReleased

\* The death path of once and selftest-panic: with the probed descriptor armed
\* a caught signal or panic puts the fan in AUTO, except between the drop of
\* once's supervisor and the reopening.
LEMMA CaughtStep ==
  ASSUME OneShotInv, OneShotNext, result' = "caught", armed, pc # "reopen"
  PROVE  fan_mode' = "Auto"
<1> USE DEF OneShotInv, DescriptorContext, Exit, process
<1>1. CASE CaughtSignal \/ DeliberatePanic
  BY <1>1 DEF CaughtSignal, DeliberatePanic, DeathWrite
<1>2. CASE Own /\ ~DeliberatePanic
  <2>1. CASE Poll
    BY <2>1, PollStays DEF PollSteps
  <2>2. CASE ~Poll
    BY <1>2, <2>2
       DEF Own, OpenFails, OpenSucceeds, Probed, NotProbed, Build,
           DropSupervisor, Reopen, RestoreOnExit, RoundtripManual,
           RoundtripSpeed, RoundtripObserve, RoundtripGiveBack
  <2>. QED
    BY <2>1, <2>2
<1>3. CASE (ClientWritesCmd \/ FirmwareReclaims) /\ UNCHANGED process
  BY <1>3 DEF ClientWritesCmd, FirmwareReclaims
<1>4. CASE Killed
  BY <1>4 DEF Killed, Dies
<1>. QED
  BY <1>1, <1>2, <1>3, <1>4 DEF OneShotNext

THEOREM CaughtDeathsRelease == OneShotSpec => CaughtDeathReleases
<1>1. OneShotInv /\ [OneShotNext]_oneShotVars
        => [result' = "caught" /\ armed /\ pc # "reopen"
              => fan_mode' = "Auto"]_oneShotVars
  BY CaughtStep
<1>. QED
  BY <1>1, OneShotInvariance, PTL DEF OneShotSpec, CaughtDeathReleases

-----------------------------------------------------------------------------
(* Every verb ends after boundedly many steps of its own *)

LEMMA Orders ==
  /\ Order("boot") = 22 /\ Order("probe") = 21 /\ Order("build") = 20
  /\ Order("cmd") = 19 /\ Order("release") = 18 /\ Order("retry") = 16
  /\ Order("decide") = 15 /\ Order("enter") = 14 /\ Order("speed") = 13
  /\ Order("return") = 13 /\ Order("l1") = 11 /\ Order("l1mode") = 9
  /\ Order("l1track") = 7 /\ Order("l1stall") = 5 /\ Order("publish") = 3
  /\ Order("reopen") = 2 /\ Order("restore") = 1 /\ Order("panic") = 1
  /\ Order("manual") = 4 /\ Order("holdspeed") = 3 /\ Order("observe") = 2
  /\ Order("giveback") = 1 /\ Order("exited") = 0
BY DEF Order

LEMMA PollApproaches ==
  ASSUME OneShotInv, Poll
  PROVE  StepsToGo' < StepsToGo /\ StepsToGo' <= StepsToGo
<1> USE Orders DEF Poll, Goto, FailWrite, StepsToGo
<1>1. CASE CmdStep
  BY <1>1
     DEF CmdStep, IgnoreCmdFile, RefuseCmd, ApplyControlCmd, ApplyObserveCmd,
         ReleaseForObserve
<1>2. CASE RetryStep
  BY <1>2 DEF RetryStep, RetrySkipped, RetrySucceeds, RetryFails
<1>3. CASE ActStep
  <2>1. CASE SensorsLost
    BY <2>1 DEF SensorsLost
  <2>2. CASE SensorsValid
    BY <2>2 DEF SensorsValid, WriteControlled
  <2>3. CASE EnterManual \/ WriteSpeed \/ ReturnToAuto
    BY <2>3 DEF EnterManual, WriteSpeed, ReturnToAuto
  <2>. QED
    BY <1>3, <2>1, <2>2, <2>3 DEF ActStep
<1>4. CASE L1Step
  <2>1. CASE L1ReadFails \/ L1NotOurs \/ L1Reads \/ L1ReassertManual
    BY <2>1 DEF L1ReadFails, L1NotOurs, L1Reads, L1ReassertManual
  <2>2. CASE L1OnTarget \/ L1Tracking \/ L1Stall
    BY <2>2 DEF L1OnTarget, L1Tracking, L1Stall, L1Verdict
  <2>. QED
    BY <1>4, <2>1, <2>2 DEF L1Step
<1>5. CASE DegradeToAuto
  <2>1. pc = "fallback" /\ pc' = after /\ after \in ReturnPoints
    BY <1>5 DEF DegradeToAuto, OneShotInv, VerbContext
  <2>. QED
    BY <2>1 DEF ReturnPoints
<1>. QED
  BY <1>1, <1>2, <1>3, <1>4, <1>5

LEMMA OwnApproaches ==
  ASSUME OneShotInv, Own
  PROVE  StepsToGo' < StepsToGo /\ StepsToGo' <= StepsToGo
<1> USE Orders DEF StepsToGo, Exit
<1>1. CASE OpenFails \/ OpenSucceeds
  BY <1>1 DEF OpenFails, OpenSucceeds
<1>2. CASE Poll
  BY <1>2, PollApproaches
<1>3. CASE Build \/ DropSupervisor \/ Reopen \/ RestoreOnExit
  BY <1>3 DEF Build, DropSupervisor, Reopen, RestoreOnExit
<1>4. CASE RoundtripManual \/ RoundtripSpeed \/ RoundtripObserve
  <2>1. \/ pc = "manual" /\ pc' \in {"holdspeed", "observe"}
        \/ pc = "holdspeed" /\ pc' = "observe"
        \/ pc = "observe" /\ pc' = "giveback"
    BY <1>4 DEF RoundtripManual, RoundtripSpeed, RoundtripObserve
  <2>. QED
    BY <2>1
<1>5. CASE RoundtripGiveBack \/ DeliberatePanic
  <2>1. pc \in {"giveback", "panic"} /\ pc' = "exited"
    BY <1>5 DEF RoundtripGiveBack, DeliberatePanic, Dies
  <2>. QED
    BY <2>1
<1>6. CASE Probed \/ NotProbed
  BY <1>6 DEF Probed, NotProbed, AfterProbe
<1>. QED
  BY <1>1, <1>2, <1>3, <1>4, <1>5, <1>6 DEF Own

LEMMA SomethingToGo ==
  ASSUME OneShotInv
  PROVE  StepsToGo \in Nat
<1>1. CASE pc = "fallback"
  BY <1>1 DEF OneShotInv, VerbContext, StepsToGo, Order, ReturnPoints
<1>2. CASE pc # "fallback"
  BY <1>2 DEF OneShotInv, VerbContext, StepsToGo, Order, PollSteps
<1>. QED
  BY <1>1, <1>2

\* once, selftest-panic and roundtrip end after at most 22 steps of their own,
\* the ranking argument behind EveryVerbEnds.
THEOREM VerbsEnd == OneShotSpec => VerbsAreBounded
<1>1. OneShotInv /\ [OneShotNext]_oneShotVars
        => [/\ Own => StepsToGo' < StepsToGo
            /\ StepsToGo' <= StepsToGo]_oneShotVars
  <2> SUFFICES ASSUME OneShotInv, OneShotNext
               PROVE  /\ Own => StepsToGo' < StepsToGo
                      /\ StepsToGo' <= StepsToGo
    OBVIOUS
  <2>1. CASE Own
    BY <2>1, OwnApproaches
  <2>2. CASE ~Own /\ (ClientWritesCmd \/ FirmwareReclaims)
    BY <2>2, SomethingToGo DEF ClientWritesCmd, FirmwareReclaims, StepsToGo
  <2>3. CASE ~Own /\ (CaughtSignal \/ Killed)
    <3>1. StepsToGo' = 0
      BY <2>3 DEF CaughtSignal, Killed, Dies, StepsToGo, Order
    <3>. QED
      BY <2>3, <3>1, SomethingToGo
  <2>. QED
    BY <2>1, <2>2, <2>3 DEF OneShotNext
<1>. QED
  BY <1>1, OneShotInvariance, PTL DEF OneShotSpec, VerbsAreBounded
=============================================================================
