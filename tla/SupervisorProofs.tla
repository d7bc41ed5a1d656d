---------------------------- MODULE SupervisorProofs ----------------------------
(*****************************************************************************)
(* Proofs about Supervisor, for every hardware band, set of speeds, commands *)
(* and tachometer readings, every value of the tunables and every number of  *)
(* deaths.                                                                   *)
(*                                                                           *)
(* Inv (Supervisor.tla) is inductive: a control write is entitled because of *)
(* what the earlier steps of the poll left behind (Custody), which in turn   *)
(* needs to know where in a poll the thread can be in each mode              *)
(* (ThreadContext).  One lemma per group of actions shows that Inv is kept,  *)
(* one case per action: the types, then Custody, then ThreadContext.         *)
(*                                                                           *)
(* Three more sections: the refinement of FanCustody; the contract of the    *)
(* control policy, of which the two actions at "decide" make exactly what it *)
(* allows; the stall window of a fan that stands still.                      *)
(*****************************************************************************)
EXTENDS Supervisor, TLAPS

\* Whatever the controller asks for, the clamped target is a speed.
LEMMA OutputsInNat ==
  \A m \in RunMode : m # Observe => \A rpm \in Outputs(m) : Clamp(rpm) \in Nat
BY BandAssumption DEF RunMode, Observe, Curve, Hold, Outputs, Clamp

LEMMA ModeFacts ==
  Observe \in RunMode /\ RunMode \subseteq CmdContents /\ NoCmd \in CmdContents
BY DEF RunMode, CmdContents

LEMMA InitInv == Init => Inv
<1> SUFFICES ASSUME Init
             PROVE  Inv
  OBVIOUS
<1>1. CountersType
  BY TunablesAssumption DEF Init, CountersType
<1>2. MachineType /\ FieldsType /\ ThreadType
  <2>1. MachineType
    BY TunablesAssumption, ModeFacts DEF Init, MachineType
  <2>2. FieldsType
    BY StartAssumption DEF Init, FieldsType
  <2>3. ThreadType
    BY DEF Init, ThreadType, Steps, StartupSteps
  <2>. QED
    BY <2>1, <2>2, <2>3
<1>3. Custody
  BY DEF Init, Custody, ControlWriteEntitled, ControlWriteNext,
         UndrivenFanIsBeingReleased, WrittenOnlyWhileOwned
<1>4. ThreadContext
  BY TunablesAssumption
     DEF Init, ThreadContext, StartupOwnsNothing, L2Consistent, CallContext,
         FallbackContext, PollSteps, StartupSteps
<1>. QED
  BY <1>1, <1>2, <1>3, <1>4 DEF Inv, TypeOK

\* Starting up.
LEMMA StartupStep ==
  ASSUME Inv, Startup
  PROVE  Inv'
<1> USE DEF Inv, Goto, machine, intent, ownership, counters, l2, locals
<1>1. CASE SnapshotInherited
  <2>1. TypeOK'
    BY <1>1
       DEF SnapshotInherited, TypeOK, MachineType, FieldsType, CountersType,
           ThreadType, Steps, PollSteps, StartupSteps
  <2>2. Custody'
    BY <1>1
       DEF SnapshotInherited, Custody, ControlWriteEntitled, ControlWriteNext,
           Controlling, UndrivenFanIsBeingReleased, WrittenOnlyWhileOwned
  <2>3. ThreadContext'
    BY <1>1
       DEF SnapshotInherited, ThreadContext, StartupOwnsNothing, L2Consistent,
           CallContext, FallbackContext, PollSteps, StartupSteps, Controlling
  <2>. QED
    BY <2>1, <2>2, <2>3
<1>2. CASE ProbePasses
  <2>1. TypeOK'
    BY <1>2
       DEF ProbePasses, TypeOK, MachineType, FieldsType, CountersType,
           ThreadType, Steps, PollSteps, StartupSteps
  <2>2. Custody'
    BY <1>2
       DEF ProbePasses, Custody, ControlWriteEntitled, ControlWriteNext,
           Controlling, UndrivenFanIsBeingReleased, WrittenOnlyWhileOwned
  <2>3. ThreadContext'
    BY <1>2
       DEF ProbePasses, ThreadContext, StartupOwnsNothing, L2Consistent,
           CallContext, FallbackContext, PollSteps, StartupSteps, Controlling
  <2>. QED
    BY <2>1, <2>2, <2>3
<1>3. CASE ProbeFails
  <2>1. TypeOK'
    BY <1>3, ModeFacts
       DEF ProbeFails, AfterFailed, TypeOK, MachineType, FieldsType,
           CountersType, ThreadType, Steps, PollSteps, StartupSteps
  <2>2. Custody'
    BY <1>3
       DEF ProbeFails, AfterFailed, Custody, ControlWriteEntitled,
           ControlWriteNext, Controlling, UndrivenFanIsBeingReleased,
           WrittenOnlyWhileOwned, ThreadContext, StartupOwnsNothing,
           StartupSteps
  <2>3. ThreadContext'
    BY <1>3
       DEF ProbeFails, AfterFailed, ThreadContext, StartupOwnsNothing,
           L2Consistent, CallContext, FallbackContext, PollSteps,
           StartupSteps, Controlling
  <2>. QED
    BY <2>1, <2>2, <2>3
<1>4. CASE ReconcileNothing
  <2>1. TypeOK'
    <3>1. MachineType'
      BY <1>4
         DEF ReconcileNothing, DegradeStartupToObserve, TypeOK, MachineType
    <3>2. FieldsType'
      BY <1>4, ModeFacts
         DEF ReconcileNothing, DegradeStartupToObserve, TypeOK, FieldsType
    <3>3. CountersType'
      BY <1>4, TunablesAssumption
         DEF ReconcileNothing, DegradeStartupToObserve, TypeOK, CountersType,
             ThreadContext, FallbackContext
    <3>4. ThreadType'
      BY <1>4
         DEF ReconcileNothing, DegradeStartupToObserve, TypeOK, ThreadType,
             Steps, PollSteps, StartupSteps
    <3>. QED
      BY <3>1, <3>2, <3>3, <3>4 DEF TypeOK
  <2>2. Custody'
    BY <1>4
       DEF ReconcileNothing, DegradeStartupToObserve, Custody,
           ControlWriteEntitled, ControlWriteNext, Controlling,
           UndrivenFanIsBeingReleased, WrittenOnlyWhileOwned
  <2>3. ThreadContext'
    BY <1>4, TunablesAssumption
       DEF ReconcileNothing, DegradeStartupToObserve, ThreadContext,
           StartupOwnsNothing, L2Consistent, CallContext, FallbackContext,
           PollSteps, StartupSteps, Controlling
  <2>. QED
    BY <2>1, <2>2, <2>3
<1>5. CASE ReconcileManual
  <2>1. TypeOK'
    <3>1. MachineType'
      BY <1>5
         DEF ReconcileManual, AfterFailed, DegradeStartupToObserve, TypeOK,
             MachineType
    <3>2. FieldsType'
      BY <1>5, ModeFacts
         DEF ReconcileManual, AfterFailed, DegradeStartupToObserve, TypeOK,
             FieldsType
    <3>3. CountersType'
      BY <1>5, TunablesAssumption
         DEF ReconcileManual, AfterFailed, DegradeStartupToObserve, TypeOK,
             CountersType, ThreadContext, FallbackContext
    <3>4. ThreadType'
      BY <1>5
         DEF ReconcileManual, AfterFailed, DegradeStartupToObserve, TypeOK,
             ThreadType, Steps, PollSteps, StartupSteps
    <3>. QED
      BY <3>1, <3>2, <3>3, <3>4 DEF TypeOK
  <2>2. Custody'
    BY <1>5
       DEF ReconcileManual, AfterFailed, DegradeStartupToObserve, Custody,
           ControlWriteEntitled, ControlWriteNext, Controlling,
           UndrivenFanIsBeingReleased, WrittenOnlyWhileOwned
  <2>3. ThreadContext'
    BY <1>5, TunablesAssumption
       DEF ReconcileManual, AfterFailed, DegradeStartupToObserve,
           ThreadContext, StartupOwnsNothing, L2Consistent, CallContext,
           FallbackContext, PollSteps, StartupSteps, Controlling
  <2>. QED
    BY <2>1, <2>2, <2>3
<1>. QED
  BY <1>1, <1>2, <1>3, <1>4, <1>5 DEF Startup

\* The command file.
LEMMA CmdStepInv ==
  ASSUME Inv, CmdStep
  PROVE  Inv'
<1> USE DEF Inv, Goto, machine, intent, ownership, counters, l2, locals
<1>1. CASE IgnoreCmdFile
  <2>1. TypeOK'
    BY <1>1
       DEF IgnoreCmdFile, TypeOK, MachineType, FieldsType, CountersType,
           ThreadType, Steps, PollSteps, StartupSteps
  <2>2. Custody'
    BY <1>1
       DEF IgnoreCmdFile, Custody, ControlWriteEntitled, ControlWriteNext,
           Controlling, UndrivenFanIsBeingReleased, WrittenOnlyWhileOwned
  <2>3. ThreadContext'
    BY <1>1
       DEF IgnoreCmdFile, ThreadContext, StartupOwnsNothing, L2Consistent,
           CallContext, FallbackContext, PollSteps, StartupSteps, Controlling
  <2>. QED
    BY <2>1, <2>2, <2>3
<1>2. CASE RefuseCmd
  <2>1. TypeOK'
    BY <1>2
       DEF RefuseCmd, FreshCmd, TypeOK, MachineType, FieldsType, CountersType,
           ThreadType, Steps, PollSteps, StartupSteps
  <2>2. Custody'
    BY <1>2
       DEF RefuseCmd, FreshCmd, Custody, ControlWriteEntitled,
           ControlWriteNext, Controlling, UndrivenFanIsBeingReleased,
           WrittenOnlyWhileOwned
  <2>3. ThreadContext'
    BY <1>2
       DEF RefuseCmd, FreshCmd, ThreadContext, StartupOwnsNothing,
           L2Consistent, CallContext, FallbackContext, PollSteps,
           StartupSteps, Controlling
  <2>. QED
    BY <2>1, <2>2, <2>3
<1>3. CASE ApplyControlCmd
  <2>1. TypeOK'
    <3>1. MachineType'
      BY <1>3
         DEF ApplyControlCmd, FreshCmd, TypeOK, MachineType
    <3>2. FieldsType'
      BY <1>3
         DEF ApplyControlCmd, FreshCmd, TypeOK, FieldsType
    <3>3. CountersType'
      BY <1>3, TunablesAssumption
         DEF ApplyControlCmd, FreshCmd, TypeOK, CountersType, ThreadContext,
             FallbackContext
    <3>4. ThreadType'
      BY <1>3
         DEF ApplyControlCmd, FreshCmd, TypeOK, ThreadType, Steps, PollSteps,
             StartupSteps
    <3>. QED
      BY <3>1, <3>2, <3>3, <3>4 DEF TypeOK
  <2>2. Custody'
    BY <1>3
       DEF ApplyControlCmd, FreshCmd, Custody, ControlWriteEntitled,
           ControlWriteNext, Controlling, UndrivenFanIsBeingReleased,
           WrittenOnlyWhileOwned
  <2>3. ThreadContext'
    BY <1>3, TunablesAssumption
       DEF ApplyControlCmd, FreshCmd, ThreadContext, StartupOwnsNothing,
           L2Consistent, CallContext, FallbackContext, PollSteps,
           StartupSteps, Controlling
  <2>. QED
    BY <2>1, <2>2, <2>3
<1>4. CASE ApplyObserveCmd
  <2>1. TypeOK'
    BY <1>4, ModeFacts
       DEF ApplyObserveCmd, FreshCmd, TypeOK, MachineType, FieldsType,
           CountersType, ThreadType, Steps, PollSteps, StartupSteps
  <2>2. Custody'
    BY <1>4
       DEF ApplyObserveCmd, FreshCmd, Custody, ControlWriteEntitled,
           ControlWriteNext, Controlling, UndrivenFanIsBeingReleased,
           WrittenOnlyWhileOwned
  <2>3. ThreadContext'
    BY <1>4
       DEF ApplyObserveCmd, FreshCmd, ThreadContext, StartupOwnsNothing,
           L2Consistent, CallContext, FallbackContext, PollSteps,
           StartupSteps, Controlling
  <2>. QED
    BY <2>1, <2>2, <2>3
<1>5. CASE ReleaseForObserve
  <2>1. TypeOK'
    <3>1. MachineType'
      BY <1>5
         DEF ReleaseForObserve, AfterFailed, FailWrite, TypeOK, MachineType
    <3>2. FieldsType'
      BY <1>5, ModeFacts
         DEF ReleaseForObserve, AfterFailed, FailWrite, TypeOK, FieldsType
    <3>3. CountersType'
      BY <1>5, TunablesAssumption
         DEF ReleaseForObserve, AfterFailed, FailWrite, TypeOK, CountersType,
             ThreadContext, FallbackContext
    <3>4. ThreadType'
      BY <1>5
         DEF ReleaseForObserve, AfterFailed, FailWrite, TypeOK, ThreadType,
             Steps, PollSteps, StartupSteps
    <3>. QED
      BY <3>1, <3>2, <3>3, <3>4 DEF TypeOK
  <2>2. Custody'
    BY <1>5
       DEF ReleaseForObserve, AfterFailed, FailWrite, Custody,
           ControlWriteEntitled, ControlWriteNext, Controlling,
           UndrivenFanIsBeingReleased, WrittenOnlyWhileOwned
  <2>3. ThreadContext'
    BY <1>5, TunablesAssumption
       DEF ReleaseForObserve, AfterFailed, FailWrite, ThreadContext,
           StartupOwnsNothing, L2Consistent, CallContext, FallbackContext,
           PollSteps, StartupSteps, Controlling, TypeOK, CountersType
  <2>. QED
    BY <2>1, <2>2, <2>3
<1>. QED
  BY <1>1, <1>2, <1>3, <1>4, <1>5 DEF CmdStep

\* The pending AUTO restore.
LEMMA RetryStepInv ==
  ASSUME Inv, RetryStep
  PROVE  Inv'
<1> USE DEF Inv, Goto, machine, intent, ownership, counters, l2, locals
<1>1. CASE RetrySkipped
  <2>1. TypeOK'
    BY <1>1
       DEF RetrySkipped, TypeOK, MachineType, FieldsType, CountersType,
           ThreadType, Steps, PollSteps, StartupSteps
  <2>2. Custody'
    BY <1>1
       DEF RetrySkipped, Custody, ControlWriteEntitled, ControlWriteNext,
           Controlling, UndrivenFanIsBeingReleased, WrittenOnlyWhileOwned
  <2>3. ThreadContext'
    BY <1>1
       DEF RetrySkipped, ThreadContext, StartupOwnsNothing, L2Consistent,
           CallContext, FallbackContext, PollSteps, StartupSteps, Controlling
  <2>. QED
    BY <2>1, <2>2, <2>3
<1>2. CASE RetrySucceeds
  <2>1. TypeOK'
    <3>1. MachineType'
      BY <1>2
         DEF RetrySucceeds, TypeOK, MachineType
    <3>2. FieldsType'
      BY <1>2
         DEF RetrySucceeds, TypeOK, FieldsType
    <3>3. CountersType'
      BY <1>2, TunablesAssumption
         DEF RetrySucceeds, TypeOK, CountersType, ThreadContext,
             FallbackContext
    <3>4. ThreadType'
      BY <1>2
         DEF RetrySucceeds, TypeOK, ThreadType, Steps, PollSteps, StartupSteps
    <3>. QED
      BY <3>1, <3>2, <3>3, <3>4 DEF TypeOK
  <2>2. Custody'
    BY <1>2
       DEF RetrySucceeds, Custody, ControlWriteEntitled, ControlWriteNext,
           Controlling, UndrivenFanIsBeingReleased, WrittenOnlyWhileOwned
  <2>3. ThreadContext'
    BY <1>2
       DEF RetrySucceeds, ThreadContext, StartupOwnsNothing, L2Consistent,
           CallContext, FallbackContext, PollSteps, StartupSteps, Controlling
  <2>. QED
    BY <2>1, <2>2, <2>3
<1>3. CASE RetryFails
  <2>1. TypeOK'
    BY <1>3
       DEF RetryFails, AfterFailed, TypeOK, MachineType, FieldsType,
           CountersType, ThreadType, Steps, PollSteps, StartupSteps
  <2>2. Custody'
    BY <1>3
       DEF RetryFails, AfterFailed, Custody, ControlWriteEntitled,
           ControlWriteNext, Controlling, UndrivenFanIsBeingReleased,
           WrittenOnlyWhileOwned
  <2>3. ThreadContext'
    BY <1>3
       DEF RetryFails, AfterFailed, ThreadContext, StartupOwnsNothing,
           L2Consistent, CallContext, FallbackContext, PollSteps,
           StartupSteps, Controlling
  <2>. QED
    BY <2>1, <2>2, <2>3
<1>. QED
  BY <1>1, <1>2, <1>3 DEF RetryStep

\* Deciding and acting.
LEMMA ActStepInv ==
  ASSUME Inv, ActStep
  PROVE  Inv'
<1> USE DEF Inv, Goto, machine, intent, ownership, counters, l2, locals
<1>1. CASE SensorsLost
  <2>1. TypeOK'
    BY <1>1, TunablesAssumption
       DEF SensorsLost, TypeOK, MachineType, FieldsType, CountersType,
           ThreadType, Steps, PollSteps, StartupSteps
  <2>2. Custody'
    BY <1>1
       DEF SensorsLost, Custody, ControlWriteEntitled, ControlWriteNext,
           Controlling, UndrivenFanIsBeingReleased, WrittenOnlyWhileOwned
  <2>3. ThreadContext'
    BY <1>1
       DEF SensorsLost, ThreadContext, StartupOwnsNothing, L2Consistent,
           CallContext, FallbackContext, PollSteps, StartupSteps, Controlling
  <2>. QED
    BY <2>1, <2>2, <2>3
<1>2. CASE SensorsValid
  <2>1. TypeOK'
    <3>1. MachineType'
      BY <1>2
         DEF SensorsValid, WriteControlled, TypeOK, MachineType
    <3>2. FieldsType'
      BY <1>2
         DEF SensorsValid, WriteControlled, TypeOK, FieldsType
    <3>3. CountersType'
      BY <1>2, TunablesAssumption
         DEF SensorsValid, WriteControlled, TypeOK, CountersType,
             ThreadContext, FallbackContext
    <3>4. ThreadType'
      BY <1>2, OutputsInNat
         DEF SensorsValid, WriteControlled, TypeOK, ThreadType, Steps,
             PollSteps, StartupSteps, FieldsType, Controlling
    <3>. QED
      BY <3>1, <3>2, <3>3, <3>4 DEF TypeOK
  <2>2. Custody'
    BY <1>2
       DEF SensorsValid, WriteControlled, Custody, ControlWriteEntitled,
           ControlWriteNext, Controlling, UndrivenFanIsBeingReleased,
           WrittenOnlyWhileOwned, ThreadContext, L2Consistent, PollSteps
  <2>3. ThreadContext'
    BY <1>2, OutputsInNat
       DEF SensorsValid, WriteControlled, ThreadContext, StartupOwnsNothing,
           L2Consistent, CallContext, FallbackContext, PollSteps,
           StartupSteps, Controlling, TypeOK, FieldsType
  <2>. QED
    BY <2>1, <2>2, <2>3
<1>3. CASE EnterManual
  <2>1. TypeOK'
    <3>1. MachineType'
      BY <1>3
         DEF EnterManual, AfterFailed, FailWrite, TypeOK, MachineType
    <3>2. FieldsType'
      BY <1>3
         DEF EnterManual, AfterFailed, FailWrite, TypeOK, FieldsType
    <3>3. CountersType'
      BY <1>3, TunablesAssumption
         DEF EnterManual, AfterFailed, FailWrite, TypeOK, CountersType,
             ThreadContext, FallbackContext
    <3>4. ThreadType'
      BY <1>3
         DEF EnterManual, AfterFailed, FailWrite, TypeOK, ThreadType, Steps,
             PollSteps, StartupSteps
    <3>. QED
      BY <3>1, <3>2, <3>3, <3>4 DEF TypeOK
  <2>2. Custody'
    BY <1>3
       DEF EnterManual, AfterFailed, FailWrite, Custody, ControlWriteEntitled,
           ControlWriteNext, Controlling, UndrivenFanIsBeingReleased,
           WrittenOnlyWhileOwned
  <2>3. ThreadContext'
    BY <1>3, TunablesAssumption
       DEF EnterManual, AfterFailed, FailWrite, ThreadContext,
           StartupOwnsNothing, L2Consistent, CallContext, FallbackContext,
           PollSteps, StartupSteps, Controlling, TypeOK, CountersType
  <2>. QED
    BY <2>1, <2>2, <2>3
<1>4. CASE WriteSpeed
  <2>1. TypeOK'
    <3>1. MachineType'
      BY <1>4
         DEF WriteSpeed, FailWrite, TypeOK, MachineType
    <3>2. FieldsType'
      BY <1>4
         DEF WriteSpeed, FailWrite, TypeOK, FieldsType, ThreadContext,
             CallContext
    <3>3. CountersType'
      BY <1>4, TunablesAssumption
         DEF WriteSpeed, FailWrite, TypeOK, CountersType, ThreadContext,
             FallbackContext
    <3>4. ThreadType'
      BY <1>4
         DEF WriteSpeed, FailWrite, TypeOK, ThreadType, Steps, PollSteps,
             StartupSteps
    <3>. QED
      BY <3>1, <3>2, <3>3, <3>4 DEF TypeOK
  <2>2. Custody'
    BY <1>4
       DEF WriteSpeed, FailWrite, Custody, ControlWriteEntitled,
           ControlWriteNext, Controlling, UndrivenFanIsBeingReleased,
           WrittenOnlyWhileOwned, ThreadContext, CallContext
  <2>3. ThreadContext'
    BY <1>4, TunablesAssumption
       DEF WriteSpeed, FailWrite, ThreadContext, StartupOwnsNothing,
           L2Consistent, CallContext, FallbackContext, PollSteps,
           StartupSteps, Controlling, TypeOK, CountersType
  <2>. QED
    BY <2>1, <2>2, <2>3
<1>5. CASE ReturnToAuto
  <2>1. TypeOK'
    <3>1. MachineType'
      BY <1>5
         DEF ReturnToAuto, AfterFailed, FailWrite, TypeOK, MachineType
    <3>2. FieldsType'
      BY <1>5
         DEF ReturnToAuto, AfterFailed, FailWrite, TypeOK, FieldsType
    <3>3. CountersType'
      BY <1>5, TunablesAssumption
         DEF ReturnToAuto, AfterFailed, FailWrite, TypeOK, CountersType,
             ThreadContext, FallbackContext
    <3>4. ThreadType'
      BY <1>5
         DEF ReturnToAuto, AfterFailed, FailWrite, TypeOK, ThreadType, Steps,
             PollSteps, StartupSteps
    <3>. QED
      BY <3>1, <3>2, <3>3, <3>4 DEF TypeOK
  <2>2. Custody'
    BY <1>5
       DEF ReturnToAuto, AfterFailed, FailWrite, Custody,
           ControlWriteEntitled, ControlWriteNext, Controlling,
           UndrivenFanIsBeingReleased, WrittenOnlyWhileOwned
  <2>3. ThreadContext'
    BY <1>5, TunablesAssumption
       DEF ReturnToAuto, AfterFailed, FailWrite, ThreadContext,
           StartupOwnsNothing, L2Consistent, CallContext, FallbackContext,
           PollSteps, StartupSteps, Controlling, TypeOK, CountersType
  <2>. QED
    BY <2>1, <2>2, <2>3
<1>. QED
  BY <1>1, <1>2, <1>3, <1>4, <1>5 DEF ActStep

\* Verifying the fan.
LEMMA L1StepInv ==
  ASSUME Inv, L1Step
  PROVE  Inv'
<1> USE DEF Inv, Goto, machine, intent, ownership, counters, l2, locals
<1>1. CASE L1ReadFails
  <2>1. TypeOK'
    <3>1. MachineType'
      BY <1>1
         DEF L1ReadFails, FailWrite, TypeOK, MachineType
    <3>2. FieldsType'
      BY <1>1
         DEF L1ReadFails, FailWrite, TypeOK, FieldsType
    <3>3. CountersType'
      BY <1>1, TunablesAssumption
         DEF L1ReadFails, FailWrite, TypeOK, CountersType, ThreadContext,
             FallbackContext
    <3>4. ThreadType'
      BY <1>1
         DEF L1ReadFails, FailWrite, TypeOK, ThreadType, Steps, PollSteps,
             StartupSteps
    <3>. QED
      BY <3>1, <3>2, <3>3, <3>4 DEF TypeOK
  <2>2. Custody'
    BY <1>1
       DEF L1ReadFails, FailWrite, Custody, ControlWriteEntitled,
           ControlWriteNext, Controlling, UndrivenFanIsBeingReleased,
           WrittenOnlyWhileOwned
  <2>3. ThreadContext'
    BY <1>1, TunablesAssumption
       DEF L1ReadFails, FailWrite, ThreadContext, StartupOwnsNothing,
           L2Consistent, CallContext, FallbackContext, PollSteps,
           StartupSteps, Controlling
  <2>. QED
    BY <2>1, <2>2, <2>3
<1>2. CASE L1NotOurs
  <2>1. TypeOK'
    <3>1. MachineType'
      BY <1>2
         DEF L1NotOurs, TypeOK, MachineType
    <3>2. FieldsType'
      BY <1>2
         DEF L1NotOurs, TypeOK, FieldsType
    <3>3. CountersType'
      BY <1>2, TunablesAssumption
         DEF L1NotOurs, TypeOK, CountersType, ThreadContext, FallbackContext
    <3>4. ThreadType'
      BY <1>2
         DEF L1NotOurs, TypeOK, ThreadType, Steps, PollSteps, StartupSteps
    <3>. QED
      BY <3>1, <3>2, <3>3, <3>4 DEF TypeOK
  <2>2. Custody'
    BY <1>2
       DEF L1NotOurs, Custody, ControlWriteEntitled, ControlWriteNext,
           Controlling, UndrivenFanIsBeingReleased, WrittenOnlyWhileOwned
  <2>3. ThreadContext'
    BY <1>2
       DEF L1NotOurs, ThreadContext, StartupOwnsNothing, L2Consistent,
           CallContext, FallbackContext, PollSteps, StartupSteps, Controlling
  <2>. QED
    BY <2>1, <2>2, <2>3
<1>3. CASE L1Reads
  <2>1. TypeOK'
    BY <1>3
       DEF L1Reads, TypeOK, MachineType, FieldsType, CountersType, ThreadType,
           Steps, PollSteps, StartupSteps
  <2>2. Custody'
    BY <1>3
       DEF L1Reads, Custody, ControlWriteEntitled, ControlWriteNext,
           Controlling, UndrivenFanIsBeingReleased, WrittenOnlyWhileOwned,
           ThreadContext, L2Consistent, PollSteps
  <2>3. ThreadContext'
    BY <1>3
       DEF L1Reads, ThreadContext, StartupOwnsNothing, L2Consistent,
           CallContext, FallbackContext, PollSteps, StartupSteps, Controlling,
           Custody, UndrivenFanIsBeingReleased
  <2>. QED
    BY <2>1, <2>2, <2>3
<1>4. CASE L1ReassertManual
  <2>1. TypeOK'
    <3>1. MachineType'
      BY <1>4
         DEF L1ReassertManual, AfterFailed, FailWrite, TypeOK, MachineType
    <3>2. FieldsType'
      BY <1>4
         DEF L1ReassertManual, AfterFailed, FailWrite, TypeOK, FieldsType
    <3>3. CountersType'
      BY <1>4, TunablesAssumption
         DEF L1ReassertManual, AfterFailed, FailWrite, TypeOK, CountersType,
             ThreadContext, FallbackContext
    <3>4. ThreadType'
      BY <1>4
         DEF L1ReassertManual, AfterFailed, FailWrite, TypeOK, ThreadType,
             Steps, PollSteps, StartupSteps
    <3>. QED
      BY <3>1, <3>2, <3>3, <3>4 DEF TypeOK
  <2>2. Custody'
    BY <1>4
       DEF L1ReassertManual, AfterFailed, FailWrite, Custody,
           ControlWriteEntitled, ControlWriteNext, Controlling,
           UndrivenFanIsBeingReleased, WrittenOnlyWhileOwned
  <2>3. ThreadContext'
    <3>1. StartupOwnsNothing'
      BY <1>4
         DEF L1ReassertManual, AfterFailed, FailWrite, ThreadContext,
             StartupOwnsNothing, StartupSteps
    <3>2. L2Consistent'
      BY <1>4
         DEF L1ReassertManual, AfterFailed, FailWrite, ThreadContext,
             L2Consistent, PollSteps
    <3>3. CallContext'
      BY <1>4
         DEF L1ReassertManual, AfterFailed, FailWrite, ThreadContext,
             CallContext, Controlling
    <3>4. FallbackContext'
      <4>1. mode' # Observe /\ after = "none"
        BY <1>4 DEF L1ReassertManual, ThreadContext, CallContext, Controlling,
                    FallbackContext
      <4>2. write_failures \in Nat /\ write_failures < WriteFailFallback
        BY <1>4 DEF L1ReassertManual, ThreadContext, FallbackContext, TypeOK,
                    CountersType
      <4>3. CASE pc' = "l1track" /\ UNCHANGED <<after, write_failures>>
        BY <4>1, <4>2, <4>3 DEF FallbackContext
      <4>4. CASE FailWrite("l1track")
        BY <4>1, <4>2, <4>4, TunablesAssumption DEF FailWrite, FallbackContext
      <4>. QED
        BY <1>4, <4>3, <4>4 DEF L1ReassertManual
    <3>. QED
      BY <3>1, <3>2, <3>3, <3>4 DEF ThreadContext
  <2>. QED
    BY <2>1, <2>2, <2>3
<1>5. CASE L1OnTarget
  <2>1. TypeOK'
    BY <1>5, TunablesAssumption
       DEF L1OnTarget, L1Verdict, TypeOK, MachineType, FieldsType,
           CountersType, ThreadType, Steps, PollSteps, StartupSteps
  <2>2. Custody'
    BY <1>5
       DEF L1OnTarget, L1Verdict, Custody, ControlWriteEntitled,
           ControlWriteNext, Controlling, UndrivenFanIsBeingReleased,
           WrittenOnlyWhileOwned
  <2>3. ThreadContext'
    BY <1>5, TunablesAssumption
       DEF L1OnTarget, L1Verdict, ThreadContext, StartupOwnsNothing,
           L2Consistent, CallContext, FallbackContext, PollSteps,
           StartupSteps, Controlling
  <2>. QED
    BY <2>1, <2>2, <2>3
<1>6. CASE L1Tracking
  <2>1. TypeOK'
    <3>1. MachineType'
      BY <1>6
         DEF L1Tracking, FailWrite, TypeOK, MachineType
    <3>2. FieldsType'
      BY <1>6
         DEF L1Tracking, FailWrite, TypeOK, FieldsType
    <3>3. CountersType'
      BY <1>6, TunablesAssumption
         DEF L1Tracking, FailWrite, TypeOK, CountersType, ThreadContext,
             FallbackContext
    <3>4. ThreadType'
      BY <1>6
         DEF L1Tracking, FailWrite, TypeOK, ThreadType, Steps, PollSteps,
             StartupSteps
    <3>. QED
      BY <3>1, <3>2, <3>3, <3>4 DEF TypeOK
  <2>2. Custody'
    BY <1>6
       DEF L1Tracking, FailWrite, Custody, ControlWriteEntitled,
           ControlWriteNext, Controlling, UndrivenFanIsBeingReleased,
           WrittenOnlyWhileOwned
  <2>3. ThreadContext'
    BY <1>6, TunablesAssumption
       DEF L1Tracking, FailWrite, ThreadContext, StartupOwnsNothing,
           L2Consistent, CallContext, FallbackContext, PollSteps,
           StartupSteps, Controlling, TypeOK, CountersType
  <2>. QED
    BY <2>1, <2>2, <2>3
<1>7. CASE L1Stall
  <2>1. TypeOK'
    <3>1. MachineType'
      BY <1>7
         DEF L1Stall, L1Verdict, TypeOK, MachineType
    <3>2. FieldsType'
      BY <1>7
         DEF L1Stall, L1Verdict, TypeOK, FieldsType
    <3>3. CountersType'
      BY <1>7, TunablesAssumption
         DEF L1Stall, L1Verdict, TypeOK, CountersType, ThreadContext,
             FallbackContext
    <3>4. ThreadType'
      BY <1>7
         DEF L1Stall, L1Verdict, TypeOK, ThreadType, Steps, PollSteps,
             StartupSteps
    <3>. QED
      BY <3>1, <3>2, <3>3, <3>4 DEF TypeOK
  <2>2. Custody'
    BY <1>7
       DEF L1Stall, L1Verdict, Custody, ControlWriteEntitled,
           ControlWriteNext, Controlling, UndrivenFanIsBeingReleased,
           WrittenOnlyWhileOwned
  <2>3. ThreadContext'
    BY <1>7, TunablesAssumption
       DEF L1Stall, L1Verdict, ThreadContext, StartupOwnsNothing,
           L2Consistent, CallContext, FallbackContext, PollSteps,
           StartupSteps, Controlling
  <2>. QED
    BY <2>1, <2>2, <2>3
<1>. QED
  BY <1>1, <1>2, <1>3, <1>4, <1>5, <1>6, <1>7 DEF L1Step

\* The fallback and the end of a poll.
LEMMA FallbackStep ==
  ASSUME Inv, DegradeToAuto \/ PublishState
  PROVE  Inv'
<1> USE DEF Inv, Goto, machine, intent, ownership, counters, l2, locals
<1>1. CASE DegradeToAuto
  <2>1. TypeOK'
    <3>1. MachineType'
      BY <1>1
         DEF DegradeToAuto, AfterFailed, TypeOK, MachineType
    <3>2. FieldsType'
      BY <1>1
         DEF DegradeToAuto, AfterFailed, TypeOK, FieldsType
    <3>3. CountersType'
      BY <1>1, TunablesAssumption
         DEF DegradeToAuto, AfterFailed, TypeOK, CountersType, ThreadContext,
             FallbackContext
    <3>4. ThreadType'
      BY <1>1
         DEF DegradeToAuto, AfterFailed, TypeOK, ThreadType, Steps, PollSteps,
             StartupSteps, ThreadContext, FallbackContext
    <3>. QED
      BY <3>1, <3>2, <3>3, <3>4 DEF TypeOK
  <2>2. Custody'
    BY <1>1
       DEF DegradeToAuto, AfterFailed, Custody, ControlWriteEntitled,
           ControlWriteNext, Controlling, UndrivenFanIsBeingReleased,
           WrittenOnlyWhileOwned, TypeOK, ThreadType
  <2>3. ThreadContext'
    BY <1>1, TunablesAssumption
       DEF DegradeToAuto, AfterFailed, ThreadContext, StartupOwnsNothing,
           L2Consistent, CallContext, FallbackContext, PollSteps,
           StartupSteps, Controlling, TypeOK, ThreadType
  <2>. QED
    BY <2>1, <2>2, <2>3
<1>2. CASE PublishState
  <2>1. TypeOK'
    <3>1. MachineType'
      BY <1>2
         DEF PublishState, TypeOK, MachineType
    <3>2. FieldsType'
      BY <1>2
         DEF PublishState, TypeOK, FieldsType
    <3>3. CountersType'
      BY <1>2, TunablesAssumption
         DEF PublishState, TypeOK, CountersType, ThreadContext,
             FallbackContext
    <3>4. ThreadType'
      BY <1>2
         DEF PublishState, TypeOK, ThreadType, Steps, PollSteps, StartupSteps
    <3>. QED
      BY <3>1, <3>2, <3>3, <3>4 DEF TypeOK
  <2>2. Custody'
    BY <1>2
       DEF PublishState, Custody, ControlWriteEntitled, ControlWriteNext,
           Controlling, UndrivenFanIsBeingReleased, WrittenOnlyWhileOwned
  <2>3. ThreadContext'
    BY <1>2
       DEF PublishState, ThreadContext, StartupOwnsNothing, L2Consistent,
           CallContext, FallbackContext, PollSteps, StartupSteps, Controlling
  <2>. QED
    BY <2>1, <2>2, <2>3
<1>. QED
  BY <1>1, <1>2

\* The environment.
LEMMA EnvironmentStep ==
  ASSUME Inv, ClientWritesCmd \/ FirmwareReclaims \/ Die \/ Restart
  PROVE  Inv'
<1> USE DEF Inv, Goto, machine, intent, ownership, counters, l2, locals
<1>1. CASE ClientWritesCmd
  <2>1. TypeOK'
    BY <1>1, ModeFacts
       DEF ClientWritesCmd, TypeOK, MachineType, FieldsType, CountersType,
           ThreadType, Steps, PollSteps, StartupSteps
  <2>2. Custody'
    BY <1>1
       DEF ClientWritesCmd, Custody, ControlWriteEntitled, ControlWriteNext,
           Controlling, UndrivenFanIsBeingReleased, WrittenOnlyWhileOwned
  <2>3. ThreadContext'
    BY <1>1
       DEF ClientWritesCmd, ThreadContext, StartupOwnsNothing, L2Consistent,
           CallContext, FallbackContext, PollSteps, StartupSteps, Controlling
  <2>. QED
    BY <2>1, <2>2, <2>3
<1>2. CASE FirmwareReclaims
  <2>1. TypeOK'
    BY <1>2
       DEF FirmwareReclaims, TypeOK, MachineType, FieldsType, CountersType,
           ThreadType, Steps, PollSteps, StartupSteps
  <2>2. Custody'
    BY <1>2
       DEF FirmwareReclaims, Custody, ControlWriteEntitled, ControlWriteNext,
           Controlling, UndrivenFanIsBeingReleased, WrittenOnlyWhileOwned
  <2>3. ThreadContext'
    BY <1>2
       DEF FirmwareReclaims, ThreadContext, StartupOwnsNothing, L2Consistent,
           CallContext, FallbackContext, PollSteps, StartupSteps, Controlling
  <2>. QED
    BY <2>1, <2>2, <2>3
<1>3. CASE Die
  <2>1. TypeOK'
    <3>1. MachineType'
      <4>1. fan_mode' \in {"Auto", "Manual"} /\ cmd_file' \in CmdContents
        BY <1>3 DEF Die, TypeOK, MachineType
      <4>2. deaths' \in 0..MaxDeaths
        BY <1>3, TunablesAssumption DEF Die, TypeOK, MachineType
      <4>. QED
        BY <4>1, <4>2 DEF MachineType
    <3>2. FieldsType'
      <4>1. PICK m \in StartModes : Fresh(m)
        BY <1>3 DEF Die
      <4>2. mode' \in RunMode /\ last_cmd' \in RunMode \cup {NoCmd}
        BY <4>1, StartAssumption DEF Fresh
      <4>. QED
        BY <4>1, <4>2 DEF Fresh, FieldsType
    <3>3. CountersType'
      BY <1>3, TunablesAssumption
         DEF Die, Fresh, TypeOK, CountersType, ThreadContext, FallbackContext
    <3>4. ThreadType'
      BY <1>3
         DEF Die, Fresh, TypeOK, ThreadType, Steps, PollSteps, StartupSteps
    <3>. QED
      BY <3>1, <3>2, <3>3, <3>4 DEF TypeOK
  <2>2. Custody'
    BY <1>3
       DEF Die, Fresh, Custody, ControlWriteEntitled, ControlWriteNext,
           Controlling, UndrivenFanIsBeingReleased, WrittenOnlyWhileOwned
  <2>3. ThreadContext'
    BY <1>3, TunablesAssumption
       DEF Die, Fresh, ThreadContext, StartupOwnsNothing, L2Consistent,
           CallContext, FallbackContext, PollSteps, StartupSteps, Controlling
  <2>. QED
    BY <2>1, <2>2, <2>3
<1>4. CASE Restart
  <2>1. TypeOK'
    BY <1>4, ModeFacts
       DEF Restart, TypeOK, MachineType, FieldsType, CountersType, ThreadType,
           Steps, PollSteps, StartupSteps
  <2>2. Custody'
    BY <1>4
       DEF Restart, Custody, ControlWriteEntitled, ControlWriteNext,
           Controlling, UndrivenFanIsBeingReleased, WrittenOnlyWhileOwned
  <2>3. ThreadContext'
    BY <1>4
       DEF Restart, ThreadContext, StartupOwnsNothing, L2Consistent,
           CallContext, FallbackContext, PollSteps, StartupSteps, Controlling
  <2>. QED
    BY <2>1, <2>2, <2>3
<1>. QED
  BY <1>1, <1>2, <1>3, <1>4

\* A step that changes nothing.
LEMMA StutterStep ==
  ASSUME Inv, UNCHANGED vars
  PROVE  Inv'
<1> USE DEF vars, Inv, machine, intent, ownership, counters, l2, locals
<1>1. TypeOK'
  BY DEF TypeOK, MachineType, FieldsType, CountersType, ThreadType
<1>2. Custody'
  BY DEF Custody, ControlWriteEntitled, ControlWriteNext, Controlling,
         UndrivenFanIsBeingReleased, WrittenOnlyWhileOwned
<1>3. ThreadContext'
  BY DEF ThreadContext, StartupOwnsNothing, L2Consistent, CallContext,
         FallbackContext, Controlling
<1>. QED
  BY <1>1, <1>2, <1>3

LEMMA StepInv == Inv /\ [Next]_vars => Inv'
<1> SUFFICES ASSUME Inv, [Next]_vars
             PROVE  Inv'
  OBVIOUS
<1>1. CASE Daemon
  BY <1>1, StartupStep, CmdStepInv, RetryStepInv, ActStepInv, L1StepInv,
     FallbackStep
     DEF Daemon
<1>2. CASE ClientWritesCmd \/ FirmwareReclaims \/ Die \/ Restart
  BY <1>2, EnvironmentStep
<1>3. CASE UNCHANGED vars
  BY <1>3, StutterStep
<1>. QED
  BY <1>1, <1>2, <1>3 DEF Next

THEOREM Invariance == Spec => []Inv
BY InitInv, StepInv, PTL DEF Spec

-----------------------------------------------------------------------------
\* The types of the variables, the bounds of the three streak counters
\* included: fail_write, the stall detector and the sensor-loss streak each act
\* at their limit and start again.
THEOREM TypeCorrect == Spec => []TypeOK
<1>1. Inv => TypeOK
  BY DEF Inv
<1>. QED
  BY <1>1, Invariance, PTL

\* Every control write, l1_poll's re-asserts included, is made in a control
\* mode, outside of monitor-only and with the death path armed.
THEOREM ControlWritesEntitled == Spec => []ControlWriteEntitled
<1>1. Inv => ControlWriteEntitled
  BY DEF Inv, Custody
<1>. QED
  BY <1>1, Invariance, PTL

\* A fan the daemon owns and does not drive is being given back.
THEOREM UndrivenFansReleased == Spec => []UndrivenFanIsBeingReleased
<1>1. Inv => UndrivenFanIsBeingReleased
  BY DEF Inv, Custody
<1>. QED
  BY <1>1, Invariance, PTL

\* A remembered target never outlives the ownership of the fan.
THEOREM WrittenOnlyWhileOwnedAlways == Spec => []WrittenOnlyWhileOwned
<1>1. Inv => WrittenOnlyWhileOwned
  BY DEF Inv, Custody
<1>. QED
  BY <1>1, Invariance, PTL

\* A step that gives up the ownership of the fan leaves the register in AUTO,
\* or ends the process.  The startup actions clear manual_armed without a look
\* at the register: StartupOwnsNothing makes that harmless.
LEMMA OwnershipStep ==
  ASSUME Inv, Next, manual_armed, ~manual_armed'
  PROVE  fan_mode' = "Auto" \/ pc' = "dead"
<1> USE DEF ownership
<1>1. CASE Startup
  BY <1>1
     DEF Inv, ThreadContext, StartupOwnsNothing, StartupSteps, Startup,
         SnapshotInherited, ProbePasses, ProbeFails, ReconcileNothing,
         ReconcileManual
<1>2. CASE CmdStep
  BY <1>2
     DEF CmdStep, IgnoreCmdFile, RefuseCmd, ApplyControlCmd, ApplyObserveCmd,
         ReleaseForObserve
<1>3. CASE RetryStep
  BY <1>3 DEF RetryStep, RetrySkipped, RetrySucceeds, RetryFails
<1>4. CASE ActStep
  BY <1>4
     DEF ActStep, SensorsLost, SensorsValid, EnterManual, WriteSpeed,
         ReturnToAuto
<1>5. CASE L1Step
  BY <1>5
     DEF L1Step, L1ReadFails, L1NotOurs, L1Reads, L1ReassertManual,
         L1OnTarget, L1Tracking, L1Stall
<1>6. CASE DegradeToAuto \/ PublishState
  BY <1>6 DEF DegradeToAuto, PublishState
<1>7. CASE ClientWritesCmd \/ FirmwareReclaims \/ Die \/ Restart
  BY <1>7 DEF ClientWritesCmd, FirmwareReclaims, Die, Restart
<1>. QED
  BY <1>1, <1>2, <1>3, <1>4, <1>5, <1>6, <1>7 DEF Next, Daemon

\* The daemon forgets that it owns the fan only with the register in AUTO, or
\* by dying.
THEOREM OwnershipNeverForgotten == Spec => OwnershipEndsInAuto
<1>1. Inv /\ [Next]_vars =>
        [manual_armed /\ ~manual_armed' => fan_mode' = "Auto" \/ pc' = "dead"]_vars
  BY OwnershipStep
<1>. QED
  BY <1>1, Invariance, PTL DEF Spec, OwnershipEndsInAuto

\* The same for a pending restore, which a control command may also supersede.
LEMMA PendingStep ==
  ASSUME Inv, Next, auto_restore_pending, ~auto_restore_pending'
  PROVE  \/ fan_mode' = "Auto" \/ pc' = "dead"
         \/ pc = "cmd" /\ Controlling'
<1> USE DEF ownership
<1>1. CASE Startup
  BY <1>1
     DEF Inv, ThreadContext, StartupOwnsNothing, StartupSteps, Startup,
         SnapshotInherited, ProbePasses, ProbeFails, ReconcileNothing,
         ReconcileManual
<1>2. CASE CmdStep
  BY <1>2
     DEF CmdStep, IgnoreCmdFile, RefuseCmd, ApplyControlCmd, ApplyObserveCmd,
         ReleaseForObserve, Controlling
<1>3. CASE RetryStep
  BY <1>3 DEF RetryStep, RetrySkipped, RetrySucceeds, RetryFails
<1>4. CASE ActStep
  BY <1>4
     DEF ActStep, SensorsLost, SensorsValid, EnterManual, WriteSpeed,
         ReturnToAuto
<1>5. CASE L1Step
  BY <1>5
     DEF L1Step, L1ReadFails, L1NotOurs, L1Reads, L1ReassertManual,
         L1OnTarget, L1Tracking, L1Stall
<1>6. CASE DegradeToAuto \/ PublishState
  BY <1>6 DEF DegradeToAuto, PublishState
<1>7. CASE ClientWritesCmd \/ FirmwareReclaims \/ Die \/ Restart
  BY <1>7 DEF ClientWritesCmd, FirmwareReclaims, Die, Restart
<1>. QED
  BY <1>1, <1>2, <1>3, <1>4, <1>5, <1>6, <1>7 DEF Next, Daemon

\* A pending AUTO restore is dropped only with the register in AUTO, by a
\* command that takes control again, or by dying.
THEOREM PendingNeverForgotten == Spec => PendingEndsInAutoOrRecommand
<1>1. Inv /\ [Next]_vars =>
        [auto_restore_pending /\ ~auto_restore_pending'
           => \/ fan_mode' = "Auto" \/ pc' = "dead"
              \/ pc = "cmd" /\ Controlling']_vars
  BY PendingStep
<1>. QED
  BY <1>1, Invariance, PTL DEF Spec, PendingEndsInAutoOrRecommand

-----------------------------------------------------------------------------
(* Supervisor implements FanCustody: every step of the daemon, its clients,  *)
(* the firmware and systemd is a step of FanCustody on the fan mode          *)
(* register, the custodian and the armed death path, or leaves all three     *)
(* alone.  Inv is what makes the writes of Manual fit: they are entitled,    *)
(* and l1_poll makes them on an owned fan that is not being released.        *)

AbstractVars == <<fan_mode, Custodian, armed>>

LEMMA InitMaps == Init => Fan!CustodyInit
BY DEF Init, Fan!CustodyInit, Fan!Registers, Custodian, StartupSteps

\* While the poll loop runs somebody answers for the fan.
LEMMA RunningCustodian ==
  ASSUME pc \in PollSteps
  PROVE  /\ Custodian \in {"free", "driven", "releasing"}
         /\ Custodian = "releasing" <=> auto_restore_pending /\ ~Controlling
         /\ Custodian = "driven" <=>
              manual_armed /\ ~(auto_restore_pending /\ ~Controlling)
BY DEF PollSteps, StartupSteps, Custodian

\* What a failed AUTO write leaves in the register, whoever has the fan.
LEMMA FailedAutoMaps ==
  ASSUME Inv, pc \in PollSteps, fan_mode' \in AfterFailed("Auto"),
         UNCHANGED armed, UNCHANGED Custodian
  PROVE  Fan!CustodyNext \/ UNCHANGED AbstractVars
<1>1. fan_mode' = fan_mode \/ fan_mode' = "Auto"
  BY DEF AfterFailed
<1>2. CASE fan_mode' = fan_mode
  BY <1>2 DEF AbstractVars
<1>3. CASE fan_mode' = "Auto"
  BY <1>3 DEF Fan!CustodyNext, Fan!FirmwareTakes
<1>. QED
  BY <1>1, <1>2, <1>3

LEMMA StartupMaps ==
  ASSUME Inv, Startup
  PROVE  Fan!CustodyNext \/ UNCHANGED AbstractVars
<1> USE DEF Goto, Custodian, StartupSteps
<1>1. ~manual_armed /\ ~auto_restore_pending
  BY DEF Inv, ThreadContext, StartupOwnsNothing, Startup, SnapshotInherited,
         ProbePasses, ProbeFails, ReconcileNothing, ReconcileManual
<1>2. CASE SnapshotInherited
  BY <1>2 DEF SnapshotInherited, AbstractVars, machine, l2
<1>3. CASE ProbePasses
  BY <1>3, <1>1 DEF ProbePasses, Fan!CustodyNext, Fan!Prepare
<1>4. CASE ProbeFails
  BY <1>4, <1>1
     DEF ProbeFails, AfterFailed, Fan!CustodyNext, Fan!Prepare
<1>5. CASE ReconcileNothing
  <2>1. ~manual_armed' /\ ~auto_restore_pending'
    BY <1>5, <1>1 DEF ReconcileNothing, DegradeStartupToObserve, ownership
  <2>. QED
    BY <1>5, <2>1
       DEF ReconcileNothing, machine, l2, Fan!CustodyNext, Fan!Prepare
<1>6. CASE ReconcileManual
  <2>1. ~manual_armed' /\ ~auto_restore_pending'
    BY <1>6, <1>1 DEF ReconcileManual, DegradeStartupToObserve
  <2>2. fan_mode' \in {fan_mode, "Auto"}
    BY <1>6 DEF ReconcileManual, AfterFailed
  <2>. QED
    BY <1>6, <2>1, <2>2 DEF ReconcileManual, l2, Fan!CustodyNext, Fan!Prepare
<1>. QED
  BY <1>2, <1>3, <1>4, <1>5, <1>6 DEF Startup

LEMMA CmdMaps ==
  ASSUME Inv, CmdStep
  PROVE  Fan!CustodyNext \/ UNCHANGED AbstractVars
<1> USE DEF Goto, Custodian, StartupSteps, Controlling
<1>1. CASE IgnoreCmdFile \/ RefuseCmd
  BY <1>1
     DEF IgnoreCmdFile, RefuseCmd, AbstractVars, machine, intent, ownership, l2
<1>2. CASE ApplyControlCmd
  <2>1. pc = "cmd" /\ pc' = "retry" /\ fan_mode' = fan_mode /\ armed' = armed
        /\ manual_armed' = manual_armed /\ Controlling'
    BY <1>2 DEF ApplyControlCmd, machine, l2
  <2>2. CASE auto_restore_pending /\ ~Controlling
    BY <2>1, <2>2 DEF Fan!CustodyNext, Fan!Resume
  <2>3. CASE ~(auto_restore_pending /\ ~Controlling)
    BY <2>1, <2>3 DEF AbstractVars
  <2>. QED
    BY <2>2, <2>3
<1>3. CASE ApplyObserveCmd
  <2>1. pc = "cmd" /\ pc' \in {"release", "retry"} /\ fan_mode' = fan_mode
        /\ armed' = armed /\ UNCHANGED ownership /\ monitor_only' = monitor_only
    BY <1>3 DEF ApplyObserveCmd, machine, l2
  <2>2. CASE mode' = mode
    BY <2>1, <2>2 DEF AbstractVars, ownership
  <2>3. CASE mode' # mode
    <3>1. mode' = Observe /\ ~manual_armed
      BY <1>3, <2>3 DEF ApplyObserveCmd
    <3>2. CASE auto_restore_pending
      BY <2>1, <3>1, <3>2 DEF ownership, Fan!CustodyNext, Fan!Release
    <3>3. CASE ~auto_restore_pending
      BY <2>1, <3>1, <3>3 DEF ownership, AbstractVars
    <3>. QED
      BY <3>2, <3>3
  <2>. QED
    BY <2>2, <2>3
<1>4. CASE ReleaseForObserve
  <2>1. pc = "release" /\ pc' \in {"retry", "fallback"} /\ armed' = armed
        /\ mode' = Observe
    BY <1>4 DEF ReleaseForObserve, FailWrite, l2
  <2>2. CASE fan_mode' = "Auto" /\ ~manual_armed' /\ ~auto_restore_pending'
    BY <2>1, <2>2 DEF Fan!CustodyNext, Fan!GiveBack
  <2>3. CASE fan_mode' \in AfterFailed("Auto") /\ auto_restore_pending'
    BY <2>1, <2>3 DEF AfterFailed, Fan!CustodyNext, Fan!Release
  <2>. QED
    BY <1>4, <2>2, <2>3 DEF ReleaseForObserve
<1>. QED
  BY <1>1, <1>2, <1>3, <1>4 DEF CmdStep

LEMMA RetryMaps ==
  ASSUME Inv, RetryStep
  PROVE  Fan!CustodyNext \/ UNCHANGED AbstractVars
<1> USE DEF Goto, Custodian, StartupSteps, Controlling
<1>1. CASE RetrySkipped
  BY <1>1 DEF RetrySkipped, AbstractVars, machine, intent, ownership, l2
<1>2. CASE RetrySucceeds
  BY <1>2 DEF RetrySucceeds, intent, l2, Fan!CustodyNext, Fan!GiveBack
<1>3. CASE RetryFails
  <2>1. UNCHANGED <<armed, Custodian>> /\ pc \in PollSteps
    BY <1>3 DEF RetryFails, intent, ownership, l2, PollSteps
  <2>. QED
    BY <1>3, <2>1, FailedAutoMaps DEF RetryFails
<1>. QED
  BY <1>1, <1>2, <1>3 DEF RetryStep

LEMMA ActMaps ==
  ASSUME Inv, ActStep
  PROVE  Fan!CustodyNext \/ UNCHANGED AbstractVars
<1> USE DEF Goto, Custodian, StartupSteps, Controlling
<1>1. CASE SensorsLost
  BY <1>1 DEF SensorsLost, AbstractVars, machine, intent, ownership, l2
<1>2. CASE SensorsValid
  <2>1. pc = "decide" /\ pc' \in {"enter", "l1", "speed"}
    BY <1>2 DEF SensorsValid, WriteControlled
  <2>. QED
    BY <1>2, <2>1
       DEF SensorsValid, AbstractVars, machine, intent, ownership, l2
<1>3. CASE EnterManual
  <2>1. pc = "enter" /\ pc' \in {"l1", "speed", "fallback"} /\ armed' = armed
        /\ UNCHANGED <<intent, auto_restore_pending>>
    BY <1>3 DEF EnterManual, FailWrite, l2
  <2>2. Controlling /\ armed /\ Controlling'
    BY <2>1 DEF Inv, Custody, ControlWriteEntitled, ControlWriteNext, intent
  <2>3. CASE manual_armed
    <3>1. manual_armed' /\ fan_mode' \in Fan!Registers
      BY <1>3, <2>3
         DEF EnterManual, AfterFailed, Inv, TypeOK, MachineType, Fan!Registers
    <3>. QED
      BY <2>1, <2>2, <2>3, <3>1 DEF Fan!CustodyNext, Fan!Drive
  <2>4. CASE ~manual_armed
    <3>1. \/ fan_mode' = "Manual" /\ manual_armed'
          \/ fan_mode' \in {fan_mode, "Manual"} /\ ~manual_armed'
      BY <1>3, <2>4 DEF EnterManual, AfterFailed
    <3>. QED
      BY <2>1, <2>2, <2>4, <3>1 DEF Fan!CustodyNext, Fan!Take
  <2>. QED
    BY <2>3, <2>4
<1>4. CASE WriteSpeed
  <2>1. pc = "speed" /\ pc' \in {"l1", "fallback"}
    BY <1>4 DEF WriteSpeed, FailWrite
  <2>. QED
    BY <1>4, <2>1 DEF WriteSpeed, AbstractVars, machine, intent, l2
<1>5. CASE ReturnToAuto
  <2>1. pc = "return" /\ pc' \in {"l1", "fallback"} /\ armed' = armed
        /\ UNCHANGED <<intent, auto_restore_pending>>
    BY <1>5 DEF ReturnToAuto, FailWrite, l2
  <2>2. CASE fan_mode' = "Auto" /\ ~manual_armed'
    <3>1. CASE auto_restore_pending /\ ~Controlling
      BY <2>1, <2>2, <3>1 DEF intent, Fan!CustodyNext, Fan!Release
    <3>2. CASE ~(auto_restore_pending /\ ~Controlling)
      BY <2>1, <2>2, <3>2 DEF intent, Fan!CustodyNext, Fan!GiveBack
    <3>. QED
      BY <3>1, <3>2
  <2>3. CASE fan_mode' \in AfterFailed("Auto") /\ manual_armed' = manual_armed
    <3>1. pc \in PollSteps /\ UNCHANGED Custodian
      BY <2>1, <2>3 DEF intent, PollSteps
    <3>. QED
      BY <2>1, <2>3, <3>1, FailedAutoMaps
  <2>. QED
    BY <1>5, <2>2, <2>3 DEF ReturnToAuto
<1>. QED
  BY <1>1, <1>2, <1>3, <1>4, <1>5 DEF ActStep

LEMMA L1Maps ==
  ASSUME Inv, L1Step
  PROVE  Fan!CustodyNext \/ UNCHANGED AbstractVars
<1> USE DEF Goto, Custodian, StartupSteps, Controlling
<1>1. CASE L1ReassertManual
  <2>1. pc = "l1mode" /\ pc' \in {"l1track", "fallback"} /\ armed' = armed
        /\ UNCHANGED <<intent, auto_restore_pending>>
    BY <1>1 DEF L1ReassertManual, FailWrite, l2
  <2>2. Controlling /\ manual_armed /\ Controlling'
    BY <2>1 DEF Inv, ThreadContext, CallContext, intent
  <2>3. manual_armed' /\ fan_mode' \in Fan!Registers
    BY <1>1, <2>2
       DEF L1ReassertManual, AfterFailed, Inv, TypeOK, MachineType,
           Fan!Registers
  <2>. QED
    BY <2>1, <2>2, <2>3 DEF Fan!CustodyNext, Fan!Drive
<1>2. CASE L1ReadFails \/ L1NotOurs \/ L1Reads
  <2>1. pc = "l1" /\ pc' \in {"publish", "l1track", "l1mode", "fallback"}
    BY <1>2 DEF L1ReadFails, L1NotOurs, L1Reads, FailWrite
  <2>. QED
    BY <1>2, <2>1
       DEF L1ReadFails, L1NotOurs, L1Reads, AbstractVars, machine, intent,
           ownership, l2
<1>3. CASE L1OnTarget \/ L1Tracking \/ L1Stall
  <2>1. pc \in {"l1track", "l1stall"} /\ pc' \in {"publish", "l1stall", "fallback"}
    BY <1>3 DEF L1OnTarget, L1Tracking, L1Stall, L1Verdict, FailWrite
  <2>. QED
    BY <1>3, <2>1
       DEF L1OnTarget, L1Tracking, L1Stall, AbstractVars, machine, intent,
           ownership, l2
<1>. QED
  BY <1>1, <1>2, <1>3 DEF L1Step

LEMMA OtherMaps ==
  ASSUME Inv,
         DegradeToAuto \/ PublishState \/ ClientWritesCmd \/ FirmwareReclaims
           \/ Die \/ Restart
  PROVE  Fan!CustodyNext \/ UNCHANGED AbstractVars
<1> USE DEF Goto, Custodian, StartupSteps, Controlling
<1>1. CASE DegradeToAuto
  <2>1. pc = "fallback" /\ monitor_only' /\ armed' = armed
        /\ pc' \notin StartupSteps \cup {"dead"}
    BY <1>1
       DEF DegradeToAuto, l2, Inv, TypeOK, ThreadType, ThreadContext,
           FallbackContext
  <2>2. CASE fan_mode' = "Auto" /\ ~manual_armed' /\ ~auto_restore_pending'
    BY <2>1, <2>2 DEF Fan!CustodyNext, Fan!GiveBack
  <2>3. CASE fan_mode' \in AfterFailed("Auto") /\ auto_restore_pending'
    BY <2>1, <2>3 DEF AfterFailed, Fan!CustodyNext, Fan!Release
  <2>. QED
    BY <1>1, <2>2, <2>3 DEF DegradeToAuto
<1>2. CASE PublishState
  BY <1>2 DEF PublishState, AbstractVars, machine, intent, ownership, l2
<1>3. CASE ClientWritesCmd
  BY <1>3 DEF ClientWritesCmd, AbstractVars, intent, ownership, l2
<1>4. CASE FirmwareReclaims
  BY <1>4
     DEF FirmwareReclaims, intent, ownership, l2, Fan!CustodyNext,
         Fan!FirmwareTakes
<1>5. CASE Die
  BY <1>5 DEF Die, Fresh, Fan!CustodyNext, Fan!Abandon
<1>6. CASE Restart
  BY <1>6 DEF Restart, AbstractVars, intent, ownership, l2
<1>. QED
  BY <1>1, <1>2, <1>3, <1>4, <1>5, <1>6

\* The daemon implements FanCustody.
THEOREM Refinement == Spec => KeepsCustody
<1>1. Inv /\ [Next]_vars => [Fan!CustodyNext]_(Fan!custodyVars)
  <2> SUFFICES ASSUME Inv, [Next]_vars
               PROVE  Fan!CustodyNext \/ UNCHANGED AbstractVars
    BY DEF Fan!custodyVars, AbstractVars
  <2>1. CASE Next
    BY <2>1, StartupMaps, CmdMaps, RetryMaps, ActMaps, L1Maps, OtherMaps
       DEF Next, Daemon
  <2>2. CASE UNCHANGED vars
    BY <2>2
       DEF vars, machine, intent, ownership, l2, AbstractVars, Custodian,
           Controlling
  <2>. QED
    BY <2>1, <2>2
<1>. QED
  BY <1>1, InitMaps, Invariance, PTL DEF Spec, KeepsCustody, Fan!CustodySpec

-----------------------------------------------------------------------------
(* The contract of the control policy *)

\* The kind of a mode tells the mode.
LEMMA KindTellsMode ==
  \A m \in RunMode : /\ m.kind \in {"observe", "curve", "hold"}
                     /\ m.kind = "observe" <=> m = Observe
                     /\ m.kind = "curve" <=> m = Curve
                     /\ m.kind = "hold" => m.rpm \in HoldRequests
BY DEF RunMode, Observe, Curve, Hold

\* What the model lets a poll with a valid sensor ask for is what the contract
\* lets the policy decide: no more, and no less.
LEMMA OutputsAreDecisions ==
  ASSUME NEW m \in RunMode, m # Observe
  PROVE  Outputs(m) = {CfgMaxRpm} \cup Asked(m)
BY KindTellsMode DEF Outputs, Asked

\* Losing the sensors is a decision the contract allows.
LEMMA LostIsDecided ==
  ASSUME Inv, SensorsLost
  PROVE  DecidesByPolicy
<1> DEFINE d == [kind |-> IF Controlling /\ Policy!LastLost(loss_streak)
                          THEN "ReturnToAuto" ELSE "Observe"]
<1>1. mode \in RunMode /\ monitor_only \in BOOLEAN
  BY DEF Inv, TypeOK, FieldsType
<1>2. d \in Policy!Decisions(Asked(mode))
  BY DEF Policy!Decisions
<1>3. Policy!MayDecide(d, StepKind, Asked(mode), TRUE, loss_streak)
  BY <1>1, KindTellsMode DEF Policy!MayDecide, StepKind, Controlling
<1>4. /\ loss_streak' = Policy!StreakAfter(TRUE, loss_streak)
      /\ pc = "decide" /\ UNCHANGED locals
      /\ Goto(IF Policy!LastLost(loss_streak) /\ Controlling /\ manual_armed
              THEN "return" ELSE "l1")
  BY DEF SensorsLost, Policy!StreakAfter, Policy!LastLost
<1>5. Act(d)
  BY <1>4 DEF Act, Controlling, locals
<1>. QED
  BY <1>2, <1>3, <1>4, <1>5 DEF DecidesByPolicy, SensorsLost, locals

\* Reading a sensor is a decision the contract allows.
LEMMA ValidIsDecided ==
  ASSUME Inv, SensorsValid
  PROVE  DecidesByPolicy
<1>1. mode \in RunMode /\ monitor_only \in BOOLEAN
  BY DEF Inv, TypeOK, FieldsType
<1>2. /\ loss_streak' = Policy!StreakAfter(FALSE, loss_streak)
      /\ UNCHANGED <<machine, intent, ownership, counters, l2, prev_actual,
                     last_cmd, inherited, applied, moved, l1_ok>>
      /\ pc = "decide"
  BY DEF SensorsValid, Policy!StreakAfter
<1> SUFFICES \E decision \in Policy!Decisions(Asked(mode)) :
               /\ Policy!MayDecide(decision, StepKind, Asked(mode), FALSE, loss_streak)
               /\ Act(decision)
  BY <1>2 DEF DecidesByPolicy
<1>3. CASE ~Controlling
  <2> DEFINE d == [kind |-> "Observe"]
  <2>1. d \in Policy!Decisions(Asked(mode))
    BY DEF Policy!Decisions
  <2>2. Policy!MayDecide(d, StepKind, Asked(mode), FALSE, loss_streak)
    BY <1>1, <1>3 DEF Policy!MayDecide, StepKind, Controlling, Observe
  <2>3. Act(d)
    BY <1>3 DEF Act, SensorsValid
  <2>. QED
    BY <2>1, <2>2, <2>3
<1>4. CASE Controlling
  <2>1. PICK rpm \in Outputs(mode) : WriteControlled(Clamp(rpm))
    BY <1>4 DEF SensorsValid
  <2>2. CASE rpm = CfgMaxRpm
    <3> DEFINE d == [kind |-> "EscalateMax"]
    <3>1. d \in Policy!Decisions(Asked(mode))
      BY DEF Policy!Decisions
    <3>2. Policy!MayDecide(d, StepKind, Asked(mode), FALSE, loss_streak)
      BY <1>1, <1>4, KindTellsMode DEF Policy!MayDecide, StepKind, Controlling
    <3>3. Act(d)
      BY <1>4, <2>1, <2>2 DEF Act, Controlling
    <3>. QED
      BY <3>1, <3>2, <3>3
  <2>3. CASE rpm \in Asked(mode)
    <3> DEFINE d == [kind |-> "SetSpeed", rpm |-> rpm]
    <3>1. d \in Policy!Decisions(Asked(mode))
      BY <2>3 DEF Policy!Decisions
    <3>2. Policy!MayDecide(d, StepKind, Asked(mode), FALSE, loss_streak)
      BY <1>1, <1>4, <2>3, KindTellsMode
         DEF Policy!MayDecide, StepKind, Controlling
    <3>3. Act(d)
      BY <1>4, <2>1 DEF Act, Controlling
    <3>. QED
      BY <3>1, <3>2, <3>3
  <2>. QED
    BY <1>1, <1>4, <2>2, <2>3, OutputsAreDecisions DEF Controlling
<1>. QED
  BY <1>3, <1>4

\* Nothing else takes a poll past its decision.
LEMMA OnlyActDecides ==
  ASSUME Next, pc = "decide", pc' \notin {"decide", "dead"}
  PROVE  SensorsLost \/ SensorsValid
<1>1. ~Startup
  BY DEF Startup, SnapshotInherited, ProbePasses, ProbeFails,
         ReconcileNothing, ReconcileManual
<1>2. ~CmdStep /\ ~RetryStep
  BY DEF CmdStep, IgnoreCmdFile, RefuseCmd, ApplyControlCmd, ApplyObserveCmd,
         ReleaseForObserve, RetryStep, RetrySkipped, RetrySucceeds, RetryFails
<1>3. ~EnterManual /\ ~WriteSpeed /\ ~ReturnToAuto
  BY DEF EnterManual, WriteSpeed, ReturnToAuto
<1>4. ~L1Step /\ ~DegradeToAuto /\ ~PublishState
  BY DEF L1Step, L1ReadFails, L1NotOurs, L1Reads, L1ReassertManual,
         L1OnTarget, L1Tracking, L1Stall, DegradeToAuto, PublishState
<1>5. ~ClientWritesCmd /\ ~FirmwareReclaims /\ ~Die /\ ~Restart
  BY DEF ClientWritesCmd, FirmwareReclaims, Die, Restart
<1>. QED
  BY <1>1, <1>2, <1>3, <1>4, <1>5 DEF Next, Daemon, ActStep

\* Every poll of the daemon acts on a decision that the contract of the policy
\* allows.
THEOREM PolicyIsActedOn == Spec => ActsOnPolicy
<1>1. Inv /\ [Next]_vars =>
        [pc = "decide" /\ pc' \notin {"decide", "dead"} => DecidesByPolicy]_vars
  BY OnlyActDecides, LostIsDecided, ValidIsDecided
<1>. QED
  BY <1>1, Invariance, PTL DEF Spec, ActsOnPolicy

\* And the daemon can act on every decision that the contract allows: what is
\* proved of Supervisor holds with any policy that keeps it, Controller's too.
THEOREM AnyPolicyFits == Inv /\ DecidesByPolicy => SensorsLost \/ SensorsValid
<1> SUFFICES ASSUME Inv, DecidesByPolicy
             PROVE  SensorsLost \/ SensorsValid
  OBVIOUS
<1>1. /\ mode \in RunMode /\ monitor_only \in BOOLEAN
      /\ pc = "decide"
      /\ UNCHANGED <<machine, intent, ownership, counters, l2, prev_actual,
                     last_cmd, inherited, applied, moved, l1_ok>>
  BY DEF Inv, TypeOK, FieldsType, DecidesByPolicy
<1>2. PICK lost \in BOOLEAN, decision \in Policy!Decisions(Asked(mode)) :
        /\ loss_streak' = Policy!StreakAfter(lost, loss_streak)
        /\ Policy!MayDecide(decision, StepKind, Asked(mode), lost, loss_streak)
        /\ Act(decision)
  BY DEF DecidesByPolicy
<1>3. CASE lost
  <2>1. decision.kind = IF Controlling /\ Policy!LastLost(loss_streak)
                        THEN "ReturnToAuto" ELSE "Observe"
    BY <1>1, <1>2, <1>3, KindTellsMode DEF Policy!MayDecide, StepKind, Controlling
  <2>2. /\ Goto(IF Policy!LastLost(loss_streak) /\ Controlling /\ manual_armed
                THEN "return" ELSE "l1")
        /\ UNCHANGED want
    BY <1>2, <2>1 DEF Act, Controlling
  <2>. QED
    BY <1>1, <1>2, <1>3, <2>2
       DEF SensorsLost, Policy!StreakAfter, Policy!LastLost, locals
<1>4. CASE ~lost
  <2>1. loss_streak' = 0
    BY <1>2, <1>4 DEF Policy!StreakAfter
  <2>2. CASE ~Controlling
    <3>1. decision.kind = "Observe"
      BY <1>1, <1>2, <1>4, <2>2, KindTellsMode
         DEF Policy!MayDecide, StepKind, Controlling
    <3>2. Goto("l1") /\ UNCHANGED want
      BY <1>2, <3>1 DEF Act
    <3>. QED
      BY <1>1, <2>1, <2>2, <3>2 DEF SensorsValid
  <2>3. CASE Controlling
    <3>1. \/ decision.kind = "EscalateMax"
          \/ decision.kind = "SetSpeed" /\ decision.rpm \in Asked(mode)
      BY <1>1, <1>2, <1>4, <2>3, KindTellsMode
         DEF Policy!MayDecide, StepKind, Controlling
    <3>2. \E rpm \in {CfgMaxRpm} \cup Asked(mode) : WriteControlled(Clamp(rpm))
      BY <1>2, <2>3, <3>1 DEF Act, Controlling
    <3>. QED
      BY <1>1, <2>1, <2>3, <3>2, OutputsAreDecisions DEF SensorsValid, Controlling
  <2>. QED
    BY <2>2, <2>3
<1>. QED
  BY <1>2, <1>3, <1>4

-----------------------------------------------------------------------------
(* The stall window of a dead fan *)

LEMMA ClampInBand == \A rpm \in Nat : Clamp(rpm) \in HwMin..HwMax
BY BandAssumption DEF Clamp

LEMMA WrittenInBandStep ==
  ASSUME Inv, WrittenInBand, [Next]_vars
  PROVE  WrittenInBand'
<1> USE DEF WrittenInBand, locals, ownership
<1>1. CASE Startup
  BY <1>1
     DEF Startup, SnapshotInherited, ProbePasses, ProbeFails, ReconcileNothing,
         ReconcileManual, DegradeStartupToObserve
<1>2. CASE CmdStep
  BY <1>2
     DEF CmdStep, IgnoreCmdFile, RefuseCmd, ApplyControlCmd, ApplyObserveCmd,
         ReleaseForObserve
<1>3. CASE RetryStep
  BY <1>3 DEF RetryStep, RetrySkipped, RetrySucceeds, RetryFails
<1>4. CASE SensorsValid
  <2>1. ASSUME Controlling, NEW rpm \in Outputs(mode)
        PROVE  Clamp(rpm) \in HwMin..HwMax
    <3>1. mode \in RunMode /\ mode # Observe
      BY <2>1 DEF Inv, TypeOK, FieldsType, Controlling
    <3>2. rpm \in Nat
      BY <2>1, <3>1, BandAssumption DEF RunMode, Observe, Curve, Hold, Outputs
    <3>. QED
      BY <3>2, ClampInBand
  <2>2. want' \in HwMin..HwMax \cup {None}
    BY <1>4, <2>1 DEF SensorsValid, WriteControlled
  <2>. QED
    BY <1>4, <2>2 DEF SensorsValid
<1>5. CASE SensorsLost \/ EnterManual \/ WriteSpeed \/ ReturnToAuto
  BY <1>5 DEF SensorsLost, EnterManual, WriteSpeed, ReturnToAuto
<1>6. CASE L1Step
  BY <1>6
     DEF L1Step, L1ReadFails, L1NotOurs, L1Reads, L1ReassertManual,
         L1OnTarget, L1Tracking, L1Stall
<1>7. CASE DegradeToAuto \/ PublishState
  BY <1>7 DEF DegradeToAuto, PublishState
<1>8. CASE ClientWritesCmd \/ FirmwareReclaims \/ Die \/ Restart
  BY <1>8 DEF ClientWritesCmd, FirmwareReclaims, Die, Restart, Fresh
<1>9. CASE UNCHANGED vars
  BY <1>9 DEF vars
<1>. QED
  BY <1>1, <1>2, <1>3, <1>4, <1>5, <1>6, <1>7, <1>8, <1>9
     DEF Next, Daemon, ActStep

\* Only speeds of the hardware band are ever written.
THEOREM SpeedsStayInBand == Spec => []WrittenInBand
<1>1. Init => WrittenInBand
  BY DEF Init, WrittenInBand
<1>2. Inv /\ WrittenInBand /\ [Next]_vars => WrittenInBand'
  BY WrittenInBandStep
<1>. QED
  BY <1>1, <1>2, Invariance, PTL DEF Spec

\* What a step does to the stall window of a fan that stands still.
LEMMA StallWindowStep ==
  ASSUME Inv, WrittenInBand, Next, NEW rpm \in TachReadings,
         StandsAt(rpm), StandsAt(rpm)'
  PROVE  \/ stall_polls' = stall_polls + (IF L1Stall THEN 1 ELSE 0)
         \/ L1Stall /\ pc' = "fallback"
<1>1. /\ manual_armed /\ ~auto_restore_pending /\ ~moved /\ prev_actual = rpm
      /\ manual_armed' /\ ~auto_restore_pending' /\ ~moved'
  BY DEF StandsAt
<1>2. stall_polls \in Nat
  BY DEF Inv, TypeOK, CountersType
<1>3. last_written # None => OffTarget
  BY <1>1 DEF StandsAt, OffTarget, WrittenInBand
<1>4. CASE L1Stall
  BY <1>1, <1>4 DEF L1Stall
<1>5. ASSUME UNCHANGED stall_polls, ~L1Stall
      PROVE  stall_polls' = stall_polls + (IF L1Stall THEN 1 ELSE 0)
  BY <1>2, <1>5
<1>6. ~L1Stall => UNCHANGED stall_polls
  <2> SUFFICES ASSUME ~L1Stall
               PROVE  UNCHANGED stall_polls
    OBVIOUS
  <2> USE DEF counters
  <2>1. CASE Startup
    BY <1>1, <2>1
       DEF Inv, ThreadContext, StartupOwnsNothing, StartupSteps, Startup,
           SnapshotInherited, ProbePasses, ProbeFails, ReconcileNothing,
           ReconcileManual
  <2>2. CASE CmdStep
    BY <1>1, <2>2
       DEF CmdStep, IgnoreCmdFile, RefuseCmd, ApplyControlCmd, ApplyObserveCmd,
           ReleaseForObserve
  <2>3. CASE RetryStep
    BY <1>1, <2>3 DEF RetryStep, RetrySkipped, RetrySucceeds, RetryFails
  <2>4. CASE ActStep
    BY <1>1, <2>4
       DEF ActStep, SensorsLost, SensorsValid, EnterManual, WriteSpeed,
           ReturnToAuto
  <2>5. CASE L1Step
    BY <1>1, <1>3, <2>5
       DEF L1Step, L1ReadFails, L1NotOurs, L1Reads, L1ReassertManual,
           L1OnTarget, L1Tracking
  <2>6. CASE DegradeToAuto \/ PublishState
    BY <1>1, <2>6 DEF DegradeToAuto, PublishState
  <2>7. CASE ClientWritesCmd \/ FirmwareReclaims \/ Die \/ Restart
    BY <1>1, <2>7 DEF ClientWritesCmd, FirmwareReclaims, Die, Restart, Fresh
  <2>. QED
    BY <2>1, <2>2, <2>3, <2>4, <2>5, <2>6, <2>7 DEF Next, Daemon
<1>. QED
  BY <1>4, <1>5, <1>6

\* A dead fan is not kept by reopening the stall window, whatever comes in
\* between: this is what DeadFanGivenUp rests on.
THEOREM StallWindowKept == Spec => StallWindowSurvives
<1>1. Inv /\ WrittenInBand /\ [Next]_vars =>
        [\A rpm \in TachReadings :
           StandsAt(rpm) /\ StandsAt(rpm)' =>
             \/ stall_polls' = stall_polls + (IF L1Stall THEN 1 ELSE 0)
             \/ L1Stall /\ pc' = "fallback"]_vars
  BY StallWindowStep
<1>. QED
  BY <1>1, SpeedsStayInBand, Invariance, PTL DEF Spec, StallWindowSurvives
==============================================================================
