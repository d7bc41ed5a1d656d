----------------------------- MODULE StateFileProofs -----------------------------
(*****************************************************************************)
(* Proofs about StateFile, for every value of Supervisor's constants.        *)
(*                                                                           *)
(* The document that is in place between two polls is the snapshot of the    *)
(* daemon as it then is (Published): nothing a snapshot shows changes while  *)
(* the thread sleeps.  That what it shows is true then follows from          *)
(* Supervisor's inductive invariant, as every StateFile step is one of       *)
(* Supervisor or leaves its variables alone.                                 *)
(*****************************************************************************)
EXTENDS StateFile, SupervisorProofs

FileTypes ==
  /\ at \in {"out", "opened", "written"}
  /\ current \in BOOLEAN

\* Where the thread stands in write_atomic.
FileContext ==
  /\ at # "out" => pc = "publish"
  /\ at = "written" => tmp_file = Written
  /\ pc \in StartupSteps \cup {"dead"} => ~current

Published == pc = "cmd" /\ current => state_file = Snapshot

FileInv == FileTypes /\ FileContext /\ ReadersSeeWholePolls /\ Published

\* The three kinds of content differ.
LEMMA KindsDiffer == Snapshot # Torn /\ Snapshot # Gone /\ Gone # Torn
<1>1. Snapshot.kind = "state" /\ Torn.kind = "torn" /\ Gone.kind = "gone"
  BY DEF Snapshot, Torn, Gone
<1>. QED
  BY <1>1

LEMMA FileInitInv == FileInit => FileInv
BY KindsDiffer
   DEF FileInit, Init, FileInv, FileTypes, FileContext, ReadersSeeWholePolls,
       Published, StartupSteps

\* Every step is one of Supervisor's, or leaves its variables alone.
LEMMA StepsAreSupervisors ==
  ASSUME FileNext
  PROVE  [Next]_vars
BY DEF FileNext, Elsewhere, Publish, OpenTmp, WriteTmp, RenameTmp, PublishFails,
       DieWhereItStands, RestartAnew, Next, Daemon

\* Only the end of the startup and the end of a poll bring the thread to the
\* command file.
LEMMA ReachingCmd ==
  ASSUME Inv, Daemon, pc # "publish", pc' = "cmd"
  PROVE  pc \in StartupSteps
<1> USE DEF Goto
<1>1. CASE Startup
  BY <1>1
     DEF Startup, SnapshotInherited, ProbePasses, ProbeFails, ReconcileNothing,
         ReconcileManual, StartupSteps
<1>2. CASE CmdStep
  BY <1>2
     DEF CmdStep, IgnoreCmdFile, RefuseCmd, ApplyControlCmd, ApplyObserveCmd,
         ReleaseForObserve, FailWrite
<1>3. CASE RetryStep
  BY <1>3 DEF RetryStep, RetrySkipped, RetrySucceeds, RetryFails
<1>4. CASE ActStep
  BY <1>4
     DEF ActStep, SensorsLost, SensorsValid, WriteControlled, EnterManual,
         WriteSpeed, ReturnToAuto, FailWrite
<1>5. CASE L1Step
  BY <1>5
     DEF L1Step, L1ReadFails, L1NotOurs, L1Reads, L1ReassertManual, L1OnTarget,
         L1Tracking, L1Stall, L1Verdict, FailWrite
<1>6. CASE DegradeToAuto
  BY <1>6 DEF DegradeToAuto, Inv, TypeOK, ThreadType
<1>7. CASE PublishState
  BY <1>7 DEF PublishState
<1>. QED
  BY <1>1, <1>2, <1>3, <1>4, <1>5, <1>6, <1>7 DEF Daemon

\* Startup ends in the poll loop and does not begin again but by a restart.
LEMMA ReachingStartup ==
  ASSUME Inv, Daemon, pc' \in StartupSteps \cup {"dead"}
  PROVE  pc \in StartupSteps
<1> USE DEF Goto, StartupSteps
<1>1. CASE Startup
  BY <1>1
     DEF Startup, SnapshotInherited, ProbePasses, ProbeFails, ReconcileNothing,
         ReconcileManual
<1>2. CASE CmdStep
  BY <1>2
     DEF CmdStep, IgnoreCmdFile, RefuseCmd, ApplyControlCmd, ApplyObserveCmd,
         ReleaseForObserve, FailWrite
<1>3. CASE RetryStep
  BY <1>3 DEF RetryStep, RetrySkipped, RetrySucceeds, RetryFails
<1>4. CASE ActStep
  BY <1>4
     DEF ActStep, SensorsLost, SensorsValid, WriteControlled, EnterManual,
         WriteSpeed, ReturnToAuto, FailWrite
<1>5. CASE L1Step
  BY <1>5
     DEF L1Step, L1ReadFails, L1NotOurs, L1Reads, L1ReassertManual, L1OnTarget,
         L1Tracking, L1Stall, L1Verdict, FailWrite
<1>6. CASE DegradeToAuto \/ PublishState
  BY <1>6
     DEF DegradeToAuto, PublishState, Inv, TypeOK, ThreadType, ThreadContext,
         FallbackContext
<1>. QED
  BY <1>1, <1>2, <1>3, <1>4, <1>5, <1>6 DEF Daemon

LEMMA FileStep ==
  ASSUME Inv, FileInv, FileNext
  PROVE  FileInv'
<1> USE DEF FileInv, FileTypes, FileContext, ReadersSeeWholePolls, Published
<1>1. CASE Elsewhere
  <2>1. UNCHANGED <<state_file, tmp_file, at, current>>
    BY <1>1 DEF Elsewhere, fileVars, files
  <2>2. CASE Daemon /\ pc # "publish"
    BY <2>1, <2>2, ReachingCmd, ReachingStartup DEF Written
  <2>3. CASE ClientWritesCmd \/ FirmwareReclaims
    <3>1. pc' = pc /\ Snapshot' = Snapshot
      BY <2>3
         DEF ClientWritesCmd, FirmwareReclaims, intent, ownership, l2, Snapshot
    <3>. QED
      BY <2>1, <3>1 DEF Written
  <2>. QED
    BY <1>1, <2>2, <2>3 DEF Elsewhere
<1>2. CASE OpenTmp \/ WriteTmp
  <2>1. pc = "publish" /\ pc' = "publish" /\ UNCHANGED <<state_file, current>>
    BY <1>2 DEF OpenTmp, WriteTmp, vars
  <2>. QED
    BY <1>2, <2>1 DEF OpenTmp, WriteTmp, StartupSteps, Written
<1>3. CASE RenameTmp
  <2>1. pc' = "cmd" /\ Snapshot' = Snapshot
    BY <1>3 DEF RenameTmp, PublishState, Goto, intent, ownership, l2, Snapshot
  <2>2. state_file' = Snapshot
    BY <1>3 DEF RenameTmp
  <2>. QED
    BY <1>3, <2>1, <2>2, KindsDiffer DEF RenameTmp, StartupSteps, Torn
<1>4. CASE PublishFails
  BY <1>4 DEF PublishFails, PublishState, Goto, files, StartupSteps, Torn
<1>5. CASE DieWhereItStands
  BY <1>5 DEF DieWhereItStands, files, Torn
<1>6. CASE RestartAnew
  BY <1>6, KindsDiffer DEF RestartAnew, Restart, files, StartupSteps, Torn, Gone
<1>. QED
  BY <1>1, <1>2, <1>3, <1>4, <1>5, <1>6 DEF FileNext, Publish

LEMMA FileStutter ==
  ASSUME FileInv, UNCHANGED allVars
  PROVE  FileInv'
BY DEF allVars, fileVars, files, vars, intent, ownership, l2, FileInv, FileTypes,
       FileContext, ReadersSeeWholePolls, Published, Snapshot, Written, Torn

\* Publishing, and a poll that ends only when its document was tried, add
\* nothing to what the daemon does: every theorem about Supervisor holds of it.
THEOREM FileDaemonIsADaemon == FileSpec => Spec
<1>1. FileInit => Init
  BY DEF FileInit
<1>2. [FileNext]_allVars => [Next]_vars
  BY StepsAreSupervisors DEF allVars
<1>. QED
  BY <1>1, <1>2, PTL DEF FileSpec, Spec

\* The daemon that publishes its state implements FanCustody.
THEOREM FileDaemonKeepsCustody == FileSpec => KeepsCustody
BY FileDaemonIsADaemon, Refinement, PTL

\* Supervisor's invariant and the files'.
THEOREM FileInvariance == FileSpec => [](Inv /\ FileInv)
<1>1. FileInit => Inv /\ FileInv
  BY InitInv, FileInitInv DEF FileInit
<1>2. Inv /\ FileInv /\ [FileNext]_allVars => Inv' /\ FileInv'
  <2> SUFFICES ASSUME Inv, FileInv, [FileNext]_allVars
               PROVE  Inv' /\ FileInv'
    OBVIOUS
  <2>1. [Next]_vars
    BY StepsAreSupervisors DEF allVars
  <2>2. Inv'
    BY <2>1, StepInv
  <2>3. FileInv'
    BY FileStep, FileStutter
  <2>. QED
    BY <2>2, <2>3
<1>. QED
  BY <1>1, <1>2, PTL DEF FileSpec

\* A reader of state.json never sees half a document.
THEOREM ReadersAlwaysSeeWholePolls == FileSpec => []ReadersSeeWholePolls
<1>1. FileInv => ReadersSeeWholePolls
  BY DEF FileInv
<1>. QED
  BY <1>1, FileInvariance, PTL

\* Between two polls the published file tells who has the fan.
LEMMA SnapshotIsTrue ==
  ASSUME Inv, FileInv, pc = "cmd", current
  PROVE  ReportIsTrue
<1>1. state_file = Snapshot /\ Parsed(state_file) = Snapshot
  BY KindsDiffer DEF FileInv, Published, Parsed
<1>2. /\ state_file.mode = mode.kind
      /\ state_file.monitor_only = monitor_only
      /\ state_file.auto_restore_pending = auto_restore_pending
      /\ state_file.l2_death_path = armed
  BY <1>1 DEF Snapshot
<1>3. mode \in RunMode /\ (armed <=> ~l2_absent) /\ (l2_absent => mode = Observe)
      /\ UndrivenFanIsBeingReleased
  BY DEF Inv, TypeOK, FieldsType, ThreadContext, L2Consistent, Custody, PollSteps
<1>4. Running(state_file)
  BY <1>1, KindsDiffer DEF Running
<1>5. DoctorSays = IF monitor_only \/ auto_restore_pending
                   THEN "warn: writing nothing"
                   ELSE IF mode.kind = "hold" THEN "warn: hold" ELSE mode.kind
  BY <1>1, <1>2, KindsDiffer DEF DoctorSays, ClassifyDaemonMode
<1>6. DoctorSays = "observe" => ~manual_armed
  BY <1>3, <1>5, KindTellsMode DEF UndrivenFanIsBeingReleased, Controlling
<1>7. DoctorSays \in {"curve", "warn: hold"} => Controlling /\ armed
  BY <1>3, <1>5, KindTellsMode DEF Controlling
<1>8. manual_armed /\ ~Controlling => DoctorSays = "warn: writing nothing"
  BY <1>3, <1>5 DEF UndrivenFanIsBeingReleased
<1>. QED
  BY <1>2, <1>4, <1>6, <1>7, <1>8 DEF ReportIsTrue

\* What status and doctor read between two polls is true of the daemon.
THEOREM ReportsAreTrue == FileSpec => []ReportIsTrue
<1>1. Inv /\ FileInv => ReportIsTrue
  BY SnapshotIsTrue DEF ReportIsTrue
<1>. QED
  BY <1>1, FileInvariance, PTL
=============================================================================
