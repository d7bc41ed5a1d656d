----------------------------- MODULE StartupProofs -----------------------------
(*****************************************************************************)
(* Proofs about Startup, for every tree, configuration file, answer of       *)
(* systemd and number of driver loads: an armed death path releases the fan, *)
(* doctor's exit code 0 is worth its word, and no daemon runs on an empty    *)
(* band.                                                                     *)
(*****************************************************************************)
EXTENDS Startup, FiniteSetTheorems, TLAPS

-----------------------------------------------------------------------------
(* The configuration file *)

LEMMA LoadedIsStructural ==
  ASSUME NEW f \in ConfigFiles, Load(f) # Refused
  PROVE  Load(f) \in Configs /\ CheckStructural(Load(f))
<1>1. CASE f = Missing
  BY <1>1, WidthAssumption
     DEF Load, Defaults, Configs, I32, U32, CheckStructural, MaxIntervalS
<1>2. CASE f # Missing
  <2>1. f \in Documents /\ WellFormed(f) /\ CheckStructural(Fields(f))
        /\ Load(f) = Fields(f)
    BY <1>2 DEF Load, FromToml, ConfigFiles
  <2>2. Fields(f) \in Configs
    <3>1. f.value["interval_s"] \in Nat
      BY <2>1 DEF WellFormed, Keys
    <3>. QED
      BY <2>1, <3>1 DEF WellFormed, Fields, Configs
  <2>. QED
    BY <2>1, <2>2
<1>. QED
  BY <1>1, <1>2

LEMMA ValidatedBand ==
  ASSUME NEW cfg \in Configs, NEW hw \in Nat \X Nat, Validate(cfg, hw)
  PROVE  /\ CheckStructural(cfg)
         /\ \E rpm \in hw[1]..hw[2] :
              cfg.min_rpm <= rpm /\ rpm < cfg.max_rpm /\ rpm < hw[2]
<1>1. cfg.min_rpm \in Nat /\ cfg.max_rpm \in Nat
  BY WidthAssumption DEF Configs, U32
<1>2. hw[1] \in Nat /\ hw[2] \in Nat
  OBVIOUS
<1>3. Larger(cfg.min_rpm, hw[1]) < Smaller(cfg.max_rpm, hw[2])
  BY DEF Validate, ClampedRpm
<1>4. /\ Larger(cfg.min_rpm, hw[1]) \in hw[1]..hw[2]
      /\ cfg.min_rpm <= Larger(cfg.min_rpm, hw[1])
      /\ Larger(cfg.min_rpm, hw[1]) < cfg.max_rpm
      /\ Larger(cfg.min_rpm, hw[1]) < hw[2]
  BY <1>1, <1>2, <1>3 DEF Larger, Smaller
<1>. QED
  BY <1>4 DEF Validate

-----------------------------------------------------------------------------
(* The opened tree *)

LEMMA DetectedAbi ==
  ASSUME NEW attrs, DetectAbi(attrs) # None
  PROVE  DetectAbi(attrs) \in Abis /\ DetectAbi(attrs).mode_attr \in attrs
<1> DEFINE present == {abi \in Abis : abi.mode_attr \in attrs}
<1>1. Cardinality(present) = 1
  BY DEF DetectAbi
<1>2. IsFiniteSet(Abis)
  <2>1. IsFiniteSet({LEGACY})
    BY FS_Singleton
  <2>2. Abis = {LEGACY} \cup {MODERN}
    BY DEF Abis
  <2>. QED
    BY <2>1, <2>2, FS_AddElement
<1>3. IsFiniteSet(present)
  BY <1>2, FS_Subset
<1>4. PICK one : present = {one}
  BY <1>1, <1>3, FS_Singleton
<1>5. DetectAbi(attrs) = one
  BY <1>1, <1>4 DEF DetectAbi
<1>. QED
  BY <1>4, <1>5

LEMMA OpenedHandle ==
  ASSUME NEW t \in AppleTrees, Open(t) # None
  PROVE  /\ Open(t).abi \in Abis
         /\ Open(t).hw \in Nat \X Nat
         /\ Open(t).writable = t.writable
         /\ Bound(Open(t), t)
<1> DEFINE dir == FanDir(t)
           abi == IF dir = None THEN None ELSE DetectAbi(Attributes(t, dir))
<1>1. abi # None /\ t.min # None /\ t.max # None /\ ~(t.min > t.max)
  BY DEF Open
<1>2. Open(t) = [dir |-> dir, abi |-> abi, hw |-> <<t.min, t.max>>,
                 sensors |-> DiscoverSensors(t), writable |-> t.writable]
  BY DEF Open
<1>3. abi \in Abis /\ abi.mode_attr \in Attributes(t, dir)
  BY <1>1, DetectedAbi
<1>4. t.min \in Nat /\ t.max \in Nat
  BY <1>1 DEF AppleTrees
<1>. HIDE DEF dir, abi
<1>. QED
  BY <1>2, <1>3, <1>4 DEF Bound

-----------------------------------------------------------------------------
(* Tokens *)

\* What the probe has seen through the path, after its token was adopted.
LEMMA ProbeIsConclusive ==
  ASSUME NEW handle, handle.abi \in Abis, NEW t, NEW r,
         Adopts(t.vocabulary, RestoreBytes(handle.abi)) # None,
         ReadMode(handle, t, AfterToken(t, RestoreBytes(handle.abi), r)) = "Auto"
  PROVE  Adopts(t.vocabulary, RestoreBytes(handle.abi)) = "Auto"
<1>1. Adopts(t.vocabulary, RestoreBytes(handle.abi)) \in {"Auto", "Manual"}
  BY DEF Adopts
<1>2. ASSUME Adopts(t.vocabulary, RestoreBytes(handle.abi)) = "Manual"
      PROVE  FALSE
  <2>1. Shows(t.vocabulary, AfterToken(t, RestoreBytes(handle.abi), r)) = "1"
    BY <1>2, NoneAssumption DEF AfterToken, Shows
  <2>2. ParseMode(handle.abi, "1") = "Manual"
    BY DEF ParseMode, Abis, LEGACY, MODERN
  <2>. QED
    BY <2>1, <2>2, NoneAssumption DEF ReadMode
<1>. QED
  BY <1>1, <1>2

\* A driver that speaks the generation that was bound restores AUTO on the
\* restore bytes and shows what the binding can parse.
LEMMA GenuineDriver ==
  ASSUME NEW t, NEW handle, handle.abi \in Abis,
         t.vocabulary = handle.abi.generation, Bound(handle, t),
         NEW r \in {"Auto", "Manual"}
  PROVE  /\ Adopts(t.vocabulary, RestoreBytes(handle.abi)) = "Auto"
         /\ ReadMode(handle, t, r) = r
BY DEF Adopts, RestoreBytes, ReadMode, ParseMode, Shows, Abis, LEGACY, MODERN

-----------------------------------------------------------------------------
(* The invariant *)

LEMMA InitInv == Init => Inv
BY TreesAssumption, FilesAssumption
   DEF Init, Inv, TypeOK, ArmedOnALoadedDriver, ArmedDeathWriteReleases,
       WordKept, Coming, Opened, Validated, Probed

\* What doctor sees when it exits with 0.
LEMMA DoctorSees ==
  ASSUME Inv, NEW readings, NEW unit, NEW told,
         ExitsWithZero(tree, file, readings, unit, told)
  PROVE  Startable
<1> DEFINE handle == Open(tree)
           checks == Checks(handle, tree, file, readings, unit, told)
<1>1. handle # None /\ \A name \in DOMAIN checks : checks[name] # "fail"
  BY DEF ExitsWithZero
<1>2. checks.config # "fail" /\ checks.writable # "fail"
  BY <1>1 DEF Checks
<1>3. ConfigCheck(file, handle.hw) # "fail" /\ Verdict(handle.writable) # "fail"
  BY <1>2 DEF Checks
<1>4. Load(file) # Refused /\ Validate(Load(file), handle.hw)
  BY <1>3 DEF ConfigCheck
<1>5. handle.writable
  BY <1>3 DEF Verdict
<1>6. handle.writable = tree.writable
  BY <1>1, OpenedHandle DEF Inv, TypeOK
<1>. QED
  BY <1>1, <1>4, <1>5, <1>6 DEF Startable

\* The steps up to the snapshot: each keeps what the previous ones established.
LEMMA ComingUpStep ==
  ASSUME Inv, LoadConfig \/ OpenBackend \/ NewSupervisor \/ Snapshot
  PROVE  Inv'
<1>1. CASE LoadConfig
  <2>1. CASE Load(file) = Refused
    BY <1>1, <2>1
       DEF LoadConfig, Inv, TypeOK, ArmedOnALoadedDriver, WordKept, Startable,
           ArmedDeathWriteReleases, Coming, Opened, Validated, Probed,
           machine, Genuine
  <2>2. CASE Load(file) # Refused
    <3>1. config' \in Configs /\ CheckStructural(config')
      BY <1>1, <2>2, LoadedIsStructural DEF LoadConfig, Inv, TypeOK
    <3>. QED
      BY <1>1, <2>2, <3>1
         DEF LoadConfig, Inv, TypeOK, ArmedOnALoadedDriver, WordKept, Startable,
             ArmedDeathWriteReleases, Coming, Opened, Validated, Probed,
             machine, Genuine
  <2>. QED
    BY <2>1, <2>2
<1>2. CASE OpenBackend
  <2>1. CASE Open(tree) = None
    BY <1>2, <2>1
       DEF OpenBackend, Inv, TypeOK, ArmedOnALoadedDriver, WordKept, Startable,
           ArmedDeathWriteReleases, Coming, Opened, Validated, Probed,
           machine, word, Genuine
  <2>2. CASE Open(tree) # None
    <3>1. smc'.abi \in Abis /\ smc'.hw \in Nat \X Nat
      BY <1>2, <2>2, OpenedHandle DEF OpenBackend, Inv, TypeOK
    <3>. QED
      BY <1>2, <2>2, <3>1
         DEF OpenBackend, Inv, TypeOK, ArmedOnALoadedDriver, WordKept, Startable,
             ArmedDeathWriteReleases, Coming, Opened, Validated, Probed,
             machine, word, Genuine
  <2>. QED
    BY <2>1, <2>2
<1>3. CASE NewSupervisor
  BY <1>3
     DEF NewSupervisor, Inv, TypeOK, ArmedOnALoadedDriver, WordKept, Startable,
         ArmedDeathWriteReleases, Coming, Opened, Validated, Probed,
         machine, daemon, word, Genuine
<1>4. CASE Snapshot
  BY <1>4
     DEF Snapshot, Inv, TypeOK, ArmedOnALoadedDriver, WordKept, Startable,
         ArmedDeathWriteReleases, Coming, Opened, Validated, Probed,
         machine, word, Genuine
<1>. QED
  BY <1>1, <1>2, <1>3, <1>4

\* A write of a mode leaves a mode.
LEMMA RegisterStaysAMode ==
  ASSUME Inv, NEW token
  PROVE  AfterToken(tree, token, register) \in {"Auto", "Manual"}
BY DEF AfterToken, Adopts, Inv, TypeOK

LEMMA ProbeStep ==
  ASSUME Inv, Probe
  PROVE  Inv'
<1> DEFINE bytes == RestoreBytes(smc.abi)
           succeeds == DescriptorWrites(bytes) /\ ReadMode(smc, tree, register') = "Auto"
<1>1. pc = "probe" /\ smc.abi \in Abis
  BY DEF Probe, Inv, TypeOK, Opened, Coming
<1>2. register' \in {"Auto", "Manual"}
  BY RegisterStaysAMode DEF Probe, Inv, TypeOK
<1>3. TypeOK'
  BY <1>2 DEF Probe, Inv, TypeOK, Coming, Opened, Validated
<1>4. CASE succeeds
  <2>1. armed' = [fd |-> fd, since |-> driver, bytes |-> bytes] /\ fd = driver
    BY <1>4 DEF Probe, Arm, DescriptorWrites
  <2>2. Adopts(tree.vocabulary, bytes) = "Auto"
    BY <1>1, <1>4, ProbeIsConclusive DEF Probe, DescriptorWrites
  <2>3. ArmedOnALoadedDriver' /\ ArmedDeathWriteReleases'
    BY <2>1, <2>2
       DEF Probe, Inv, TypeOK, ArmedOnALoadedDriver, ArmedDeathWriteReleases
  <2>4. armed' # None
    <3>1. bytes \in {abi.auto : abi \in Abis}
      BY <1>1 DEF RestoreBytes
    <3>2. armed' \in [fd : Nat, since : Nat, bytes : {abi.auto : abi \in Abis}]
      BY <2>1, <3>1 DEF Inv, TypeOK
    <3>. QED
      BY <3>2, NoneAssumption
  <2>. QED
    BY <1>1, <1>3, <2>3, <2>4
       DEF Probe, Inv, WordKept, Startable, Genuine, Coming, Opened, Probed, word
<1>5. CASE ~succeeds
  <2>1. ArmedOnALoadedDriver' /\ ArmedDeathWriteReleases'
    BY <1>5
       DEF Probe, Inv, ArmedOnALoadedDriver, ArmedDeathWriteReleases
  <2>2. ASSUME sure, Genuine
        PROVE  FALSE
    <3>1. fd = driver /\ smc = Open(tree) /\ Open(tree) # None
      BY <1>1, <2>2 DEF Inv, WordKept, Startable, Coming, Opened, Probed
    <3>2. Bound(smc, tree) /\ tree.vocabulary = smc.abi.generation
      BY <2>2, <3>1, OpenedHandle DEF Inv, TypeOK, Genuine
    <3>3. Adopts(tree.vocabulary, bytes) = "Auto"
          /\ ReadMode(smc, tree, "Auto") = "Auto"
      BY <1>1, <3>2, GenuineDriver
    <3>4. DescriptorWrites(bytes) /\ register' = "Auto"
      BY <3>1, <3>3, NoneAssumption DEF Probe, DescriptorWrites, AfterToken
    <3>. QED
      BY <1>5, <3>3, <3>4
  <2>. QED
    BY <1>1, <1>3, <2>1, <2>2
       DEF Probe, Inv, WordKept, Startable, Genuine, Coming, Opened, Probed, word
<1>. QED
  BY <1>4, <1>5

LEMMA ReconcileStep ==
  ASSUME Inv, Reconcile
  PROVE  Inv'
<1>1. register' \in {"Auto", "Manual"}
  BY RegisterStaysAMode DEF Reconcile, SetModeWrites, Inv, TypeOK
<1>. QED
  BY <1>1
     DEF Reconcile, Inv, TypeOK, ArmedOnALoadedDriver, WordKept, Startable,
         ArmedDeathWriteReleases, Coming, Opened, Validated, Probed, word, Genuine

LEMMA DrivesStep ==
  ASSUME Inv, Drives
  PROVE  Inv'
<1>1. register' \in {"Auto", "Manual"}
  BY RegisterStaysAMode DEF Drives, SetModeWrites, Inv, TypeOK
<1>. QED
  BY <1>1
     DEF Drives, Inv, TypeOK, ArmedOnALoadedDriver, WordKept, Startable,
         ArmedDeathWriteReleases, Coming, Opened, Validated, Probed, word, Genuine

LEMMA EndsStep ==
  ASSUME Inv, Ends
  PROVE  Inv'
<1>1. register' \in {"Auto", "Manual"}
  BY RegisterStaysAMode DEF Ends, Inv, TypeOK
<1>. QED
  BY <1>1
     DEF Ends, Inv, TypeOK, ArmedOnALoadedDriver, WordKept, Startable,
         ArmedDeathWriteReleases, Coming, Opened, Validated, Probed

LEMMA DiagnoseStep ==
  ASSUME Inv, Diagnose
  PROVE  Inv'
<1>1. vouched' => Startable
  BY DoctorSees DEF Diagnose
<1>. QED
  BY <1>1
     DEF Diagnose, Inv, TypeOK, ArmedOnALoadedDriver, WordKept, Startable,
         ArmedDeathWriteReleases, Coming, Opened, Validated, Probed,
         machine, daemon, Genuine

\* The world takes doctor's word back, and a new driver has a new number.
LEMMA WorldStep ==
  ASSUME Inv, EditConfig \/ ReloadDriver \/ ChangePermissions \/ FirmwareReclaims
  PROVE  Inv'
<1>1. CASE EditConfig
  BY <1>1, FilesAssumption
     DEF EditConfig, Inv, TypeOK, ArmedOnALoadedDriver, WordKept,
         ArmedDeathWriteReleases, Coming, Opened, Validated, daemon
<1>2. CASE ReloadDriver
  <2>1. TypeOK' /\ WordKept'
    BY <1>2, TreesAssumption
       DEF ReloadDriver, Inv, TypeOK, WordKept, Coming, Opened, Validated, daemon
  <2>2. ArmedOnALoadedDriver' /\ ArmedDeathWriteReleases'
    BY <1>2
       DEF ReloadDriver, Inv, TypeOK, ArmedOnALoadedDriver,
           ArmedDeathWriteReleases, daemon
  <2>. QED
    BY <2>1, <2>2 DEF Inv
<1>3. CASE ChangePermissions
  <2>1. tree' \in AppleTrees /\ tree'.vocabulary = tree.vocabulary
    BY <1>3 DEF ChangePermissions, Inv, TypeOK, AppleTrees
  <2>. QED
    BY <1>3, <2>1
       DEF ChangePermissions, Inv, TypeOK, ArmedOnALoadedDriver, WordKept,
           ArmedDeathWriteReleases, Coming, Opened, Validated, daemon
<1>4. CASE FirmwareReclaims
  BY <1>4
     DEF FirmwareReclaims, Inv, TypeOK, ArmedOnALoadedDriver, WordKept, Startable,
         ArmedDeathWriteReleases, Coming, Opened, Validated, Probed,
         daemon, word, Genuine
<1>. QED
  BY <1>1, <1>2, <1>3, <1>4

LEMMA StepInv == Inv /\ [Next]_vars => Inv'
<1> SUFFICES ASSUME Inv, [Next]_vars
             PROVE  Inv'
  OBVIOUS
<1>1. CASE Next
  BY <1>1, ComingUpStep, ProbeStep, ReconcileStep, DrivesStep, EndsStep,
     DiagnoseStep, WorldStep DEF Next, Start
<1>2. CASE UNCHANGED vars
  BY <1>2
     DEF vars, machine, daemon, word, Inv, TypeOK, ArmedOnALoadedDriver, WordKept,
         Startable, ArmedDeathWriteReleases, Coming, Opened, Validated, Probed,
         Genuine
<1>. QED
  BY <1>1, <1>2

THEOREM Invariance == Spec => []Inv
BY InitInv, StepInv, PTL DEF Spec

-----------------------------------------------------------------------------
\* An armed death path restores AUTO on the driver it was armed on, whatever the
\* trees, their vocabularies and what changed while the daemon came up.
THEOREM ArmedDeathReleases == Spec => []ArmedDeathWriteReleases
<1>1. Inv => ArmedDeathWriteReleases
  BY DEF Inv
<1>. QED
  BY <1>1, Invariance, PTL

\* Doctor's exit code 0 means that the daemon comes up and that the verbs that
\* read have an answer, for every file, tree and answer of systemd.
THEOREM DoctorIsRight == Spec => []DoctorVouchesForStart
<1>1. Inv => DoctorVouchesForStart
  <2> SUFFICES ASSUME Inv
               PROVE  DoctorVouchesForStart
    OBVIOUS
  <2>1. sure => pc # "failed" /\ (pc = "running" /\ Genuine => armed # None)
    BY DEF Inv, WordKept, Probed
  <2>2. ASSUME vouched
        PROVE  DryRunAnswers /\ (Genuine => StatusAnswers)
    <3>1. Load(file) # Refused /\ Open(tree) # None
      BY <2>2 DEF Inv, WordKept, Startable
    <3>2. ASSUME Genuine
          PROVE  ReadMode(Open(tree), tree, register) # None
      <4>1. Open(tree).abi \in Abis /\ Bound(Open(tree), tree)
        BY <3>1, OpenedHandle DEF Inv, TypeOK
      <4>2. ReadMode(Open(tree), tree, register) = register
        BY <3>2, <4>1, GenuineDriver DEF Genuine, Inv, TypeOK
      <4>. QED
        BY <4>2, NoneAssumption DEF Inv, TypeOK
    <3>. QED
      BY <3>1, <3>2 DEF DryRunAnswers, StatusAnswers
  <2>. QED
    BY <2>1, <2>2 DEF DoctorVouchesForStart
<1>. QED
  BY <1>1, Invariance, PTL

\* A daemon that started has a configuration that needs no further check and a
\* band that is not empty, for every file and every bounds of the hardware.
THEOREM StartsOnUsableBand == Spec => []StartedOnUsableBand
<1>1. Inv => StartedOnUsableBand
  BY ValidatedBand
     DEF Inv, TypeOK, StartedOnUsableBand, Coming, Opened, Validated
<1>. QED
  BY <1>1, Invariance, PTL
=============================================================================
