--------------------------------- MODULE Startup ---------------------------------
(*****************************************************************************)
(* How a daemon comes up on a machine: cli::run_daemon and build_supervisor, *)
(* SysfsSmc::open, Supervisor::new and the part of Supervisor::run before    *)
(* the poll loop, step by step, while the administrator edits the file and   *)
(* the permissions, applesmc is unloaded and loaded (perhaps as another      *)
(* generation), and `afanctl doctor` is asked whether all is well.           *)
(*                                                                           *)
(* Module Supervisor takes a started daemon's probe as a call that succeeds  *)
(* or fails; here it is told why.  A token the driver accepts is adopted     *)
(* within the settle window (Supervisor and SettleWrite have the other       *)
(* case).  Of the poll loop only the taking and the release of the fan are   *)
(* kept.  doctor reads and does not wait, so it is one step: a change in the *)
(* middle of it would take its word back in the next state anyway.           *)
(*                                                                           *)
(* A definition whose comment starts with "Seeded bug" is not part of the    *)
(* specification: it is a wrong version of the definition that follows it.   *)
(*****************************************************************************)
EXTENDS Doctor

CONSTANTS
  Trees,       \* the trees a driver may expose
  Files,       \* what the configuration file may hold
  Surroundings, \* what doctor may find in the sensors and be told by systemd
  MaxLoads     \* bound on the drivers loaded in a behaviour

ASSUME TreesAssumption == Trees \subseteq AppleTrees
ASSUME FilesAssumption == Files \subseteq ConfigFiles
ASSUME SurroundingsAssumption ==
  Surroundings \subseteq (SUBSET Readings) \X Units \X Binaries
ASSUME LoadsAssumption == MaxLoads \in Nat
ASSUME NoneAssumption ==
  None \notin {"Auto", "Manual"}
             \cup [fd : Nat, since : Nat, bytes : {abi.auto : abi \in Abis}]

VARIABLES
  \* --- the machine ---
  tree,
  driver,          \* which load of the driver exposes it
  register,        \* the fan mode: "Auto" or "Manual"
  file,
  \* --- the daemon ---
  pc,              \* the next step of the start, "running", "failed", "down"
  mode,            \* "observe" or "curve"
  config,          \* the loaded configuration
  smc,             \* the opened backend, None before
  fd,              \* the load of the driver its restore file belongs to
  inherited,       \* the fan mode found at startup, None for an error
  monitor_only,
  armed,           \* the armed descriptor: its fd and bytes, or None
  \* --- what doctor's word is worth ---
  vouched,         \* it exited with 0 and nothing has changed since
  sure             \* so it was when the daemon began to start

machine == <<tree, driver, register, file>>
daemon == <<mode, config, smc, fd, inherited, monitor_only, armed>>
word == <<vouched, sure>>
vars == <<machine, pc, daemon, word>>

Init ==
  /\ tree \in Trees /\ driver = 0 /\ register \in {"Auto", "Manual"}
  /\ file \in Files
  /\ pc = "down" /\ mode = "observe" /\ config = None /\ smc = None /\ fd = None
  /\ inherited = None /\ monitor_only = FALSE /\ armed = None
  /\ vouched = FALSE /\ sure = FALSE

-----------------------------------------------------------------------------
(* The daemon starts *)

\* load_config
LoadConfig ==
  /\ pc = "down"
  /\ mode' \in {"observe", "curve"}
  /\ sure' = vouched
  /\ IF Load(file) = Refused
     THEN pc' = "failed" /\ UNCHANGED config
     ELSE pc' = "open" /\ config' = Load(file)
  /\ UNCHANGED <<machine, smc, fd, inherited, monitor_only, armed, vouched>>

OpenBackend ==
  /\ pc = "open"
  /\ smc' = Open(tree)
  /\ IF smc' = None
     THEN pc' = "failed" /\ UNCHANGED fd
     ELSE pc' = "new" /\ fd' = IF tree.writable THEN driver ELSE None
  /\ UNCHANGED <<machine, mode, config, inherited, monitor_only, armed, word>>

\* Supervisor::new
NewSupervisor ==
  /\ pc = "new"
  /\ pc' = IF Validate(config, smc.hw) THEN "snapshot" ELSE "failed"
  /\ UNCHANGED <<machine, daemon, word>>

Snapshot ==
  /\ pc = "snapshot"
  /\ inherited' = ReadMode(smc, tree, register)
  /\ pc' = "probe"
  /\ UNCHANGED <<machine, mode, config, smc, fd, monitor_only, armed, word>>

\* A write through the restore file: it reaches the driver it was opened on.
DescriptorWrites(bytes) ==
  /\ fd = driver
  /\ Adopts(tree.vocabulary, bytes) # None

Arm == armed' = [fd |-> fd, since |-> driver, bytes |-> RestoreBytes(smc.abi)]

\* Seeded bug: the probe goes through the path, as set_mode does.
ProbeByPath ==
  /\ pc = "probe"
  /\ register' = SetModeWrites(smc, tree, "Auto", register)
  /\ IF SetModeVerifies(smc, tree, "Auto", register)
     THEN Arm /\ UNCHANGED mode
     ELSE mode' = "observe" /\ UNCHANGED armed
  /\ pc' = "reconcile"
  /\ UNCHANGED <<tree, driver, file, config, smc, fd, inherited, monitor_only,
                 word>>

\* probe_safe_restore and what run makes of it: the restore bytes through the
\* very file the death path will use, then a read-back through the path.
Probe ==
  /\ pc = "probe"
  /\ register' = IF DescriptorWrites(RestoreBytes(smc.abi))
                 THEN AfterToken(tree, RestoreBytes(smc.abi), register)
                 ELSE register
  /\ IF /\ DescriptorWrites(RestoreBytes(smc.abi))
        /\ ReadMode(smc, tree, register') = "Auto"
     THEN Arm /\ UNCHANGED mode
     ELSE mode' = "observe" /\ UNCHANGED armed
  /\ pc' = "reconcile"
  /\ UNCHANGED <<tree, driver, file, config, smc, fd, inherited, monitor_only,
                 word>>

\* reconcile_stale_state
Reconcile ==
  /\ pc = "reconcile"
  /\ pc' = "running"
  /\ IF inherited = "Manual"
     THEN /\ register' = SetModeWrites(smc, tree, "Auto", register)
          /\ IF SetModeVerifies(smc, tree, "Auto", register)
             THEN UNCHANGED <<mode, monitor_only>>
             ELSE mode' = "observe" /\ monitor_only' = TRUE
     ELSE /\ IF inherited = None /\ mode # "observe"
             THEN mode' = "observe" /\ monitor_only' = TRUE
             ELSE UNCHANGED <<mode, monitor_only>>
          /\ UNCHANGED register
  /\ UNCHANGED <<tree, driver, file, config, smc, fd, inherited, armed, word>>

\* The poll loop takes the fan or gives it back; a command is refused without
\* a death path.
Drives ==
  /\ pc = "running"
  /\ \/ mode = "curve" /\ ~monitor_only /\ UNCHANGED mode
        /\ register' = SetModeWrites(smc, tree, "Manual", register)
     \/ register' = SetModeWrites(smc, tree, "Auto", register)
        /\ mode' = "observe"
     \/ armed # None /\ mode' = "curve" /\ UNCHANGED register
  /\ UNCHANGED <<tree, driver, file, pc, config, smc, fd, inherited,
                 monitor_only, armed, word>>

\* The process ends, by an uncaught signal or through the death path.
Ends ==
  /\ pc \notin {"down"}
  /\ \/ UNCHANGED register
     \/ /\ armed # None
        /\ register' = IF armed.fd = driver
                       THEN AfterToken(tree, armed.bytes, register) ELSE register
  /\ pc' = "down" /\ mode' = "observe" /\ config' = None /\ smc' = None
  /\ fd' = None /\ inherited' = None /\ monitor_only' = FALSE /\ armed' = None
  /\ sure' = FALSE
  /\ UNCHANGED <<tree, driver, file, vouched>>

-----------------------------------------------------------------------------
(* doctor, and the world around *)

Diagnose ==
  /\ \E found \in Surroundings :
       vouched' = ExitsWithZero(tree, file, found[1], found[2], found[3])
  /\ UNCHANGED <<machine, pc, daemon, sure>>

EditConfig ==
  /\ file' \in Files \ {file}
  /\ vouched' = FALSE /\ sure' = FALSE
  /\ UNCHANGED <<tree, driver, register, pc, daemon>>

\* applesmc is unloaded and loaded again; the SMC keeps its mode.
ReloadDriver ==
  /\ driver < MaxLoads
  /\ driver' = driver + 1
  /\ tree' \in Trees
  /\ vouched' = FALSE /\ sure' = FALSE
  /\ UNCHANGED <<register, file, pc, daemon>>

ChangePermissions ==
  /\ tree' = [tree EXCEPT !.writable = ~tree.writable]
  /\ vouched' = FALSE /\ sure' = FALSE
  /\ UNCHANGED <<driver, register, file, pc, daemon>>

FirmwareReclaims ==
  /\ register = "Manual" /\ register' = "Auto"
  /\ UNCHANGED <<tree, driver, file, pc, daemon, word>>

\* gather_status and dry_run_report, which only read: they have an answer.
StatusAnswers ==
  /\ Load(file) # Refused
  /\ Open(tree) # None
  /\ ReadMode(Open(tree), tree, register) # None

DryRunAnswers == Load(file) # Refused /\ Open(tree) # None

-----------------------------------------------------------------------------
Start == LoadConfig \/ OpenBackend \/ NewSupervisor \/ Snapshot \/ Probe
         \/ Reconcile

Next == Start \/ Drives \/ Ends \/ Diagnose \/ EditConfig \/ ReloadDriver
        \/ ChangePermissions \/ FirmwareReclaims

Spec == Init /\ [][Next]_vars

-----------------------------------------------------------------------------
(* Properties *)

\* The death path writes what restores AUTO, to the driver it was armed on:
\* whichever generation was bound, whatever the driver understands by a token,
\* and whatever was reloaded or made read-only between the opening of the
\* restore file and its probe.  (A driver reloaded later leaves a descriptor
\* that reaches nothing, though the daemon still reports it as armed.)
ArmedDeathWriteReleases ==
  armed # None /\ armed.since = driver =>
    armed.fd = driver /\ Adopts(tree.vocabulary, armed.bytes) = "Auto"

\* The driver speaks the generation its attributes are named after.
Genuine == tree.vocabulary = Open(tree).abi.generation

\* Doctor's exit code 0 means that the daemon comes up, with a death path when
\* the driver is genuine, and that the verbs that read have an answer: doctor's
\* checks and the errors of the others are separate code.
DoctorVouchesForStart ==
  /\ sure => pc # "failed" /\ (pc = "running" /\ Genuine => armed # None)
  /\ vouched => DryRunAnswers /\ (Genuine => StatusAnswers)

\* Whatever was edited meanwhile, a daemon that started has thresholds, a poll
\* interval and a band that is not empty within the hardware it has opened.
StartedOnUsableBand ==
  pc \in {"snapshot", "probe", "reconcile", "running"} =>
    /\ CheckStructural(config)
    /\ \E rpm \in smc.hw[1]..smc.hw[2] :
         config.min_rpm <= rpm /\ rpm < config.max_rpm /\ rpm < smc.hw[2]

-----------------------------------------------------------------------------
(* The inductive invariant: what each stage of the start has established *)

Coming == {"open", "new", "snapshot", "probe", "reconcile", "running"}
Opened == Coming \ {"open"}
Validated == Opened \ {"new"}
Probed == {"reconcile", "running"}

TypeOK ==
  /\ tree \in AppleTrees /\ driver \in Nat /\ register \in {"Auto", "Manual"}
  /\ file \in ConfigFiles
  /\ pc \in {"down", "failed"} \cup Coming
  /\ pc \in Coming => config \in Configs /\ CheckStructural(config)
  /\ pc \in Opened => smc.abi \in Abis /\ smc.hw \in Nat \X Nat
  /\ pc \in Validated => Validate(config, smc.hw)

ArmedOnALoadedDriver == armed # None => armed.since \in 0..driver

\* What doctor's exit code 0 has seen.
Startable ==
  /\ Load(file) # Refused /\ Open(tree) # None
  /\ Validate(Load(file), Open(tree).hw) /\ tree.writable

WordKept ==
  /\ vouched \/ sure => Startable
  /\ sure =>
       /\ pc # "failed"
       /\ pc \in Coming => config = Load(file)
       /\ pc \in Opened => smc = Open(tree)
       /\ pc \in Opened \ Probed => fd = driver
       /\ pc \in Probed /\ Genuine => armed # None

Inv == TypeOK /\ ArmedOnALoadedDriver /\ ArmedDeathWriteReleases /\ WordKept
=============================================================================
