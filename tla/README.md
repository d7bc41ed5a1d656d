# afanctl in TLA+

A model of `afanctl`, the fan supervisor for pre-T2 Intel Macs, checked with TLC
and, for its safety core, proved with TLAPS. Paths are relative to the
repository (`src/` here is the repository's root directory, so the Rust sources
are `src/src/*.rs`).

## 1. Inventory

One daemon process owns one fan through sysfs; CLI processes talk to it through
a file; the SMC firmware is the fallback owner of the fan. "Fail toward the
firmware" (`src/docs/SAFETY.md`) is what correctness means here.

| Component | State | Operations | Interacts with |
|---|---|---|---|
| **Supervisor** `supervisor.rs` | mode, monitor-only latch, ownership (`manual_armed`, `auto_restore_pending`, `last_written`), failure and stall counters, last applied command | `run` (probe, reconcile, loop), `step_once` (command file, AUTO retry, sensors, act, L1, publish) | everything below |
| **Controller** `policy.rs` | slew output, hysteresis latch, loss and overshoot streaks | `step_curve`, `step_hold`, `step_observe` | called once per poll by the supervisor |
| **Verified write** `smc.rs` | none of its own: the attribute and what is in flight to it | `settle_write`, `settle`, `probe_safe_restore` | the SMC, which adopts values at its own pace |
| **Hardware binding** `smc.rs` | ABI table, paths, hardware band, restore descriptor | `SysfsSmc::open`, `detect_abi`, `discover_*`, `read_*` | sysfs |
| **Death path (L2)** `safety.rs` | one armed descriptor | `install_death_path`, `write_restore`, signal handlers, panic hook | writes AUTO when the process dies |
| **Service, watchdog (L3)** `notify.rs`, `packaging/afanctl.service` | systemd's watchdog timer | READY, WATCHDOG=1, `Restart=always` | restarts the daemon, removes `/run/afanctl` |
| **Command channel** `cli.rs`, `supervisor.rs` | `cmd.json`, `cmd.json.tmp` | `write_cmd`, `run_hold`; `apply_cmd_file`, `parse_cmd` | CLI to daemon |
| **State publication** `supervisor.rs` | `state.json`, `state.json.tmp` | `publish_state`, `write_atomic` | read by `status`, `doctor`, a plugin |
| **One-shot clients** `cli.rs`, `doctor.rs` | a supervisor or backend of their own | `once`, `doctor --roundtrip`, `selftest-panic` | the same fan, without the daemon |
| **Doctor** `doctor.rs` | none | the read-only checks, the exit code | reads sysfs, the configuration, `state.json`, asks systemd |
| **Configuration** `config.rs` | five values | `load`, `validate` | controller band, supervisor interval |

What is hard about it:

* **Time passes inside a poll.** Each Smc write may take seconds of settle
  windows. Between two of them the firmware may take the fan back and the
  process may be killed. A failed write may have taken effect.
* **Failure handling is nested.** `fail_write` can run the complete fallback in
  the middle of `act` or of `l1_poll`, whose remaining steps then go on.
* **Ownership and intent are separate.** Mode, latch, ownership and the pending
  release change at different steps, and L1 relies on what earlier steps left.
* **Counters shared by several paths**: the failure count, the stall window and
  the two streaks of the controller run on across changes of mode.
* **Late effects**: a value written by a call that failed may land after a later
  one; a pending release meets a new command.
* **Files with two lives**: the armed restore descriptor belongs to a backend that
  is dropped before the process ends (`once`); `cmd.json.tmp` is shared by every
  CLI process, survives a killed one and vanishes with the service; `state.json`
  outlives the daemon that wrote it.
* **Two generations of one driver** with different attribute names and tokens, which
  may be exchanged, reloaded or made read-only between any two steps of the start.
* **A budget of time**: the watchdog waits 15 s, and a poll in which everything
  fails spends most of it in settle windows.

What makes each component correct, and where it is stated:

* Supervisor: control writes only when entitled (`ControlWriteEntitled`); a fan
  that is owned but not driven is being released
  (`UndrivenFanIsBeingReleased`); ownership and a pending release are never
  forgotten (`OwnershipEndsInAuto`, `PendingEndsInAutoOrRecommand`); the cached
  target does not go stale (`WrittenOnlyWhileOwned`); releases end, dead fans and
  blind fans are given up, the latch settles (the four liveness properties).
* Controller: in band, slew-limited within a session, guard and sensor loss
  answered at exactly the promised poll, convergence on a plateau.
* Verified write: it terminates, what it verifies was there and stays, and
  nothing older can land afterwards.
* One-shot verbs: success is never reported with the fan in Manual, a caught death
  gives it back, every verb ends.
* Command channel: `cmd.json` changes atomically, success means published, and a
  command that stays is applied.
* Start and binding: an armed death path restores AUTO
  (`ArmedDeathWriteReleases`), no daemon runs on an empty band
  (`StartedOnUsableBand`), doctor's exit code 0 means what it says
  (`DoctorVouchesForStart`).
* State publication: readers see whole polls (`ReadersSeeWholePolls`), what they see
  is true (`ReportIsTrue`), a lasting degradation shows (`DegradationBecomesVisible`).
* Watchdog and stall window: the watchdog is fed in time (`WatchdogFed`), and a fan
  that works is not taken for dead (`WorkingFanIsNoStall`).

The full list of hazards, each at its line, is in `PROJECT.json`.

## 2. Modules

| Module | Models | Used by |
|---|---|---|
| `Supervisor` | the daemon: `run`, `step_once` and all they call, the death path, restarts, commands, firmware reclaims | run `supervisor` |
| `FanCustody` | what the daemon promises about the fan, the abstract specification | refined by `Supervisor` |
| `SupervisorHistory` | + a count of fan writes failed in a row (observes only) | run `consecutive_failures` |
| `TimedDaemon` | + a fan that follows its register and a clock of settle windows | run `daemon` |
| `StateFile` | + `publish_state` at its system calls, and the readers of `state.json` | run `state_file` |
| `OneShot` | `once`, `selftest-panic`, `doctor --roundtrip`; extends `Supervisor`, whose poll steps `once` takes | runs `one_shot`, `once_without_l2` |
| `Controller` | `policy.rs` | run `controller` |
| `PolicyContract` | what the supervisor relies on of the policy, as operators | `Controller` keeps it, `Supervisor` acts on it |
| `ControllerHistory` | + the last polls and the speed last asked for (observes only) | run `controller` |
| `ControllerPlateau` | + a load that settles | run `controller` |
| `FanWrite` | the promise of a verified write, the abstract specification | refined by `SettleWrite` |
| `SettleWrite` | `settle_write`, `settle`, the probe's window | run `settle_write` |
| `CmdChannel` | the CLI writers of `cmd.json`, the freshness gate, the directory's removal | run `cmd_channel` |
| `ConfigFile` | `config.rs`: what becomes of a file, as operators | `Doctor`, `Startup` |
| `AppleSmc` | `SysfsSmc`: discovery, binding and tokens, as operators on a sysfs tree | `Doctor`, `Startup` |
| `Doctor` | the read-only checks and the exit code, as operators | `Startup` |
| `Startup` | the start of a daemon on a machine that changes meanwhile | run `startup` |
| `SupervisorProofs`, `StateFileProofs`, `TimedDaemonProofs`, `ControllerProofs`, `SettleWriteProofs`, `StartupProofs`, `OneShotProofs`, `CmdChannelProofs` | theorems | section 4 |
| `MC*` | values for TLC | the runs |

A definition whose comment starts with "Seeded bug" is a wrong version of the
definition after it. None is used by a specification; each exists to confirm
that a property notices that mistake (the `mutants` of `PROJECT.json`).

### Supervisor: state and actions

The daemon is one thread, cut at its Smc calls: `pc` is the next call, or the
start of the next step of the poll. `after` is the return address of
`degrade_to_auto`, which `fail_write` may enter from seven places. Every variable
under "fields of Supervisor" has its name from the struct; `fan_mode` and
`cmd_file` are the machine.

| Code | Action(s) | `pc` |
|---|---|---|
| `run` up to the loop | `SnapshotInherited`, `ProbePasses`/`ProbeFails`, `ReconcileNothing`/`ReconcileManual` | boot, probe, reconcile |
| `apply_cmd_file`, `apply_mode` | `IgnoreCmdFile`, `RefuseCmd`, `ApplyControlCmd`, `ApplyObserveCmd`, `ReleaseForObserve` | cmd, release |
| `auto_restore_retry` | `RetrySkipped`, `RetrySucceeds`, `RetryFails` | retry |
| `read_sensors`, `controller_step`, `act` | `SensorsLost`, `SensorsValid`, `EnterManual`, `WriteSpeed`, `ReturnToAuto` | decide, enter, speed, return |
| `l1_poll` | `L1ReadFails`, `L1NotOurs`, `L1Reads`, `L1ReassertManual`, `L1OnTarget`, `L1Tracking`, `L1Stall` | l1, l1mode, l1track, l1stall |
| `degrade_to_auto` | `DegradeToAuto` | fallback |
| `publish_state`, sleep | `PublishState` | publish |
| a CLI writing `cmd.json`; the SMC; death; systemd | `ClientWritesCmd`, `FirmwareReclaims`, `Die`, `Restart` | any |

A failed `set_mode` leaves the register as it was or with the written value
(`AfterFailed`): rejected, or effective but not verified. That a value landing
*later* need not be modelled is what `SettleWrite` is for: after the next
verified write nothing else is in flight (`NothingElseInFlight`, proved), so a
late landing is visible only up to that write, as an immediate one is.

### FanCustody

Who has the fan: nobody (`unattended`), a process that does not own it (`free`), one
that does (`driven`), one that is giving it back (`releasing`). `Custodian` in
`Supervisor` maps the ownership flags and the mode to it. The promise: Manual is written
only over an armed death path and never while releasing; custody ends with the register
in AUTO; only a command takes a fan back that is being released.

### TimedDaemon

`target` is the register behind `fan1_target`/`fan1_output` and `tach` the fan, which
moves by at most `Rate` between polls, as `MockSmc`'s tach-lag mode has it; in AUTO the
firmware moves both. Each step of `Supervisor` is taken together with what it does to
the fan (`FanMoves`) and with the settle windows it may last (`Pings`), so the counters
and the failure handling are `Supervisor`'s own. `excuses` counts the reclaims and failed
writes since the stall window was last closed.

### StateFile

`PublishState`, one step in `Supervisor`, becomes the create, the write and the rename
of `state.json.tmp` and the failure of each; death may come between any two. A restart
finds the directory as it was or empty. The readers are `Parsed`, `Running` (status) and
`ClassifyDaemonMode` (doctor).

### AppleSmc, ConfigFile, Doctor and Startup

A sysfs tree is which attributes stand in which directory, the band, the sensors, the
tokens the driver understands and whether the mode attribute is writable. A
configuration file says of each section and key what it holds. `Open`, `Load` and
`Validate` on them are the code's order of decisions with an error as `None` or
`Refused`; `ExitsWithZero` combines them as `diagnose` does.

| Code | Action | `pc` |
|---|---|---|
| `load_config` | `LoadConfig` | down |
| `SysfsSmc::open` | `OpenBackend` | open |
| `Supervisor::new` | `NewSupervisor` | new |
| `run` up to the loop | `Snapshot`, `Probe`, `Reconcile` | snapshot, probe, reconcile |
| the poll loop, as far as the register sees it | `Drives` | running |
| death | `Ends` | any |
| `doctor`; an editor; `modprobe`; `chmod`; the SMC | `Diagnose`, `EditConfig`, `ReloadDriver`, `ChangePermissions`, `FirmwareReclaims` | any |

A driver is a number that a reload increases, and the restore file belongs to the driver
it was opened on. `Drives` gives the register no more freedom than the daemon has; the
ownership it leaves out is `Supervisor`'s subject.

### Controller

One step is one poll with one reading per sensor, in the mode the supervisor
chose. Arithmetic is the code's, on integers of milli-degrees and rpm.
`overshoot_streak` stops at `OvershootPolls`, as it is only compared with it.

### PolicyContract

`Supervisor` knows of the controller only its sensor-loss streak and what a poll may
decide. `PolicyContract` says so once, for both sides: given the kind of step
(`step_observe`, `step_curve`, `step_hold`), whether the sensors were lost and the streak
so far, `MayDecide` are the decisions and `StreakAfter` the next streak. `KeepsContract`
is the policy's side. `DecidesByPolicy` is the supervisor's: `controller_step` by any
policy that keeps the contract, then `act`; `ActsOnPolicy` says that nothing else happens
at `decide`. The two meet where `CurveSpeeds` is the configured band and the speeds of a
hold are the one it was given.

### SettleWrite and FanWrite

`FanWrite` has a register, one value in flight, and calls that end in `ok` or
`err`. `SettleWrite` adds the window of samples and the re-issue, with
`busy <- pc # "idle"`. `Adopt` is the SMC's tick: before, between or after the
samples, or never.

### OneShot

`OneShot` adds to `Supervisor`'s state the file behind the armed descriptor and
the verb's own verdict. Up to the poll and after it the positions of `pc` are the
verb's; in between `Poll` is `Supervisor`'s command, retry, act, L1 and fallback
steps, so `once` is checked against the same poll the daemon runs. A descriptor is
a number: `install_death_path` keeps it, the backend it came from closes it, and the
backend that the exit restore opens gets the same number for the same attribute.
`CaughtDeathReleases` therefore leaves out one position, `reopen`: a signal between
the drop of the supervisor and the reopening writes to a closed descriptor.

### CmdChannel

Names are links to inodes, so that a replaced, removed or still open file behaves
as such; contents are a document and a length, so that a short document written
over a longer one is visibly not whole. `AloneIsAtomic` and `SuccessMeansPublished`
speak of clients that met no other client at work (`overlapped`). For clients that
overlap neither holds: both use the name `cmd.json.tmp`, so one client's rename can
publish the file that the other has just truncated, and a client can report success
for a document that is not its own. What follows is bounded: the daemon ignores a
document that does not parse.

## 3. Runs

| Run | Checks | Shows |
|---|---|---|
| `supervisor` | `TypeOK`, `ControlWriteEntitled`, `UndrivenFanIsBeingReleased`, `WrittenOnlyWhileOwned`, `OwnershipEndsInAuto`, `PendingEndsInAutoOrRecommand`, `KeepsCustody`, `ActsOnPolicy`, and under fairness `RestoreEventuallyEnds`, `DeadFanGivenUp`, `SensorLossReleases`, `LatchSettles` | every interleaving of polls and their failures with commands, reclaims, one death and a restart |
| `controller` | `TypeOK`, `CurveInBand`, `GuardFiresExactly`, `LossIsAnswered`, `CurveSessionSlewed`, `KeepsContract`, `Converges` | 76,000 states, with the real constants and two sensors |
| `settle_write` | `TypeOK`, `NothingElseInFlight`, `VerifiedValueStays`, `SleepsAreBounded`, `EveryCallReturns`, `KeepsPromise` | 324 states |
| `one_shot` | `SuccessMeansReleased`, `CaughtDeathReleases`, `EveryVerbEnds` | 15,000 states: every failure, signal and reclaim at every step of the three verbs |
| `cmd_channel` | `TypeOK`, `AloneIsAtomic`, `SuccessMeansPublished`, `Delivered` | 458,000 states: two clients, their failures and deaths, the service's restart |
| `startup` | `ArmedDeathWriteReleases`, `DoctorVouchesForStart`, `StartedOnUsableBand` | 512,000 states: sixteen machines, eleven files, edits, permissions and a reload at every step |
| `state_file` | `ReadersSeeWholePolls`, `ReportIsTrue`, `DegradationBecomesVisible` | 440,000 states |
| `daemon` | `WatchdogFed`, `WorkingFanIsNoStall` | 1,780,000 states: the poll loop with the real settle windows |
| `consecutive_failures`, `recommand_keeps_release`, `unarmed_observe`, `once_without_l2` | one statement of a doc or comment each, violated | the findings of section 5 |

### Bounds and why they are enough

* **Speeds.** In the supervisor only comparisons with the hardware band, the
  tolerance and earlier values matter. Band 2..6 with tolerance 1 has a curve speed at
  the lower end, `max_rpm` at the upper one and a hold request above it (9, clamped);
  the tach shows a dead fan (0), or readings on and off each target. The controller run
  uses the shipped defaults (1200..6200 rpm, 66/86 degrees, 750 rpm per poll).
* **Limits.** `WRITE_FAIL_FALLBACK` is the real 3; `STALL_POLLS` and
  `SENSOR_LOSS_POLLS` are 2 in `supervisor` instead of 10 and 3 (both are counters that
  only meet their limit; the controller run has the real 3). The proofs cover all values.
* **Deaths.** `MaxDeaths` = 1. Nothing survives a death but the fan register and
  `cmd.json`, both of which `Init` and `ClientWritesCmd` already vary freely.
* **Temperatures.** One in each zone of the curve and on its edges: below low,
  between low and high, on high, inside the ramp, at the guard, above max.
  Two sensors, so that a lost one, a hot one and their maximum differ.
* **Settle window.** Three samples instead of ten, the real single re-issue, two
  values within the tolerance of each other and one outside. The proofs cover
  any number.

* **Command channel.** Two clients (each may begin again and again), one document
  of each length, a rejected and a clamped hold, one death of the service with its
  restart. Three inodes are enough for `cmd.json`, `cmd.json.tmp` and one open file
  that is neither.
* **One-shot verbs.** One process, so nothing needs a bound beyond `Supervisor`'s.
* **Start.** The machines of both generations, one with the attributes below a hwmon
  directory behind one without, drivers that speak the other generation's tokens, and
  ten trees in which one thing is missing or wrong; files with one mistake each, at the
  limit (12 s) and past it (13 s, 96 degrees). Widths (`I32Max`, `U32Max`) are 7000 so that a
  value that does not fit its field (7500) stays small. `MaxLoads` = 1: a
  descriptor is of the present driver or of an earlier one.
* **State file.** Limits of 1 or 2, one hold request: the file only shows what the
  flags are, and the limits decide when they change.
* **Clock and fan.** Speeds are in units of 50 rpm: the tolerance is 3 of them, a
  movement is more than 1, the fan moves 2 per poll (100 rpm; the slower it is, the
  longer a working fan is off target, and at `STALL_TACH_EPSILON` or below it could not be told
  from a dead one). `StallPolls` = 6 of 10 leaves room for two disturbances within one
  stall window. The interval is the largest allowed (12 s), the margin 3 s,
  the windows are the real ones (1000 ms and 1500 ms, ten samples, one re-issue).

No symmetry is used. Deadlock is checked in every run but those of `OneShot`,
where a verb ends.

### Fairness and why the code justifies it

* `WF(Daemon)`: the thread never blocks: every Smc call returns (`EveryCallReturns`)
  and the sleep ends. `WF(Restart)`: `Restart=always` with
  `StartLimitIntervalSec=0`.
* `SF` of a verified AUTO write in `RetrySucceeds`, `ReturnToAuto` and
  `DegradeToAuto`: an AUTO write that is tried again and again verifies
  eventually. No code can do without that: on a register that never accepts
  AUTO no release can end. It says nothing of how often, or of any other write.
* `OneShot`: `WF(Own)`, the verb's process is scheduled. `CmdChannel`:
  `WF(ApplyCmdFile)` and `WF(Restart)`, the daemon polls and is restarted; nothing
  is assumed of the clients.
* `StateFile`: the same for the thread and the restart, and `SF` of each of the three
  system calls of a publication: what is tried every poll succeeds now and then. A disk
  that stays full shows nothing to anybody.
* `WF(PlateauPoll)`: the daemon polls for ever. `WF(Writer)`: sleeps end and
  syscalls return.
* Not assumed: that sensors or fan reads ever work, that control writes ever
  succeed, that commands arrive or stop.

## 4. What is proved

TLAPS checks every proof for all values of the constants that satisfy the
`ASSUME`s (bands of naturals with `HwMin <= HwMax`, limits at least 1, what
`Config::validate` leaves of the configurations, a budget that has room for the interval
and the longest poll); TLC evaluates those `ASSUME`s in the runs.

* **SupervisorProofs.** `TypeOK` and `Custody` are not inductive. That
  `l1mode` is only reached in a control mode (`ControlWriteEntitled`) needs that
  at `l1` an owned fan which is not being released is a driven one
  (`UndrivenFanIsBeingReleased`), which in turn depends on where the thread
  stands: whether it is inside the fallback, and where it will return to. `Inv`
  adds `ThreadContext`: a process that is starting owns nothing
  (`StartupOwnsNothing`); after the probe exactly one of "no L2" and "armed"
  holds, and without L2 the mode is observe (`L2Consistent`); what holds at each
  control write (`CallContext`); the fallback knows its return point and outside
  of it the failure count is below its limit (`FallbackContext`). One lemma per
  group of actions shows that `Inv` is kept; the invariants follow, and the two
  action properties (`OwnershipNeverForgotten`, `PendingNeverForgotten`) are
  proved from `Inv` and the step. `Refinement`: `Supervisor` implements `FanCustody`;
  one lemma per group of actions maps each to an action of the promise or to a stutter.
  What makes the writes of Manual fit is `Inv`: they are entitled, and L1 makes them only
  on an owned fan that is not being released. `PolicyIsActedOn` and `AnyPolicyFits`: under
  `Inv` the two actions at `decide` are together exactly `DecidesByPolicy`, so what is
  proved of `Supervisor` holds with every policy that keeps the contract.
  `StallWindowKept` is the measure behind `DeadFanGivenUp`: while a driven fan stands still
  at a reading no speed of the band is near, only polls of the stall detector change the
  window, each by one. It needs `SpeedsStayInBand`, as otherwise a cached target could be
  the reading itself.
* **ControllerProofs.** `TypeOK` and `CurveInBand` together are inductive. The
  core is `LinearTargetInBand`: with `high <= t < max` the integer division stays
  between 0 and the band's width (`DivBound`), so every target is in the band and
  `SlewToward` between two values of the band stays in it. The histories of
  `ControllerHistory` are bounded windows, so what is inductive is that each streak counts
  the latest polls of its kind in the window (`HotStreakCounts`, `LossStreakCounts`), and
  that within a session the speed last asked for is the controller's slew state
  (`SessionFollowsSlew`). The core is `WindowMoves`: how the last polls of the window
  follow from those before a poll. `PolicyKeepsContract` is the policy's side of the
  contract; `PlateausAreApproached` is the ranking behind `Converges`: under a steady load
  each poll takes `SlewMax`, or the rest, off the distance to the target, or one off the hot
  polls that the guard still needs (`ToGo`), from above, from below and where the hysteresis
  holds the output.
* **SettleWriteProofs.** `Inv` adds to `NothingElseInFlight` that a call under
  way has no outcome; from it the action property `VerifiedValueStays` and the
  refinement of `FanWrite` (`SyscallFails` and a final `WindowExpires` map to
  `ReturnErr`, `SampleMatches` to `ReturnOk`, a re-issue's window to stuttering
  followed by `Issue`). `CallsEnd` and `CallsSettleInTime`: every step of a call lowers the
  steps it has left, and the sleeps it has left never exceed the windows it may still
  open, with any number of samples and re-issues and whatever the SMC answers. The second
  is the bound that `TimedDaemon` counts on when it charges a poll for its settle windows.
* **StateFileProofs.** `Published`: between polls the document in place is the
  snapshot of the daemon as it then is, because nothing it shows changes while the
  thread sleeps. With `Supervisor`'s `Inv` the report is true. `FileDaemonIsADaemon`:
  every `StateFile` step is one of `Supervisor` or leaves its variables alone, so what is
  proved of `Supervisor` holds here (`FileDaemonKeepsCustody`).
* **StartupProofs.** `Inv` says what each stage of the start has established
  (a loaded configuration is structurally valid, an opened backend has a band and a
  generation, past the constructor the two fit) and what doctor's word still implies at
  that stage (`WordKept`). The core is `ProbeIsConclusive`: a driver that takes the
  restore bytes and then reads back as "Auto" by the table of the bound generation was
  restored to AUTO by them, whatever tokens it speaks.
* **TimedDaemonProofs.** `Clock` bounds what a poll has spent by each step: a pending
  release, taking the fan, its speed, and L1's re-asserts exclude one another in part,
  which is what keeps the sum below the budget. Taking the fan needs one that
  was not owned, so nothing was written before and L1's tracking re-assert has nothing to
  track; a stall fallback needs a stall count that a fallback before it in the same poll
  would have cleared. The longest poll is four mode windows and an echo window, or two
  mode windows, an echo window and the longer of the two: 9.9 s with the real constants
  (`src/src/config.rs:38-55` reckons with about 10 s), so `max(12, 9.9) + 3 <= 15`.
  `WorkingFanKept` and `StallFallbackExcused` rest on `StallInv`, a ledger: the polls that
  count against the fan and those that must still count (`StallDebt`) are together at most
  two per excuse and one. A fan that obeys its register owes nothing, because it moves by
  more than the tolerance for stillness or arrives. A reclaim or a failed write
  makes it owe one poll, or two when it undoes a speed that `act` wrote in the same poll,
  since L1 then leaves the re-assert out (`DebtInL1`, `DebtBeforeL1`). What makes the
  ledger inductive is `TachKnown` (the tach is where it was last read, nothing
  counts before a first reading), `AppliedInPoll` and `Checked` (whoever stands inside L1
  drives the fan, or a fallback on the way has closed the window). `TimedDaemonIsADaemon`:
  with clock and fan left out it is `Supervisor`, so all of `SupervisorProofs` holds for it
  (`TimedDaemonKeepsCustody`).
* **OneShotProofs.** `OneShotInv`: which verb can stand where, also after a fallback in
  the middle of a poll, and that an armed descriptor is an open file until `once` drops
  its supervisor. From it the two action properties `SuccessMeansReleased` and
  `CaughtDeathReleases`. `VerbsEnd` is the ranking behind `EveryVerbEnds`: the positions of
  a verb are in an order (`Order`) in which every step goes forward; a fallback has its
  place between the step that called for it and the one after (`StepsToGo`).
* **CmdChannelProofs.** `Inv`: a client that met no other one at work is the only one
  there (`AloneAtWork`), and the file it opened is at `cmd.json.tmp` or nowhere, empty
  before its write and its own document after it (`AloneProtocol`); what is being written
  is never what is published (`LinksApart`), because a free inode is found by counting
  (`TmpInodeFacts`). For any number of clients; TLC has two.

Only model-checked: the liveness properties, which are out of this prover's reach
(fairness and `ENABLED`). For `Converges`, `EveryCallReturns`, `EveryVerbEnds` and `DeadFanGivenUp` the
part of the argument that is about the code is proved, as an action property: a measure
that every step of a kind moves, and no other step moves back. What is left to TLC is that
the step is taken. (These four properties, `WrittenInBand` and `StallFallbackIsExcused` are
theorems only; the runs have the liveness, or the invariant, that they explain.)
`Delivered`, `RestoreEventuallyEnds`, `SensorLossReleases`, `LatchSettles` and
`DegradationBecomesVisible` depend on which calls succeed again and again and have no such
measure. The histories of the violation runs are not reasoned about.

## 5. Findings

Each is a run whose property states what a doc or comment says, and which TLC
finds violated. Details and quotes are in `PROJECT.json`.

1. `recommand_keeps_release`: a comment in `apply_mode` says that a control
   command supersedes a pending observe-release; the code does so only behind
   the monitor-only latch. While the release keeps failing, the curve writes
   speeds and L1 verifies nothing.
2. `consecutive_failures`: three failed writes in a row need not fall back,
   because a healthy L1 poll on the *old* target clears the count in between.
3. `unarmed_observe`: after an `enter_manual` whose write took effect but was not
   verified, an observe command leaves the fan in Manual, with no retry, and
   notes "fan already in AUTO".
4. `once_without_l2`: `once` arms the death path "before any control write" only
   if its probe passes; otherwise it logs the absence and takes the fan all the same.

Observations that contradict no statement, but that a maintainer may want to know:

* The first curve poll after a hold is not slew-limited, since `step_hold` leaves the
  slew state where the curve left it (`CurveSessionSlewed` is about one session).
* An armed descriptor does not survive a reload of applesmc: `is_armed` looks at its
  number, so `state.json` goes on reporting L2 as armed, and a death then restores nothing
  (the exception in `ArmedDeathWriteReleases`).
* `status` says "running" when `state.json` parses, also that of a daemon killed outside
  systemd or of a `once`.
* A fan the firmware takes right after `act` wrote gets its mode back in that poll but
  not its speed, because L1 skips the re-assert in favour of a write that is gone: it
  stays off target one poll longer (the factor two in `WorkingFanIsNoStall`).
* The comment at `src/src/config.rs:31-33` still speaks of one ping per poll; the code
  sends two.

## 6. Not modelled, and why

* Two owners of one fan (`once` or a round trip beside a daemon): nothing in the code
  keeps them apart, so the only promises that could be stated are those each makes alone.
* The text of attributes, of the configuration and of `state.json`: a reading is a
  number, a token or `None`; a document parses or does not. Temperatures, counters and
  `recent_errors` in `state.json`, log rate limiting, report formatting: no control state
  depends on them.
* `doctor --compare` (a measurement loop that only reads), argument parsing,
  `once --at-temp` (arithmetic on one simulated reading).
* The datagrams of `notify.rs` and systemd's reaction to a missed ping: a ping that is sent
  is taken to arrive.
* Signal-safety of the handlers (masks, re-entrance): below the model's grain;
  `Die` has the handler's one write happen or not.
* The time of reads and single writes: part of the margin (`MarginMs`).
* Installation and packaging: shell and package metadata.

## 7. Plan

1. *(done)* `Supervisor`, its liveness, its invariant proved and its refinement of
   `FanCustody`; `Controller` with history and plateau, band and histories proved;
   `SettleWrite` refining `FanWrite`; `OneShot`; `CmdChannel`; `AppleSmc`, `ConfigFile`,
   `Doctor` and `Startup`; `StateFile`; `TimedDaemon`.
2. *(done)* The contract between `Controller` and `Supervisor`, proved from both
   sides; the stall window as a ledger; the rankings of the bounded procedures; the daemon
   of `TimedDaemon` and of `StateFile` as the daemon of `Supervisor`.
3. *(open)* One specification in which the daemon runs `Controller` itself, as the formal
   counterpart of the contract, and properties of the two together.
