--------------------------------- MODULE OneShot ---------------------------------
(*****************************************************************************)
(* The verbs that own the fan for a moment, without the daemon's loop:       *)
(*   once             one poll of a Supervisor of its own in curve mode,     *)
(*                    then the exit restore (src/src/cli.rs);                *)
(*   selftest-panic   a deliberate panic under the death path (cli.rs);      *)
(*   roundtrip        doctor --roundtrip (src/src/doctor.rs).                *)
(*                                                                           *)
(* once is the poll of module Supervisor: its steps are taken from there.    *)
(* Supervisor's `armed` stands for "the handlers are installed with the      *)
(* probed descriptor"; here the file behind that descriptor has a life of    *)
(* its own.  It belongs to the SysfsSmc that was probed and is closed with   *)
(* it.  The next SysfsSmc::open gets the same number back for its own restore *)
(* file, since every other file it opens is closed again by then and the     *)
(* kernel hands out the lowest free one.                                     *)
(*                                                                           *)
(* A definition whose comment starts with "Seeded bug" is not part of the    *)
(* specification: it is a wrong version of the definition that follows it.   *)
(*****************************************************************************)
EXTENDS Supervisor

VARIABLES
  verb,          \* "once", "selftest-panic", "roundtrip"
  descriptor,    \* the restore file: "none", "open", "closed"
  trouble,       \* a problem that is to be reported was met
  observed,      \* roundtrip: the fan mode read while holding, or None
  result         \* "none", then "ok", "err", or "caught", "killed" for a death

process == <<verb, descriptor, trouble, observed, result>>
oneShotVars == <<vars, process>>

Verbs == {"once", "selftest-panic", "roundtrip"}

OneShotInit ==
  /\ Init
  /\ verb \in Verbs
  /\ descriptor = "none"
  /\ trouble = FALSE /\ observed = None /\ result = "none"

Supervised == <<cmd_file, deaths, intent, ownership, counters, l2_absent,
                prev_actual, last_cmd, loss_streak, after, locals>>

\* The end of the process by itself: its files are closed.
Exit(with) ==
  /\ pc' = "exited" /\ result' = with /\ descriptor' = "closed"

-----------------------------------------------------------------------------
(* SysfsSmc::open and the arm-time probe *)

\* Discovery fails: once and roundtrip report it, selftest-panic goes on.
OpenFails ==
  /\ pc = "boot"
  /\ IF verb = "selftest-panic"
     THEN pc' = "panic" /\ UNCHANGED <<result, descriptor>>
     ELSE Exit("err")
  /\ UNCHANGED <<fan_mode, armed, Supervised, verb, trouble, observed>>

\* The mode attribute may not be writable; roundtrip then refuses to write.
OpenSucceeds ==
  /\ pc = "boot"
  /\ \/ /\ descriptor' = "open"
        /\ pc' = IF verb = "roundtrip" THEN "manual" ELSE "probe"
        /\ UNCHANGED result
     \/ verb # "roundtrip" /\ pc' = "probe" /\ UNCHANGED <<descriptor, result>>
     \/ verb = "roundtrip" /\ Exit("err")
  /\ UNCHANGED <<fan_mode, armed, Supervised, verb, trouble, observed>>

AfterProbe == IF verb = "once" THEN "build" ELSE "panic"

\* Seeded bug: the probe is made on a backend of its own, closed afterwards.
ProbedElsewhere ==
  /\ pc = "probe" /\ descriptor = "open"
  /\ fan_mode' = "Auto"
  /\ armed' = TRUE
  /\ descriptor' = "closed"
  /\ pc' = AfterProbe
  /\ UNCHANGED <<Supervised, verb, trouble, observed, result>>

Probed ==
  /\ pc = "probe" /\ descriptor = "open"
  /\ fan_mode' = "Auto"
  /\ armed' = TRUE
  /\ pc' = AfterProbe
  /\ UNCHANGED <<Supervised, process>>

\* Logged, and gone on without a death path.
NotProbed ==
  /\ pc = "probe"
  /\ fan_mode' \in IF descriptor = "open" THEN AfterFailed("Auto") ELSE {fan_mode}
  /\ pc' = AfterProbe
  /\ UNCHANGED <<armed, Supervised, process>>

-----------------------------------------------------------------------------
(* once *)

\* Supervisor::new; it fails on a band the hardware does not have, which drops
\* the backend.
Build ==
  /\ pc = "build"
  /\ \/ pc' = "cmd" /\ UNCHANGED <<descriptor, trouble>>
     \/ /\ pc' = "reopen"
        /\ trouble' = TRUE
        /\ descriptor' = IF descriptor = "open" THEN "closed" ELSE descriptor
  /\ UNCHANGED <<fan_mode, armed, Supervised, verb, observed, result>>

Poll ==
  /\ verb = "once"
  /\ CmdStep \/ RetryStep \/ ActStep \/ L1Step \/ DegradeToAuto
  /\ UNCHANGED process

\* Seeded bug: goes on polling.
KeepsPolling ==
  /\ pc = "publish"
  /\ PublishState
  /\ UNCHANGED process

\* The poll is over: the Supervisor is dropped, and its files with it.
DropSupervisor ==
  /\ pc = "publish"
  /\ pc' = "reopen"
  /\ descriptor' = IF descriptor = "open" THEN "closed" ELSE descriptor
  /\ UNCHANGED <<fan_mode, armed, Supervised, verb, trouble, observed, result>>

\* restore_auto_on_exit opens a backend of its own (an attribute that could be
\* opened for writing at the start still can be) ...
Reopen ==
  /\ pc = "reopen"
  /\ \/ /\ pc' = "restore"
        /\ descriptor' = IF descriptor = "closed" THEN "open" ELSE descriptor
        /\ UNCHANGED result
     \/ Exit("err")
  /\ UNCHANGED <<fan_mode, armed, Supervised, verb, trouble, observed>>

\* Seeded bug: nothing to restore when the poll did not take the fan.
RestoreIfOwned ==
  /\ pc = "restore"
  /\ \/ ~manual_armed /\ Exit(IF trouble THEN "err" ELSE "ok") /\ UNCHANGED fan_mode
     \/ fan_mode' = "Auto" /\ Exit(IF trouble THEN "err" ELSE "ok")
     \/ fan_mode' \in AfterFailed("Auto") /\ Exit("err")
  /\ UNCHANGED <<armed, Supervised, verb, trouble, observed>>

\* ... and sets AUTO, whatever became of the poll.
RestoreOnExit ==
  /\ pc = "restore"
  /\ \/ fan_mode' = "Auto" /\ Exit(IF trouble THEN "err" ELSE "ok")
     \/ fan_mode' \in AfterFailed("Auto") /\ Exit("err")
  /\ UNCHANGED <<armed, Supervised, verb, trouble, observed>>

-----------------------------------------------------------------------------
(* doctor --roundtrip *)

RoundtripManual ==
  /\ pc = "manual"
  /\ \/ fan_mode' = "Manual" /\ pc' = "holdspeed" /\ UNCHANGED trouble
     \/ fan_mode' \in AfterFailed("Manual") /\ pc' = "observe" /\ trouble' = TRUE
  /\ UNCHANGED <<armed, Supervised, verb, descriptor, observed, result>>

RoundtripSpeed ==
  /\ pc = "holdspeed"
  /\ pc' = "observe"
  /\ trouble' \in {trouble, TRUE}
  /\ UNCHANGED <<fan_mode, armed, Supervised, verb, descriptor, observed, result>>

RoundtripObserve ==
  /\ pc = "observe"
  /\ pc' = "giveback"
  /\ observed' \in {fan_mode, "unreadable"}
  /\ UNCHANGED <<fan_mode, armed, Supervised, verb, descriptor, trouble, result>>

RoundtripGiveBack ==
  /\ pc = "giveback"
  /\ \/ /\ fan_mode' = "Auto"
        /\ Exit(IF ~trouble /\ observed = "Manual" THEN "ok" ELSE "err")
     \/ /\ fan_mode' \in AfterFailed("Auto")
        /\ Exit("err")
  /\ UNCHANGED <<armed, Supervised, verb, trouble, observed>>

-----------------------------------------------------------------------------
(* The end of the process by another hand *)

\* What the one write of the death path does to the register.
DeathWrite ==
  fan_mode' = IF armed /\ descriptor = "open" THEN "Auto" ELSE fan_mode

Dies(how) ==
  /\ pc' = "exited" /\ result' = how /\ descriptor' = "closed"
  /\ UNCHANGED <<armed, Supervised, verb, trouble, observed>>

\* The panic hook writes before the unwinding drops anything.
DeliberatePanic == pc = "panic" /\ DeathWrite /\ Dies("caught")

\* SIGSEGV, SIGABRT, SIGTERM, SIGINT or a panic.
CaughtSignal == pc # "exited" /\ DeathWrite /\ Dies("caught")

Killed == pc # "exited" /\ UNCHANGED fan_mode /\ Dies("killed")

-----------------------------------------------------------------------------
Own == OpenFails \/ OpenSucceeds \/ Probed \/ NotProbed \/ Build \/ Poll
       \/ DropSupervisor \/ Reopen \/ RestoreOnExit
       \/ RoundtripManual \/ RoundtripSpeed \/ RoundtripObserve \/ RoundtripGiveBack
       \/ DeliberatePanic

OneShotNext ==
  \/ Own
  \/ (ClientWritesCmd \/ FirmwareReclaims) /\ UNCHANGED process
  \/ CaughtSignal \/ Killed

OneShotSpec == OneShotInit /\ [][OneShotNext]_oneShotVars /\ WF_oneShotVars(Own)

-----------------------------------------------------------------------------
(* Properties *)

\* live_once_report, roundtrip_manual_test: success is never reported with the
\* fan left in Manual, and a round trip that passes has seen it there.
SuccessMeansReleased ==
  [][result' = "ok" /\ result = "none" =>
       /\ fan_mode' = "Auto"
       /\ verb = "roundtrip" => observed = "Manual"]_oneShotVars

\* Once the probe has passed, a caught death leaves the fan with the firmware
\* wherever it strikes in once and selftest-panic, but for one gap: between
\* the drop of once's supervisor and the new backend of the exit restore the
\* handlers hold the number of a closed file.
CaughtDeathReleases ==
  [][result' = "caught" /\ armed /\ pc # "reopen" => fan_mode' = "Auto"]_oneShotVars

\* Every verb ends by itself, whatever fails in between.
EveryVerbEnds == <>(pc = "exited")

\* The steps in the order of the code: a verb goes down from one to the next.
Order(step) ==
  CASE step = "boot" -> 22 [] step = "probe" -> 21
    [] step = "build" -> 20 [] step = "cmd" -> 19 [] step = "release" -> 18
    [] step = "retry" -> 16 [] step = "decide" -> 15 [] step = "enter" -> 14
    [] step \in {"speed", "return"} -> 13 [] step = "l1" -> 11
    [] step = "l1mode" -> 9 [] step = "l1track" -> 7 [] step = "l1stall" -> 5
    [] step \in {"publish", "holdspeed"} -> 3 [] step = "manual" -> 4
    [] step \in {"reopen", "observe"} -> 2
    [] step \in {"restore", "panic", "giveback"} -> 1
    [] step = "exited" -> 0

\* A fallback comes between the step that called for it and the one after.
StepsToGo == IF pc = "fallback" THEN Order(after) + 1 ELSE Order(pc)

\* No verb repeats itself: every step of its own brings the end nearer, through
\* every failure and fallback, and what the others do never puts it off.
VerbsAreBounded ==
  [][/\ Own => StepsToGo' < StepsToGo
     /\ StepsToGo' <= StepsToGo]_oneShotVars
=============================================================================
