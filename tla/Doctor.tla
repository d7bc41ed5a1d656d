--------------------------------- MODULE Doctor ---------------------------------
(*****************************************************************************)
(* The read-only checks of `afanctl doctor` (src/src/doctor.rs) that look at *)
(* the machine and at the configuration file: each is "pass", "warn" or      *)
(* "fail", and the verb exits with 1 when one fails.  The daemon-mode check, *)
(* which never fails, is in module StateFile.                                *)
(*                                                                           *)
(* A definition whose comment starts with "Seeded bug" is not part of the    *)
(* specification: it is a wrong version of the definition that follows it.   *)
(*****************************************************************************)
EXTENDS AppleSmc, ConfigFile

\* What a sensor reads: below Tjmax, at or above it, or no plausible value.
Readings == {"cool", "hot", "failed"}

Verdict(ok) == IF ok THEN "pass" ELSE "fail"

\* sensor_check
SensorCheck(readings) ==
  IF "hot" \in readings \/ "cool" \notin readings THEN "fail"
  ELSE IF "failed" \in readings THEN "warn" ELSE "pass"

\* Seeded bug: the file is checked without the hardware's band.
ConfigCheckAlone(file, hw) ==
  IF Load(file) = Refused THEN "fail"
  ELSE IF Warns(file) THEN "warn" ELSE "pass"

\* config_check with the hardware's band
ConfigCheck(file, hw) ==
  IF Load(file) = Refused THEN "fail"
  ELSE IF ~Validate(Load(file), hw) THEN "fail"
  ELSE IF Warns(file) THEN "warn" ELSE "pass"

\* systemd_check and classify_systemd_show: the unit is "unknown" when nobody
\* tells, "not loaded", or has a type and a watchdog.
UnitCheck(unit) ==
  IF unit \in {"unknown", "not loaded"} THEN "warn"
  ELSE Verdict(unit = "notify with a watchdog")

\* stale_binary_check and classify_stale_binary, on what systemd tells of the
\* daemon: the answer never fails.
StaleBinaryCheck(told) ==
  IF told \in {"not running", "started after the binary"} THEN "pass" ELSE "warn"

\* diagnose with a backend: the checks by name.
Checks(smc, tree, file, readings, unit, told) ==
  [writable |-> Verdict(smc.writable),
   sensors |-> SensorCheck(readings),
   band |-> Verdict(smc.hw[1] > 0 /\ smc.hw[1] < smc.hw[2]),
   config |-> ConfigCheck(file, smc.hw),
   unit |-> UnitCheck(unit),
   binary |-> StaleBinaryCheck(told),
   layout |-> IF LayoutChanged(smc, tree) THEN "warn" ELSE "pass",
   l2_fd |-> Verdict(smc.writable)]

\* run_at without the opt-in parts: exit code 0.  Without a backend the checks
\* that need one fail.
ExitsWithZero(tree, file, readings, unit, told) ==
  /\ Open(tree) # None
  /\ LET checks == Checks(Open(tree), tree, file, readings, unit, told)
     IN  \A name \in DOMAIN checks : checks[name] # "fail"

Units == {"unknown", "not loaded", "notify with a watchdog", "other"}
Binaries == {"unknown", "not running", "started after the binary",
             "started before the binary"}
=============================================================================
