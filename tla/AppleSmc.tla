-------------------------------- MODULE AppleSmc --------------------------------
(*****************************************************************************)
(* SysfsSmc of src/src/smc.rs over a sysfs tree: discovery of the fan and    *)
(* the sensors, the binding of one of the two generations of attributes, and *)
(* what a token written to or read from the bound mode attribute means.      *)
(*                                                                           *)
(* A tree is what one loaded applesmc driver (and coretemp) exposes:         *)
(*   platform   the fan attributes in the applesmc directory itself, or      *)
(*              None without that directory                                  *)
(*   hwmon      the fan attributes of each hwmon directory below it, sorted  *)
(*   min, max   fan1_min and fan1_max: numbers, or None if not readable as   *)
(*              such                                                         *)
(*   coretemp   the numbers N of tempN_input per sorted hwmon directory, or  *)
(*              None without coretemp or without a readable hwmon directory  *)
(*   vocabulary the generation whose tokens the driver speaks                *)
(*   writable   the mode attribute may be opened for writing                 *)
(*****************************************************************************)
EXTENDS Integers, Sequences, FiniteSets

CONSTANT None   \* Option::None, and an Err where only that matters

\* The two generations of the attribute table.
LEGACY ==
  [generation |-> "legacy", target |-> "fan1_output", mode_attr |-> "fan1_manual",
   manual |-> "1", auto |-> "0"]
MODERN ==
  [generation |-> "modern", target |-> "fan1_target", mode_attr |-> "pwm1_enable",
   manual |-> "1", auto |-> "2"]
Abis == {LEGACY, MODERN}

Token(abi, mode) == IF mode = "Auto" THEN abi.auto ELSE abi.manual
RestoreBytes(abi) == abi.auto

\* A token the bound generation does not define is an error.
ParseMode(abi, raw) ==
  IF raw = abi.manual THEN "Manual" ELSE IF raw = abi.auto THEN "Auto" ELSE None

-----------------------------------------------------------------------------
(* The driver: what its mode attribute does with a token, and shows *)

\* The old driver takes any number for "manual" but 0, the new one rejects
\* what it does not define.  None: the write fails.
Adopts(vocabulary, token) ==
  IF vocabulary = "legacy"
  THEN IF token = "0" THEN "Auto" ELSE "Manual"
  ELSE IF token = "1" THEN "Manual" ELSE IF token = "2" THEN "Auto" ELSE None

Shows(vocabulary, mode) ==
  IF mode = "Manual" THEN "1" ELSE IF vocabulary = "legacy" THEN "0" ELSE "2"

-----------------------------------------------------------------------------
(* Discovery *)

AppleTrees ==
  [platform : {None} \cup SUBSET STRING, hwmon : Seq(SUBSET STRING),
   min : {None} \cup Nat, max : {None} \cup Nat,
   coretemp : {None} \cup Seq(SUBSET Nat),
   vocabulary : {"legacy", "modern"}, writable : BOOLEAN]

Tachometer == "fan1_input"

\* A directory is 0, applesmc's own, or the position of a hwmon directory.
Attributes(tree, dir) ==
  IF dir = 0 THEN (IF tree.platform = None THEN {} ELSE tree.platform)
  ELSE IF dir \in 1..Len(tree.hwmon) THEN tree.hwmon[dir] ELSE {}

\* hwmon_dir_with_fan_attrs: the hwmon directories that have the tachometer.
HwmonDirs(tree) == {i \in 1..Len(tree.hwmon) : Tachometer \in tree.hwmon[i]}

\* discover_fan_dir: applesmc's own directory, or else the first below it.
FanDir(tree) ==
  IF tree.platform = None THEN None
  ELSE IF Tachometer \in tree.platform THEN 0
  ELSE IF HwmonDirs(tree) = {} THEN None
  ELSE CHOOSE i \in HwmonDirs(tree) : \A j \in HwmonDirs(tree) : i <= j

\* One generation, with both of its attributes; both at once are no binding.
DetectAbi(attrs) ==
  LET present == {abi \in Abis : abi.mode_attr \in attrs} IN
  IF Cardinality(present) # 1 THEN None
  ELSE LET abi == CHOOSE abi \in present : TRUE
       IN  IF abi.target \in attrs THEN abi ELSE None

\* discover_sensors: <<directory, N>> of every tempN_input.
DiscoverSensors(tree) ==
  IF tree.coretemp = None THEN {}
  ELSE UNION {{<<d, n>> : n \in tree.coretemp[d]} : d \in 1..Len(tree.coretemp)}

\* SysfsSmc::open: what the handle has seen of the tree, None for an error.
\* `writable` is whether it got the restore file, the death path's descriptor.
Open(tree) ==
  LET dir == FanDir(tree)
      abi == IF dir = None THEN None ELSE DetectAbi(Attributes(tree, dir))
  IN  IF \/ abi = None \/ tree.min = None \/ tree.max = None
         \/ DiscoverSensors(tree) = {}
      THEN None
      ELSE IF tree.min > tree.max THEN None
      ELSE [dir |-> dir, abi |-> abi, hw |-> <<tree.min, tree.max>>,
            sensors |-> DiscoverSensors(tree), writable |-> tree.writable]

\* SysfsSmc::layout_changed.
LayoutChanged(smc, tree) == smc.dir # 0 \/ HwmonDirs(tree) # {}

-----------------------------------------------------------------------------
(* The calls of an opened handle *)

\* The bound mode attribute is still where the handle found it: a driver that
\* is loaded anew may come up under another hwmon number.
Bound(smc, tree) == smc.abi.mode_attr \in Attributes(tree, smc.dir)

\* read_fan, its mode: None for an error.
ReadMode(smc, tree, register) ==
  IF Bound(smc, tree) THEN ParseMode(smc.abi, Shows(tree.vocabulary, register))
  ELSE None

\* What a token written to the mode attribute leaves in the register.
AfterToken(tree, token, register) ==
  LET adopted == Adopts(tree.vocabulary, token)
  IN  IF adopted = None THEN register ELSE adopted

\* set_mode writes through the path, and believes a read-back.
SetModeWrites(smc, tree, mode, register) ==
  IF Bound(smc, tree) /\ tree.writable
  THEN AfterToken(tree, Token(smc.abi, mode), register) ELSE register

SetModeVerifies(smc, tree, mode, register) ==
  /\ Bound(smc, tree) /\ tree.writable
  /\ Adopts(tree.vocabulary, Token(smc.abi, mode)) # None
  /\ ReadMode(smc, tree, SetModeWrites(smc, tree, mode, register)) = mode
=============================================================================
