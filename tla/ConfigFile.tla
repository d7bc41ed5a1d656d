------------------------------- MODULE ConfigFile -------------------------------
(*****************************************************************************)
(* src/src/config.rs: what becomes of the configuration file.  A file is     *)
(* Missing, Unreadable, NotToml, or a document that says of each section     *)
(* whether it is there and a table, of each known key what it holds, and     *)
(* whether it has keys nobody knows.  An error is Refused, whatever its text.*)
(*                                                                           *)
(* A definition whose comment starts with "Seeded bug" is not part of the    *)
(* specification: it is a wrong version of the definition that follows it.   *)
(*****************************************************************************)
EXTENDS Integers

CONSTANTS
  Missing, Unreadable, NotToml,   \* files that are no document
  Absent, NotAnInteger,           \* what a key may hold besides an integer
  Refused,                        \* an Err
  I32Min, I32Max, U32Max          \* what an i32 and a u32 hold

ASSUME WidthAssumption ==
  /\ I32Min \in Int /\ I32Max \in Nat /\ U32Max \in Nat
  /\ I32Min <= 0 /\ I32Max >= 95 /\ U32Max >= 6200

\* An i64 of the document is converted to the width of its field.
I32 == I32Min..I32Max
U32 == 0..U32Max

MaxIntervalS == 12        \* MAX_INTERVAL_S
WatchdogUnitSec == 15     \* WATCHDOG_UNIT_SEC

Sections == {"thresholds", "curve", "poll"}
Keys == {"high", "max", "min_rpm", "max_rpm", "interval_s"}

Documents ==
  [section : [Sections -> {"table", "scalar", "missing"}],
   value : [Keys -> Int \cup {Absent, NotAnInteger}],
   unknown_keys : BOOLEAN]

NotDocuments == {Missing, Unreadable, NotToml}
ConfigFiles == NotDocuments \cup Documents

ASSUME NotDocumentsAssumption == NotDocuments \cap Documents = {}
ASSUME NotAnIntAssumption == Absent \notin Int /\ NotAnInteger \notin Int

Configs ==
  [high_c : I32, max_c : I32, min_rpm : U32, max_rpm : U32, interval_s : Nat]

ASSUME RefusedAssumption == Refused \notin Configs

Defaults ==
  [high_c |-> 66, max_c |-> 86, min_rpm |-> 1200, max_rpm |-> 6200,
   interval_s |-> 1]

\* The conditions that need no hardware.
CheckStructural(cfg) ==
  /\ cfg.max_c \in 0..95 /\ cfg.high_c \in 0..95
  /\ cfg.high_c < cfg.max_c
  /\ cfg.min_rpm < cfg.max_rpm
  /\ cfg.interval_s \in 1..MaxIntervalS

\* section, read_int and the conversions: every key is there, an integer, and
\* fits its field.
WellFormed(doc) ==
  /\ \A s \in Sections : doc.section[s] = "table"
  /\ \A k \in Keys : doc.value[k] \in Int
  /\ doc.value["high"] \in I32 /\ doc.value["max"] \in I32
  /\ doc.value["min_rpm"] \in U32 /\ doc.value["max_rpm"] \in U32
  /\ doc.value["interval_s"] >= 1

Fields(doc) ==
  [high_c |-> doc.value["high"], max_c |-> doc.value["max"],
   min_rpm |-> doc.value["min_rpm"], max_rpm |-> doc.value["max_rpm"],
   interval_s |-> doc.value["interval_s"]]

FromToml(doc) ==
  IF WellFormed(doc) /\ CheckStructural(Fields(doc)) THEN Fields(doc) ELSE Refused

\* A missing file means the defaults, a bad one is refused.
Load(file) ==
  IF file = Missing THEN Defaults
  ELSE IF file \in NotDocuments THEN Refused ELSE FromToml(file)

\* unknown_key_warnings: a refused file warns of nothing, its error is all.
Warns(file) == file \notin NotDocuments /\ file.unknown_keys

Larger(a, b) == IF a >= b THEN a ELSE b
Smaller(a, b) == IF a <= b THEN a ELSE b

\* The load-time clamp rule, as <<min, max>>.
ClampedRpm(cfg, hw) == <<Larger(cfg.min_rpm, hw[1]), Smaller(cfg.max_rpm, hw[2])>>

\* Seeded bug: the band is checked as it is written in the file.
ValidateUnclamped(cfg, hw) == CheckStructural(cfg)

Validate(cfg, hw) ==
  /\ CheckStructural(cfg)
  /\ ClampedRpm(cfg, hw)[1] < ClampedRpm(cfg, hw)[2]
=============================================================================
