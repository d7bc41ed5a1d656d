-------------------------------- MODULE FanWrite --------------------------------
(*****************************************************************************)
(* What a verified fan write promises (the Smc trait of src/src/smc.rs):     *)
(* set_mode, write_speed and the arm-time probe.  One attribute, one caller, *)
(* and a register the SMC fills at its own pace: a value written to it is in *)
(* flight until the SMC adopts it.                                           *)
(*                                                                           *)
(* Supervisor.tla takes a fan write as one step and rests on this promise:   *)
(* an Ok means that the register held the value and that no other value can  *)
(* land afterwards; an Err leaves the register as it was, or with the value. *)
(*****************************************************************************)
EXTENDS Integers

CONSTANTS
  Values,            \* what the attribute may hold, numbers
  Tolerance,         \* the echo tolerance, 0 for a mode
  FirmwareValues,    \* what the firmware itself may put into the register
  None

VARIABLES
  register,          \* what a read of the attribute returns
  in_flight,         \* a value written and not adopted yet, or None
  busy,              \* a call is under way
  wanted,            \* the value of that call, or of the last one
  outcome            \* how the last call ended: "none", "ok", "err"

vars == <<register, in_flight, busy, wanted, outcome>>

Accepted(value) ==
  {v \in Values : v - value <= Tolerance /\ value - v <= Tolerance}

Init ==
  /\ register \in Values
  /\ in_flight = None /\ wanted = None
  /\ busy = FALSE /\ outcome = "none"

Call(value) ==
  /\ ~busy
  /\ busy' = TRUE /\ wanted' = value /\ outcome' = "none"
  /\ UNCHANGED <<register, in_flight>>

\* The value is written, once or again: it replaces whatever was in flight.
Issue ==
  /\ busy
  /\ in_flight' = wanted
  /\ UNCHANGED <<register, busy, wanted, outcome>>

ReturnOk ==
  /\ busy
  /\ register \in Accepted(wanted)
  /\ in_flight \in {None, wanted}
  /\ busy' = FALSE /\ outcome' = "ok"
  /\ UNCHANGED <<register, in_flight, wanted>>

ReturnErr ==
  /\ busy
  /\ busy' = FALSE /\ outcome' = "err"
  /\ UNCHANGED <<register, in_flight, wanted>>

Adopt ==
  /\ in_flight # None
  /\ register' = in_flight
  /\ in_flight' = None
  /\ UNCHANGED <<busy, wanted, outcome>>

FirmwareSets ==
  /\ register' \in FirmwareValues
  /\ UNCHANGED <<in_flight, busy, wanted, outcome>>

Next ==
  \/ \E value \in Values : Call(value)
  \/ Issue \/ ReturnOk \/ ReturnErr \/ Adopt \/ FirmwareSets

Spec == Init /\ [][Next]_vars
=============================================================================
