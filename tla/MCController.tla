----------------------------- MODULE MCController -----------------------------
(* Values for TLC: the default configuration and the real tunables; one
   temperature in every zone of the curve and on its edges. *)
EXTENDS ControllerPlateau

ZoneTemps == {62999, 64000, 66000, 75000, 85000, 90000}
=============================================================================
