----------------------------- MODULE MCSettleWrite -----------------------------
(* Values for TLC: two speeds within the echo tolerance of each other and one
   outside of it; a settle window of three samples instead of ten. *)
EXTENDS SettleWrite
=============================================================================
