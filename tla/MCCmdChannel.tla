------------------------------ MODULE MCCmdChannel ------------------------------
(* Values for TLC: two clients, a band of two speeds, hold requests below   *)
(* and above it.                                                            *)
EXTENDS CmdChannel

TwoClients == {"c1", "c2"}
ThreeInodes == 1..3
=============================================================================
