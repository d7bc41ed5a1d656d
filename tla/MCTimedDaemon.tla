---------------------------- MODULE MCTimedDaemon ----------------------------
(* Speeds in units of 50 rpm: the tolerance is three of them, a movement more
   than one. *)
EXTENDS TimedDaemon

ObserveOnly == {Observe}
=============================================================================
