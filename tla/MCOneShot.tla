------------------------------- MODULE MCOneShot -------------------------------
(* Values for TLC, as in MCSupervisor; once starts in curve mode. *)
EXTENDS OneShot

CurveOnly == {Curve}
=============================================================================
