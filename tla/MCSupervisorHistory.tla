------------------------- MODULE MCSupervisorHistory -------------------------
(* Values for TLC, as in MCSupervisor. *)
EXTENDS SupervisorHistory

ObserveOrCurve == {Observe, Curve}
=============================================================================
