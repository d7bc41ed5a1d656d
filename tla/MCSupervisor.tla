---------------------------- MODULE MCSupervisor ----------------------------
(* Values for TLC: one curve speed besides max_rpm, a hold request above the
   hardware band, and a tach that may show a dead fan (0), the band's ends or
   nothing but noise around them. *)
EXTENDS Supervisor

ObserveOnly == {Observe}
ObserveOrCurve == {Observe, Curve}
=============================================================================
