-------------------------- MODULE MCReportMarkers --------------------------
(* Instances of ReportMarkers for TLC. *)
EXTENDS ReportMarkers

CONSTANTS p1, p2

(* One push that reaches both the extension and the app, or that wakes the *)
(* app while another waits for a retry, without faults; one that wakes the *)
(* app, with two faults, or that the extension gets while another waits.    *)
TwoWorkersOrAFault ==
  {[coming |-> {<<"nse", p1>>, <<"app", p1>>}, faults |-> 0],
   [coming |-> {<<"left", p2>>, <<"app", p1>>}, faults |-> 0],
   [coming |-> {<<"app", p1>>}, faults |-> 2],
   [coming |-> {<<"left", p2>>, <<"nse", p1>>}, faults |-> 1]}
=============================================================================
