--------------------------- MODULE MCMetricEvents ---------------------------
(***************************************************************************)
(* Instances of MetricEvents for TLC.                                      *)
(***************************************************************************)
EXTENDS MetricEvents

\* No map, an empty one, or any other.
AnyLabels == SUBSET Labels
=============================================================================
