------------------------------ MODULE MCMetrics -------------------------------
(* Every sequence of a few fills and marks.                                     *)
EXTENDS Metrics
================================================================================
