--------------------------- MODULE MCSingleflight ---------------------------
(* A small instance of SingleflightRuns for TLC.                           *)
EXTENDS SingleflightRuns

Runs == 1 .. MaxRuns
=============================================================================
