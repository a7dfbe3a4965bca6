------------------------ MODULE MCAsyncSingleflight ------------------------
(* Small instances of AsyncSingleflightRuns for TLC.                       *)
EXTENDS AsyncSingleflightRuns, TLC

FourRuns == 1 .. 4
TaskSymmetry == Permutations(Tasks)
=============================================================================
