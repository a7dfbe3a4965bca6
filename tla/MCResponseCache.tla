-------------------------- MODULE MCResponseCache --------------------------
(* A small instance of ResponseCache for TLC.                              *)
EXTENDS ResponseCache, TLC

CacheSymmetry ==
  Permutations(Threads) \cup Permutations(Values) \cup Permutations(Keys)
=============================================================================
