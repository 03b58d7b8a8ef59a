--------------------------- MODULE MCRegionRouter ---------------------------
(***************************************************************************)
(* Instances of RegionRouter: two threads that serve AskSplit.             *)
(***************************************************************************)
EXTENDS RegionRouter, TLC

CONSTANTS w1, w2

WorkerSymmetry == Permutations(Workers)
=============================================================================
