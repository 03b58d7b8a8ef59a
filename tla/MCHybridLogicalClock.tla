------------------------ MODULE MCHybridLogicalClock ------------------------
(***************************************************************************)
(* Instances of HybridLogicalClock: remote timestamps around the largest   *)
(* logical part, for a logical part of 2 values.                           *)
(***************************************************************************)
EXTENDS HybridLogicalClock, TLC

CONSTANTS a, b

ThreadSymmetry == Permutations(Threads)

\* <<0, 1>>, <<1, 0>> and <<2, 1>>
FewRemotes == {1, 2, 5}
=============================================================================
