-------------------------- MODULE MCMultiRaftNode --------------------------
(***************************************************************************)
(* Instances of MultiRaftNode for TLC: the bounds are in the .cfg files.   *)
(***************************************************************************)
EXTENDS MultiRaftNode
=============================================================================
