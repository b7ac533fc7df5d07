---------------------------- MODULE MCResources ----------------------------
(* The instance of Resources for TLC. *)
EXTENDS Resources, TLC
MCKeys == Procs \X (0 .. BlockSize - 1)
MCVals == 0 .. NBits - 1
MCSymmetry == Permutations(Procs) \cup Permutations(Nodes)
=============================================================================
