---------------------------- MODULE MCVllmCluster ----------------------------
(***************************************************************************)
(* Small instances of VllmCluster for TLC.                                 *)
(***************************************************************************)
EXTENDS VllmCluster, TLC

Symmetry == Permutations(Requests) \cup Permutations(Pods) \cup Permutations(Sessions)
=============================================================================
