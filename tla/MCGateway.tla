------------------------------ MODULE MCGateway ------------------------------
(***************************************************************************)
(* Small instances of Gateway for TLC.                                     *)
(***************************************************************************)
EXTENDS Gateway, TLC

Symmetry == Permutations(Requests) \cup Permutations(Pods) \cup Permutations(Sessions)
=============================================================================
