---------------------------- MODULE MCSessionStore ----------------------------
(* A small instance of SessionStore. *)
EXTENDS SessionStore, TLC

CONSTANTS s1, s2, s3, v1, v2

Symmetry == Permutations(Sessions) \cup Permutations(Values)
=============================================================================
