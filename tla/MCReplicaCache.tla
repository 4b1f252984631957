--------------------------- MODULE MCReplicaCache ---------------------------
(***************************************************************************)
(* Small instances of ReplicaCache for TLC: three sessions that compete    *)
(* for three HBM tokens and two DRAM tokens.                               *)
(***************************************************************************)
EXTENDS ReplicaCache, TLC

MCArrivals  == {0, 3}
MCLatencies == {0, 1}
MCGaps      == {0, 2, 3}

Symmetry == Permutations(Sessions)
=============================================================================
