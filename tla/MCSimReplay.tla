------------------------------ MODULE MCSimReplay ------------------------------
(* A small instance of SimReplay. *)
EXTENDS SimReplay, TLC

CONSTANTS s1, s2, s3

MCTurns == s1 :> 3 @@ s2 :> 3 @@ s3 :> 2
=============================================================================
