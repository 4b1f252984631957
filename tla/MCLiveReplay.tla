----------------------------- MODULE MCLiveReplay -----------------------------
(* Small instances of LiveReplay: one long session and a short one. *)
EXTENDS LiveReplay, TLC

CONSTANTS s1, s2, grep, tests

MCTurns   == (s1 :> 3) @@ (s2 :> 1)
MCOneLong == (s1 :> 3)
=============================================================================
