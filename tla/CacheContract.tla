---------------------------- MODULE CacheContract ----------------------------
(***************************************************************************)
(* What one replica's cache promises to its only clients, the router that  *)
(* asks Replica.lookup and the backends that call Replica.store: where a   *)
(* session's prefix is, and what a call for one session may do to the      *)
(* others.  Tokens, times and policies are left out; ReplicaCache          *)
(* implements this module for either policy.                               *)
(***************************************************************************)
CONSTANT Sessions

VARIABLE tier     \* the answer of lookup for each session

Tiers == {"gpu", "dram", "miss"}

Init == tier = [s \in Sessions |-> "miss"]

\* A session is served and its prefix ends up at `place'.  Sessions in `lost'
\* are evicted to make room; only HBM is ever cleared for somebody else, and
\* only to keep the new prefix there or because it could not be kept.
Serve(s, place, lost) ==
  /\ lost \subseteq {x \in Sessions \ {s} : tier[x] = "gpu"}
  /\ place = "dram" => lost = {}
  /\ tier' = [x \in Sessions |->
                IF x = s THEN place ELSE IF x \in lost THEN "miss" ELSE tier[x]]

Next == \E s \in Sessions, place \in Tiers, lost \in SUBSET Sessions :
          Serve(s, place, lost)

Spec == Init /\ [][Next]_tier
=============================================================================
