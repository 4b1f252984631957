----------------------------- MODULE CachePolicy -----------------------------
(***************************************************************************)
(* The two retention policies of agentserve/policy.py, as pure operators   *)
(* on a cache entry (models.py, CacheEntry).  Times are in abstract units  *)
(* of milliseconds.                                                        *)
(***************************************************************************)
EXTENDS Integers

CONSTANTS
  Policy,            \* "adaptive" (AdaptiveTtlPolicy) or "lru" (LruPolicy)
  PinThreshold,      \* PolicyConfig.pin_threshold_ms
  OffloadThreshold,  \* PolicyConfig.offload_threshold_ms
  DeadSession        \* PolicyConfig.dead_session_ms

ASSUME PolicyAssumption ==
  /\ Policy \in {"adaptive", "lru"}
  /\ PinThreshold \in Nat
  /\ OffloadThreshold \in Nat
  /\ DeadSession \in Nat
  /\ PinThreshold < OffloadThreshold     \* load_settings refuses the rest

Placements == {"pin_gpu", "offload_dram", "drop"}

\* How long the session is expected to stay away, from the last touch on.
PredictedIdle(entry) ==
  IF entry.ret > entry.touch THEN entry.ret - entry.touch ELSE 0

\* Where the cache of a session that was just served should live.
OnRelease(entry) ==
  IF Policy = "lru" \/ PredictedIdle(entry) <= PinThreshold THEN "pin_gpu"
  ELSE IF PredictedIdle(entry) <= OffloadThreshold THEN "offload_dram"
  ELSE "drop"

IsDead(entry, now) == now - entry.touch > DeadSession

\* Mutant: the policy forgets what it has predicted.
EvictsBeforeOldest(entry, other, now) == entry.touch < other.touch

\* entry strictly precedes other in victim_order(_, now): oldest touch first
\* under LRU; under the adaptive policy dead sessions first, then the latest
\* predicted return, the later touch breaking the tie.  Entries that precede
\* each other in neither direction come in the order of the dict, which is
\* left open.
EvictsBefore(entry, other, now) ==
  \/ /\ Policy = "lru"
     /\ entry.touch < other.touch
  \/ /\ Policy = "adaptive"
     /\ IsDead(entry, now)
     /\ IsDead(other, now) => entry.touch > other.touch
  \/ /\ Policy = "adaptive"
     /\ ~IsDead(entry, now) /\ ~IsDead(other, now)
     /\ \/ entry.ret > other.ret
        \/ entry.ret = other.ret /\ entry.touch > other.touch
=============================================================================
