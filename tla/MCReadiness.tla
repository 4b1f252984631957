----------------------------- MODULE MCReadiness ------------------------------
(***************************************************************************)
(* Readiness with a good configuration, one whose zero is refused, one     *)
(* whose thresholds cannot be compared and one whose lifetime Redis cannot *)
(* be given.                                                               *)
(***************************************************************************)
EXTENDS Readiness

CONSTANTS w1, w2

WithRedis == [BACKEND |-> "vllm", VLLM_ENDPOINTS |-> {w1, w2}, REDIS_URL |-> TRUE]
NoRetries == [BACKEND |-> "vllm", VLLM_ENDPOINTS |-> {w1}, VLLM_MAX_RETRIES |-> 0]
Unordered ==
  [BACKEND |-> "vllm", VLLM_ENDPOINTS |-> {w1},
   PIN_THRESHOLD_MS |-> NaN, DEAD_SESSION_MS |-> Inf]
Endless ==
  [BACKEND |-> "vllm", VLLM_ENDPOINTS |-> {w1}, REDIS_URL |-> TRUE,
   SESSION_TTL_S |-> Inf]

MCEnvironments == {WithRedis, NoRetries, Unordered, Endless}
=============================================================================
