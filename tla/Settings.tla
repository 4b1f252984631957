------------------------------- MODULE Settings -------------------------------
(***************************************************************************)
(* load_settings of agentserve/settings.py: the environment of a gateway   *)
(* process becomes its configuration, or an error that stops the process.  *)
(*                                                                         *)
(* An environment is a function from the variables that are set (without   *)
(* their prefix AGENTSERVE_) to values; a blank number is an unset one.    *)
(* A variable that is read as a float is counted in tenths; one below zero *)
(* stands for -inf as well.  The list of workers is a set: the deployment  *)
(* names each of them once.  Which variable an error names is left out.    *)
(***************************************************************************)
EXTENDS Integers, FiniteSets

CONSTANTS
  Workers,   \* URLs of vLLM workers
  Junk,      \* a number that the cast refuses
  NaN,       \* "nan", which float accepts and int does not
  Inf        \* "inf", likewise

ASSUME SettingsAssumption ==
  /\ IsFiniteSet(Workers)
  /\ {Junk, NaN, Inf} \cap Int = {}
  /\ Junk # NaN /\ Junk # Inf /\ NaN # Inf

Defaults ==
  [ROUTER |-> "affinity", POLICY |-> "adaptive", BACKEND |-> "simulated",
   VLLM_ENDPOINTS |-> {}, REDIS_URL |-> FALSE, REPLICAS |-> 4,
   GPU_CACHE_TOKENS |-> 150000, DRAM_CACHE_TOKENS |-> 1400000,
   PIN_THRESHOLD_MS |-> 20000, OFFLOAD_THRESHOLD_MS |-> 3000000,
   DEAD_SESSION_MS |-> 6000000, AFFINITY_QUEUE_LIMIT |-> 6, EWMA_ALPHA |-> 3,
   PREDICTOR_PRIOR_MS |-> 50000, PREDICTOR_MIN_OBS |-> 2, VLLM_TIMEOUT_S |-> 3000,
   VLLM_MAX_RETRIES |-> 2, SESSION_TTL_S |-> 36000, MAX_SESSIONS |-> 100000]

Floats ==
  {"PIN_THRESHOLD_MS", "OFFLOAD_THRESHOLD_MS", "DEAD_SESSION_MS", "EWMA_ALPHA",
   "PREDICTOR_PRIOR_MS", "VLLM_TIMEOUT_S", "SESSION_TTL_S"}
Ints ==
  {"REPLICAS", "GPU_CACHE_TOKENS", "DRAM_CACHE_TOKENS", "AFFINITY_QUEUE_LIMIT",
   "PREDICTOR_MIN_OBS", "VLLM_MAX_RETRIES", "MAX_SESSIONS"}

\* What a process may find in its environment.
Environment(env) ==
  /\ DOMAIN env \subseteq DOMAIN Defaults
  /\ \A n \in DOMAIN env \cap (Floats \cup Ints) : env[n] \in Int \cup {Junk, NaN, Inf}
  /\ "VLLM_ENDPOINTS" \in DOMAIN env => env["VLLM_ENDPOINTS"] \in SUBSET Workers

\* os.environ.get(name, default).
Value(env, name) == IF name \in DOMAIN env THEN env[name] ELSE Defaults[name]

\* Mutant: only what is negative is refused.
NumberNotNegative(name, v) ==
  \/ v \in Int /\ v >= 0
  \/ v \in {NaN, Inf} /\ name \in Floats

\* _num refuses what the cast refuses and what is <= 0, which NaN is not.
NumberOk(name, v) ==
  \/ v \in Int /\ v > 0
  \/ v \in {NaN, Inf} /\ name \in Floats

\* The floats x and y do not satisfy x >= y.
NotAbove(x, y) == NaN \notin {x, y} => x # Inf /\ (y = Inf \/ x < y)

\* The replica count is read only where no workers are listed.
NumbersRead(env) ==
  Floats \cup (IF Value(env, "BACKEND") = "vllm" THEN Ints \ {"REPLICAS"} ELSE Ints)

\* load_settings raises no ConfigError.
Accepted(env) ==
  /\ Value(env, "ROUTER") \in {"affinity", "round-robin"}
  /\ Value(env, "POLICY") \in {"adaptive", "lru"}
  /\ Value(env, "BACKEND") \in {"simulated", "vllm"}
  /\ Value(env, "BACKEND") = "vllm" => Value(env, "VLLM_ENDPOINTS") # {}
  /\ \A n \in NumbersRead(env) : NumberOk(n, Value(env, n))
  /\ Value(env, "EWMA_ALPHA") \notin {NaN, Inf} /\ Value(env, "EWMA_ALPHA") <= 10
  /\ NotAbove(Value(env, "PIN_THRESHOLD_MS"), Value(env, "OFFLOAD_THRESHOLD_MS"))

\* The configuration of an environment that is accepted.
LoadSettings(env) ==
  [name \in DOMAIN Defaults |->
     IF name = "REPLICAS" /\ Value(env, "BACKEND") = "vllm"
     THEN Cardinality(Value(env, "VLLM_ENDPOINTS")) ELSE Value(env, name)]

(***************************************************************************)
(* What the other modules assume of a configuration.                       *)
(***************************************************************************)

\* Gateway, VllmCluster, SessionStore and ToolGaps of the counts (NumReplicas,
\* QueueLimit, MaxRetries, MaxSessions, MinObservations), with a worker for
\* each replica.
CountsSound(s) ==
  /\ \A n \in Ints : s[n] \in Nat \ {0}
  /\ s.BACKEND = "vllm" => s.REPLICAS = Cardinality(s.VLLM_ENDPOINTS)

\* CachePolicy of the thresholds, the predictor of its alpha, SessionStore of a
\* lifetime: where Redis counts it in seconds it must not come to zero.
TimesSound(s) ==
  /\ \A n \in Floats : s[n] \in Nat \ {0}
  /\ s.PIN_THRESHOLD_MS < s.OFFLOAD_THRESHOLD_MS
  /\ s.EWMA_ALPHA \in 1..10
  /\ s.REDIS_URL => s.SESSION_TTL_S >= 10

Sound(s) == CountsSound(s) /\ TimesSound(s)

\* What load_settings does not see to: "nan" and "inf" pass, and so does part of
\* a second as the lifetime of a key of Redis.
TimesInRange(s) ==
  /\ \A n \in Floats : s[n] \notin {NaN, Inf}
  /\ s.REDIS_URL => s.SESSION_TTL_S >= 10
=============================================================================
