---------------------------- MODULE ReadinessProofs ---------------------------
(***************************************************************************)
(* What load_settings accepts is what the other modules assume, times that *)
(* are no numbers and a lifetime below a second left out, and no gateway   *)
(* process ever runs on anything else; whether it also runs on what its    *)
(* template was made for depends on who edits the chart.                   *)
(***************************************************************************)
EXTENDS Readiness, FiniteSetTheorems, TLAPS

\* What _num returns: the default, or a value that has passed its check.
LEMMA NumbersAreGood ==
  ASSUME NEW env, Environment(env),
         NEW n \in Floats \cup Ints, NumberOk(n, Value(env, n))
  PROVE  /\ n \in Ints => Value(env, n) \in Nat \ {0}
         /\ Value(env, n) \in (Nat \ {0}) \cup {NaN, Inf}
<1>1. Value(env, n) \in Int \cup {Junk, NaN, Inf}
  BY DEF Environment, Value, Defaults, Floats, Ints
<1>2. n \in Ints => n \notin Floats
  BY DEF Floats, Ints
<1> QED BY <1>1, <1>2, SettingsAssumption DEF NumberOk

\* What the counts and the times of an accepted environment come to.
LEMMA AcceptedNumbers ==
  ASSUME NEW env, Environment(env), Accepted(env)
  PROVE  /\ CountsSound(LoadSettings(env))
         /\ \A n \in DOMAIN Defaults \ {"REPLICAS"} : LoadSettings(env)[n] = Value(env, n)
         /\ \A n \in Floats : LoadSettings(env)[n] \in (Nat \ {0}) \cup {NaN, Inf}
<1> DEFINE v(n) == Value(env, n)
           s == LoadSettings(env)
<1>1. \A n \in DOMAIN Defaults \ {"REPLICAS"} : s[n] = v(n)
  BY DEF LoadSettings
<1>2. Floats \cup Ints \subseteq DOMAIN Defaults
  BY DEF Floats, Ints, Defaults
<1>3. ASSUME NEW n \in Ints PROVE s[n] \in Nat \ {0}
  <2>1. CASE n = "REPLICAS" /\ v("BACKEND") = "vllm"
    <3>1. s[n] = Cardinality(v("VLLM_ENDPOINTS"))
      BY <2>1, <1>2 DEF LoadSettings
    <3>2. v("VLLM_ENDPOINTS") \in SUBSET Workers
      BY DEF Environment, Value, Defaults
    <3>3. v("VLLM_ENDPOINTS") # {}
      BY <2>1 DEF Accepted
    <3>4. IsFiniteSet(v("VLLM_ENDPOINTS"))
      BY <3>2, FS_Subset, SettingsAssumption
    <3> QED BY <3>1, <3>3, <3>4, FS_CardinalityType, FS_EmptySet
  <2>2. CASE ~(n = "REPLICAS" /\ v("BACKEND") = "vllm")
    <3>1. s[n] = v(n)
      BY <2>2, <1>2 DEF LoadSettings
    <3>2. NumberOk(n, v(n))
      BY <2>2 DEF Accepted, NumbersRead
    <3> QED BY <3>1, <3>2, NumbersAreGood
  <2> QED BY <2>1, <2>2
<1>4. ASSUME NEW n \in Floats PROVE s[n] \in (Nat \ {0}) \cup {NaN, Inf}
  <2>1. n # "REPLICAS"
    BY DEF Floats
  <2>2. NumberOk(n, v(n))
    BY DEF Accepted, NumbersRead
  <2> QED BY <2>1, <2>2, <1>1, <1>2, NumbersAreGood
<1>5. s.BACKEND = "vllm" => s.REPLICAS = Cardinality(s.VLLM_ENDPOINTS)
  BY DEF LoadSettings, Defaults
<1> QED BY <1>1, <1>3, <1>4, <1>5 DEF CountsSound

\* Which bad values fail at startup and which do not: of the environments that
\* load_settings accepts, all give sound counts, and exactly those give a
\* configuration that the rest of the code can work with whose times are finite
\* and whose lifetime, if Redis keeps it, is at least a second.
THEOREM AcceptedIsSound ==
  ASSUME NEW env, Environment(env), Accepted(env)
  PROVE  /\ CountsSound(LoadSettings(env))
         /\ Sound(LoadSettings(env)) <=> TimesInRange(LoadSettings(env))
<1> DEFINE s == LoadSettings(env)
<1>1. /\ CountsSound(s)
      /\ \A n \in DOMAIN Defaults \ {"REPLICAS"} : s[n] = Value(env, n)
      /\ \A n \in Floats : s[n] \in (Nat \ {0}) \cup {NaN, Inf}
  BY AcceptedNumbers
<1>2. ASSUME Sound(s) PROVE TimesInRange(s)
  BY <1>2, SettingsAssumption DEF Sound, TimesSound, TimesInRange
<1>3. ASSUME TimesInRange(s) PROVE Sound(s)
  <2>1. \A n \in Floats : s[n] \in Nat \ {0}
    BY <1>1, <1>3 DEF TimesInRange
  <2>2. /\ s.EWMA_ALPHA = Value(env, "EWMA_ALPHA")
        /\ s.PIN_THRESHOLD_MS = Value(env, "PIN_THRESHOLD_MS")
        /\ s.OFFLOAD_THRESHOLD_MS = Value(env, "OFFLOAD_THRESHOLD_MS")
    BY <1>1 DEF Defaults
  <2>3. /\ s.EWMA_ALPHA \in Nat \ {0}
        /\ s.PIN_THRESHOLD_MS \in Nat \ {0}
        /\ s.OFFLOAD_THRESHOLD_MS \in Nat \ {0}
    BY <2>1 DEF Floats
  <2>4. s.EWMA_ALPHA \in 1..10
    BY <2>2, <2>3 DEF Accepted
  <2>5. s.PIN_THRESHOLD_MS < s.OFFLOAD_THRESHOLD_MS
    BY <2>2, <2>3, SettingsAssumption DEF Accepted, NotAbove
  <2>6. s.REDIS_URL => s.SESSION_TTL_S >= 10
    BY <1>3 DEF TimesInRange
  <2> QED BY <1>1, <2>1, <2>4, <2>5, <2>6 DEF Sound, TimesSound
<1> QED BY <1>1, <1>2, <1>3

\* Every process that is up has been through load_settings and
\* build_session_store.
Checked == \A p \in Pods : IsUp(p) => Startable(pod[p].env)
RInv == ReadinessTypeOK /\ Checked

LEMMA PodStates ==
  ASSUME ReadinessTypeOK, NEW p \in Pods
  PROVE  /\ pod[p].pc = "up" => pod[p] \in Up
         /\ pod[p].pc = "starting" => pod[p] \in Starting
<1>1. pod[p] = NoPod \/ pod[p] \in Starting \/ pod[p] \in Up
  BY DEF ReadinessTypeOK
<1>2. NoPod.pc = "none"
  BY DEF NoPod
<1>3. ASSUME pod[p] \in Starting PROVE pod[p].pc = "starting"
  BY <1>3 DEF Starting
<1>4. ASSUME pod[p] \in Up PROVE pod[p].pc = "up"
  BY <1>4 DEF Up
<1> QED BY <1>1, <1>2, <1>3, <1>4

LEMMA RInvStep == RInv /\ [Next]_vars => RInv'
<1> SUFFICES ASSUME RInv, [Next]_vars PROVE RInv'
  OBVIOUS
<1> USE DEF RInv
<1> HIDE DEF Starting, Up
<1>1. ASSUME NEW env \in Environments, Edit(env) PROVE RInv'
  BY <1>1 DEF Edit, ReadinessTypeOK, Checked, IsUp
<1>2. ASSUME NEW p \in Pods, CreatePod(p) PROVE RInv'
  <2>1. [pc |-> "starting", template |-> config] \in Starting
    BY DEF Starting, ReadinessTypeOK
  <2> QED BY <1>2, <2>1 DEF CreatePod, ReadinessTypeOK, Checked, IsUp
<1>3. ASSUME NEW p \in Pods, Boot(p) PROVE RInv'
  <2> DEFINE new == [pc |-> "up", template |-> pod[p].template, env |-> config,
                     listed |-> FALSE, store |-> "not asked"]
  <2>1. pod[p] \in Starting
    BY <1>3, PodStates DEF Boot
  <2>2. new \in Up
    BY <2>1 DEF Starting, Up, ReadinessTypeOK
  <2>3. pod' = [pod EXCEPT ![p] = new] /\ UNCHANGED <<config, redis, worker, crashes>>
    BY <1>3 DEF Boot
  <2>4. Startable(new.env) /\ new.env = config
    BY <1>3 DEF Boot, AppStarts
  <2> HIDE DEF new
  <2> QED BY <2>2, <2>3, <2>4 DEF ReadinessTypeOK, Checked, IsUp
<1>4. ASSUME NEW p \in Pods, AskStore(p) \/ AskWorkers(p) PROVE RInv'
  <2>1. pod[p] \in Up
    BY <1>4, PodStates DEF AskStore, AskWorkers, IsUp
  <2>2. pod \in [Pods -> {NoPod} \cup Starting \cup Up]
    BY DEF ReadinessTypeOK
  <2>3. /\ pod'[p] \in Up /\ pod'[p].env = pod[p].env
        /\ pod' = [pod EXCEPT ![p] = pod'[p]]
    <3>1. CASE AskStore(p)
      <4>1. PICK st \in {"ok", "failed"} : pod' = [pod EXCEPT ![p].store = st]
        BY <3>1 DEF AskStore
      <4>2. pod'[p] = [pod[p] EXCEPT !.store = st]
        BY <4>1, <2>2
      <4> QED BY <4>1, <4>2, <2>1, <2>2 DEF Up
    <3>2. CASE AskWorkers(p)
      <4>1. PICK li \in BOOLEAN :
              pod' = [pod EXCEPT ![p].store = "not asked", ![p].listed = li]
        BY <3>2 DEF AskWorkers
      <4>2. pod'[p] = [[pod[p] EXCEPT !.store = "not asked"] EXCEPT !.listed = li]
        BY <4>1, <2>2
      <4> QED BY <4>1, <4>2, <2>1, <2>2 DEF Up
    <3> QED BY <1>4, <3>1, <3>2
  <2>4. UNCHANGED <<config, redis, worker, crashes>> /\ IsUp(p)
    BY <1>4 DEF AskStore, AskWorkers
  <2> QED BY <2>2, <2>3, <2>4 DEF ReadinessTypeOK, Checked, IsUp
<1>5. ASSUME NEW p \in Pods, Replace(p) PROVE RInv'
  BY <1>5 DEF Replace, ReadinessTypeOK, Checked, IsUp, NoPod
<1>6. ASSUME NEW p \in Pods, Crash(p) PROVE RInv'
  <2> DEFINE new == [pc |-> "starting", template |-> pod[p].template]
  <2>1. new \in Starting
    BY <1>6, PodStates DEF Crash, IsUp, Starting, Up
  <2>2. new.pc # "up"
    OBVIOUS
  <2>3. pod' = [pod EXCEPT ![p] = new] /\ UNCHANGED <<config, redis, worker>>
    BY <1>6 DEF Crash
  <2>4. crashes' \in 0..MaxCrashes
    BY <1>6, ReadinessAssumption DEF Crash, ReadinessTypeOK
  <2> HIDE DEF new
  <2> QED BY <2>1, <2>2, <2>3, <2>4 DEF ReadinessTypeOK, Checked, IsUp
<1>7. CASE RedisTurns
  BY <1>7 DEF RedisTurns, ReadinessTypeOK, Checked, IsUp
<1>8. ASSUME NEW w \in Workers, NEW state \in {"up", "down", "hung"}, WorkerTurns(w, state)
      PROVE RInv'
  BY <1>8 DEF WorkerTurns, ReadinessTypeOK, Checked, IsUp
<1>9. CASE UNCHANGED vars
  BY <1>9 DEF vars, ReadinessTypeOK, Checked, IsUp
<1> QED BY <1>1, <1>2, <1>3, <1>4, <1>5, <1>6, <1>7, <1>8, <1>9 DEF Next

LEMMA RInvInit == Init => RInv
BY ReadinessAssumption DEF Init, RInv, ReadinessTypeOK, Checked, IsUp, NoPod

\* Pods, probes and workers are only ever in the states that are listed.
THEOREM ReadinessTypes == Spec => []ReadinessTypeOK
<1>1. RInv => ReadinessTypeOK
  BY DEF RInv
<1> QED BY <1>1, RInvInit, RInvStep, PTL DEF Spec

\* Whatever the chart is given and whenever a container starts, a gateway
\* process only runs on sound counts, on a lifetime that its session store can
\* keep and, if its times are in range, on sound ones.
THEOREM UsableSettings == Spec => []RunsOnUsableSettings
<1>1. RInv => RunsOnUsableSettings
  <2> SUFFICES ASSUME RInv, NEW p \in Pods, IsUp(p)
               PROVE  LET s == LoadSettings(pod[p].env)
                      IN  /\ CountsSound(s)
                          /\ s.REDIS_URL => s.SESSION_TTL_S \in Nat \ {0}
                          /\ TimesInRange(s) => TimesSound(s)
    BY DEF RunsOnUsableSettings
  <2> DEFINE env == pod[p].env
             s == LoadSettings(env)
  <2>1. pod[p] \in Up
    BY PodStates DEF IsUp, RInv
  <2>2. Environment(env)
    BY <2>1, ReadinessAssumption DEF Up
  <2>3. Startable(env)
    BY DEF RInv, Checked
  <2> HIDE DEF env
  <2>4. Accepted(env)
    BY <2>3 DEF Startable
  <2>5. /\ s.REDIS_URL = Value(env, "REDIS_URL")
        /\ s.SESSION_TTL_S = Value(env, "SESSION_TTL_S")
        /\ s.SESSION_TTL_S \in (Nat \ {0}) \cup {NaN, Inf}
    BY <2>2, <2>4, AcceptedNumbers DEF Defaults, Floats
  <2>6. s.REDIS_URL => s.SESSION_TTL_S \in Nat \ {0}
    BY <2>3, <2>5 DEF Startable, UsesRedis
  <2>7. CountsSound(s) /\ (TimesInRange(s) => TimesSound(s))
    BY <2>2, <2>4, AcceptedIsSound DEF Sound
  <2> QED BY <2>6, <2>7 DEF env
<1> QED BY <1>1, RInvInit, RInvStep, PTL DEF Spec

(***************************************************************************)
(* Which configuration a pod runs.  The checksum in a pod's template says  *)
(* what it was made for, the container reads the ConfigMap when it starts. *)
(***************************************************************************)

\* A pod that counts as current runs the configuration it was made for.
CurrentRunsConfig == \A p \in Current : IsUp(p) => pod[p].env = config

\* What CurrentRunsConfig needs of who edits the chart: no edit goes back to a
\* configuration for which a pod was made that still exists.
FreshEdit == config' # config => \A p \in Existing : pod[p].template # config'

LEMMA CurrentRunsStep ==
  RInv /\ CurrentRunsConfig /\ [Next]_vars /\ [FreshEdit]_vars => CurrentRunsConfig'
<1> SUFFICES ASSUME RInv, CurrentRunsConfig, [Next]_vars, [FreshEdit]_vars,
                    NEW q \in Pods, pod'[q].pc = "up", pod'[q].template = config',
                    pod'[q] # NoPod
             PROVE  pod'[q].env = config'
  BY DEF CurrentRunsConfig, Current, Existing, IsUp
<1>1. pod \in [Pods -> {NoPod} \cup Starting \cup Up]
  BY DEF RInv, ReadinessTypeOK
<1>2. pod[q].pc = "up" /\ pod[q].template = config => pod[q].env = config
  BY DEF CurrentRunsConfig, Current, Existing, IsUp, NoPod
<1>3. CASE \E env \in Environments : Edit(env)
  <2>1. pod' = pod
    BY <1>3 DEF Edit
  <2>2. config' = config
    <3> SUFFICES ASSUME config' # config PROVE FALSE
      OBVIOUS
    <3>1. \A p \in Existing : pod[p].template # config'
      BY DEF FreshEdit, vars
    <3>2. q \in Existing
      BY <2>1 DEF Existing
    <3> QED
      BY <2>1, <3>1, <3>2
  <2> QED
    BY <1>2, <2>1, <2>2
<1>4. ASSUME NEW p \in Pods, AskStore(p) \/ AskWorkers(p) PROVE pod'[q].env = config'
  <2>1. pod[p] \in Up /\ config' = config
    BY <1>4, PodStates DEF AskStore, AskWorkers, IsUp, RInv
  <2>2. /\ pod'[p].env = pod[p].env /\ pod'[p].template = pod[p].template
        /\ q # p => pod'[q] = pod[q]
    <3>1. CASE AskStore(p)
      BY <1>1, <2>1, <3>1 DEF AskStore, Up
    <3>2. CASE AskWorkers(p)
      BY <1>1, <2>1, <3>2 DEF AskWorkers, Up
    <3> QED
      BY <1>4, <3>1, <3>2
  <2>3. pod[p].pc = "up"
    BY <2>1 DEF Up
  <2> QED
    BY <1>2, <2>1, <2>2, <2>3
<1>5. ASSUME NEW p \in Pods, Boot(p) PROVE pod'[q].env = config'
  <2>1. /\ config' = config
        /\ q = p => pod'[q].env = config
        /\ q # p => pod'[q] = pod[q]
    BY <1>1, <1>5 DEF Boot
  <2> QED
    BY <1>2, <2>1
<1>6. ASSUME NEW p \in Pods, CreatePod(p) \/ Replace(p) \/ Crash(p)
      PROVE  pod'[q].env = config'
  <2>1. /\ config' = config
        /\ q # p => pod'[q] = pod[q]
        /\ q = p => pod'[q].pc # "up"
    BY <1>1, <1>6 DEF CreatePod, Replace, Crash, NoPod
  <2> QED
    BY <1>2, <2>1
<1>7. CASE UNCHANGED <<config, pod>>
  BY <1>2, <1>7
<1> QED
  BY <1>3, <1>4, <1>5, <1>6, <1>7 DEF Next, RedisTurns, WorkerTurns, vars

\* A pod that was made for the ConfigMap of the moment runs it, through crashes
\* and restarts, as long as edits do not return to the configuration of a pod
\* that is still there.  Without that a pod can count as up to date and run
\* another configuration (deployment.yaml, checksum/config and envFrom).
THEOREM CurrentPodsRunIt == Spec /\ [][FreshEdit]_vars => []CurrentRunsConfig
<1>1. Init => CurrentRunsConfig
  BY DEF Init, CurrentRunsConfig, Current, Existing
<1>2. Spec => []RInv
  BY RInvInit, RInvStep, PTL DEF Spec
<1>3. RInv /\ CurrentRunsConfig /\ [Next]_vars /\ [FreshEdit]_vars => CurrentRunsConfig'
  BY CurrentRunsStep
<1> QED
  BY <1>1, <1>2, <1>3, PTL DEF Spec
=============================================================================
