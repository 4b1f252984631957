------------------------------- MODULE Readiness ------------------------------
(***************************************************************************)
(* Gateway pods come and go behind their Service: create_app and /ready of *)
(* agentserve/gateway.py, aprobe of the vLLM adapter and size of the       *)
(* session store, under the Deployment of deploy/helm.                     *)
(*                                                                         *)
(* Kubernetes is external and modelled as the chart uses it: a rolling     *)
(* update makes one pod more than wanted and removes an outdated pod once  *)
(* it is not needed, a container that exits is started again in its pod    *)
(* and reads the ConfigMap of that moment, and a run of readiness probes   *)
(* with one outcome is one probe.                                          *)
(***************************************************************************)
EXTENDS Settings

CONSTANTS
  Pods,           \* bound: names for pods
  Desired,        \* gateway.replicaCount
  Environments,   \* bound: contents of the ConfigMap
  MaxCrashes,     \* bound: containers that exit by themselves
  ProbeTimeout,   \* aprobe's timeout for one worker
  Patience        \* the kubelet's timeout for one readiness probe

ASSUME ReadinessAssumption ==
  /\ Desired \in Nat \ {0}
  /\ \A env \in Environments : Environment(env)
  /\ {MaxCrashes, ProbeTimeout, Patience} \subseteq Nat

VARIABLES
  config,   \* the ConfigMap
  pod,      \* the pods of the Deployment
  redis,    \* Redis answers
  worker,   \* a worker is "up", "down" (refuses) or "hung" (does not answer)
  crashes   \* containers that have exited by themselves
vars == <<config, pod, redis, worker, crashes>>

NoPod == [pc |-> "none"]
Starting == [pc : {"starting"}, template : Environments]
\* A process has its own environment; `store' is what /ready has learnt of the
\* session store when it goes on to the workers.
Up == [pc : {"up"}, template : Environments, env : Environments,
       listed : BOOLEAN, store : {"not asked", "ok", "failed"}]

Existing == {p \in Pods : pod[p] # NoPod}
Current  == {p \in Existing : pod[p].template = config}
IsUp(p)  == pod[p].pc = "up"
Listed   == {p \in Pods : IsUp(p) /\ pod[p].listed}

UsesRedis(env) == Value(env, "REDIS_URL")
Endpoints(env) == Value(env, "VLLM_ENDPOINTS")

\* "agentserve.validate" of the chart.
Renders(env) == Desired > 1 => UsesRedis(env)

\* helm upgrade.
Edit(env) ==
  /\ Renders(env)
  /\ config' = env
  /\ UNCHANGED <<pod, redis, worker, crashes>>

CreatePod(p) ==
  /\ pod[p] = NoPod
  /\ Cardinality(Current) < Desired
  /\ Cardinality(Existing) <= Desired
  /\ pod' = [pod EXCEPT ![p] = [pc |-> "starting", template |-> config]]
  /\ UNCHANGED <<config, redis, worker, crashes>>

\* create_app: load_settings, then build_session_store, which for Redis casts
\* the lifetime to an integer ...
Startable(env) ==
  Accepted(env) /\ (UsesRedis(env) => Value(env, "SESSION_TTL_S") \notin {NaN, Inf})

\* ... after its ping.
AppStarts(env) == Startable(env) /\ (UsesRedis(env) => redis)

\* The container is started; until create_app succeeds it is started again.
Boot(p) ==
  /\ pod[p].pc = "starting"
  /\ AppStarts(config)
  /\ pod' = [pod EXCEPT ![p] =
               [pc |-> "up", template |-> @.template, env |-> config,
                listed |-> FALSE, store |-> "not asked"]]
  /\ UNCHANGED <<config, redis, worker, crashes>>

\* RedisSessionStore.size answers -1 when Redis fails.
StoreAnswers(env) == UsesRedis(env) => redis

\* Mutant: every worker must answer.
AllAnswer(env) ==
  Value(env, "BACKEND") = "vllm" => \A w \in Endpoints(env) : worker[w] = "up"

\* VllmBackend.aprobe; the simulated backend has none.
AnyAnswers(env) ==
  Value(env, "BACKEND") = "vllm" => \E w \in Endpoints(env) : worker[w] = "up"

\* aprobe waits for all of its questions, so one hung worker takes it as long
\* as its timeout.
InTime(env) ==
  Value(env, "BACKEND") = "vllm" /\ (\E w \in Endpoints(env) : worker[w] = "hung") =>
    ProbeTimeout < Patience

\* /ready up to its await ...
AskStore(p) ==
  /\ IsUp(p) /\ pod[p].store = "not asked"
  /\ pod' = [pod EXCEPT ![p].store = IF StoreAnswers(pod[p].env) THEN "ok" ELSE "failed"]
  /\ UNCHANGED <<config, redis, worker, crashes>>

\* Mutant: any of the two checks is enough.
AskWorkersAny(p) ==
  /\ IsUp(p) /\ pod[p].store # "not asked"
  /\ pod' = [pod EXCEPT ![p].store = "not asked",
                        ![p].listed = \/ pod[p].store = "ok"
                                      \/ AnyAnswers(pod[p].env) /\ InTime(pod[p].env)]
  /\ UNCHANGED <<config, redis, worker, crashes>>

\* ... and from there to its response, which the Service acts upon.
AskWorkers(p) ==
  /\ IsUp(p) /\ pod[p].store # "not asked"
  /\ pod' = [pod EXCEPT ![p].store = "not asked",
                        ![p].listed = /\ pod[p].store = "ok"
                                      /\ AnyAnswers(pod[p].env)
                                      /\ InTime(pod[p].env)]
  /\ UNCHANGED <<config, redis, worker, crashes>>

\* The rolling update: an outdated pod goes when more pods than wanted exist,
\* those that are still to become ready left out, and when it is not one of
\* the last that serve.
Replace(p) ==
  /\ p \in Existing \ Current
  /\ Cardinality(Existing \ (Current \ Listed)) > Desired
  /\ p \in Listed => Cardinality(Listed) > Desired
  /\ pod' = [pod EXCEPT ![p] = NoPod]
  /\ UNCHANGED <<config, redis, worker, crashes>>

Crash(p) ==
  /\ IsUp(p)
  /\ crashes < MaxCrashes
  /\ crashes' = crashes + 1
  /\ pod' = [pod EXCEPT ![p] = [pc |-> "starting", template |-> @.template]]
  /\ UNCHANGED <<config, redis, worker>>

RedisTurns ==
  /\ redis' = ~redis
  /\ UNCHANGED <<config, pod, worker, crashes>>

WorkerTurns(w, state) ==
  /\ worker' = [worker EXCEPT ![w] = state]
  /\ UNCHANGED <<config, pod, redis, crashes>>

Init ==
  /\ config \in {env \in Environments : Renders(env)}
  /\ pod = [p \in Pods |-> NoPod]
  /\ redis = TRUE
  /\ worker = [w \in Workers |-> "up"]
  /\ crashes = 0

Next ==
  \/ \E env \in Environments : Edit(env)
  \/ \E p \in Pods :
       CreatePod(p) \/ Boot(p) \/ AskStore(p) \/ AskWorkers(p) \/ Replace(p) \/ Crash(p)
  \/ RedisTurns
  \/ \E w \in Workers, state \in {"up", "down", "hung"} : WorkerTurns(w, state)

Spec == Init /\ [][Next]_vars

\* The controllers and the kubelet do their work.  Nothing is assumed of
\* Redis, of the workers or of who edits the configuration.
FairSpec ==
  /\ Spec
  /\ \A p \in Pods :
       WF_vars(CreatePod(p)) /\ WF_vars(Boot(p)) /\ WF_vars(AskStore(p))
         /\ WF_vars(AskWorkers(p)) /\ WF_vars(Replace(p))

(***************************************************************************)
(* Properties                                                              *)
(***************************************************************************)

\* Pods are absent, starting or up, each with configurations of the chart.
ReadinessTypeOK ==
  /\ config \in Environments
  /\ pod \in [Pods -> {NoPod} \cup Starting \cup Up]
  /\ redis \in BOOLEAN
  /\ worker \in [Workers -> {"up", "down", "hung"}]
  /\ crashes \in 0..MaxCrashes

\* A process that is up will not fail later on for a bad count: whatever is put
\* into the ConfigMap and whenever a container reads it, every process has at
\* least one replica, each with a worker, bounds and limits above zero and, if
\* it uses Redis, a lifetime that can be cast to seconds (load_settings,
\* build_session_store).  So are its times, as far as TimesInRange says: NaN
\* and infinity pass, and so does a lifetime below a second.
RunsOnUsableSettings ==
  \A p \in Pods : IsUp(p) =>
    LET s == LoadSettings(pod[p].env)
    IN  /\ CountsSound(s)
        /\ s.REDIS_URL => s.SESSION_TTL_S \in Nat \ {0}
        /\ TimesInRange(s) => TimesSound(s)

\* What must hold for a pod to stay ready, whatever of the configurations it
\* runs: no worker hangs (aprobe would outlast the kubelet) and each list of
\* workers has one that answers.
AllWell ==
  /\ redis
  /\ \A w \in Workers : worker[w] # "hung"
  /\ \A env \in Environments : Value(env, "BACKEND") = "vllm" /\ Endpoints(env) # {} =>
       \E w \in Endpoints(env) : worker[w] = "up"

\* A good configuration that stays is rolled out, whatever bad ones were tried
\* and whatever crashed or failed before: in the end exactly the pods that are
\* wanted exist, all made for it and all in the Service, and they stay there
\* although some workers may be down (aprobe).
RolloutSettles ==
  \A env \in Environments :
    Startable(env) /\ <>[](config = env /\ AllWell) =>
      <>[](Existing = Current /\ Current = Listed /\ Cardinality(Listed) = Desired)

\* A pod none of whose workers comes back leaves the Service, whatever becomes
\* of Redis, of the other pods and of the configuration in the meantime (/ready).
BrokenPodsLeave ==
  \A p \in Pods :
    <>[](IsUp(p) /\ ~AnyAnswers(pod[p].env)) => <>[](p \notin Listed)
=============================================================================
