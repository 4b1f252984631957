# TLA+ verification of AgentServe

AgentServe is a gateway in front of a cluster of vLLM workers. It sends the
calls of one agent session back to the worker that holds the session's KV
prefix, and decides for each prefix whether it stays in HBM, is parked in host
DRAM or is dropped while the agent is away running a tool. This directory holds
TLA+ models of the program under `src/`, configurations that check them with
TLC, and proofs checked by TLAPS.

Paths below are relative to `src/`.

## 1. Inventory

| Component | State | Operations | Talks to |
|---|---|---|---|
| Replica cache (`agentserve/replica.py`) | `gpu`, `dram` (session -> entry), `evictions`, `offloads` | `store`, `lookup`, `_demote`, `_enforce_capacity`, `_trim_dram`, `promote_from_dram` | called by the backends (`store`) and the router (`lookup`), asks the policy |
| In-flight slots (`replica.py`, `slot`) | `active`, `peak_active`, `pending`, `free_at_ms` | `slot` enter and exit, `prune` | held by the gateway around a backend call, read by the router |
| Retention policies (`policy.py`) | none | `on_release`, `victim_order` | called by the replica |
| Router (`router.py`) | affinity counters, the session map through the store | `select`, `_least_loaded` | reads replicas, reads and writes the session store |
| Gateway (`gateway.py`) | none of its own between awaits but the calls in flight | `chat_completions`, `schedule`, `record`, `stream_response`, `/health`, `/ready`, `/metrics`, `/debug/sessions` | everything |
| vLLM adapter (`backends/vllm.py`) | `failovers`, the HTTP pool | `aexecute` with failover, `astream`, `aprobe` | workers, `Replica.store` |
| Simulated backend (`backends/simulated.py`) | `free_at_ms`, `pending` of the replicas | `execute` | replica |
| Session store (`state.py`) | homes and last-seen times, in memory (LRU with TTL) or in Redis | `get_home`, `set_home`, `get_last_seen`, `set_last_seen`, `size` | Redis |
| Tool-gap predictor (`predictor.py`) | EWMAs per tool and per session | `observe`, `predict_ms` | gateway, replay |
| Settings (`settings.py`, `config.py`) | the validated configuration | `load_settings` | everything |
| Replay harness (`bench/replay.py`, `run.py`) | an event heap, clocks | `run_arm`, `compare` | router, policies, simulated backend |
| Live replay (`bench/live_replay.py`) | a semaphore, session tasks | `run_session`, `replay` | the gateway over HTTP |
| Deployment (`deploy/helm`) | ConfigMap, pods, endpoints of the Service | upgrade, rolling update, probes | gateway processes |
| Hardware validation (`scripts/gpu_validate.py`) | worker and gateway processes, one port | `start_vllm`, `start_gateway`, `wait_http`, `stop` | live replay, gateway, workers |
| Metrics (`metrics.py`) | Prometheus counters | `observe_cluster`, `observe_result`, `render` | replicas, from a worker thread |

Tokenizer, trace generator, compose files, the integration check and the mock
worker are listed in `PROJECT.json` with the reason they are left out.

What is hard here, and for each component what makes it correct:

- **Replica cache.** `store` may be called with prefixes larger than a tier and
  with completion times out of order. Correct: budgets hold between calls; a
  prefix is in one tier; placement follows the entry's own prediction; the
  least urgent goes first and no more goes than is needed; what is lost is
  counted; nobody disturbs what is parked.
- **Router and slots.** Calls interleave between `await`s, end on six different
  paths (answer, worker error, cancellation at an await, abandonment at a
  `yield`, a stream that never starts, a crash) and are routed on counters and
  beliefs that other calls change meanwhile. Correct: the counter equals the
  calls holding a slot; affinity respects the load valve; a detour never
  re-homes; a warm home is found again; every call has somewhere to go; every
  slot comes back.
- **Several pods, one Redis.** The map is shared, the beliefs that override it
  are not; Redis may fail on any call; ids of a larger deployment survive in it.
- **vLLM adapter.** A call is tried on several workers while its slot and its
  cache entry belong to one; workers crash with their caches; a stream must not be
  tried again once the client has seen a token, and its client may stop to read.
  Correct: attempts are distinct and bounded, the call fails only if
  all of them did, no stream is spliced, the gateway's belief about a prefix
  agrees with the worker.
- **Session store.** Reads that renew an entry's place but not its lifetime, a
  bound that evicts, lifetimes truncated for Redis. Correct: an answer is the
  last write and no older than the TTL; what is in use is remembered; the map
  is bounded; and it is no more forgetful than the gateway can bear.
- **Predictor.** Gaps are measured between completions and arrivals that may
  come out of order. Correct: the gap starts when the agent left, and is learnt
  for the tool that caused it.
- **Live replay.** A permit is held through calls that fail or time out, in
  front of a gateway that is not told. Correct: admission is exact, every
  session is run to its end, an older prefix does not replace a newer one.
- **Simulated replay.** A heap of events, completion times computed ahead, counts
  that must be pruned, stale copies after detours. Correct: time runs forward,
  the load the router sees is the true one, nobody does two things at once,
  copies are prefixes, each turn is served once in either arm.
- **Settings and readiness.** A dozen variables, read by each process when it
  starts, in pods of several configurations; a probe that awaits between two
  checks; a rollout that must get past bad configurations and crashes. Correct:
  a bad value stops the process at startup (what gets through is in section 5);
  a good configuration that stays is rolled out; a pod that cannot serve leaves.
- **Hardware validation.** Processes that come up late, die, ignore signals; an
  abort anywhere. Correct: nothing is left behind, each arm is measured
  through its own gateway and on equal terms, the script ends.
- **Metrics.** A thread reads dicts while the event loop changes them.

The single lines where each of these bites are the `hazards` of `PROJECT.json`.

## 2. Modules

| Module | Models | Composed of |
|---|---|---|
| `CachePolicy` | both retention policies as pure operators on an entry | - |
| `ReplicaCache` | `Replica.store` with all it calls, `lookup` | EXTENDS `CachePolicy`, refines `CacheContract` |
| `CacheContract` | what a replica's cache promises: a tier per session | abstract |
| `ReplicaCacheProofs` | theorems about `ReplicaCache`: budgets, placement, contract; who goes, when, and how it is counted | - |
| `Gateway` | a chat completion from routing to the release of its slot, over the session map, several pods, faults | a replica's cache reduced to what `lookup` finds |
| `GatewayProofs` | theorems about `Gateway` | - |
| `VllmCluster` | the calls of `Gateway` in front of real workers: retries, streams, the workers' own prefix caches | EXTENDS `Gateway`, refines it |
| `VllmClusterProofs` | theorems about `VllmCluster` | EXTENDS `GatewayProofs` |
| `SessionMap` | what the router may rely on: a map that may forget | abstract |
| `SessionStore` | `InMemorySessionStore` and `RedisSessionStore` | refines `SessionMap` |
| `SessionStoreProofs` | theorems about `SessionStore` | - |
| `ToolGaps` | `schedule` and `record` with the predictor they feed | - |
| `LiveReplay` | `bench/live_replay.py` in front of a gateway | EXTENDS `ToolGaps` |
| `LiveReplayProofs` | theorems about `LiveReplay` | - |
| `SimReplay` | `run_arm` of `bench/replay.py` over the simulated backend, both routers | a replica's cache reduced to `CacheContract` |
| `SimReplayProofs` | theorems about `SimReplay` | - |
| `Settings` | `load_settings` as an operator on an environment | pure |
| `Readiness` | gateway pods from container start to `/ready`, under a rolling update | EXTENDS `Settings` |
| `ReadinessProofs` | theorems about `Settings` and `Readiness` | - |
| `Validation` | `scripts/gpu_validate.py` and the processes it starts | a replay reduced to who listened |
| `ValidationProofs` | theorems about `Validation` | - |
| `MC...` | small instances for TLC | - |

### ReplicaCache

One action, `Serve`, is one call of `Replica.store` as `VllmBackend._result`
makes it. Nothing in `store` awaits, so the whole call, capacity loop and DRAM
trim included, is one atomic step. `gpu` and `dram` are the two dicts, as
functions whose value is `Absent` outside the dict; `added` is what the call
added to `evictions` and `offloads`; `call` is a history variable with the
arguments of the call, which the action properties refer to.

- `Settle` is the three-way branch of `_demote`; `EnforceCapacity` is
  `_enforce_capacity`, `ParkedVictims` its calls of `_demote` and the last two
  conjuncts `_trim_dram`. The sorts become: *any* order of the tier compatible
  with the key (ties depend on dict order, which is left open). The loops become:
  the *shortest prefix* of that order whose removal fits.
- The sum of tokens is the cardinality of the set of token slots (`TokenSlots`),
  which equals the Python `sum` and lets the proofs use finite-set facts.
- There is no clock. Each call brings its own arrival time, latency and
  predicted gap, in any order; `now_ms + elapsed_ms` and `now_ms + gap_ms` are
  computed in `Serve` as in the code.
- Entry size is at least one: the tokenizer never counts a prompt as empty.
- `tier` of an entry is left out; nothing but `lookup` (by dict) reads it.

### Gateway

`req[r]` is the state of a slot for one call in flight:

| pc | where the code is |
|---|---|
| `scheduled` | a streamed call was routed, `StreamingResponse` made, `stream_response` not entered |
| `upstream` | inside `with replica.slot()`, waiting for the worker or suspended at a `yield` |
| `abandoned` | the client is gone, the generator suspended at a `yield` waits for its finalizer |

An action is the code from one `await` to the next: `Call` runs `schedule` and
enters the slot; `OpenStream` runs `schedule`, `StartStream` enters the slot;
`Complete` is `Replica.store` and the release; `Fail`, `CancelStream`,
`DropUnstarted`, `AbandonStream`/`Finalize` are the other ways out. `Route` is
`SessionAffinityRouter.select` branch by branch, `MaySend` being where each
branch may send the call and `Route` what it does to the map. `warm[p][k]` are the sessions
that `lookup` finds in pod p's object for replica k; `Complete` may keep the
session or not and evict any others, which is what `CacheContract` allows with
the tiers forgotten. `home` is the map, per pod or one in Redis; `Observed` and
`SetHome` include Redis' failures, `ForgetHome` TTL and LRU bound, `Restart` a
pod's crash, `LeftoverHomes` what a larger deployment left in Redis.

`LeastLoaded` is the `min` over the key of the code: fewest in flight, then
`free_at_ms`, which no live backend moves, then utilization, then the first of
the list. How full a replica is is not known here, only whether it holds
anything: a later one can win only if every earlier one that ties with it on
the counter does.

`patient` and `servedAt` are history variables of `ReturnsToWarmHome`. A session
is patient if no call of its own was in flight when its last one began
(`NoteCall`). An agent that waits for its answers always is; one whose client
timed out (`bench/live_replay.py:121-123`) calls while the gateway still works
on the call before, and is not until it has called undisturbed again. Nothing
restricts who may call when. `servedAt` is where such a call has left its copy.

### VllmCluster

Each action is an action of `Gateway` together with what the adapter and the
workers do in it, or a step that `Gateway` does not see. `attempt[r]` is the
position in `_fallbacks` of the worker the call waits for, `prefix[w]` what
worker w really has cached, `onWire` the streams that have sent a token,
`stalled` those of them whose client has stopped to read.

| Action | Code |
|---|---|
| `Succeed` | the worker answers; `_result` stores the prefix in the *scheduled* replica |
| `TryNext`, `GiveUp` | `except` branch of the loop of `aexecute`, and the raise after it |
| `Garble` | `response.json()` raises outside the `try`: no further attempt |
| `SendToken` | the first `yield` of `astream`; later ones change nothing here |
| `BreakStream` | any exception of `astream` |
| `LeaveStream` | the client leaves; suspension at a `yield` needs a token sent |
| `ClientStops`, `ClientReads` | the client stops to read, and the generator stays suspended at the `yield` of `gateway.py:325`, or reads on |
| `LosePrefixes` | a worker restarts or evicts (external) |

An attempt can fail at any time, which stands for a worker that is down,
refuses, times out or answers with an error, so there is no separate "down"
state; a timed-out worker may have computed the prefix. The back-off sleep
touches nothing and is merged with the attempt that follows it. `astray` and
`failure` are history variables: what a worker has lost since it last held it, and
what the last call was told.

### SessionStore

`table` is one `OrderedDict`, least recently used first; homes and last-seen
times are two of them with the same code. `Get` is `_get` (an expired entry is
popped, a live one moves to the end with its lifetime unchanged), `Put` is
`_put` and its loop (`Bounded`), or a Redis `SET` with `ex`. A second has
`TicksPerSecond` units, so the `int(ttl_s)` of the Redis store is a division, and
a lifetime of zero is refused by Redis and swallowed. The two comparisons with
the clock differ (`Expired`): `time.time() > expires_at` keeps an entry at its
last moment, Redis does not. `Restart` is a pod's crash for one store and an
emptied Redis for the other. A read or write that Redis fails changes nothing
and is a stutter here; `Gateway` has its effect. `written` and `since` are
history variables. In `SessionMap` a write may forget others, reads may forget,
and what is forgotten is not answered again before it is written again.

### ToolGaps and LiveReplay

`ToolGaps` holds what the gateway keeps between the calls of a session. An EWMA
is reduced to the set of tools whose gaps entered it (`learnt`) and their
number up to `MinObservations`, the state `predict_ms` branches on (`Source`).
`Record` dates an answer by the arrival plus the latency the backend reports,
which for `aexecute` is the time of the last attempt only.

`LiveReplay` runs the sessions of the harness against it. `line` is the FIFO of
the semaphore; `Post` is `client.post`; `Answer`, `Fail` and `TimeOut` are the
ways a call ends for the client, each followed by `MoveOn` (record, then sleep
for the tool or leave the `async with`). `Answer` and `Fail` of a call that nobody
awaits any more are the late completions. The gateway may take any time for any
call, so nothing is assumed of it. `left`, `gaveUp` and `troubled` are history
variables. Time does not pass while a task is due to run: event-loop lag is left out.

### SimReplay

One action, `Step`, is one iteration of the `while` loop of `run_arm`: heap pop,
`prune` of all replicas, `select` of the arm's router (`Rotate`, `Follow`),
`SimulatedBackend.execute`, `pending.append`, push of the next event. `pending`
is, per replica, a set of entries tagged with the number of their call: the list
may hold equal times, and its length is what the router reads. `LeastLoaded` is
the whole key of the code, down to the tokens in HBM (`HbmTokens`, since all
replicas have one capacity) and the order of the list. The predictor only
influences which prefixes survive, and that is open: `Retained` is any outcome
that `CacheContract` allows for the tiers the arm's policy uses (LRU never
parks). `Turns` gives each session's trace its length. Costs are integers per
token. `services` is a history variable.

### Settings and Readiness

An environment is a function from the variables that are set to values: a
number (in tenths where the code reads a float), `Junk` (a string the cast
refuses), `NaN` or `Inf`, which `float` accepts and `int` does not. `Accepted` is
the conjunction of everything `load_settings` would raise for, with comparisons
that NaN passes (`NumberOk`, `NotAbove`), `LoadSettings` the configuration it
then returns. `Sound` is what the ASSUMEs of the other modules need of it:
`CountsSound` of the integers, `TimesSound` of the floats. `TimesInRange` says
which accepted ones are sound: finite floats, and a TTL of at least a second
where Redis counts it in seconds.

`pod[p]` is a pod of the gateway's Deployment. `template` is the ConfigMap it was
made for (the checksum annotation), `env` the one its process has read, which is
the one in force when the container started (`envFrom`). `Boot` is `create_app`,
with `load_settings`, the `PING` of `build_session_store` and the cast of the TTL
for Redis, which raises for NaN and infinity (`Startable`, `AppStarts`); while it
raises, the container is started again, which changes nothing here. `/ready` is two
steps, `AskStore` up to its `await` and `AskWorkers` from there to the response,
after which the pod is in the Service or not (`listed`). `InTime` is the
kubelet's side of it: `aprobe` gathers all its questions, so one hung worker
makes it last as long as its timeout, and the chart leaves the kubelet's at the
default. `CreatePod`, `Replace` and `Crash` are Kubernetes, external, as a
Deployment with the default rolling update behaves; `Renders` is the chart's own
refusal. `Edit`, `RedisTurns` and `WorkerTurns` may happen at any time.

### Validation

`pc` is where `main` is: it launches the workers, awaits each one's `/health`,
and for each arm starts a gateway, awaits port 8299, replays, stops the gateway
and sleeps. `proc` is what the operating system knows of each process, `gateway`
and `Remembered` what the script knows. A process comes up when it likes, or
never, and may die at any time, by itself or because it heeds a SIGINT; that it
heeds one is never assumed, so `stop` is its `kill` (`Kill`). `Abort` is an
interrupt or exception anywhere in the `try`. `FindGateway` accepts whoever
listens, as `wait_http` does. `warm` are the workers that hold the traces'
prompts, `measured` is a history variable.

## 3. Runs

All bounds are CONSTANTS of the cfg files; the ones that are bounds and not
parameters of the program are marked `bound:` where they are declared.

| Run | Question | Bounds |
|---|---|---|
| `replica_adaptive` | budgets, victims, counting, parking and the contract, adaptive policy | 3 sessions, 3 HBM and 2 DRAM tokens, prefixes up to 4, arrivals {0,3}, latencies {0,1}, gaps {0,2,3} with thresholds 1 and 2 |
| `replica_long_call` | *violation*: does a long predicted gap leave HBM? | as above |
| `gateway` | slots, valve and homes under races, streams, evictions, failures, disconnects, restarts; does a session get back to the copy it left? | 3 calls, 2 sessions, 2 replicas, limit 1 |
| `gateway_two_pods` | *violation*: is a shared map enough for two pods? | 2 pods, no Redis faults |
| `vllm_cluster` | does the cluster implement `Gateway`; is every call routed although Redis fails; does every wrong belief have a cause; does a call fail only once its tries are used up, each on another worker; is no stream spliced; does every call end whose client reads or leaves (liveness)? | 2 calls, 1 session, 2 workers, 1 retry, leftover id 3 |
| `session_store` | are answers fresh, is what is used remembered, is the table bounded, is either store the map `Gateway` assumes? | 3 sessions, 2 values, a bound of 2, TTL 3 ticks of half a second, 5 ticks |
| `live_replay` | is admission exact, does a gap start when the agent left, can an old prefix win, does the replay end (liveness)? | sessions of 3 turns and of 1, one permit, tool times 1 and 2, client timeout 2 |
| `live_credit` | *violation*: is an estimate for a tool made of that tool's gaps? | 1 session, 3 turns, 2 tools |
| `sim_replay` | does time run forward, is the load true, are services disjoint, are copies prefixes, is each turn served once (liveness)? | sessions of 3, 3 and 2 turns, 2 replicas, limit 1, tool times 0 and 5, both arms |
| `readiness` | which bad settings can a process run on; is a configuration that can start rolled out after bad ones, crashes and outages; do pods without workers leave (liveness)? | 1 pod wanted, 2 names, 2 workers, 4 environments, 1 crash |
| `validation` | does anything survive the script; is each arm measured through its own gateway; does it end (liveness)? | 2 workers, port 8299 free or taken |
| `validation_cold` | *violation*: does the second arm start on cold caches? | 1 worker |

Why these are enough. Three sessions is the smallest number for which a victim
is chosen among two others; sizes up to 4 include entries larger than either
tier, and sums that miss the budget by one. Gaps and thresholds cover every branch of
`on_release`; latency 1 makes completion and arrival differ; arrivals {0,3}
with `DeadSession` 2 make sessions die and completions come out of order. For the
gateway, a limit of one needs three calls to trip the valve, and two replicas
give the detour somewhere to go and a wrong place to be. Permuted sessions,
calls and pods are symmetric: no action names one; the liveness run uses no
symmetry. The cluster's list of
workers is not cut by `max_retries` with two workers; `RetriesAreExhausted` and
`ClusterImplementsGateway` cover the other sizes.

The baseline policy has no run of its own: every theorem about `ReplicaCache`
is for either policy, and `sim_replay` runs the baseline's router.

For the session store, three sessions against a bound of two evict one that is
live, a TTL of three half seconds is truncated by one of them, and five ticks
let an entry expire and be written again. For the live replay, one permit makes
the sessions queue, and a client timeout no longer than a tool lets an
abandoned call be overtaken by the session's next two; the run has one tool,
because which tool is credited matters to `live_credit` only. For the simulator, a limit of one
with three sessions trips the valve, and three turns are the fewest for which a
detour can leave a copy of one turn at one replica and a copy of another at the
other with a turn still to come that may find either; two sessions have them,
and the run reaches such states in both arms. Tool times 0 and 5 fall on both
sides of a service. What the caches keep is open.

For readiness, one wanted pod surges to two, which is all the names there are;
of the four environments one is good and uses Redis and both workers, one is
refused (a retry count of zero), one is accepted with a threshold that is not a
number and a dead-session time that is infinite, and one is accepted but cannot
start (an infinite TTL with Redis), so a rollout can pass from any to any. A second
crash adds nothing that the first, at any point, does not. For the validation, two workers are the fewest
that are awaited in turn.

Deadlock is checked in every run of the gateway, the caches and the store, where
something can always arrive, and in `readiness`; the two replays and the validation end, and
their runs do not check it.

**Fairness** (`FairClusterSpec`, used by `vllm_cluster` for `EveryCallEnds`):
weak fairness of `ClusterStartStream` (the server pulls every body it accepted,
or the client's departure drops it) and of the finalizer of an abandoned
generator (the event loop's async-generator hooks close what was garbage
collected), and strong fairness of the outcomes of an *attempt*: httpx bounds
every wait for a worker and `max_tokens` the number of reads; any outcome will
do, and that calls end must follow from the finite list of workers. A stream
whose client does not read makes no progress at all (`stalled` disables its
outcomes), which is why the fairness is strong: a client may stop and read on
any number of times, each time with a part of the answer. No fairness is
assumed of clients, neither that they read nor that they leave, and
`EveryCallEnds` names what follows: a stream may stay in its slot as long as its
client stalls. None either of the session map, of the workers' caches or of
crashes.

`FairSpec` of `LiveReplay`, for `ReplayEnds`: weak fairness of the clock and of
each session's own steps (take the permit, resume from the sleep, time out),
which the event loop runs when they are due; none of the gateway's answers or
failures, so the replay must end even if no call is ever answered. `FairSpec` of
`SimReplay`, for `ArmCompletes`: weak fairness of `Next`, a sequential loop.

`FairSpec` of `Readiness`, for `RolloutSettles` and `BrokenPodsLeave`: weak
fairness of the controllers (create, replace), of the kubelet (start a container,
probe it every ten seconds) and of a probe's second half, whose wait is bounded
by `aprobe`'s timeout. None of Redis, of the workers, of crashes or of edits:
`RolloutSettles` asks for a configuration that stays and dependencies that, in
the end, are well enough. `FairSpec` of `Validation`, for `ValidationEnds`: weak
fairness of the script's own steps; its waits have deadlines and its replay ends
(`ReplayEnds`). None of the processes.

## 4. Proofs

`ReplicaCacheProofs`, for every finite set of sessions, every size, capacity
and threshold, both policies:

- `CacheInvariant`: the inductive invariant `CacheInv`, that is types, `OneTier`,
  both budgets and `TierMatchesPrediction`. The last is what makes the rest
  inductive: what the capacity loop evicts from HBM was placed there with a
  prediction below the pin threshold, the policy does not look at the clock, so
  `ParkedVictims` is empty, DRAM is only filled by `Settle` behind its room test,
  and `_trim_dram` never finds anything to do. `HbmBudget`, `DramBudget` and
  `PlacementIsStable` follow from it.
- `ParkedIsSafe` (`ParkedUntilOwnCall`) by the same facts, as an action property.
- `NoPrefixTwice` (`OneTier`) from the same invariant.
- `CacheImplementsContract`: every step of `ReplicaCache` is a step of
  `CacheContract` or a stutter, under the mapping by `lookup`.
- `LeastUrgentGoFirst` (`EvictsLeastUrgent`): what goes is a prefix of an order
  that respects the policy's key, so nothing that stays precedes it strictly. The
  property does not mention the key: under LRU whoever goes was used no later
  than whoever stays, under the adaptive policy the abandoned go first and then
  those due back latest.
- `NoneGoesInVain` (`EvictsOnlyUnderPressure`), of every victim: what goes is the
  shortest prefix of the order that fits, so with a victim and those that are not
  to go before it put back the tier would be over its budget.
- `CountingIsExact` (`LossesAreCounted`): each branch of `Settle` counts what it
  discards or parks, and each victim is counted once.
- `OnlyServedAreFound`: a call leaves nothing in the cache that was not there
  or its own session, which is what `Complete` of `Gateway` and `Retained` of
  `SimReplay` take for granted of a cache.
- `BaselineParksNothing`: under LRU host DRAM stays empty.
- `LongGapsLeaveHbm`: a session whose predicted gap exceeds the pin threshold by
  more than the longest latency does leave HBM. So the rule that
  `replica_long_call` refutes is missed by the latency of the call and by no
  more; `PromptCallsLeaveHbm` is the rule itself, for calls that take no time.

`GatewayProofs`, for any number of calls, sessions, pods and replicas:

- `SlotAccounting`: `active[p][k] = Cardinality(Holders(p, k))` on every path.
  The invariant carries types along; each action adds one holder, removes one,
  or leaves the set alone, and the `max(0, ...)` of the release never bites.
- `GatewayTypes` (`TypeOK`) from the same invariant.
- `LoadValve` (`AffinityDepth`). It needs `SlotAccounting`: the test reads the
  counter, the property counts the calls that were sent by affinity and are not
  streamed. A stream that starts late only makes the test stricter.
- `EveryCallFindsAReplica` (`EveryCallIsRouted`): `LeastLoaded` of a finite set
  that is not empty is not empty (a minimum of the counters exists), and an id
  that some other deployment left in Redis is not followed unless it is a
  replica's; so `select` returns for every pod, session and answer of the map.
- `OnlyAnotherPodRehomes`: what `gateway_two_pods` shows has no other cause. With
  no assumption on the store, a warm home moves only in a new call, made at another pod
  on the same map whose own replica lacks the session, or under a Redis failure.
- `WarmHomesStay` (`WarmHomeIsKept`) and `SessionsReturn` (`ReturnsToWarmHome`),
  both under `OneOwner`: the store does not fail and no two pods share a map.
  That is the single-pod deployment, or several with a map of their own. The assumption is
  necessary: `gateway_two_pods` violates the first without it. For the second
  the inductive invariant (`HomeInv`) says that a patient session has one call in
  flight (`OneAtATime`), that such a call, if it is not a detour, goes to the
  session's home (`PlacedAtHome`), and that a copy noted in `servedAt` is at the
  home and warm (`CopiesAtHome`). Races, detours and failures change none of the
  three, and a call that overlaps makes its session impatient and leaves a copy
  that is already at its home alone.

`VllmClusterProofs`, for any number of workers, retries, calls, sessions and pods:

- `ClusterImplementsGateway`: every step of the cluster is a step of `Gateway`
  or leaves its variables alone; `ClusterSlotAccounting` follows from it and
  `SlotAccounting`, `ClusterRouting` (load valve and routing) and `ClusterHomes`
  (under `OneOwner`) from it and the theorems above.
- `TriesAreFresh`: the attempts of a call so far are that many distinct workers,
  and a stream's is the scheduled one.
- `AttemptsAreInOrder` (`ClusterTypeOK`): attempts are counted exactly while a
  call is upstream, never more than `Tries`.
- `NoSplicedStreams` (`StreamsAreNotSpliced`): the attempt of a call that has sent
  a token ends or stays what it is. The invariant also has `StreamsTryOnce`, which
  is what the code does and not what its docstring says (section 5), so no run
  asks for it.
- `RetriesAreExhausted`: `Fallback(k, _)` is injective, stays within the workers
  and covers them (`TriesDistinct`, `TriesCover`); the invariant adds that a
  call makes an attempt, numbered within `Tries`, exactly while it is upstream.
- `BeliefsHaveCauses`: inductive with the types: beliefs grow only in `Succeed`,
  which notes the booking; prefixes shrink only in `LosePrefixes`, which notes the loss.

`SessionStoreProofs`, for any sessions, values, bound, TTL and clock unit, both stores:

- The inductive invariant `IInv` adds three facts to the types and the bound:
  the table agrees with the last writes (`Agrees`), it is ordered by use, so the
  sessions behind an entry are among those used since its own (`InOrder`), and a
  session that was written and is missing has been crowded out by at least
  `MaxSessions` others or has expired (`MissingIsCrowdedOut`, `WrittenIsThere`).
  `RemembersRecent` is the contrapositive, and needs the order although it does
  not mention it.
- `StoreTypes` (`StoreTypeOK`, with the bound, which `MemoryIsBounded` states on
  its own), `AnswersAreFresh`; `RecentIsRemembered`, which
  assumes a TTL of at least one second, as Redis remembers nothing below it.
- `StoreImplementsMap`: every step of `SessionStore` is a write, a loss or a
  stutter of `SessionMap`. In particular expiry never revives an answer: an
  entry keeps its deadline until it is written again.

`SimReplayProofs`, for any trace, costs, number of replicas and either arm:

- The invariant `SimInv` ties each replica's `freeAt` and each agent's next
  event to the services so far: no service ends after the one, and a session's
  next call is not dated before its last answer. From it `OneThingAtATime`
  (`NoOverlap`), `CopiesArePrefixes` (`HitsAreWhole`: transcripts only grow) and
  `ClockRunsForward` (`TimeRunsForward`: no event is dated before the present).
- `LoadIsTrue` (`LoadIsReal`): the entries of `pending` and the computations that
  are not over correspond one to one (`LoadInv`): no two services of a replica
  end at once, because each takes time and waits for the one before it.
- `ArmsDoTheSameWork`, the safety half of `ArmCompletes`: the turns served so far
  are those before each session's event in the heap, so none is computed twice
  and an empty heap means all. Both arms of an A/B have done the same work.
- `TheHeapDecides`: `seq` makes the order of the heap strict, so there is always
  exactly one next event.
- `SimKeepsContract`: every replica of the simulation implements `CacheContract`,
  as `ReplicaCache` does (`CacheImplementsContract`).

`LiveReplayProofs`, for any sessions, traces, durations, concurrency and timeout:

- `AdmissionHolds` (`AdmissionIsExact`): permits and admitted sessions move in
  opposite directions in `Begin` and `MoveOn` alone.
- `GapsStartAtLeaving` (`GapsAreMeasured`) and `PrefixesAdvance`
  (`NewestPrefixWins`) from an invariant that relates a session to the calls the
  gateway still works on: none is ahead of the session's turn, every one but the
  awaited was given up, and an agent that is away without trouble has none.
- A second invariant, `ReplayInv`, adds the harness's records and what the
  gateway has learnt. From it `TurnsAreRecorded`, the safety half of
  `ReplayEnds` (one record per turn, however the turn ended); `ReplayGoesOn`
  (as long as a session is not done, one can be admitted, a step is due or time
  has to pass: permits are never lost); and `HistoriesAreOfPredecessors`: the
  history of a tool holds the gaps of the tools that ran just before it. That is
  the cause of the finding of `live_credit`, and `OneToolEstimates`
  says it is the only one: where each session keeps to one tool,
  `EstimatesAreOfTheTool` holds.

`ReadinessProofs`: `AcceptedIsSound`, of every environment there is: one that
`load_settings` accepts always gives sound counts, and sound times exactly if they
are in range (`TimesInRange`). From it `UsableSettings` (`RunsOnUsableSettings`)
through every edit, rollout and crash: what a process runs on has sound counts, a
TTL that its store can be given and, if they are in range, sound times.
`CurrentPodsRunIt`: a running pod of the current template has read the current
configuration, provided that no edit goes back to the template of a pod that
still exists (`FreshEdit`, about the person who edits; see section 5 for what
happens without it).

`ValidationProofs`, for any number of workers: `StopsEverything`
(`NothingSurvives`), because whatever lives and is no worker is the gateway that
the script's variable names; and `ArmsAreSeparate` (`ArmsAreTheirOwn`), because
between the arms no gateway lives and only a live one listens. `SecondInheritsFirst`
is what can be said for the cool-down that `validation_cold` refutes: the first
arm starts cold, and the second finds warm caches only if the first was answered
by its own gateway.

Where a run checks no type invariant of its module (the replica cache, the two
replays, readiness, validation), the types are the first part of the invariant
proved here: `TypeOK`, `LiveTypes`, `SimTypes`, `ReadinessTypeOK`, `ValidationTypeOK`.

They rest on the ASSUMEs of the modules (finite sets, naturals, the ranges of
the settings), which TLC evaluates in every run, and on no axiom. The ranges of
the counts are enforced at startup, those of the times but for NaN, infinity and
a TTL of part of a second: that is `AcceptedIsSound`. A process that was given
one of these is outside what the other modules say (`CachePolicy` and
`SessionStore` assume numbers).

Every invariant and every action property of a run that passes is the statement
of a theorem. Only model-checked are the liveness properties `EveryCallEnds`,
`ReplayEnds`, `ArmCompletes`, `RolloutSettles`, `BrokenPodsLeave` and
`ValidationEnds`: fairness is outside what TLAPS supports. Of the two replays
the safety halves are proved (what holds when they end, and that they are not
stuck before). What the learnt EWMAs converge to is neither checked nor proved.

## 5. Where the code and what is said of it disagree

Each is a run that expects a violation; `PROJECT.json` quotes the lines.

1. `LongGapLeavesHbm`: the return is predicted from arrival, the idle time is
   counted from completion, so long calls pin prefixes whose gap is above the threshold.
2. `WarmHomeIsKept` with two pods: a shared map overridden by private beliefs. Two
   overlapping calls of a session leave its home and its copy at replica 1 of the
   first pod. A call through the second pod finds nothing there, both of that pod's
   replicas are idle, and the tie gives it replica 0. A home at replica 0, as in
   tests/test_gateway.py:143-154, survives by the same tie.
3. `SecondArmStartsCold`: between the arms of the hardware A/B only the gateway is
   replaced; the workers keep the first arm's prompts, and the treatment runs second.
4. `EstimatesAreOfTheTool`: a gap is credited to the tool that the next call
   names, not to the one that ran.

Met while modelling and visible in the modules, without a run of their own:

- After a failover the response, the slot and the cache entry name the
  scheduled replica, not the worker that served (`Succeed`; `vllm.py:85,94`),
  while README.md:170 says the response carries the replica served.
- `_fallbacks` is cut to `1 + max_retries`, after which the call fails with "all
  vLLM workers failed" although others were never asked (`Tries`).
- Nothing but its own session's next call removes an entry from DRAM, so a
  session that is gone for good keeps its place (`ParkedIsSafe` proves it) and
  later offloads are discarded, although policy.py:6-8 says that dead sessions
  are dropped (`Settle`; `replica.py:109`).
- A stream tests the load valve when it is routed and is counted when the server
  first pulls on its body, so several can pass the test before one is counted:
  `AffinityDepth` bounds the calls that are not streamed (`OpenStream`,
  `StartStream`; `gateway.py:314`).
- `astream` has one attempt, a refused connection included (`ClusterStartStream`,
  `BreakStream`; `vllm.py:171`), while its docstring (`vllm.py:162-163`) says
  "Failover covers connection setup only". What both agree on, that nothing is
  tried again once bytes are on the wire, is `StreamsAreNotSpliced`.
- A client that keeps its connection and stops to read holds its slot for as long
  as it likes (`ClientStops`; `gateway.py:325`): nothing in the code bounds the
  suspension at a `yield`. `EveryCallEnds` names it as the one exception.
- Overlapping first calls of a session scatter: no replica is known to hold it
  until one completes (`Route`; `router.py:53`), while
  `test_concurrent_same_session_stays_on_one_replica` (tests/test_concurrency.py:115)
  says otherwise of a backend that never awaits.
- A session TTL below one second passes validation and makes every Redis write
  fail silently (`Put`, `TimesInRange`; `state.py:92`), while settings.py:5 says bad
  values fail at startup; `RecentIsRemembered` has to exclude it.
- A failed call leaves the belief that its replica is warm, so affinity keeps
  sending a session to a worker that is gone (`BreakStream` changes no `warm`).
- NaN and infinity are accepted for any threshold or time but the EWMA's alpha:
  every comparison with NaN is false, and infinity is positive (`NumberOk`,
  `NotAbove`; `settings.py:27,116`), while settings.py:5 says that bad values fail at
  startup. The run `readiness` has processes that run on both.
- With Redis an infinite or NaN TTL does stop the process, but not where it is
  read: `int(ttl_s)` raises a bare `OverflowError` or `ValueError` after the `PING`
  (`Startable`; `state.py:92`), which does not name the
  variable (against settings.py:5-6).
- When Redis fails, every pod's `/ready` does, and the Service is empty although
  each pod could still serve (`AskStore`; `gateway.py:123-125`). Against it speak
  README.md:244-246 ("the gateway degrades to a cache miss rather than raising: it
  sits on the hot path for every agent call and must not become a new way for
  inference to fail"), gateway.py:9-10 ("a failure in our own machinery degrades to
  a cache miss, never to a failed request") and state.py:83-86. `BrokenPodsLeave`
  therefore does not ask a pod to leave because Redis is gone; in the model it does.
- One worker that hangs makes `aprobe` take its two seconds, longer than the
  kubelet waits by default, so no pod is ready (`InTime`; `vllm.py:211`), while
  `aprobe` says "Losing some workers is degraded, not down". `RolloutSettles`
  has to exclude it.
- Where Redis and the workers fail by turns, a probe that asked the store before
  the turn and the workers after it can find a pod ready that never was whole
  (`AskStore`, `AskWorkers`; `gateway.py:123-125`); `BrokenPodsLeave` speaks of
  the workers only.
- The checksum annotation follows the ConfigMap, but a container that starts or
  restarts during a rollout reads the new ConfigMap under the old template; after a
  rollback the pod counts as current and keeps the wrong settings (`Crash`,
  `Boot`; `deployment.yaml:22,32-33`). `CurrentPodsRunIt` has to exclude the
  rollback, and needs nothing else.
- With one gateway and no Redis, which the chart permits, a rolling update runs
  two pods with maps of their own for a while (`CreatePod`).
- `wait_http` takes any server on port 8299 for its gateway, so an arm can be
  measured through a stranger (`FindGateway`; `gpu_validate.py:196`).

## 6. Not modelled

- The EWMA arithmetic, token counting, trace sampling, percentiles and tables:
  data without control.
- `/metrics` and `/debug/sessions`: they read dicts in a worker thread while the
  event loop changes them, between two bytecodes of one `store`; every module
  here takes `store` as one step, as the event loop does, and what the thread
  sees depends on the interpreter.
- The synchronous Redis calls of the store and of `/ready`'s scan block the event
  loop for as long as Redis lets them; time is not modelled in `Gateway`.
- The baseline router behind the live gateway: it keeps a counter and asks
  nothing; `SimReplay` has it.
- `Gateway` with `SessionStore` in place of its map: `SessionStore` implements
  `SessionMap`, and `Gateway` lets any home be forgotten at any time, which is more.
- The request checks, the API key, HTTP and SSE formatting, the Prometheus registry.
- A second interrupt while the validation script stops its processes, and a
  SIGTERM, which Python does not turn into an exception: either leaves them running.
- The notebook, which calls the script; `integration_check.py`, a straight-line
  test; `mock_vllm.py`, the stand-in for the external worker.
