----------------------------- MODULE ReplicaCache -----------------------------
(***************************************************************************)
(* The two-tier KV cache a gateway keeps for one replica                   *)
(* (agentserve/replica.py): Replica.store with the retention policy, the   *)
(* demotion to host DRAM and the capacity loop it runs to completion.      *)
(*                                                                         *)
(* Replica methods never await, so each call is one atomic step of the     *)
(* event loop.  Calls may come with any completion time: vLLM reports the  *)
(* time of the attempt that succeeded, so a call that spent long in failed *)
(* attempts is stored with a time that lies in the past.  Hence there is   *)
(* no clock here, every call brings its own `now'.                         *)
(***************************************************************************)
EXTENDS CachePolicy, FiniteSets

CONSTANTS
  Sessions,          \* session ids seen by this replica
  GpuCacheTokens,    \* HardwareProfile.gpu_cache_tokens
  DramCacheTokens,   \* HardwareProfile.dram_cache_tokens
  MaxEntryTokens,    \* bound: the longest prompt plus completion
  Arrivals,          \* bound: times at which requests arrive (now_ms)
  Latencies,         \* bound: measured latencies (elapsed_ms)
  Gaps               \* bound: predicted gaps (gap_ms)

ASSUME ReplicaAssumption ==
  /\ IsFiniteSet(Sessions)
  /\ GpuCacheTokens \in Nat
  /\ DramCacheTokens \in Nat
  /\ MaxEntryTokens \in Nat
  /\ Arrivals \subseteq Nat
  /\ Latencies \subseteq Nat
  /\ Gaps \subseteq Nat

VARIABLES
  gpu,    \* entry of each session in HBM
  dram,   \* entry of each session in host DRAM
  added,  \* what the last call of store added to the statistics
  call    \* history: the last call of store
vars == <<gpu, dram, added, call>>

(***************************************************************************)
(* Tiers.  A dict from session to entry is a function on Sessions whose    *)
(* value is Absent outside the dict; a stored entry has at least one token *)
(* because the tokenizer never counts a prompt as empty.                   *)
(***************************************************************************)
Entries == [tokens : 0..MaxEntryTokens, touch : Nat, ret : Nat]
Absent  == [tokens |-> 0, touch |-> 0, ret |-> 0]

Held(tier) == {s \in Sessions : tier[s].tokens > 0}

\* The token slots a tier occupies: their number is the sum of the tokens of
\* its entries.
TokenSlots(tier) ==
  {slot \in Sessions \X (1..MaxEntryTokens) : slot[2] <= tier[slot[1]].tokens}
TokensIn(tier) == Cardinality(TokenSlots(tier))

Without(tier, gone) == [s \in Sessions |-> IF s \in gone THEN Absent ELSE tier[s]]
With(tier, new, from) == [s \in Sessions |-> IF s \in new THEN from[s] ELSE tier[s]]

(***************************************************************************)
(* Eviction.  An order lists the sessions of a tier in the order in which  *)
(* the code gives them up; the loop stops at the first prefix whose        *)
(* removal brings the tier within its capacity.                            *)
(***************************************************************************)
Orders(tier, Before(_, _)) ==
  LET n == Cardinality(Held(tier))
  IN  {order \in [1..n -> Held(tier)] :
         \A i, j \in 1..n :
           i < j => order[i] # order[j] /\ ~Before(tier[order[j]], tier[order[i]])}

First(order, n) == {order[i] : i \in 1..n}

\* Mutant: the loop does not stop when the tier fits.
WithoutBreak(tier, capacity, order, n) ==
  TokensIn(Without(tier, First(order, n))) <= capacity

IsShortestPrefix(tier, capacity, order, n) ==
  /\ TokensIn(Without(tier, First(order, n))) <= capacity
  /\ \A m \in 0..(n - 1) : TokensIn(Without(tier, First(order, m))) > capacity

\* Mutant: the sort is not reversed.
VictimOrdersAscending(tier, now) ==
  Orders(tier, LAMBDA e, f : EvictsBefore(f, e, now))

VictimOrders(tier, now) ==
  Orders(tier, LAMBDA e, f : EvictsBefore(e, f, now))

\* _trim_dram gives up the oldest touch first.
TouchOrders(tier) == Orders(tier, LAMBDA e, f : e.touch < f.touch)

\* Mutants: the new entry is left out of the test; there is no test.
HasRoomBefore(tier, entry) == TokensIn(tier) <= DramCacheTokens
HasRoomAlways(tier, entry) == TRUE

HasRoom(tier, entry) == TokensIn(tier) + entry.tokens <= DramCacheTokens

\* _demote, for the victims at 1..n of the order: one that the policy would
\* offload is parked iff there is room beside those parked before it.
ParkedVictims(g, d, order, n) ==
  {parked \in SUBSET First(order, n) :
     \A i \in 1..n :
       order[i] \in parked <=>
         /\ OnRelease(g[order[i]]) = "offload_dram"
         /\ HasRoom(With(d, parked \cap First(order, i - 1), g), g[order[i]])}

\* _enforce_capacity at time now from tiers g and d, with the statistics e and
\* o (evictions and offloads) that the call has added so far.  _trim_dram runs
\* last, on whatever _demote has parked.
EnforceCapacity(g, d, now, e, o) ==
  \/ /\ TokensIn(g) <= GpuCacheTokens
     /\ gpu' = g
     /\ dram' = d
     /\ added' = [evictions |-> e, offloads |-> o]
  \/ /\ TokensIn(g) > GpuCacheTokens
     /\ \E order \in VictimOrders(g, now), n \in 0..Cardinality(Held(g)) :
          /\ IsShortestPrefix(g, GpuCacheTokens, order, n)
          /\ gpu' = Without(g, First(order, n))
          /\ \E parked \in ParkedVictims(g, d, order, n) :
               LET filled == With(d, parked, g)
               IN  \E touched \in TouchOrders(filled), m \in 0..Cardinality(Held(filled)) :
                     /\ IsShortestPrefix(filled, DramCacheTokens, touched, m)
                     /\ dram' = Without(filled, First(touched, m))
                     /\ added' = [evictions |-> e + n - Cardinality(parked) + m,
                                  offloads |-> o + Cardinality(parked)]

(***************************************************************************)
(* Replica.store of an entry for session s; now is its touch.              *)
(***************************************************************************)

\* Mutants: no capacity loop after a pin; what finds no room in DRAM stays in
\* HBM; a prefix lost for want of room is not counted.
SettleUnchecked(g, d, s) ==
  \/ /\ OnRelease(g[s]) = "pin_gpu"
     /\ gpu' = g /\ dram' = d
     /\ added' = [evictions |-> 0, offloads |-> 0]
  \/ /\ OnRelease(g[s]) # "pin_gpu"
     /\ EnforceCapacity(Without(g, {s}), d, g[s].touch, 1, 0)

SettleUnparked(g, d, s) ==
  \/ /\ OnRelease(g[s]) = "drop"
     /\ EnforceCapacity(Without(g, {s}), d, g[s].touch, 1, 0)
  \/ /\ OnRelease(g[s]) # "drop"
     /\ EnforceCapacity(g, d, g[s].touch, 0, 0)

SettleUncounted(g, d, s) ==
  \/ /\ OnRelease(g[s]) = "pin_gpu"
     /\ EnforceCapacity(g, d, g[s].touch, 0, 0)
  \/ /\ OnRelease(g[s]) # "pin_gpu"
     /\ EnforceCapacity(Without(g, {s}), d, g[s].touch, 0, 0)

\* g and d are the tiers once the entry is installed on the GPU and popped
\* from DRAM.
Settle(g, d, s) ==
  \/ /\ OnRelease(g[s]) = "pin_gpu"
     /\ EnforceCapacity(g, d, g[s].touch, 0, 0)
  \/ /\ OnRelease(g[s]) = "drop"
     /\ EnforceCapacity(Without(g, {s}), d, g[s].touch, 1, 0)
  \/ /\ OnRelease(g[s]) = "offload_dram"
     /\ HasRoom(d, g[s])
     /\ EnforceCapacity(Without(g, {s}), With(d, {s}, g), g[s].touch, 0, 1)
  \/ /\ OnRelease(g[s]) = "offload_dram"
     /\ ~HasRoom(d, g[s])
     /\ EnforceCapacity(Without(g, {s}), d, g[s].touch, 1, 0)

\* Mutant: the DRAM copy is not popped.
StoreTwice(s, entry) == Settle([gpu EXCEPT ![s] = entry], dram, s)

Store(s, entry) ==
  Settle([gpu EXCEPT ![s] = entry], Without(dram, {s}), s)

\* The call as the gateway makes it: the request arrived at `arrival', was
\* served in `elapsed', and its session is predicted to come back a `gap'
\* later.
Serve(s, tokens, arrival, elapsed, gap) ==
  LET entry == [tokens |-> tokens, touch |-> arrival + elapsed, ret |-> arrival + gap]
  IN  /\ Store(s, entry)
      /\ call' = [session |-> s, entry |-> entry, gap |-> gap]

Init ==
  /\ gpu = [s \in Sessions |-> Absent]
  /\ dram = [s \in Sessions |-> Absent]
  /\ call \in [session : Sessions, entry : {Absent}, gap : {0}]
  /\ added = [evictions |-> 0, offloads |-> 0]

Next ==
  \E s \in Sessions, tokens \in 1..MaxEntryTokens,
     arrival \in Arrivals, elapsed \in Latencies, gap \in Gaps :
       Serve(s, tokens, arrival, elapsed, gap)

Spec == Init /\ [][Next]_vars

\* Replica.lookup: the tier holding the session.
Lookup(s) == IF s \in Held(gpu) THEN "gpu" ELSE IF s \in Held(dram) THEN "dram" ELSE "miss"

(***************************************************************************)
(* Properties                                                              *)
(***************************************************************************)

\* The tiers are dicts of entries.
TypeOK ==
  /\ gpu \in [Sessions -> Entries]
  /\ dram \in [Sessions -> Entries]

\* A session's prefix is never charged to both tiers (Replica.store pops the
\* DRAM copy, _demote the GPU copy).
OneTier == Held(gpu) \cap Held(dram) = {}

\* Between calls the replica is within its KV budget, whatever was stored and
\* in whatever order (_enforce_capacity).
GpuWithinBudget == TokensIn(gpu) <= GpuCacheTokens

\* Host DRAM is never over-committed (_demote's room test, _trim_dram).
DramWithinBudget == TokensIn(dram) <= DramCacheTokens

\* Between calls an entry sits in the tier its own prediction calls for: only
\* imminent returns in HBM, only medium gaps in DRAM, nothing that should have
\* been dropped.  So what pressure evicts from HBM is never offload material.
TierMatchesPrediction ==
  /\ \A s \in Held(gpu) : OnRelease(gpu[s]) = "pin_gpu"
  /\ \A s \in Held(dram) : OnRelease(dram[s]) = "offload_dram"

\* Every prefix that is lost is counted and nothing else is: store raises
\* `evictions' by the number of sessions it leaves without a copy (its own
\* included) and `offloads' by the number it moves to DRAM.
LossesAreCounted ==
  [][LET s == call'.session
         resident == Held(gpu') \cup Held(dram')
     IN  /\ added'.evictions =
              Cardinality((Held(gpu) \cup Held(dram) \cup {s}) \ resident)
         /\ added'.offloads =
              Cardinality(Held(dram') \ (Held(dram) \ {s}))]_vars

\* What HBM holds while _enforce_capacity looks for victims, and the victims
\* of the step that was just taken.
Contenders ==
  [gpu EXCEPT ![call'.session] =
     IF OnRelease(call'.entry) = "pin_gpu" THEN call'.entry ELSE Absent]
Victims == Held(Contenders) \ Held(gpu')

\* Memory pressure gives up the least urgent sessions, the one just served
\* included: under the baseline no session goes before one touched earlier; under
\* the adaptive policy none goes before one that is abandoned and, among those
\* that are not, none before one that is predicted to return later
\* (victim_order, _enforce_capacity).
EvictsLeastUrgent ==
  [][LET now == call'.entry.touch
         abandoned(e) == e.touch + DeadSession < now
     IN  \A victim \in Victims, other \in Held(gpu') :
           LET lost == Contenders[victim]
               kept == gpu'[other]
           IN  /\ Policy = "lru" => lost.touch <= kept.touch
               /\ Policy = "adaptive" /\ abandoned(kept) => abandoned(lost)
               /\ Policy = "adaptive" /\ ~abandoned(lost) => lost.ret >= kept.ret]_vars

\* No prefix leaves HBM without need: were a victim, and those that are not to
\* go before it, still there, the replica would be over its budget (the break
\* of _enforce_capacity).
EvictsOnlyUnderPressure ==
  [][\A v \in Victims :
       LET notBefore ==
             {u \in Victims :
                ~EvictsBefore(Contenders[u], Contenders[v], call'.entry.touch)}
       IN  TokensIn(With(gpu', notBefore, Contenders)) > GpuCacheTokens]_vars

\* A call for one session never disturbs what is parked for another: a DRAM
\* entry stays, unchanged, until its own session is served again.
ParkedUntilOwnCall ==
  [][\A s \in Held(dram) \ {call'.session} : dram'[s] = dram[s]]_vars

Contract == INSTANCE CacheContract WITH tier <- [s \in Sessions |-> Lookup(s)]

\* The cache keeps its promise to the router and the backends: a call changes
\* the tier of its own session, and of others only from HBM to nowhere, which
\* parking a prefix in DRAM never causes.
ImplementsContract == Contract!Spec

\* What PolicyConfig and the README say of the thresholds: when a response is
\* sent and the session is predicted to stay away for longer than
\* pin_threshold_ms, its prefix does not stay in HBM.
LongGapLeavesHbm ==
  [][call'.gap > PinThreshold => call'.session \notin Held(gpu')]_vars
=============================================================================
