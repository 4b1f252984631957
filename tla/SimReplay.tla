------------------------------- MODULE SimReplay -------------------------------
(***************************************************************************)
(* The benchmark of bench/replay.py: a discrete-event simulation of agent  *)
(* sessions over the cost model of agentserve/backends/simulated.py, with  *)
(* either of the two routers of agentserve/router.py.                      *)
(*                                                                         *)
(* run_arm is a sequential loop over a heap of events, one per session     *)
(* with calls left.  One iteration is one action: the event is popped, the *)
(* completed calls are pruned, a replica is selected, the call executed    *)
(* and the session's next event pushed.  Which prefixes a replica keeps is *)
(* left to CacheContract, so predictions play no part here.                *)
(***************************************************************************)
EXTENDS Integers, FiniteSets

CONSTANTS
  Sessions,
  NumReplicas,     \* ClusterConfig.replicas
  QueueLimit,      \* PolicyConfig.affinity_queue_limit
  Unhomed,         \* no home in the session map (Python's None)
  PrefillCost, DecodeCost, RestoreCost,   \* HardwareProfile, per token
  Arrivals,        \* bound: arrival times of sessions
  FirstPrompts,    \* bound: tokens of a first prompt
  Outputs,         \* bound: tokens of an answer
  ToolResults,     \* bound: tokens a tool adds to the transcript
  ToolTimes,       \* bound: durations of a tool call
  Turns            \* len(trace.turns) of each session's trace

Replicas == 0..(NumReplicas - 1)

ASSUME SimAssumption ==
  /\ IsFiniteSet(Sessions)
  /\ NumReplicas \in Nat \ {0}
  /\ QueueLimit \in Nat
  /\ Unhomed \notin Replicas
  /\ PrefillCost \in Nat \ {0} /\ DecodeCost \in Nat \ {0} /\ RestoreCost \in Nat \ {0}
  /\ Arrivals \subseteq Nat /\ ToolTimes \subseteq Nat /\ ToolResults \subseteq Nat
  /\ FirstPrompts \subseteq Nat \ {0} /\ Outputs \subseteq Nat \ {0}
  /\ Turns \in [Sessions -> Nat \ {0}]

VARIABLES
  affinity,   \* which arm runs: SessionAffinityRouter or RoundRobinRouter
  now,        \* the time of the event being handled
  queue,      \* the heap: the next call of each session, at, seq, session and turn
  pushed,     \* the number of events pushed so far (seq)
  prompt,     \* tokens of the prompt of each session's next turn
  cursor,     \* RoundRobinRouter._cursor; bound: modulo NumReplicas
  home,       \* the session map of the affinity router
  cached,     \* tokens and tier of each session's prefix on each replica
  freeAt,     \* Replica.free_at_ms
  pending,    \* Replica.pending: for each entry the call it is for and its time
  requests,   \* RunStats.requests
  services    \* history: what each replica computed for whom and when
vars == <<affinity, now, queue, pushed, prompt, cursor, home, cached, freeAt,
          pending, requests, services>>

Larger(a, b) == IF a > b THEN a ELSE b
Smaller(a, b) == IF a < b THEN a ELSE b

(***************************************************************************)
(* The heap orders events by time, then by the order of their pushes.      *)
(***************************************************************************)
\* Mutant: the latest push comes first.
IsNextLifo(e) == \A f \in queue : f.seq <= e.seq

IsNext(e) ==
  /\ e \in queue
  /\ \A f \in queue : e.at < f.at \/ (e.at = f.at /\ e.seq <= f.seq)

(***************************************************************************)
(* Replicas.                                                               *)
(***************************************************************************)
Missing == [tier |-> "miss", tokens |-> 0]

\* Mutant: nothing is pruned.
PrunedNever(k, time) == pending[k]

\* Replica.prune: what is left at a time.
Pruned(k, time) == {c \in pending[k] : c.done > time}

Inflight(k, time) == Cardinality(Pruned(k, time))

HbmTokens(k) ==
  Cardinality(UNION {{s} \X (1..cached[k][s].tokens) :
                       s \in {t \in Sessions : cached[k][t].tier = "gpu"}})

\* _least_loaded: the smallest load, then the soonest to be free, then the least
\* utilized; of equals min takes the first of the list.
LeastLoaded(candidates, time) ==
  LET key(k) == <<Inflight(k, time), Larger(freeAt[k], time), HbmTokens(k), k>>
      precedes(j, k) ==
        \E i \in 1..4 : /\ key(j)[i] < key(k)[i]
                       /\ \A h \in 1..(i - 1) : key(j)[h] = key(k)[h]
  IN  CHOOSE k \in candidates : \A j \in candidates \ {k} : precedes(k, j)

\* The others, or all if there are no others.
Besides(k) == IF Replicas \ {k} = {} THEN Replicas ELSE Replicas \ {k}

\* RoundRobinRouter.select.
Rotate(k) ==
  /\ ~affinity
  /\ k = cursor
  /\ cursor' = (cursor + 1) % NumReplicas
  /\ UNCHANGED home

\* SessionAffinityRouter.select.
Follow(s, k, time) ==
  LET warm == home[s] # Unhomed /\ cached[home[s]][s].tier # "miss"
  IN  /\ affinity
      /\ \/ /\ warm /\ Inflight(home[s], time) <= QueueLimit
            /\ k = home[s]
            /\ UNCHANGED home
         \/ /\ warm /\ Inflight(home[s], time) > QueueLimit
            /\ k = LeastLoaded(Besides(home[s]), time)
            /\ UNCHANGED home
         \/ /\ ~warm
            /\ k = LeastLoaded(Replicas, time)
            /\ home' = [home EXCEPT ![s] = k]
      /\ UNCHANGED cursor

Kept(k, s, tokens, tier, evicted) ==
  [t \in Sessions |->
     IF t = s THEN IF tier = "miss" THEN Missing ELSE [tier |-> tier, tokens |-> tokens]
     ELSE IF t \in evicted THEN Missing ELSE cached[k][t]]

\* What a replica may keep after a call of s whose prefix has grown to tokens
\* (Serve of CacheContract): s may end in any tier that the arm's policy uses,
\* and others may lose their place in HBM unless s goes to DRAM.
Retained(k, s, tokens) ==
  LET tiers == IF affinity THEN {"gpu", "dram", "miss"} ELSE {"gpu", "miss"}
      others == {t \in Sessions \ {s} : cached[k][t].tier = "gpu"}
  IN  {Kept(k, s, tokens, tier, {}) : tier \in tiers}
        \cup {Kept(k, s, tokens, tier, evicted) :
                tier \in tiers \ {"dram"}, evicted \in SUBSET others}

(***************************************************************************)
(* SimulatedBackend.execute.                                               *)
(***************************************************************************)
Reusable(k, s) == Smaller(cached[k][s].tokens, prompt[s])

ServiceTime(k, s, output) ==
  (IF cached[k][s].tier = "dram" THEN Reusable(k, s) * RestoreCost ELSE 0)
    + (prompt[s] - Reusable(k, s)) * PrefillCost + output * DecodeCost

\* Mutant: a call does not wait for the one before it.
StartAtOnce(k, time) == time

\* When the replica gets to a call that arrives now.
StartTime(k, time) == Larger(freeAt[k], time)

\* Mutant: the answer is counted twice in the stored prefix.
StoredTwice(s, output) == prompt[s] + 2 * output

StoredTokens(s, output) == prompt[s] + output

\* When the session comes back from a tool that takes `tool'.
NextAt(k, s, output, tool, time) ==
  StartTime(k, time) + ServiceTime(k, s, output) + tool

\* Mutant: a turn is skipped.
FollowingTwo(e, time) ==
  [at |-> time, seq |-> pushed, session |-> e.session, turn |-> e.turn + 2]

\* The event of a session's next turn.
Following(e, time) ==
  [at |-> time, seq |-> pushed, session |-> e.session, turn |-> e.turn + 1]

\* One iteration of run_arm.  The answer, the tool and its result stand for
\* the turn of the trace; the last turn has no tool.
Step(e, k, output) ==
  LET s == e.session
      done == StartTime(k, e.at) + ServiceTime(k, s, output)
  IN  /\ IsNext(e)
      /\ now' = e.at
      /\ Rotate(k) \/ Follow(s, k, e.at)
      /\ freeAt' = [freeAt EXCEPT ![k] = done]
      /\ \E kept \in Retained(k, s, StoredTokens(s, output)) :
           cached' = [cached EXCEPT ![k] = kept]
      /\ pending' = [j \in Replicas |->
                       IF j = k
                       THEN Pruned(j, e.at) \cup {[call |-> requests, done |-> done]}
                       ELSE Pruned(j, e.at)]
      /\ requests' = requests + 1
      /\ services' = services \cup
           {[session |-> s, turn |-> e.turn, replica |-> k,
             from |-> StartTime(k, e.at), to |-> done]}
      /\ \/ /\ e.turn < Turns[s]
            /\ \E tool \in ToolTimes, result \in ToolResults :
                 /\ queue' = (queue \ {e}) \cup
                      {Following(e, NextAt(k, s, output, tool, e.at))}
                 /\ prompt' = [prompt EXCEPT ![s] = @ + output + result]
            /\ pushed' = pushed + 1
         \/ /\ e.turn = Turns[s]
            /\ queue' = queue \ {e}
            /\ UNCHANGED <<prompt, pushed>>
      /\ UNCHANGED affinity

Init ==
  /\ affinity \in BOOLEAN
  /\ now = 0
  /\ pushed = Cardinality(Sessions)
  /\ \E arrival \in [Sessions -> Arrivals], rank \in [Sessions -> 0..(pushed - 1)] :
       /\ \A s, t \in Sessions :
            s # t => rank[s] # rank[t] /\ (arrival[s] < arrival[t] => rank[s] < rank[t])
       /\ queue = {[at |-> arrival[s], seq |-> rank[s], session |-> s, turn |-> 1] : s \in Sessions}
  /\ prompt \in [Sessions -> FirstPrompts]
  /\ cursor = 0
  /\ home = [s \in Sessions |-> Unhomed]
  /\ cached = [k \in Replicas |-> [s \in Sessions |-> Missing]]
  /\ freeAt = [k \in Replicas |-> 0]
  /\ pending = [k \in Replicas |-> {}]
  /\ requests = 0
  /\ services = {}

Next == \E e \in queue, k \in Replicas, output \in Outputs : Step(e, k, output)

Spec == Init /\ [][Next]_vars
FairSpec == Spec /\ WF_vars(Next)

(***************************************************************************)
(* Properties                                                              *)
(***************************************************************************)

\* The simulated clock never runs backwards: no event is pushed into the past
\* of the one being handled, and the heap gives the earliest first.
TimeRunsForward == [][now' >= now]_vars

\* The load the routers and the valve look at is the real one: what a replica
\* counts as in flight are the calls sent to it that have not completed by now,
\* whichever sessions they belong to (prune, pending.append).
LoadIsReal ==
  \A k \in Replicas :
    Inflight(k, now) = Cardinality({v \in services : v.replica = k /\ v.to > now})

\* A replica computes one call at a time and an agent makes one call at a time,
\* on whatever replicas: two computations overlap only if they share neither.
NoOverlap ==
  \A v, w \in services :
    v # w /\ (v.replica = w.replica \/ v.session = w.session)
      => v.to <= w.from \/ w.to <= v.from

\* Transcripts only append: whatever copy of a session's prefix a replica
\* holds, however old, all of it is a prefix of the session's next prompt, so
\* the min in execute never cuts a hit.
HitsAreWhole ==
  \A e \in queue, k \in Replicas : cached[k][e.session].tokens <= prompt[e.session]

AllTurns == UNION {{s} \X (1..Turns[s]) : s \in Sessions}

\* Either arm serves each turn of each trace exactly once and ends, so the two
\* are compared on the same number of calls.
ArmCompletes ==
  <>[](queue = {} /\ requests = Cardinality(AllTurns))
=============================================================================
