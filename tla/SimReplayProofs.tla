--------------------------- MODULE SimReplayProofs ----------------------------
(***************************************************************************)
(* Proofs about SimReplay for any sessions, replicas, costs, traces and    *)
(* either arm.                                                             *)
(*                                                                         *)
(* What a replica has computed lies before its free_at_ms, what a session  *)
(* has been served lies before its event in the heap, and no event lies    *)
(* before the clock: a call that starts at the larger of the two overlaps  *)
(* nothing.  The load that the router reads is counted by the replica's    *)
(* pending entries, one for each service that is not over.                 *)
(***************************************************************************)
EXTENDS SimReplay, FiniteSetTheorems, FunctionTheorems, WellFoundedInduction, TLAPS

Copies == [tier : {"gpu", "dram", "miss"}, tokens : Nat]

SimTypes ==
  /\ now \in Nat
  /\ \A e \in queue : e.at \in Nat /\ e.session \in Sessions
  /\ prompt \in [Sessions -> Nat]
  /\ cached \in [Replicas -> [Sessions -> Copies]]
  /\ freeAt \in [Replicas -> Nat]
  /\ \A v \in services : {v.from, v.to} \subseteq Nat /\ v.replica \in Replicas

\* One event per session, none of them in the past.
Heap ==
  /\ \A e, f \in queue : e.session = f.session => e = f
  /\ \A e \in queue : now <= e.at

\* What was computed is over when its replica and its session go on.
InOrder ==
  /\ \A v \in services : v.to <= freeAt[v.replica]
  /\ \A v \in services, e \in queue : v.session = e.session => v.to <= e.at

SimInv == SimTypes /\ Heap /\ InOrder /\ NoOverlap /\ HitsAreWhole

(***************************************************************************)
(* One iteration of run_arm.                                               *)
(***************************************************************************)
LEMMA TimesType == \A a, b \in Nat : a * b \in Nat
OBVIOUS

LEMMA PositiveTimesType == \A a, b \in Nat \ {0} : a * b \in Nat \ {0}
OBVIOUS

\* No call is served in no time: an answer has at least one token.
LEMMA ServiceTimeType ==
  ASSUME SimTypes, NEW k \in Replicas, NEW s \in Sessions, NEW output \in Outputs
  PROVE  ServiceTime(k, s, output) \in Nat \ {0}
<1> DEFINE whole == Reusable(k, s)
<1>1. /\ cached[k][s].tokens \in Nat /\ prompt[s] \in Nat
      /\ output \in Nat /\ PrefillCost \in Nat /\ DecodeCost \in Nat /\ RestoreCost \in Nat
  BY SimAssumption DEF SimTypes, Copies
<1>2. whole \in Nat /\ prompt[s] - whole \in Nat
  BY <1>1 DEF Reusable, Smaller
<1>3. /\ whole * RestoreCost \in Nat
      /\ (prompt[s] - whole) * PrefillCost \in Nat
      /\ output * DecodeCost \in Nat \ {0}
  <2> HIDE DEF whole
  <2>1. output \in Nat \ {0} /\ DecodeCost \in Nat \ {0}
    BY SimAssumption
  <2> QED
    BY <1>1, <1>2, <2>1, TimesType, PositiveTimesType
<1>4. \A a, b \in Nat, c \in Nat \ {0} :
        a + b + c \in Nat \ {0} /\ 0 + b + c \in Nat \ {0}
  OBVIOUS
<1> QED
  BY <1>3, <1>4 DEF ServiceTime

\* A call starts when both its replica and its agent are ready.
LEMMA StartTimeType ==
  ASSUME SimTypes, NEW k \in Replicas, NEW time \in Nat
  PROVE  /\ StartTime(k, time) \in Nat
         /\ freeAt[k] <= StartTime(k, time)
         /\ time <= StartTime(k, time)
<1>1. freeAt[k] \in Nat
  BY DEF SimTypes
<1> QED
  BY <1>1 DEF StartTime, Larger

\* Whatever the caches do, a copy is the new transcript, an old copy or none.
LEMMA RetainedCopies ==
  ASSUME SimTypes, NEW k \in Replicas, NEW s \in Sessions, NEW tokens \in Nat,
         NEW kept \in Retained(k, s, tokens)
  PROVE  /\ kept \in [Sessions -> Copies]
         /\ kept[s].tokens <= tokens
         /\ \A t \in Sessions \ {s} : kept[t].tokens \in {cached[k][t].tokens, 0}
<1>1. PICK tier \in {"gpu", "dram", "miss"}, evicted \in SUBSET Sessions :
       kept = Kept(k, s, tokens, tier, evicted)
  BY DEF Retained
<1>2. Missing \in Copies /\ Missing.tokens = 0
  BY DEF Missing, Copies
<1>3. [tier |-> tier, tokens |-> tokens] \in Copies
  BY DEF Copies
<1>4. cached[k] \in [Sessions -> Copies]
  BY DEF SimTypes
<1>5. kept \in [Sessions -> Copies]
  BY <1>1, <1>2, <1>3, <1>4 DEF Kept
<1>6. kept[s].tokens \in {0, tokens}
  BY <1>1, <1>2 DEF Kept
<1>7. \A t \in Sessions \ {s} : kept[t].tokens \in {cached[k][t].tokens, 0}
  BY <1>1, <1>2 DEF Kept
<1> QED
  BY <1>5, <1>6, <1>7

LEMMA StepSim ==
  ASSUME SimInv, NEW e \in queue, NEW k \in Replicas, NEW output \in Outputs,
         Step(e, k, output)
  PROVE  SimInv' /\ now <= now'
<1> DEFINE s == e.session
           from == StartTime(k, e.at)
           done == from + ServiceTime(k, s, output)
           new == [session |-> s, turn |-> e.turn, replica |-> k, from |-> from, to |-> done]
<1>1. s \in Sessions /\ e.at \in Nat /\ output \in Nat
  BY SimAssumption DEF SimInv, SimTypes
<1>2. /\ from \in Nat /\ done \in Nat
      /\ freeAt[k] <= from /\ e.at <= from /\ from <= done
  <2>1. from \in Nat /\ freeAt[k] <= from /\ e.at <= from
    BY <1>1, StartTimeType DEF SimInv
  <2>2. ServiceTime(k, s, output) \in Nat
    BY <1>1, ServiceTimeType DEF SimInv
  <2> HIDE DEF from
  <2> QED
    BY <2>1, <2>2
<1>3. now' = e.at /\ \A f \in queue : e.at <= f.at
  <2>1. \A f \in queue : f.at \in Nat
    BY DEF SimInv, SimTypes
  <2> QED
    BY <1>1, <2>1 DEF Step, IsNext
<1>4. /\ freeAt' = [freeAt EXCEPT ![k] = done]
      /\ services' = services \cup {new}
  BY DEF Step
<1>5. PICK kept \in Retained(k, s, StoredTokens(s, output)) :
        cached' = [cached EXCEPT ![k] = kept]
  BY DEF Step
\* The heap: the event goes, and one of the same session may come.
<1> DEFINE Pushes(next) ==
        /\ \A f \in next : f.session = s /\ f.at \in Nat /\ done <= f.at
        /\ queue' = (queue \ {e}) \cup next
        /\ \A f, g \in next : f = g
        /\ prompt' \in [Sessions -> Nat]
        /\ \A t \in Sessions \ {s} : prompt'[t] = prompt[t]
        /\ next # {} => prompt[s] + output <= prompt'[s]
<1>6. \E next : Pushes(next)
  <2>1. prompt \in [Sessions -> Nat] /\ prompt[s] \in Nat
    BY <1>1 DEF SimInv, SimTypes
  <2>2. CASE e.turn = Turns[s]
    <3>1. queue' = (queue \ {e}) \cup {} /\ prompt' = prompt
      <4>1. s \in Sessions /\ Turns[s] \in Nat
        BY SimAssumption DEF SimInv, SimTypes
      <4> QED
        BY <2>2, <4>1 DEF Step
    <3>2. Pushes({})
      BY <2>1, <3>1
    <3> HIDE DEF Pushes
    <3> QED
      BY <3>2
  <2>3. CASE e.turn # Turns[s]
    <3>1. PICK tool \in ToolTimes, result \in ToolResults :
            /\ queue' = (queue \ {e}) \cup {Following(e, NextAt(k, s, output, tool, e.at))}
            /\ prompt' = [prompt EXCEPT ![s] = @ + output + result]
      BY <2>3 DEF Step
    <3> DEFINE following == Following(e, NextAt(k, s, output, tool, e.at))
    <3>2. tool \in Nat /\ result \in Nat
      BY SimAssumption
    <3>3. following.session = s /\ following.at = done + tool
      BY DEF Following, NextAt
    <3>4. following.at \in Nat /\ done <= following.at
      <4> HIDE DEF done, following
      <4> QED
        BY <1>2, <3>2, <3>3
    <3>5. /\ prompt' \in [Sessions -> Nat]
          /\ \A t \in Sessions \ {s} : prompt'[t] = prompt[t]
          /\ prompt[s] + output <= prompt'[s]
      BY <1>1, <2>1, <3>1, <3>2
    <3>6. queue' = (queue \ {e}) \cup {following}
      BY <3>1
    <3> HIDE DEF following
    <3>7. Pushes({following})
      BY <3>3, <3>4, <3>5, <3>6
    <3> HIDE DEF Pushes
    <3> QED
      BY <3>7
  <2> QED
    BY <2>2, <2>3
<1>7. PICK next :
        /\ \A f \in next : f.session = s /\ f.at \in Nat /\ done <= f.at
        /\ queue' = (queue \ {e}) \cup next
        /\ \A f, g \in next : f = g
        /\ prompt' \in [Sessions -> Nat]
        /\ \A t \in Sessions \ {s} : prompt'[t] = prompt[t]
        /\ next # {} => prompt[s] + output <= prompt'[s]
  BY <1>6
<1>8. /\ new.session = s /\ new.replica = k /\ new.from = from /\ new.to = done
  OBVIOUS
<1>9. \A f \in queue \ {e} : f.session # s
  BY DEF SimInv, Heap
<1> HIDE DEF new, done, from
<1>10. SimTypes'
  <2>1. \A f \in queue' : f.at \in Nat /\ f.session \in Sessions
    BY <1>1, <1>7 DEF SimInv, SimTypes
  <2>2. freeAt' \in [Replicas -> Nat]
    BY <1>2, <1>4 DEF SimInv, SimTypes
  <2>3. \A v \in services' : {v.from, v.to} \subseteq Nat /\ v.replica \in Replicas
    BY <1>2, <1>4, <1>8 DEF SimInv, SimTypes
  <2>4. StoredTokens(s, output) \in Nat
    BY <1>1 DEF SimInv, SimTypes, StoredTokens
  <2>5. kept \in [Sessions -> Copies]
    BY <1>1, <2>4, RetainedCopies DEF SimInv
  <2>6. cached' \in [Replicas -> [Sessions -> Copies]]
    BY <1>5, <2>5 DEF SimInv, SimTypes
  <2> QED
    BY <1>1, <1>3, <1>7, <2>1, <2>2, <2>3, <2>6 DEF SimTypes
<1>11. Heap'
  <2>1. \A f, g \in queue' : f.session = g.session => f = g
    BY <1>7, <1>9 DEF SimInv, Heap
  <2>2. \A f \in next : e.at <= f.at
    BY <1>1, <1>2, <1>7
  <2>3. \A f \in queue' : e.at <= f.at
    BY <1>3, <1>7, <2>2
  <2> QED
    BY <1>3, <2>1, <2>3 DEF Heap
<1>12. InOrder'
  <2>1. \A v \in services : v.to \in Nat /\ v.replica \in Replicas /\ v.to <= freeAt[v.replica]
    BY DEF SimInv, SimTypes, InOrder
  <2>2. \A j \in Replicas : freeAt[j] \in Nat /\ freeAt'[j] = IF j = k THEN done ELSE freeAt[j]
    BY <1>4 DEF SimInv, SimTypes
  <2>3. \A v \in services' : v.to <= freeAt'[v.replica]
    BY <1>2, <1>4, <1>8, <2>1, <2>2
  <2>4. ASSUME NEW v \in services', NEW f \in queue', v.session = f.session
        PROVE  v.to <= f.at
    <3>1. CASE v \in services /\ f \in queue \ {e}
      BY <2>4, <3>1 DEF SimInv, InOrder
    <3>2. CASE v \in services /\ f \in next
      <4>1. v.to <= e.at /\ v.to \in Nat
        BY <1>7, <2>1, <2>4, <3>2 DEF SimInv, InOrder
      <4> QED
        BY <1>1, <1>2, <1>7, <3>2, <4>1
    <3>3. CASE v = new /\ f \in queue \ {e}
      BY <1>8, <1>9, <2>4, <3>3
    <3>4. CASE v = new /\ f \in next
      BY <1>7, <1>8, <3>4
    <3> QED
      BY <1>4, <1>7, <3>1, <3>2, <3>3, <3>4
  <2> QED
    BY <2>3, <2>4 DEF InOrder
<1>13. NoOverlap'
  <2>1. \A v \in services :
          v.replica = k \/ v.session = s => v.to <= from
    <3> SUFFICES ASSUME NEW v \in services, v.replica = k \/ v.session = s
                 PROVE  v.to <= from
      OBVIOUS
    <3>1. v.to \in Nat /\ freeAt[k] \in Nat
      BY DEF SimInv, SimTypes
    <3>2. v.to <= freeAt[k] \/ v.to <= e.at
      BY DEF SimInv, InOrder
    <3> QED
      BY <1>1, <1>2, <3>1, <3>2
  <2>2. \A v \in services :
          v.replica = new.replica \/ v.session = new.session => v.to <= new.from
    BY <1>8, <2>1
  <2> QED
    BY <1>4, <2>2 DEF SimInv, NoOverlap
<1>14. HitsAreWhole'
  <2> SUFFICES ASSUME NEW f \in queue', NEW j \in Replicas
               PROVE  cached'[j][f.session].tokens <= prompt'[f.session]
    BY DEF HitsAreWhole
  <2>1. cached'[j] = IF j = k THEN kept ELSE cached[j]
    BY <1>5 DEF SimInv, SimTypes
  <2>2. StoredTokens(s, output) = prompt[s] + output /\ prompt[s] \in Nat
    BY <1>1 DEF StoredTokens, SimInv, SimTypes
  <2>3. /\ kept \in [Sessions -> Copies]
        /\ kept[s].tokens <= prompt[s] + output
        /\ \A t \in Sessions \ {s} : kept[t].tokens \in {cached[k][t].tokens, 0}
    BY <1>1, <2>2, RetainedCopies DEF SimInv
  <2>4. CASE f \in queue \ {e}
    <3>1. f.session \in Sessions \ {s}
      BY <1>9, <2>4 DEF SimInv, SimTypes
    <3>2. prompt'[f.session] = prompt[f.session] /\ prompt[f.session] \in Nat
      BY <1>7, <3>1 DEF SimInv, SimTypes
    <3>3. cached[j][f.session].tokens <= prompt[f.session]
      BY <2>4 DEF SimInv, HitsAreWhole
    <3>4. cached'[j][f.session].tokens \in {cached[j][f.session].tokens, 0}
      BY <2>1, <2>3, <3>1
    <3> QED
      BY <3>2, <3>3, <3>4
  <2>5. CASE f \in next
    <3>1. f.session = s /\ prompt[s] + output <= prompt'[s]
      BY <1>7, <2>5
    <3>2. cached[j][s].tokens <= prompt[s] /\ cached[j][s].tokens \in Nat
      BY <1>1 DEF SimInv, SimTypes, HitsAreWhole, Copies
    <3>3. cached'[j][s].tokens <= prompt[s] + output /\ cached'[j][s].tokens \in Nat
      BY <1>1, <2>1, <2>2, <2>3, <3>2 DEF Copies
    <3>4. prompt'[s] \in Nat
      BY <1>1, <1>7
    <3> QED
      BY <1>1, <2>2, <3>1, <3>3, <3>4
  <2> QED
    BY <1>7, <2>4, <2>5
<1>15. now <= now'
  BY <1>3 DEF SimInv, Heap
<1> QED
  BY <1>10, <1>11, <1>12, <1>13, <1>14, <1>15 DEF SimInv

LEMMA InitSim == Init => SimInv
<1> SUFFICES ASSUME Init PROVE SimInv
  OBVIOUS
<1>1. PICK arrival \in [Sessions -> Arrivals], rank \in [Sessions -> 0..(pushed - 1)] :
        queue = {[at |-> arrival[s], seq |-> rank[s], session |-> s, turn |-> 1] : s \in Sessions}
  BY DEF Init
<1>2. \A e \in queue : e.session \in Sessions /\ e.at = arrival[e.session] /\ e.at \in Nat
  BY <1>1, SimAssumption
<1>3. \A e, f \in queue : e.session = f.session => e = f
  BY <1>1
<1>4. Missing \in Copies /\ Missing.tokens = 0
  BY DEF Missing, Copies
<1>5. prompt \in [Sessions -> Nat]
  BY SimAssumption DEF Init
<1>6. /\ now = 0 /\ services = {}
      /\ cached = [k \in Replicas |-> [s \in Sessions |-> Missing]]
      /\ freeAt = [k \in Replicas |-> 0]
  BY DEF Init
<1>7. SimTypes /\ Heap /\ InOrder /\ NoOverlap
  BY <1>2, <1>3, <1>4, <1>5, <1>6 DEF SimTypes, Heap, InOrder, NoOverlap
<1>8. HitsAreWhole
  BY <1>2, <1>4, <1>5, <1>6 DEF HitsAreWhole
<1> QED
  BY <1>7, <1>8 DEF SimInv

LEMMA NextSim == SimInv /\ [Next]_vars => SimInv' /\ (now' >= now)
<1> SUFFICES ASSUME SimInv, [Next]_vars PROVE SimInv' /\ now' >= now
  OBVIOUS
<1>1. now \in Nat
  BY DEF SimInv, SimTypes
<1>2. CASE Next
  <2>1. PICK e \in queue, k \in Replicas, output \in Outputs : Step(e, k, output)
    BY <1>2 DEF Next
  <2>2. SimInv' /\ now <= now'
    BY <2>1, StepSim
  <2> QED
    BY <1>1, <2>2 DEF SimInv, SimTypes
<1>3. CASE UNCHANGED vars
  BY <1>1, <1>3 DEF vars, SimInv, SimTypes, Heap, InOrder, NoOverlap, HitsAreWhole
<1> QED
  BY <1>2, <1>3

\* The invariant behind the others, for either arm and whatever the caches keep.
THEOREM SimInvariant == Spec => []SimInv
<1>1. SimInv /\ [Next]_vars => SimInv'
  BY NextSim
<1> QED
  BY <1>1, InitSim, PTL DEF Spec

\* No replica computes two calls at once and no agent has two calls computed at
\* once (execute, run_arm).
THEOREM OneThingAtATime == Spec => []NoOverlap
<1>1. SimInv => NoOverlap
  BY DEF SimInv
<1> QED
  BY <1>1, SimInvariant, PTL

\* A hit never counts tokens that the session's prompt does not have, however
\* old the copy and however many detours made it (execute, store).
THEOREM CopiesArePrefixes == Spec => []HitsAreWhole
<1>1. SimInv => HitsAreWhole
  BY DEF SimInv
<1> QED
  BY <1>1, SimInvariant, PTL

\* The loop of run_arm never goes back in time.
THEOREM ClockRunsForward == Spec => TimeRunsForward
<1>1. SimInv /\ [Next]_vars => [now' >= now]_vars
  BY NextSim
<1> QED
  BY <1>1, SimInvariant, PTL DEF Spec, TimeRunsForward

(***************************************************************************)
(* The load.  A replica completes its calls one after the other and none   *)
(* in no time, so its completion times tell its calls apart: the entries   *)
(* of pending and the computations that are not over both correspond to    *)
(* the same set of times.                                                  *)
(***************************************************************************)
LoadInv ==
  /\ IsFiniteSet(services)
  /\ pending \in [Replicas -> SUBSET [call : Nat, done : Nat]]
  /\ requests \in Nat
  /\ \A k \in Replicas : IsFiniteSet(pending[k])
  /\ \A k \in Replicas : \A c \in pending[k] :
       /\ c.done <= freeAt[k]
       /\ \E v \in services : v.replica = k /\ v.to = c.done
  /\ \A v \in services : v.to > now => \E c \in pending[v.replica] : c.done = v.to
  /\ \A k \in Replicas : \A c, d \in pending[k] : c.done = d.done => c = d
  /\ \A v \in services : v.from < v.to

LEMMA InitLoad == Init => LoadInv
<1> SUFFICES ASSUME Init PROVE LoadInv
  OBVIOUS
<1>1. services = {} /\ pending = [k \in Replicas |-> {}] /\ requests = 0
  BY DEF Init
<1> QED
  BY <1>1, FS_EmptySet DEF LoadInv

LEMMA StepLoad ==
  ASSUME SimInv, LoadInv, NEW e \in queue, NEW k \in Replicas, NEW output \in Outputs,
         Step(e, k, output)
  PROVE  LoadInv'
<1> DEFINE s == e.session
           from == StartTime(k, e.at)
           done == from + ServiceTime(k, s, output)
           new == [session |-> s, turn |-> e.turn, replica |-> k, from |-> from, to |-> done]
           entry == [call |-> requests, done |-> done]
<1>1. s \in Sessions /\ e.at \in Nat /\ now \in Nat /\ now <= e.at
  BY DEF SimInv, SimTypes, Heap
<1>2. /\ from \in Nat /\ done \in Nat /\ freeAt[k] \in Nat
      /\ freeAt[k] <= from /\ e.at <= from /\ from < done
  <2>1. from \in Nat /\ freeAt[k] <= from /\ e.at <= from /\ freeAt[k] \in Nat
    BY <1>1, StartTimeType DEF SimInv, SimTypes
  <2>2. ServiceTime(k, s, output) \in Nat \ {0}
    BY <1>1, ServiceTimeType DEF SimInv
  <2> HIDE DEF from
  <2> QED
    BY <2>1, <2>2
<1>3. /\ now' = e.at
      /\ freeAt' = [freeAt EXCEPT ![k] = done]
      /\ services' = services \cup {new}
      /\ requests' = requests + 1
      /\ pending' = [j \in Replicas |-> IF j = k THEN Pruned(j, e.at) \cup {entry}
                                                ELSE Pruned(j, e.at)]
  BY DEF Step
<1>4. /\ new.replica = k /\ new.from = from /\ new.to = done
      /\ entry.done = done
  OBVIOUS
<1>5. entry \in [call : Nat, done : Nat]
  BY <1>2 DEF LoadInv
<1> HIDE DEF new, done, from, entry
<1>6. ASSUME NEW j \in Replicas
      PROVE  /\ Pruned(j, e.at) \subseteq pending[j]
             /\ IsFiniteSet(Pruned(j, e.at))
             /\ pending[j] \subseteq [call : Nat, done : Nat]
             /\ freeAt[j] \in Nat
  <2>1. Pruned(j, e.at) \subseteq pending[j] /\ IsFiniteSet(pending[j])
    BY DEF Pruned, LoadInv
  <2>2. IsFiniteSet(Pruned(j, e.at))
    BY <2>1, FS_Subset
  <2> QED
    BY <2>1, <2>2 DEF LoadInv, SimInv, SimTypes
<1>7. \A j \in Replicas : pending'[j] \subseteq Pruned(j, e.at) \cup {x \in {entry} : j = k}
  BY <1>3
<1>8. IsFiniteSet(services') /\ requests' \in Nat
  BY <1>3, FS_AddElement DEF LoadInv
<1>9. pending' \in [Replicas -> SUBSET [call : Nat, done : Nat]]
  BY <1>3, <1>5, <1>6
<1>10. \A j \in Replicas : IsFiniteSet(pending'[j])
  BY <1>3, <1>6, FS_AddElement
<1>11. ASSUME NEW j \in Replicas, NEW c \in pending'[j]
       PROVE  /\ c.done <= freeAt'[j]
              /\ \E v \in services' : v.replica = j /\ v.to = c.done
  <2>1. CASE c \in pending[j]
    <3>1. c.done <= freeAt[j] /\ c.done \in Nat /\ freeAt[j] \in Nat
      BY <1>6, <2>1 DEF LoadInv
    <3>2. c.done <= freeAt'[j]
      BY <1>2, <1>3, <3>1 DEF SimInv, SimTypes
    <3> QED
      BY <1>3, <2>1, <3>2 DEF LoadInv
  <2>2. CASE c = entry /\ j = k
    BY <1>2, <1>3, <1>4, <2>2 DEF SimInv, SimTypes
  <2> QED
    BY <1>6, <1>7, <2>1, <2>2
<1>12. ASSUME NEW v \in services', v.to > now'
       PROVE  \E c \in pending'[v.replica] : c.done = v.to
  <2>1. CASE v \in services
    <3>1. v.to \in Nat /\ v.replica \in Replicas
      BY <2>1 DEF SimInv, SimTypes
    <3>2. PICK c \in pending[v.replica] : c.done = v.to
      BY <1>1, <1>3, <1>12, <2>1, <3>1 DEF LoadInv
    <3>3. c \in Pruned(v.replica, e.at)
      BY <1>3, <1>12, <3>1, <3>2 DEF Pruned
    <3> QED
      BY <1>3, <3>1, <3>2, <3>3
  <2>2. CASE v = new
    BY <1>3, <1>4, <2>2
  <2> QED
    BY <1>3, <2>1, <2>2
<1>13. ASSUME NEW j \in Replicas, NEW c \in pending'[j], NEW d \in pending'[j],
              c.done = d.done
       PROVE  c = d
  <2>1. j = k => \A x \in pending[j] : x.done # done
    <3> SUFFICES ASSUME j = k, NEW x \in pending[j] PROVE x.done # done
      OBVIOUS
    <3>1. x.done <= freeAt[k] /\ x.done \in Nat
      BY <1>6 DEF LoadInv
    <3> QED
      BY <1>2, <3>1
  <2>2. (c \in pending[j] \/ (c = entry /\ j = k)) /\ (d \in pending[j] \/ (d = entry /\ j = k))
    BY <1>6, <1>7
  <2> QED
    BY <1>4, <1>13, <2>1, <2>2 DEF LoadInv
<1>14. \A v \in services' : v.from < v.to
  BY <1>2, <1>3, <1>4 DEF LoadInv
<1> QED
  BY <1>8, <1>9, <1>10, <1>11, <1>12, <1>13, <1>14 DEF LoadInv

LEMMA NextLoad == SimInv /\ LoadInv /\ [Next]_vars => LoadInv'
<1> SUFFICES ASSUME SimInv, LoadInv, [Next]_vars PROVE LoadInv'
  OBVIOUS
<1>1. CASE Next
  BY <1>1, StepLoad DEF Next
<1>2. CASE UNCHANGED vars
  BY <1>2 DEF vars, LoadInv
<1> QED
  BY <1>1, <1>2

\* The entries a replica counts and the computations that are not over are as
\* many as their completion times.
LEMMA LoadCounts == SimInv /\ LoadInv => LoadIsReal
<1> SUFFICES ASSUME SimInv, LoadInv, NEW k \in Replicas
             PROVE  Inflight(k, now) = Cardinality({v \in services : v.replica = k /\ v.to > now})
  BY DEF LoadIsReal
<1> DEFINE entries == Pruned(k, now)
           running == {v \in services : v.replica = k /\ v.to > now}
           times == {c.done : c \in entries}
           doneOf == [c \in entries |-> c.done]
           toOf == [v \in running |-> v.to]
<1>1. IsFiniteSet(entries) /\ IsFiniteSet(running)
  BY FS_Subset DEF LoadInv, Pruned
<1>2. doneOf \in Bijection(entries, times)
  <2>1. doneOf \in [entries -> times] /\ \A t \in times : \E c \in entries : doneOf[c] = t
    OBVIOUS
  <2>2. \A c, d \in entries : doneOf[c] = doneOf[d] => c = d
    BY DEF LoadInv, Pruned
  <2> QED
    BY <2>1, <2>2, Fun_IsBij
<1>3. toOf \in Bijection(running, times)
  <2>1. \A v \in running : v.to \in times
    BY DEF LoadInv, Pruned
  <2>2. ASSUME NEW c \in entries PROVE \E v \in running : v.to = c.done
    BY DEF LoadInv, Pruned
  <2>3. ASSUME NEW v \in running, NEW w \in running, v.to = w.to PROVE v = w
    <3>1. /\ v.from \in Nat /\ v.to \in Nat /\ v.from < v.to
          /\ w.from \in Nat /\ w.to \in Nat /\ w.from < w.to
      BY DEF SimInv, SimTypes, LoadInv
    <3>2. v # w => v.to <= w.from \/ w.to <= v.from
      BY DEF SimInv, NoOverlap
    <3> QED
      BY <2>3, <3>1, <3>2
  <2>4. toOf \in [running -> times] /\ \A t \in times : \E v \in running : toOf[v] = t
    BY <2>1, <2>2
  <2>5. \A v, w \in running : toOf[v] = toOf[w] => v = w
    BY <2>3
  <2> QED
    BY <2>4, <2>5, Fun_IsBij
<1> HIDE DEF doneOf, toOf, entries, running, times
<1>4. Cardinality(entries) = Cardinality(times) /\ Cardinality(running) = Cardinality(times)
  BY <1>1, <1>2, <1>3, FS_Bijection DEF ExistsBijection
<1> QED
  BY <1>4 DEF Inflight, entries, running

\* The load that the routers compare and that the valve tests is the real one,
\* for any number of replicas and any traces: Replica.prune and pending.append
\* leave no completed call in it and forget none that is not.
THEOREM LoadIsTrue == Spec => []LoadIsReal
<1>1. SimInv /\ LoadInv /\ [Next]_vars => LoadInv'
  BY NextLoad
<1> QED
  BY <1>1, InitLoad, LoadCounts, SimInvariant, PTL DEF Spec

(***************************************************************************)
(* The work.  A turn of a trace has been computed or its session's event   *)
(* in the heap has not passed it yet, and never both.                      *)
(***************************************************************************)
TurnsInv ==
  /\ requests = Cardinality(services)
  /\ \A v \in services : v.session \in Sessions /\ v.turn \in 1..Turns[v.session]
  /\ \A e \in queue : e.turn \in 1..Turns[e.session]
  /\ \A v, w \in services : v.session = w.session /\ v.turn = w.turn => v = w
  /\ \A v \in services, e \in queue : v.session = e.session => v.turn < e.turn
  /\ \A s \in Sessions : \A t \in 1..Turns[s] :
       \/ \E v \in services : v.session = s /\ v.turn = t
       \/ \E e \in queue : e.session = s /\ e.turn <= t

LEMMA InitTurns == Init => TurnsInv
<1> SUFFICES ASSUME Init PROVE TurnsInv
  OBVIOUS
<1>1. PICK arrival \in [Sessions -> Arrivals], rank \in [Sessions -> 0..(pushed - 1)] :
        queue = {[at |-> arrival[s], seq |-> rank[s], session |-> s, turn |-> 1] : s \in Sessions}
  BY DEF Init
<1>2. \A e \in queue : e.turn = 1 /\ e.session \in Sessions
  BY <1>1
<1>3. ASSUME NEW s \in Sessions PROVE \E e \in queue : e.session = s /\ e.turn = 1
  <2>1. [at |-> arrival[s], seq |-> rank[s], session |-> s, turn |-> 1] \in queue
    BY <1>1
  <2> QED
    BY <2>1
<1>4. services = {} /\ requests = 0 /\ \A s \in Sessions : Turns[s] \in Nat \ {0}
  BY SimAssumption DEF Init
<1>5. \A e \in queue : e.turn \in 1..Turns[e.session]
  BY <1>2, <1>4
<1> QED
  BY <1>2, <1>3, <1>4, <1>5, FS_EmptySet DEF TurnsInv

LEMMA StepTurns ==
  ASSUME SimInv, LoadInv, TurnsInv,
         NEW e \in queue, NEW k \in Replicas, NEW output \in Outputs, Step(e, k, output)
  PROVE  TurnsInv'
<1> DEFINE s == e.session
           from == StartTime(k, e.at)
           new == [session |-> s, turn |-> e.turn, replica |-> k, from |-> from,
                   to |-> from + ServiceTime(k, s, output)]
           Pushes(next) ==
             /\ \A f \in next : f.session = s /\ f.turn = e.turn + 1 /\ e.turn < Turns[s]
             /\ next = {} => e.turn = Turns[s]
             /\ queue' = (queue \ {e}) \cup next
<1>1. s \in Sessions /\ e.turn \in 1..Turns[s] /\ Turns[s] \in Nat \ {0}
  BY SimAssumption DEF SimInv, SimTypes, TurnsInv
<1>2. services' = services \cup {new} /\ requests' = requests + 1
  BY DEF Step
<1>3. new.session = s /\ new.turn = e.turn
  OBVIOUS
<1> HIDE DEF new, from
<1>4. \E next : Pushes(next) /\ \A f, g \in next : f = g
  <2>1. CASE e.turn = Turns[s]
    <3>1. queue' = (queue \ {e}) \cup {}
      BY <1>1, <2>1 DEF Step
    <3>2. Pushes({}) /\ \A f, g \in {} : f = g
      BY <2>1, <3>1
    <3> HIDE DEF Pushes
    <3> QED
      BY <3>2
  <2>2. CASE e.turn # Turns[s]
    <3>1. PICK time : queue' = (queue \ {e}) \cup {Following(e, time)}
      BY <2>2 DEF Step
    <3>2. Following(e, time).session = s /\ Following(e, time).turn = e.turn + 1
      BY DEF Following
    <3>3. Pushes({Following(e, time)}) /\ \A f, g \in {Following(e, time)} : f = g
      BY <1>1, <2>2, <3>1, <3>2
    <3> HIDE DEF Pushes
    <3> QED
      BY <3>3
  <2> QED
    BY <2>1, <2>2
<1>5. PICK next :
        /\ \A f \in next : f.session = s /\ f.turn = e.turn + 1 /\ e.turn < Turns[s]
        /\ next = {} => e.turn = Turns[s]
        /\ queue' = (queue \ {e}) \cup next
        /\ \A f, g \in next : f = g
  BY <1>4
<1>6. \A f \in queue \ {e} : f.session # s
  BY DEF SimInv, Heap
<1>7. \A v \in services : v.session = s => v.turn < e.turn /\ v.turn \in 1..Turns[s]
  BY DEF TurnsInv
<1>8. new \notin services
  BY <1>1, <1>3, <1>7
<1>9. requests' = Cardinality(services')
  BY <1>2, <1>8, FS_AddElement DEF LoadInv, TurnsInv
<1>10. \A v \in services' : v.session \in Sessions /\ v.turn \in 1..Turns[v.session]
  BY <1>1, <1>2, <1>3 DEF TurnsInv
<1>11. \A f \in queue' : f.turn \in 1..Turns[f.session]
  BY <1>1, <1>5 DEF TurnsInv
<1>12. \A v, w \in services' : v.session = w.session /\ v.turn = w.turn => v = w
  BY <1>1, <1>2, <1>3, <1>7 DEF TurnsInv
<1>13. ASSUME NEW v \in services', NEW f \in queue', v.session = f.session
       PROVE  v.turn < f.turn
  <2>1. CASE f \in queue \ {e}
    BY <1>2, <1>3, <1>6, <1>13, <2>1 DEF TurnsInv
  <2>2. CASE f \in next
    <3>1. f.session = s /\ f.turn = e.turn + 1
      BY <1>5, <2>2
    <3>2. v = new \/ (v \in services /\ v.turn < e.turn /\ v.turn \in 1..Turns[s])
      BY <1>2, <1>7, <1>13, <3>1
    <3> QED
      BY <1>1, <1>3, <3>1, <3>2
  <2> QED
    BY <1>5, <2>1, <2>2
<1>14. ASSUME NEW r \in Sessions, NEW t \in 1..Turns[r]
       PROVE  \/ \E v \in services' : v.session = r /\ v.turn = t
              \/ \E f \in queue' : f.session = r /\ f.turn <= t
  <2>1. CASE \E v \in services : v.session = r /\ v.turn = t
    BY <1>2, <2>1
  <2>2. CASE \E f \in queue : f.session = r /\ f.turn <= t
    <3>1. PICK f \in queue : f.session = r /\ f.turn <= t
      BY <2>2
    <3>2. CASE f # e
      BY <1>5, <3>1, <3>2
    <3>3. CASE f = e /\ e.turn = t
      BY <1>2, <1>3, <3>1, <3>3
    <3>4. CASE f = e /\ e.turn # t
      <4>1. e.turn < t /\ t <= Turns[s]
        BY <1>1, <3>1, <3>4
      <4>2. PICK g \in next : TRUE
        BY <1>1, <1>5, <4>1
      <4> QED
        BY <1>1, <1>5, <3>1, <3>4, <4>1, <4>2
    <3> QED
      BY <3>2, <3>3, <3>4
  <2> QED
    BY <2>1, <2>2 DEF TurnsInv
<1> QED
  BY <1>9, <1>10, <1>11, <1>12, <1>13, <1>14 DEF TurnsInv

LEMMA NextTurns == SimInv /\ LoadInv /\ TurnsInv /\ [Next]_vars => TurnsInv'
<1> SUFFICES ASSUME SimInv, LoadInv, TurnsInv, [Next]_vars PROVE TurnsInv'
  OBVIOUS
<1>1. CASE Next
  BY <1>1, StepTurns DEF Next
<1>2. CASE UNCHANGED vars
  BY <1>2 DEF vars, TurnsInv
<1> QED
  BY <1>1, <1>2

\* No turn is computed twice, and an arm whose heap has run empty has computed
\* every turn of every trace.
EachTurnOnce ==
  /\ \A v, w \in services : v.session = w.session /\ v.turn = w.turn => v = w
  /\ queue = {} => requests = Cardinality(AllTurns)

LEMMA TurnsCount == LoadInv /\ TurnsInv => EachTurnOnce
<1> SUFFICES ASSUME LoadInv, TurnsInv, queue = {}
             PROVE  Cardinality(services) = Cardinality(AllTurns)
  BY DEF EachTurnOnce, TurnsInv
<1> DEFINE turnOf == [v \in services |-> <<v.session, v.turn>>]
<1>1. turnOf \in Bijection(services, AllTurns)
  <2>1. turnOf \in [services -> AllTurns]
    BY DEF TurnsInv, AllTurns
  <2>2. \A v, w \in services : turnOf[v] = turnOf[w] => v = w
    BY DEF TurnsInv
  <2>3. \A p \in AllTurns : \E v \in services : turnOf[v] = p
    <3>1. ASSUME NEW s \in Sessions, NEW t \in 1..Turns[s]
          PROVE  \E v \in services : turnOf[v] = <<s, t>>
      <4>1. PICK v \in services : v.session = s /\ v.turn = t
        BY DEF TurnsInv
      <4>2. turnOf[v] = <<s, t>>
        BY <4>1
      <4> QED
        BY <4>2
    <3> HIDE DEF turnOf
    <3> QED
      BY <3>1 DEF AllTurns
  <2> QED
    BY <2>1, <2>2, <2>3, Fun_IsBij
<1> HIDE DEF turnOf
<1> QED
  BY <1>1, FS_Bijection DEF ExistsBijection, LoadInv

\* The safety half of ArmCompletes, for any traces and either arm: run_arm
\* serves no turn twice and skips none, so the two arms that the benchmark
\* compares did the same work.
THEOREM ArmsDoTheSameWork == Spec => []EachTurnOnce
<1>1. /\ SimInv /\ LoadInv /\ [Next]_vars => LoadInv'
      /\ SimInv /\ LoadInv /\ TurnsInv /\ [Next]_vars => TurnsInv'
  BY NextLoad, NextTurns
<1> QED
  BY <1>1, InitLoad, InitTurns, TurnsCount, SimInvariant, PTL DEF Spec

(***************************************************************************)
(* The caches.  Every replica of the benchmark keeps the contract that     *)
(* ReplicaCache implements with either policy: a call at one replica is    *)
(* one of its Serve steps there and none at the others.                    *)
(***************************************************************************)
Contract(k) == INSTANCE CacheContract WITH tier <- [s \in Sessions |-> cached[k][s].tier]

LEMMA StepContract ==
  ASSUME SimInv, NEW j \in Replicas,
         NEW e \in queue, NEW k \in Replicas, NEW output \in Outputs, Step(e, k, output)
  PROVE  Contract(j)!Next \/ [s \in Sessions |-> cached'[j][s].tier]
                               = [s \in Sessions |-> cached[j][s].tier]
<1> DEFINE s == e.session
<1>1. s \in Sessions /\ output \in Nat /\ prompt[s] \in Nat
  BY SimAssumption DEF SimInv, SimTypes
<1>2. PICK kept \in Retained(k, s, StoredTokens(s, output)) :
        cached' = [cached EXCEPT ![k] = kept]
  BY DEF Step
<1>3. cached \in [Replicas -> [Sessions -> Copies]]
  BY DEF SimInv, SimTypes
<1>4. CASE j # k
  BY <1>2, <1>3, <1>4
<1>5. CASE j = k
  <2>1. PICK tier \in {"gpu", "dram", "miss"},
             lost \in SUBSET {t \in Sessions \ {s} : cached[k][t].tier = "gpu"} :
          /\ tier = "dram" => lost = {}
          /\ kept = Kept(k, s, StoredTokens(s, output), tier, lost)
    BY DEF Retained
  <2>2. cached'[j] = kept
    BY <1>2, <1>3, <1>5
  <2>3. \A t \in Sessions :
          kept[t].tier = IF t = s THEN tier ELSE IF t \in lost THEN "miss" ELSE cached[k][t].tier
    BY <2>1 DEF Kept, Missing
  <2>4. [t \in Sessions |-> cached'[j][t].tier] =
          [t \in Sessions |-> IF t = s THEN tier ELSE IF t \in lost THEN "miss"
                                ELSE [x \in Sessions |-> cached[j][x].tier][t]]
    BY <1>5, <2>2, <2>3
  <2>5. lost \subseteq {t \in Sessions \ {s} : [x \in Sessions |-> cached[j][x].tier][t] = "gpu"}
    BY <1>5
  <2>6. Contract(j)!Serve(s, tier, lost)
    BY <1>5, <2>1, <2>4, <2>5 DEF Contract!Serve
  <2>7. tier \in Contract(j)!Tiers /\ lost \in SUBSET Sessions
    BY DEF Contract!Tiers
  <2> QED
    BY <1>1, <2>6, <2>7 DEF Contract!Next
<1> QED
  BY <1>4, <1>5

\* At each replica the benchmark keeps the contract of a cache, so what
\* ReplicaCache shows of store and lookup, and the Gateway assumes of them, is
\* what both arms are simulated on.
THEOREM SimKeepsContract ==
  ASSUME NEW k \in Replicas
  PROVE  Spec => Contract(k)!Spec
<1>1. Init => Contract(k)!Init
  BY DEF Init, Missing, Contract!Init
<1>2. SimInv /\ [Next]_vars => [Contract(k)!Next]_([s \in Sessions |-> cached[k][s].tier])
  <2> SUFFICES ASSUME SimInv, [Next]_vars
               PROVE  Contract(k)!Next \/ [s \in Sessions |-> cached'[k][s].tier]
                                            = [s \in Sessions |-> cached[k][s].tier]
    OBVIOUS
  <2>1. CASE Next
    BY <2>1, StepContract DEF Next
  <2>2. CASE UNCHANGED vars
    BY <2>2 DEF vars
  <2> QED
    BY <2>1, <2>2
<1> QED
  BY <1>1, <1>2, SimInvariant, PTL DEF Spec, Contract!Spec

(***************************************************************************)
(* The order of the heap.                                                  *)
(***************************************************************************)

\* Events are numbered by their pushes, each with a number of its own.
Numbered ==
  /\ pushed \in Nat
  /\ \A e \in queue : e.seq \in Nat /\ e.seq < pushed
  /\ \A e, f \in queue : e.seq = f.seq => e = f

Before(e, f) == e.at < f.at \/ (e.at = f.at /\ e.seq < f.seq)

LEMMA InitNumbered == Init => Numbered
<1> SUFFICES ASSUME Init PROVE Numbered
  OBVIOUS
<1>1. pushed = Cardinality(Sessions) /\ pushed \in Nat
  BY SimAssumption, FS_CardinalityType DEF Init
<1>2. PICK arrival \in [Sessions -> Arrivals] : \E rank \in [Sessions -> 0..(pushed - 1)] :
        /\ \A s, t \in Sessions : s # t => rank[s] # rank[t]
        /\ queue = {[at |-> arrival[s], seq |-> rank[s], session |-> s, turn |-> 1] : s \in Sessions}
  BY DEF Init
<1>3. PICK rank \in [Sessions -> 0..(pushed - 1)] :
        /\ \A s, t \in Sessions : s # t => rank[s] # rank[t]
        /\ queue = {[at |-> arrival[s], seq |-> rank[s], session |-> s, turn |-> 1] : s \in Sessions}
  BY <1>2
<1>4. \A e \in queue : e.seq \in Nat /\ e.seq < pushed
  BY <1>1, <1>3
<1>5. \A e, f \in queue : e.seq = f.seq => e = f
  BY <1>3
<1> QED
  BY <1>1, <1>4, <1>5 DEF Numbered

LEMMA NextNumbered == Numbered /\ [Next]_vars => Numbered'
<1> SUFFICES ASSUME Numbered, [Next]_vars PROVE Numbered'
  OBVIOUS
<1>1. ASSUME NEW e \in queue, NEW k \in Replicas, NEW output \in Outputs, Step(e, k, output)
      PROVE  Numbered'
  <2>1. \/ (\E time : queue' = (queue \ {e}) \cup {Following(e, time)}) /\ pushed' = pushed + 1
        \/ queue' = queue \ {e} /\ pushed' = pushed
    BY <1>1 DEF Step
  <2>2. CASE queue' = queue \ {e} /\ pushed' = pushed
    BY <2>2 DEF Numbered
  <2>3. CASE (\E time : queue' = (queue \ {e}) \cup {Following(e, time)}) /\ pushed' = pushed + 1
    <3>1. PICK time : queue' = (queue \ {e}) \cup {Following(e, time)}
      BY <2>3
    <3>2. Following(e, time).seq = pushed
      BY DEF Following
    <3> QED
      BY <2>3, <3>1, <3>2 DEF Numbered
  <2> QED
    BY <2>1, <2>2, <2>3
<1>2. CASE UNCHANGED vars
  BY <1>2 DEF vars, Numbered
<1> QED
  BY <1>1, <1>2 DEF Next

\* Of two events one comes before the other.
LEMMA HeapOrder ==
  ASSUME SimTypes, Numbered
  PROVE  /\ \A e, f \in queue : e = f \/ Before(e, f) \/ Before(f, e)
         /\ \A e, f, g \in queue : Before(e, f) /\ Before(f, g) => Before(e, g)
         /\ \A e \in queue : ~Before(e, e)
<1>1. \A e \in queue : e.at \in Nat /\ e.seq \in Nat
  BY DEF SimTypes, Numbered
<1>2. ASSUME NEW e \in queue, NEW f \in queue
      PROVE  e = f \/ Before(e, f) \/ Before(f, e)
  <2>1. e.seq = f.seq => e = f
    BY DEF Numbered
  <2> QED
    BY <1>1, <2>1 DEF Before
<1>3. ASSUME NEW e \in queue, NEW f \in queue, NEW g \in queue, Before(e, f), Before(f, g)
      PROVE  Before(e, g)
  <2>1. \A a, b, c \in Nat : (a < b /\ b < c => a < c) /\ ~(a < a)
    OBVIOUS
  <2> QED
    BY <1>1, <1>3, <2>1 DEF Before
<1>4. ASSUME NEW e \in queue PROVE ~Before(e, e)
  <2>1. \A a \in Nat : ~(a < a)
    OBVIOUS
  <2> QED
    BY <1>1, <2>1 DEF Before
<1> QED
  BY <1>2, <1>3, <1>4

\* An arm whose heap is not empty has one event to handle next, and only one:
\* the heap never has to compare anything but times and numbers, and sessions
\* that come back at the same time are served in the order of their pushes.
OneEventIsNext ==
  queue # {} => \E e \in queue : IsNext(e) /\ \A f \in queue : IsNext(f) => f = e

LEMMA NextIsUnique ==
  ASSUME SimTypes, Heap, Numbered
  PROVE  OneEventIsNext
<1> SUFFICES ASSUME queue # {}
             PROVE  \E e \in queue : IsNext(e) /\ \A f \in queue : IsNext(f) => f = e
  BY DEF OneEventIsNext
<1>1. IsFiniteSet(queue)
  <2> DEFINE owner == [e \in queue |-> e.session]
  <2>1. owner \in Injection(queue, Sessions)
    BY DEF SimTypes, Heap, Injection, IsInjective
  <2> QED
    BY <2>1, SimAssumption, FS_Injection
<1> DEFINE earlier(e) == {f \in queue : Before(f, e)}
           fronts == {earlier(e) : e \in queue}
<1>2. fronts \subseteq FiniteSubsetsOf(queue) /\ fronts # {}
  <2>1. ASSUME NEW e \in queue PROVE earlier(e) \in FiniteSubsetsOf(queue)
    <3>1. earlier(e) \in SUBSET queue
      OBVIOUS
    <3> QED
      BY <1>1, <3>1, FS_FiniteSubsetsOfFinite
  <2> QED
    BY <2>1
<1>3. PICK x \in fronts : \A y \in fronts : ~(<<y, x>> \in StrictSubsetOrdering(queue))
  <2> HIDE DEF fronts
  <2> QED
    BY <1>2, FS_StrictSubsetOrderingWellFounded, WFMin
<1>4. PICK e \in queue : x = earlier(e)
  OBVIOUS
<1>5. ASSUME NEW f \in queue PROVE ~Before(f, e)
  <2> SUFFICES ASSUME Before(f, e) PROVE FALSE
    OBVIOUS
  <2>1. earlier(f) \subseteq earlier(e)
    BY HeapOrder
  <2>2. f \in earlier(e) /\ f \notin earlier(f)
    BY HeapOrder
  <2>3. <<earlier(f), earlier(e)>> \in StrictSubsetOrdering(queue)
    BY <2>1, <2>2 DEF StrictSubsetOrdering
  <2>4. earlier(f) \in fronts
    OBVIOUS
  <2> QED
    BY <1>3, <1>4, <2>3, <2>4
<1>6. IsNext(e)
  <2>1. ASSUME NEW f \in queue PROVE e.at < f.at \/ (e.at = f.at /\ e.seq <= f.seq)
    <3>1. e = f \/ Before(e, f)
      BY <1>5, HeapOrder
    <3>2. e.seq \in Nat /\ f.seq \in Nat
      BY DEF Numbered
    <3> QED
      BY <3>1, <3>2 DEF Before
  <2> QED
    BY <2>1 DEF IsNext
<1>7. ASSUME NEW f \in queue, IsNext(f) PROVE f = e
  <2>1. /\ e.at \in Nat /\ f.at \in Nat /\ e.seq \in Nat /\ f.seq \in Nat
        /\ e.seq = f.seq => e = f
    BY DEF SimTypes, Numbered
  <2>2. e.at < f.at \/ (e.at = f.at /\ e.seq <= f.seq)
    BY <1>6 DEF IsNext
  <2>3. f.at < e.at \/ (f.at = e.at /\ f.seq <= e.seq)
    BY <1>7 DEF IsNext
  <2> QED
    BY <2>1, <2>2, <2>3
<1> QED
  BY <1>6, <1>7

\* Either arm goes on until its heap is empty, in an order that the traces and
\* the latencies alone decide (heapq on at, seq in run_arm).
THEOREM TheHeapDecides == Spec => []OneEventIsNext
<1>1. SimInv /\ Numbered => OneEventIsNext
  BY NextIsUnique DEF SimInv
<1> QED
  BY <1>1, SimInvariant, InitNumbered, NextNumbered, PTL DEF Spec
=============================================================================
