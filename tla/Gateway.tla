------------------------------- MODULE Gateway -------------------------------
(***************************************************************************)
(* The life of a chat completion in the gateway (agentserve/gateway.py):   *)
(* session-affinity routing (router.py), the in-flight slots behind the    *)
(* load valve (Replica.slot), and the two response paths, which take the   *)
(* slot at different moments.  Pods may share their session map through    *)
(* Redis, as the deployment does when it runs more than one; everything    *)
(* else a pod knows is its own.                                            *)
(*                                                                         *)
(* Between two awaits the code runs undisturbed, so an action is the code  *)
(* from one await to the next.  The workers are left open: a call ends     *)
(* well or badly at any time.  The cache of a replica is reduced to the    *)
(* sessions that its lookup finds, CacheContract with the tiers dropped.   *)
(***************************************************************************)
EXTENDS Integers, FiniteSets

CONSTANTS
  Requests,       \* bound: calls in flight at a time
  Sessions,       \* session ids
  Pods,           \* gateway processes
  NumReplicas,    \* ClusterConfig.replicas
  QueueLimit,     \* PolicyConfig.affinity_queue_limit
  SharedStore,    \* the session map is in Redis, else in each process
  StoreFaults,    \* bound: Redis calls may fail
  LeftoverHomes,  \* bound: ids a larger deployment may have left in Redis
  Streaming       \* bound: kinds of call, \subseteq BOOLEAN ("stream": true)

ASSUME GatewayAssumption ==
  /\ IsFiniteSet(Requests)
  /\ NumReplicas \in Nat \ {0}
  /\ QueueLimit \in Nat
  /\ {SharedStore, StoreFaults} \subseteq BOOLEAN
  /\ StoreFaults => SharedStore
  /\ LeftoverHomes \subseteq Nat
  /\ ~SharedStore => LeftoverHomes = {}
  /\ Streaming \subseteq BOOLEAN

VARIABLES
  req,      \* the call each request slot of the model stands for
  active,   \* Replica.active of each pod's replicas
  warm,     \* sessions found by Replica.lookup in each pod's replicas
  home,     \* the session map of each store
  patient,  \* history: sessions whose last call began when none was in flight
  servedAt  \* history: the replica that holds the copy left by the last call of
            \* a patient session that was not a detour, until the copy is
            \* evicted, the pod restarts or the map forgets the session
vars == <<req, active, warm, home, patient, servedAt>>

Replicas == 0..(NumReplicas - 1)
Nobody   == -1

Stores == IF SharedStore THEN {"redis"} ELSE Pods
StoreOf(p) == IF SharedStore THEN "redis" ELSE p

Vias == {"affinity", "detour", "cold"}

Idle == [pc |-> "idle"]
Live == [pc      : {"scheduled", "upstream", "abandoned"},
         pod     : Pods,
         session : Sessions,
         target  : Replicas,
         via     : Vias,
         stream  : BOOLEAN]

At(r, pc)  == req[r].pc = pc
InFlight(r) == At(r, "scheduled") \/ At(r, "upstream")
Holders(p, k) ==
  {r \in Requests : /\ At(r, "upstream") \/ At(r, "abandoned")
                    /\ req[r].pod = p
                    /\ req[r].target = k}

(***************************************************************************)
(* SessionAffinityRouter.                                                  *)
(***************************************************************************)

\* get_home, which answers None when Redis fails.
Observed(p, s) ==
  {home[StoreOf(p)][s]} \cup (IF StoreFaults THEN {Nobody} ELSE {})

\* Mutant: ids are stored counting from one.
SetHomeFromOne(p, s, k) == home' = [home EXCEPT ![StoreOf(p)][s] = k + 1]

\* set_home, which does nothing when Redis fails.
SetHome(p, s, k) ==
  \/ home' = [home EXCEPT ![StoreOf(p)][s] = k]
  \/ StoreFaults /\ UNCHANGED home

FoundAt(p, s, k) == k \in Replicas /\ s \in warm[p][k]

\* _least_loaded.  The simulated backend alone moves free_at_ms.  Utilization
\* is zero where nothing is cached and left open elsewhere; what ties in all
\* goes to the first of the list.
LeastLoaded(p, avoid) ==
  LET candidates == IF Replicas \ {avoid} = {} THEN Replicas ELSE Replicas \ {avoid}
      fewest == {k \in candidates : \A j \in candidates : active[p][k] <= active[p][j]}
  IN  {k \in fewest : \A j \in fewest : j < k => warm[p][j] # {}}

\* Mutants: the queue is not looked at; the id is used as an index unchecked,
\* so that a stale one ends the call.
MaySendPinned(p, s, k, target, via) ==
  IF FoundAt(p, s, k)
  THEN target = k /\ via = "affinity"
  ELSE target \in LeastLoaded(p, Nobody) /\ via = "cold"

MaySendUnchecked(p, s, k, target, via) ==
  /\ k \in Replicas \cup {Nobody}
  /\ MaySendPinned(p, s, k, target, via)

\* select, once the map has answered k: where session s may be sent, and why.
MaySend(p, s, k, target, via) ==
  \/ /\ FoundAt(p, s, k)
     /\ active[p][k] <= QueueLimit
     /\ target = k
     /\ via = "affinity"
  \/ /\ FoundAt(p, s, k)
     /\ active[p][k] > QueueLimit
     /\ target \in LeastLoaded(p, k)
     /\ via = "detour"
  \/ /\ ~FoundAt(p, s, k)
     /\ target \in LeastLoaded(p, Nobody)
     /\ via = "cold"

\* Mutant: a detour re-homes the session.
RouteRehoming(p, s, k, target, via) ==
  /\ MaySend(p, s, k, target, via)
  /\ IF via = "affinity" THEN UNCHANGED home ELSE SetHome(p, s, target)

\* Only the replica of a cold call becomes its session's home.
Route(p, s, k, target, via) ==
  /\ MaySend(p, s, k, target, via)
  /\ IF via = "cold" THEN SetHome(p, s, target) ELSE UNCHANGED home

Select(p, s, target, via) == \E k \in Observed(p, s) : Route(p, s, k, target, via)

(***************************************************************************)
(* Replica.slot.                                                           *)
(***************************************************************************)
\* Mutant: the slot is kept.
ReleaseNever(p, k) == UNCHANGED active

Acquire(p, k) == active' = [active EXCEPT ![p][k] = @ + 1]
Release(p, k) == active' = [active EXCEPT ![p][k] = IF @ > 0 THEN @ - 1 ELSE 0]

(***************************************************************************)
(* chat_completions and stream_response.                                   *)
(***************************************************************************)
\* History: s calls.  An agent waits for its answer before it calls again, but
\* one whose client has timed out calls while the gateway is still at work.
NoteCall(s) ==
  patient' = IF \E r \in Requests : InFlight(r) /\ req[r].session = s
             THEN patient \ {s} ELSE patient \cup {s}

NewCall(p, s, target, via, stream) ==
  [pc |-> IF stream THEN "scheduled" ELSE "upstream",
   pod |-> p, session |-> s, target |-> target, via |-> via, stream |-> stream]

\* A call that is not streamed takes its slot in the step that routes it.
Call(r, p, s) ==
  /\ At(r, "idle")
  /\ FALSE \in Streaming
  /\ \E target \in Replicas, via \in Vias :
       /\ Select(p, s, target, via)
       /\ req' = [req EXCEPT ![r] = NewCall(p, s, target, via, FALSE)]
       /\ Acquire(p, target)
  /\ NoteCall(s)
  /\ UNCHANGED <<warm, servedAt>>

\* A streamed call is routed when its response object is made ...
OpenStream(r, p, s) ==
  /\ At(r, "idle")
  /\ TRUE \in Streaming
  /\ \E target \in Replicas, via \in Vias :
       /\ Select(p, s, target, via)
       /\ req' = [req EXCEPT ![r] = NewCall(p, s, target, via, TRUE)]
  /\ NoteCall(s)
  /\ UNCHANGED <<active, warm, servedAt>>

\* ... and takes its slot when the server first pulls on the body.
StartStream(r) ==
  /\ At(r, "scheduled")
  /\ req' = [req EXCEPT ![r].pc = "upstream"]
  /\ Acquire(req[r].pod, req[r].target)
  /\ UNCHANGED <<warm, home, patient, servedAt>>

\* History: the copies known after r completed and its replica holds `held'.
CopiesAfter(r, held) ==
  LET p == req[r].pod  k == req[r].target
      placed == /\ req[r].session \in patient
                /\ req[r].via # "detour"
                /\ home[StoreOf(p)][req[r].session] # Nobody
  IN  [s \in Sessions |->
         IF s = req[r].session /\ placed THEN IF s \in held THEN k ELSE Nobody
         ELSE IF servedAt[p][s] = k /\ s \notin held THEN Nobody
         ELSE servedAt[p][s]]

\* The worker answered: Replica.store, then the slot is released.  The store
\* may or may not keep the session and may evict others.
Complete(r) ==
  LET p == req[r].pod  s == req[r].session  k == req[r].target
  IN  /\ At(r, "upstream")
      /\ req' = [req EXCEPT ![r] = Idle]
      /\ Release(p, k)
      /\ \E held \in SUBSET (warm[p][k] \cup {s}) :
           /\ warm' = [warm EXCEPT ![p][k] = held]
           /\ servedAt' = [servedAt EXCEPT ![p] = CopiesAfter(r, held)]
      /\ UNCHANGED <<home, patient>>

\* The worker failed, or every worker tried did.
Fail(r) ==
  /\ At(r, "upstream")
  /\ req' = [req EXCEPT ![r] = Idle]
  /\ Release(req[r].pod, req[r].target)
  /\ UNCHANGED <<warm, home, patient, servedAt>>

\* The client of a stream goes away before the body was started: the
\* generator is dropped without ever running.
DropUnstarted(r) ==
  /\ At(r, "scheduled")
  /\ req' = [req EXCEPT ![r] = Idle]
  /\ UNCHANGED <<active, warm, home, patient, servedAt>>

\* The client goes away while the generator waits for the worker, where the
\* cancellation reaches it ...
CancelStream(r) ==
  /\ At(r, "upstream") /\ req[r].stream
  /\ req' = [req EXCEPT ![r] = Idle]
  /\ Release(req[r].pod, req[r].target)
  /\ UNCHANGED <<warm, home, patient, servedAt>>

\* ... or while it is suspended at a yield, where only its finalizer will.
AbandonStream(r) ==
  /\ At(r, "upstream") /\ req[r].stream
  /\ req' = [req EXCEPT ![r].pc = "abandoned"]
  /\ UNCHANGED <<active, warm, home, patient, servedAt>>

Finalize(r) ==
  /\ At(r, "abandoned")
  /\ req' = [req EXCEPT ![r] = Idle]
  /\ Release(req[r].pod, req[r].target)
  /\ UNCHANGED <<warm, home, patient, servedAt>>

(***************************************************************************)
(* The environment.                                                        *)
(***************************************************************************)

\* The TTL runs out or the LRU bound pushes the session out of the map.
ForgetHome(d, s) ==
  /\ home[d][s] # Nobody
  /\ home' = [home EXCEPT ![d][s] = Nobody]
  /\ servedAt' = [p \in Pods |->
                    IF StoreOf(p) = d THEN [servedAt[p] EXCEPT ![s] = Nobody]
                    ELSE servedAt[p]]
  /\ UNCHANGED <<req, active, warm, patient>>

\* A pod dies with everything in its process and starts again.
Restart(p) ==
  /\ req' = [r \in Requests |->
               IF ~At(r, "idle") /\ req[r].pod = p THEN Idle ELSE req[r]]
  /\ active' = [active EXCEPT ![p] = [k \in Replicas |-> 0]]
  /\ warm' = [warm EXCEPT ![p] = [k \in Replicas |-> {}]]
  /\ home' = IF SharedStore THEN home
             ELSE [home EXCEPT ![p] = [s \in Sessions |-> Nobody]]
  /\ servedAt' = [servedAt EXCEPT ![p] = [s \in Sessions |-> Nobody]]
  /\ UNCHANGED patient

Init ==
  /\ req = [r \in Requests |-> Idle]
  /\ active = [p \in Pods |-> [k \in Replicas |-> 0]]
  /\ warm = [p \in Pods |-> [k \in Replicas |-> {}]]
  /\ home \in [Stores -> [Sessions -> LeftoverHomes \cup {Nobody}]]
  /\ patient = Sessions
  /\ servedAt = [p \in Pods |-> [s \in Sessions |-> Nobody]]

Next ==
  \/ \E r \in Requests, p \in Pods, s \in Sessions : Call(r, p, s) \/ OpenStream(r, p, s)
  \/ \E r \in Requests :
       \/ StartStream(r)
       \/ Complete(r)
       \/ Fail(r)
       \/ DropUnstarted(r)
       \/ CancelStream(r)
       \/ AbandonStream(r)
       \/ Finalize(r)
  \/ \E d \in Stores, s \in Sessions : ForgetHome(d, s)
  \/ \E p \in Pods : Restart(p)

Spec == Init /\ [][Next]_vars

(***************************************************************************)
(* Properties                                                              *)
(***************************************************************************)

\* Every request is idle or a routed call, every counter a number, and only
\* ids of this or an earlier deployment are in the map.
TypeOK ==
  /\ req \in [Requests -> {Idle} \cup Live]
  /\ active \in [Pods -> [Replicas -> Nat]]
  /\ warm \in [Pods -> [Replicas -> SUBSET Sessions]]
  /\ home \in [Stores -> [Sessions -> Replicas \cup LeftoverHomes \cup {Nobody}]]
  /\ patient \subseteq Sessions
  /\ servedAt \in [Pods -> [Sessions -> Replicas \cup {Nobody}]]

\* The gateway's own machinery never refuses a call: whatever the map answers,
\* an id of a replica that is gone included, and however loaded the replicas
\* are, there is one to send the call to.
EveryCallIsRouted ==
  \A p \in Pods, s \in Sessions : \A k \in Observed(p, s) :
    \E target \in Replicas, via \in Vias : MaySend(p, s, k, target, via)

\* No slot leaks and none is released twice, on whatever path a call ends: a
\* replica counts exactly the calls that are using it (Replica.slot).
SlotsMatchRequests ==
  \A p \in Pods, k \in Replicas : active[p][k] = Cardinality(Holders(p, k))

\* The load valve: affinity by itself never puts more than QueueLimit + 1
\* calls on a replica, whatever else was placed there (router.py, select).
\* Streams count against the others but not among themselves: the code tests
\* the valve when it routes them and counts them when they start.
AffinityDepth ==
  \A p \in Pods, k \in Replicas :
    Cardinality({r \in Holders(p, k) : req[r].via = "affinity" /\ ~req[r].stream})
      <= QueueLimit + 1

\* A session is only re-homed away from a replica whose copy is gone: neither
\* a detour nor a race between calls moves the home of a warm session.
WarmHomeIsKept ==
  [][\A p \in Pods, s \in Sessions, k \in Replicas :
       home[StoreOf(p)][s] = k /\ FoundAt(p, s, k) =>
         home'[StoreOf(p)][s] \in {k, Nobody}]_vars

\* The purpose of the map: a call goes back to the copy that its session's last
\* undisturbed call left, detours aside, if that replica still has it and is
\* not congested.  Detours, overlapping calls after a client's timeout, other
\* sessions' evictions, failures and disconnects in between must not make the
\* router lose a usable copy.
ReturnsToWarmHome ==
  [][\A r \in Requests : At(r, "idle") /\ req'[r].pc # "idle" =>
       LET p == req'[r].pod
           k == servedAt[p][req'[r].session]
       IN  k # Nobody /\ active[p][k] <= QueueLimit => req'[r].target = k]_vars
=============================================================================
