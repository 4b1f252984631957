---------------------------- MODULE GatewayProofs ----------------------------
(***************************************************************************)
(* Proofs about Gateway for any number of calls, sessions, pods and        *)
(* replicas, any queue limit, either store and either kind of call.        *)
(*                                                                         *)
(* Slot accounting is inductive together with the type invariant: every    *)
(* action that moves a call into or out of the states that hold a slot     *)
(* moves the counter of the same replica of the same pod by one.  The load *)
(* valve rests on it: a call that is not streamed takes its slot in the    *)
(* step that tests the valve.                                              *)
(*                                                                         *)
(* Homes are an argument of their own: who may move a session's home, and  *)
(* why a session finds the copy it left.                                   *)
(***************************************************************************)
EXTENDS Gateway, FiniteSetTheorems, WellFoundedInduction, TLAPS

IInv == TypeOK /\ SlotsMatchRequests

(***************************************************************************)
(* Slots and their holders.                                                *)
(***************************************************************************)
LEMMA HoldersFinite ==
  ASSUME NEW p, NEW k
  PROVE  IsFiniteSet(Holders(p, k)) /\ Cardinality(Holders(p, k)) \in Nat
<1>1. Holders(p, k) \in SUBSET Requests
  BY DEF Holders
<1> QED
  BY <1>1, GatewayAssumption, FS_Subset, FS_CardinalityType

HoldsSlot(c) == c.pc \in {"upstream", "abandoned"}

\* Call r becomes `new', which is of one of the kinds a call may be; the
\* counters follow.
LEMMA SlotsFollow ==
  ASSUME IInv, NEW r \in Requests, NEW new \in {Idle} \cup Live,
         req' = [req EXCEPT ![r] = new],
         \/ /\ ~HoldsSlot(req[r]) /\ ~HoldsSlot(new)
            /\ active' = active
         \/ /\ ~HoldsSlot(req[r]) /\ HoldsSlot(new)
            /\ Acquire(new.pod, new.target)
         \/ /\ HoldsSlot(req[r]) /\ ~HoldsSlot(new)
            /\ Release(req[r].pod, req[r].target)
         \/ /\ HoldsSlot(req[r]) /\ HoldsSlot(new)
            /\ new.pod = req[r].pod /\ new.target = req[r].target
            /\ active' = active
  PROVE  /\ req' \in [Requests -> {Idle} \cup Live]
         /\ active' \in [Pods -> [Replicas -> Nat]]
         /\ SlotsMatchRequests'
<1>1. /\ req \in [Requests -> {Idle} \cup Live]
      /\ active \in [Pods -> [Replicas -> Nat]]
      /\ \A p \in Pods, k \in Replicas : active[p][k] = Cardinality(Holders(p, k))
  BY DEF IInv, TypeOK, SlotsMatchRequests
<1>2. /\ req' \in [Requests -> {Idle} \cup Live]
      /\ req'[r] = new
      /\ \A q \in Requests \ {r} : req'[q] = req[q]
  BY <1>1
<1>3. \A c \in {Idle} \cup Live : HoldsSlot(c) => c.pod \in Pods /\ c.target \in Replicas
  BY DEF HoldsSlot, Idle, Live
<1>4. \A p, k : Holders(p, k)' =
        IF HoldsSlot(new) /\ new.pod = p /\ new.target = k
        THEN Holders(p, k) \cup {r} ELSE Holders(p, k) \ {r}
  BY <1>2 DEF Holders, HoldsSlot, At
<1>5. \A p, k : r \in Holders(p, k) <=>
        HoldsSlot(req[r]) /\ req[r].pod = p /\ req[r].target = k
  BY DEF Holders, HoldsSlot, At
<1>6. CASE active' = active /\ \A p, k : Holders(p, k)' = Holders(p, k)
  BY <1>1, <1>2, <1>6 DEF SlotsMatchRequests
<1>7. CASE ~HoldsSlot(req[r]) /\ ~HoldsSlot(new) /\ active' = active
  BY <1>4, <1>5, <1>6, <1>7
<1>8. CASE /\ HoldsSlot(req[r]) /\ HoldsSlot(new)
           /\ new.pod = req[r].pod /\ new.target = req[r].target
           /\ active' = active
  BY <1>4, <1>5, <1>6, <1>8
<1>9. CASE ~HoldsSlot(req[r]) /\ HoldsSlot(new) /\ Acquire(new.pod, new.target)
  <2>1. new.pod \in Pods /\ new.target \in Replicas
    BY <1>3, <1>9
  <2>2. /\ active' \in [Pods -> [Replicas -> Nat]]
        /\ \A p \in Pods, k \in Replicas :
             active'[p][k] = IF p = new.pod /\ k = new.target
                             THEN active[p][k] + 1 ELSE active[p][k]
    BY <1>1, <1>9, <2>1 DEF Acquire
  <2>3. \A p \in Pods, k \in Replicas :
          Cardinality(Holders(p, k)') =
            IF p = new.pod /\ k = new.target
            THEN Cardinality(Holders(p, k)) + 1 ELSE Cardinality(Holders(p, k))
    BY <1>4, <1>5, <1>9, HoldersFinite, FS_AddElement, FS_RemoveElement
  <2> QED
    BY <1>1, <1>2, <2>2, <2>3 DEF SlotsMatchRequests
<1>10. CASE HoldsSlot(req[r]) /\ ~HoldsSlot(new) /\ Release(req[r].pod, req[r].target)
  <2> DEFINE p0 == req[r].pod
             k0 == req[r].target
  <2>1. p0 \in Pods /\ k0 \in Replicas
    BY <1>1, <1>3, <1>10
  <2>2. r \in Holders(p0, k0)
    BY <1>5, <1>10
  <2>3. \A p \in Pods, k \in Replicas :
          Cardinality(Holders(p, k)') =
            IF p = p0 /\ k = k0
            THEN Cardinality(Holders(p, k)) - 1 ELSE Cardinality(Holders(p, k))
    BY <1>4, <1>5, <1>10, HoldersFinite, FS_RemoveElement
  <2>4. active[p0][k0] > 0
    <3>1. Cardinality(Holders(p0, k0)) # 0
      BY <2>2, HoldersFinite, FS_EmptySet
    <3> QED
      BY <1>1, <2>1, <3>1, HoldersFinite
  <2>5. /\ active' \in [Pods -> [Replicas -> Nat]]
        /\ \A p \in Pods, k \in Replicas :
             active'[p][k] = IF p = p0 /\ k = k0
                             THEN active[p][k] - 1 ELSE active[p][k]
    BY <1>1, <1>10, <2>1, <2>4 DEF Release
  <2> QED
    BY <1>1, <1>2, <2>3, <2>5 DEF SlotsMatchRequests
<1> QED
  BY <1>7, <1>8, <1>9, <1>10

(***************************************************************************)
(* One lemma per group of actions.                                         *)
(***************************************************************************)
Memory ==
  /\ warm \in [Pods -> [Replicas -> SUBSET Sessions]]
  /\ home \in [Stores -> [Sessions -> Replicas \cup LeftoverHomes \cup {Nobody}]]
  /\ patient \subseteq Sessions
  /\ servedAt \in [Pods -> [Sessions -> Replicas \cup {Nobody}]]

LEMMA StoreOfType == \A p \in Pods : StoreOf(p) \in Stores
BY DEF StoreOf, Stores

\* Routing picks a replica of this deployment and writes only such ids.
LEMMA SelectType ==
  ASSUME IInv, NEW p \in Pods, NEW s \in Sessions, NEW target \in Replicas,
         NEW via \in Vias, Select(p, s, target, via)
  PROVE  home' \in [Stores -> [Sessions -> Replicas \cup LeftoverHomes \cup {Nobody}]]
<1>1. home \in [Stores -> [Sessions -> Replicas \cup LeftoverHomes \cup {Nobody}]]
  BY DEF IInv, TypeOK
<1>2. StoreOf(p) \in Stores
  BY StoreOfType
<1>3. CASE UNCHANGED home
  BY <1>1, <1>3
<1>4. CASE SetHome(p, s, target)
  BY <1>1, <1>2, <1>4 DEF SetHome
<1> QED
  BY <1>3, <1>4 DEF Select, Route

LEMMA NoteCallType ==
  ASSUME IInv, NEW s \in Sessions, NoteCall(s)
  PROVE  patient' \subseteq Sessions
BY DEF IInv, TypeOK, NoteCall

LEMMA CallIInv ==
  ASSUME IInv, NEW r \in Requests, NEW p \in Pods, NEW s \in Sessions, Call(r, p, s)
  PROVE  IInv'
<1>1. PICK target \in Replicas, via \in Vias :
        /\ Select(p, s, target, via)
        /\ req' = [req EXCEPT ![r] = NewCall(p, s, target, via, FALSE)]
        /\ Acquire(p, target)
  BY DEF Call
<1> DEFINE new == NewCall(p, s, target, via, FALSE)
<1>2. /\ new \in Live /\ HoldsSlot(new)
      /\ new.pod = p /\ new.target = target
  BY DEF NewCall, Live, HoldsSlot
<1>3. ~HoldsSlot(req[r])
  BY DEF Call, At, HoldsSlot
<1> HIDE DEF new
<1>4. /\ req' \in [Requests -> {Idle} \cup Live]
      /\ active' \in [Pods -> [Replicas -> Nat]]
      /\ SlotsMatchRequests'
  <2>1. req' = [req EXCEPT ![r] = new] /\ Acquire(new.pod, new.target)
    BY <1>1, <1>2 DEF new
  <2> QED
    BY <1>2, <1>3, <2>1, SlotsFollow
<1> QED
  BY <1>1, <1>4, SelectType, NoteCallType DEF IInv, TypeOK, Call

LEMMA OpenStreamIInv ==
  ASSUME IInv, NEW r \in Requests, NEW p \in Pods, NEW s \in Sessions, OpenStream(r, p, s)
  PROVE  IInv'
<1>1. PICK target \in Replicas, via \in Vias :
        /\ Select(p, s, target, via)
        /\ req' = [req EXCEPT ![r] = NewCall(p, s, target, via, TRUE)]
  BY DEF OpenStream
<1> DEFINE new == NewCall(p, s, target, via, TRUE)
<1>2. new \in Live /\ ~HoldsSlot(new)
  BY DEF NewCall, Live, HoldsSlot
<1>3. ~HoldsSlot(req[r]) /\ active' = active
  BY DEF OpenStream, At, HoldsSlot
<1> HIDE DEF new
<1>4. /\ req' \in [Requests -> {Idle} \cup Live]
      /\ active' \in [Pods -> [Replicas -> Nat]]
      /\ SlotsMatchRequests'
  <2>1. req' = [req EXCEPT ![r] = new]
    BY <1>1 DEF new
  <2> QED
    BY <1>2, <1>3, <2>1, SlotsFollow
<1> QED
  BY <1>1, <1>4, SelectType, NoteCallType DEF IInv, TypeOK, OpenStream

\* The steps of a call that was routed change neither the map nor, unless
\* they complete it, what the pod remembers.
LEMMA ProgressIInv ==
  ASSUME IInv, NEW r \in Requests,
         \/ StartStream(r) \/ Fail(r) \/ DropUnstarted(r)
         \/ CancelStream(r) \/ AbandonStream(r) \/ Finalize(r)
  PROVE  IInv'
<1>1. req[r] \in {Idle} \cup Live /\ req \in [Requests -> {Idle} \cup Live] /\ Memory
  BY DEF IInv, TypeOK, Memory
<1>2. req[r].pc # "idle" => req[r] \in Live
  BY <1>1 DEF Idle
<1>3. Idle \in {Idle} \cup Live /\ ~HoldsSlot(Idle)
  BY DEF Idle, HoldsSlot
<1>4. UNCHANGED <<warm, home, patient, servedAt>>
  BY DEF StartStream, Fail, DropUnstarted, CancelStream, AbandonStream, Finalize
<1>5. /\ req' \in [Requests -> {Idle} \cup Live]
      /\ active' \in [Pods -> [Replicas -> Nat]]
      /\ SlotsMatchRequests'
  <2>1. CASE StartStream(r)
    <3> DEFINE new == [req[r] EXCEPT !.pc = "upstream"]
    <3>1. /\ new \in Live /\ HoldsSlot(new)
          /\ new.pod = req[r].pod /\ new.target = req[r].target
          /\ ~HoldsSlot(req[r])
      BY <1>2, <2>1 DEF StartStream, At, Live, HoldsSlot
    <3>2. req' = [req EXCEPT ![r] = new] /\ Acquire(req[r].pod, req[r].target)
      BY <1>1, <2>1 DEF StartStream
    <3> HIDE DEF new
    <3> QED
      BY <3>1, <3>2, SlotsFollow
  <2>2. CASE Fail(r) \/ CancelStream(r) \/ Finalize(r)
    <3>1. /\ HoldsSlot(req[r])
          /\ req' = [req EXCEPT ![r] = Idle]
          /\ Release(req[r].pod, req[r].target)
      BY <2>2 DEF Fail, CancelStream, Finalize, At, HoldsSlot
    <3> QED
      BY <1>3, <3>1, SlotsFollow
  <2>3. CASE DropUnstarted(r)
    <3>1. /\ ~HoldsSlot(req[r])
          /\ req' = [req EXCEPT ![r] = Idle]
          /\ active' = active
      BY <2>3 DEF DropUnstarted, At, HoldsSlot
    <3> QED
      BY <1>3, <3>1, SlotsFollow
  <2>4. CASE AbandonStream(r)
    <3> DEFINE new == [req[r] EXCEPT !.pc = "abandoned"]
    <3>1. /\ new \in Live /\ HoldsSlot(new) /\ HoldsSlot(req[r])
          /\ new.pod = req[r].pod /\ new.target = req[r].target
      BY <1>2, <2>4 DEF AbandonStream, At, Live, HoldsSlot
    <3>2. req' = [req EXCEPT ![r] = new] /\ active' = active
      BY <1>1, <2>4 DEF AbandonStream
    <3> HIDE DEF new
    <3> QED
      BY <3>1, <3>2, SlotsFollow
  <2> QED
    BY <2>1, <2>2, <2>3, <2>4
<1> QED
  BY <1>1, <1>4, <1>5 DEF IInv, TypeOK, Memory

LEMMA CompleteIInv ==
  ASSUME IInv, NEW r \in Requests, Complete(r)
  PROVE  IInv'
<1> DEFINE p == req[r].pod
           s == req[r].session
           k == req[r].target
<1>1. Memory /\ req[r] \in Live
  BY DEF IInv, TypeOK, Memory, Complete, At, Idle
<1>2. p \in Pods /\ s \in Sessions /\ k \in Replicas
  BY <1>1 DEF Live
<1>3. /\ req' \in [Requests -> {Idle} \cup Live]
      /\ active' \in [Pods -> [Replicas -> Nat]]
      /\ SlotsMatchRequests'
  <2>1. /\ HoldsSlot(req[r]) /\ ~HoldsSlot(Idle)
        /\ req' = [req EXCEPT ![r] = Idle]
        /\ Release(req[r].pod, req[r].target)
    BY DEF Complete, At, HoldsSlot, Idle
  <2> QED
    BY <2>1, SlotsFollow
<1>4. PICK held \in SUBSET (warm[p][k] \cup {s}) :
        /\ warm' = [warm EXCEPT ![p][k] = held]
        /\ servedAt' = [servedAt EXCEPT ![p] = CopiesAfter(r, held)]
  BY DEF Complete
<1>5. held \subseteq Sessions
  BY <1>1, <1>2, <1>4 DEF Memory
<1>6. CopiesAfter(r, held) \in [Sessions -> Replicas \cup {Nobody}]
  BY <1>1, <1>2 DEF CopiesAfter, Memory
<1>7. Memory'
  BY <1>1, <1>2, <1>4, <1>5, <1>6 DEF Complete, Memory
<1> QED
  BY <1>3, <1>7 DEF IInv, TypeOK, Memory

LEMMA ForgetHomeIInv ==
  ASSUME IInv, NEW d \in Stores, NEW s \in Sessions, ForgetHome(d, s)
  PROVE  IInv'
<1>1. Memory
  BY DEF IInv, TypeOK, Memory
<1>2. Memory'
  BY <1>1 DEF ForgetHome, Memory
<1> QED
  BY <1>2 DEF IInv, TypeOK, Memory, ForgetHome, SlotsMatchRequests, Holders, At

LEMMA RestartIInv ==
  ASSUME IInv, NEW p \in Pods, Restart(p)
  PROVE  IInv'
<1>1. Memory /\ req \in [Requests -> {Idle} \cup Live]
  BY DEF IInv, TypeOK, Memory
<1>2. Memory'
  BY <1>1 DEF Restart, Memory, Stores
<1>3. req' \in [Requests -> {Idle} \cup Live]
  BY <1>1 DEF Restart
<1>4. /\ active' \in [Pods -> [Replicas -> Nat]]
      /\ \A k \in Replicas : active'[p][k] = 0
      /\ \A q \in Pods \ {p}, k \in Replicas : active'[q][k] = active[q][k]
  BY DEF Restart, IInv, TypeOK
<1>5. \A k : Holders(p, k)' = {}
  BY <1>1 DEF Restart, Holders, At, Idle
<1>6. \A q \in Pods \ {p} : \A k : Holders(q, k)' = Holders(q, k)
  BY <1>1 DEF Restart, Holders, At, Idle
<1>7. SlotsMatchRequests'
  <2> SUFFICES ASSUME NEW q \in Pods, NEW k \in Replicas
               PROVE  active'[q][k] = Cardinality(Holders(q, k)')
    BY DEF SlotsMatchRequests
  <2>1. CASE q = p
    BY <1>4, <1>5, <2>1, FS_EmptySet
  <2>2. CASE q # p
    <3>1. active[q][k] = Cardinality(Holders(q, k))
      BY DEF IInv, SlotsMatchRequests
    <3> QED
      BY <1>4, <1>6, <2>2, <3>1
  <2> QED
    BY <2>1, <2>2
<1> QED
  BY <1>2, <1>3, <1>4, <1>7 DEF IInv, TypeOK, Memory

LEMMA NextIInv == IInv /\ [Next]_vars => IInv'
<1> SUFFICES ASSUME IInv, [Next]_vars PROVE IInv'
  OBVIOUS
<1>1. CASE \E r \in Requests, p \in Pods, s \in Sessions : Call(r, p, s) \/ OpenStream(r, p, s)
  BY <1>1, CallIInv, OpenStreamIInv
<1>2. CASE \E r \in Requests : \/ StartStream(r) \/ Fail(r) \/ DropUnstarted(r)
                               \/ CancelStream(r) \/ AbandonStream(r) \/ Finalize(r)
  BY <1>2, ProgressIInv
<1>3. CASE \E r \in Requests : Complete(r)
  BY <1>3, CompleteIInv
<1>4. CASE \E d \in Stores, s \in Sessions : ForgetHome(d, s)
  BY <1>4, ForgetHomeIInv
<1>5. CASE \E p \in Pods : Restart(p)
  BY <1>5, RestartIInv
<1>6. CASE UNCHANGED vars
  BY <1>6 DEF vars, IInv, TypeOK, SlotsMatchRequests, Holders, At
<1> QED
  BY <1>1, <1>2, <1>3, <1>4, <1>5, <1>6 DEF Next

LEMMA InitIInv == Init => IInv
<1> SUFFICES ASSUME Init PROVE IInv
  OBVIOUS
<1>1. TypeOK
  BY DEF Init, TypeOK
<1>2. \A p, k : Holders(p, k) = {}
  BY DEF Init, Holders, At, Idle
<1>3. SlotsMatchRequests
  BY <1>2, FS_EmptySet DEF Init, SlotsMatchRequests
<1> QED
  BY <1>1, <1>3 DEF IInv

(***************************************************************************)
(* Slot accounting.                                                        *)
(***************************************************************************)
\* The invariant behind the others: what the counters and the calls look like
\* together, for every store, queue limit and kind of call.
THEOREM GatewayInvariant == Spec => []IInv
<1>1. Init => IInv
  BY InitIInv
<1>2. IInv /\ [Next]_vars => IInv'
  BY NextIInv
<1> QED
  BY <1>1, <1>2, PTL DEF Spec

\* Requests, counters, beliefs, homes and history keep their types, and the map
\* never holds an id that neither this nor an earlier deployment had.
THEOREM GatewayTypes == Spec => []TypeOK
<1>1. IInv => TypeOK
  BY DEF IInv
<1> QED
  BY <1>1, GatewayInvariant, PTL

\* Replica.slot never leaks and never underflows: in every reachable state a
\* replica counts the calls that are using it, whichever way calls end.
THEOREM SlotAccounting == Spec => []SlotsMatchRequests
<1>1. IInv => SlotsMatchRequests
  BY DEF IInv
<1> QED
  BY <1>1, GatewayInvariant, PTL

(***************************************************************************)
(* The load valve.                                                         *)
(***************************************************************************)
\* Only streams wait between their routing and their slot.
StreamsWait == \A r \in Requests : At(r, "scheduled") => req[r].stream

Followers(p, k) ==
  {r \in Holders(p, k) : req[r].via = "affinity" /\ ~req[r].stream}

ValveInv == IInv /\ StreamsWait /\ AffinityDepth

LEMMA FollowersFinite ==
  ASSUME NEW p, NEW k
  PROVE  /\ IsFiniteSet(Followers(p, k))
         /\ Cardinality(Followers(p, k)) \in Nat
         /\ Cardinality(Followers(p, k)) <= Cardinality(Holders(p, k))
<1>1. Followers(p, k) \in SUBSET Holders(p, k)
  BY DEF Followers
<1> QED
  BY <1>1, HoldersFinite, FS_Subset, FS_CardinalityType

\* Where the calls that affinity put on a replica are among those of before,
\* the depth holds on.
LEMMA FewerFollowers ==
  ASSUME AffinityDepth,
         \A p \in Pods, k \in Replicas : Followers(p, k)' \subseteq Followers(p, k)
  PROVE  AffinityDepth'
<1> SUFFICES ASSUME NEW p \in Pods, NEW k \in Replicas
             PROVE  Cardinality(Followers(p, k)') <= QueueLimit + 1
  BY DEF AffinityDepth, Followers
<1>1. Followers(p, k)' \in SUBSET Followers(p, k)
  OBVIOUS
<1>2. Cardinality(Followers(p, k)') <= Cardinality(Followers(p, k))
  BY <1>1, FollowersFinite, FS_Subset
<1>3. Cardinality(Followers(p, k)') \in Nat
  BY <1>1, FollowersFinite, FS_Subset, FS_CardinalityType
<1>4. Cardinality(Followers(p, k)) <= QueueLimit + 1
  BY DEF AffinityDepth, Followers
<1> QED
  BY <1>2, <1>3, <1>4, FollowersFinite, GatewayAssumption

\* The step that routes a call by affinity is the step that counts it.
LEMMA CallDepth ==
  ASSUME ValveInv, NEW r \in Requests, NEW p \in Pods, NEW s \in Sessions, Call(r, p, s)
  PROVE  AffinityDepth'
<1>1. PICK target \in Replicas, via \in Vias :
        /\ Select(p, s, target, via)
        /\ req' = [req EXCEPT ![r] = NewCall(p, s, target, via, FALSE)]
  BY DEF Call
<1>2. /\ req'[r] = NewCall(p, s, target, via, FALSE)
      /\ \A q \in Requests \ {r} : req'[q] = req[q]
  BY <1>1 DEF ValveInv, IInv, TypeOK
<1>3. \A q, k : r \notin Followers(q, k)
  BY DEF Followers, Holders, At, Call
<1>4. \A q \in Pods, k \in Replicas :
        Followers(q, k)' =
          IF via = "affinity" /\ q = p /\ k = target
          THEN Followers(q, k) \cup {r} ELSE Followers(q, k)
  BY <1>2, <1>3 DEF Followers, Holders, At, NewCall
<1>5. CASE via # "affinity"
  BY <1>4, <1>5, FewerFollowers DEF ValveInv
<1>6. CASE via = "affinity"
  <2>1. active[p][target] <= QueueLimit
    BY <1>1, <1>6 DEF Select, Route, MaySend
  <2>2. Cardinality(Holders(p, target)) <= QueueLimit
    BY <2>1 DEF ValveInv, IInv, SlotsMatchRequests
  <2>3. Cardinality(Followers(p, target)) <= QueueLimit
    BY <2>2, FollowersFinite, HoldersFinite, GatewayAssumption
  <2>4. Cardinality(Followers(p, target) \cup {r}) = Cardinality(Followers(p, target)) + 1
    BY <1>3, FollowersFinite, FS_AddElement
  <2> SUFFICES ASSUME NEW q \in Pods, NEW k \in Replicas
               PROVE  Cardinality(Followers(q, k)') <= QueueLimit + 1
    BY DEF AffinityDepth, Followers
  <2>5. CASE q = p /\ k = target
    <3>1. Followers(q, k)' = Followers(p, target) \cup {r}
      BY <1>4, <1>6, <2>5
    <3>2. Cardinality(Followers(p, target)) \in Nat
      BY FollowersFinite
    <3> QED
      BY <2>3, <2>4, <3>1, <3>2, GatewayAssumption
  <2>6. CASE ~(q = p /\ k = target)
    <3>1. Cardinality(Followers(q, k)) <= QueueLimit + 1
      BY DEF ValveInv, AffinityDepth, Followers
    <3> QED
      BY <1>4, <2>6, <3>1
  <2> QED
    BY <2>5, <2>6
<1> QED
  BY <1>5, <1>6

\* What a step other than a new call may do to a call: leave it alone, end it,
\* or move it on if it is streamed.
Continues(old, new) ==
  \/ new = old
  \/ new = Idle
  \/ new.pc # "idle" /\ new.stream

LEMMA StepsContinue ==
  ASSUME ValveInv, [Next]_vars,
         ~ \E r \in Requests, p \in Pods, s \in Sessions : Call(r, p, s)
  PROVE  \A q \in Requests : Continues(req[q], req'[q])
<1>1. req \in [Requests -> {Idle} \cup Live]
  BY DEF ValveInv, IInv, TypeOK
<1>2. CASE \E r \in Requests : \/ Complete(r) \/ Fail(r) \/ CancelStream(r)
                               \/ DropUnstarted(r) \/ Finalize(r)
  <2>1. PICK r \in Requests : req' = [req EXCEPT ![r] = Idle]
    BY <1>2 DEF Complete, Fail, CancelStream, DropUnstarted, Finalize
  <2> QED
    BY <1>1, <2>1 DEF Continues
<1>3. CASE \E r \in Requests : StartStream(r) \/ AbandonStream(r)
  <2>1. PICK r \in Requests, pc \in {"upstream", "abandoned"} :
          /\ req[r].pc # "idle" /\ req[r].stream
          /\ req' = [req EXCEPT ![r].pc = pc]
    BY <1>3 DEF StartStream, AbandonStream, At, ValveInv, StreamsWait
  <2>2. req[r] \in Live
    BY <1>1, <2>1 DEF Idle
  <2> QED
    BY <1>1, <2>1, <2>2 DEF Continues, Live
<1>4. CASE \E p \in Pods : Restart(p)
  BY <1>4 DEF Restart, Continues
<1>5. CASE UNCHANGED req
  BY <1>5 DEF Continues
<1>6. CASE \E r \in Requests, p \in Pods, s \in Sessions : OpenStream(r, p, s)
  <2>1. PICK r \in Requests, p \in Pods, s \in Sessions, target \in Replicas, via \in Vias :
          req' = [req EXCEPT ![r] = NewCall(p, s, target, via, TRUE)]
    BY <1>6 DEF OpenStream
  <2> QED
    BY <1>1, <2>1 DEF Continues, NewCall
<1>7. \A d \in Stores, s \in Sessions : ForgetHome(d, s) => UNCHANGED req
  BY DEF ForgetHome
<1> QED
  BY <1>2, <1>3, <1>4, <1>5, <1>6, <1>7 DEF Next, vars

LEMMA NextValve ==
  ASSUME ValveInv, [Next]_vars
  PROVE  ValveInv'
<1>1. IInv'
  BY NextIInv DEF ValveInv
<1>2. req \in [Requests -> {Idle} \cup Live]
  BY DEF ValveInv, IInv, TypeOK
<1>3. CASE \E r \in Requests, p \in Pods, s \in Sessions : Call(r, p, s)
  <2>1. PICK r \in Requests, p \in Pods, s \in Sessions : Call(r, p, s)
    BY <1>3
  <2>2. AffinityDepth'
    BY <2>1, CallDepth
  <2>3. PICK target, via : req' = [req EXCEPT ![r] = NewCall(p, s, target, via, FALSE)]
    BY <2>1 DEF Call
  <2>4. NewCall(p, s, target, via, FALSE).pc = "upstream"
    BY DEF NewCall
  <2>5. StreamsWait'
    BY <1>2, <2>3, <2>4 DEF ValveInv, StreamsWait, At
  <2> QED
    BY <1>1, <2>2, <2>5 DEF ValveInv
<1>4. CASE ~(\E r \in Requests, p \in Pods, s \in Sessions : Call(r, p, s))
  <2>1. \A q \in Requests : Continues(req[q], req'[q])
    BY <1>4, StepsContinue
  <2>2. \A p \in Pods, k \in Replicas : Followers(p, k)' \subseteq Followers(p, k)
    BY <2>1 DEF Continues, Followers, Holders, At, Idle
  <2>3. AffinityDepth'
    BY <2>2, FewerFollowers DEF ValveInv
  <2>4. StreamsWait'
    BY <2>1 DEF ValveInv, StreamsWait, Continues, At, Idle
  <2> QED
    BY <1>1, <2>3, <2>4 DEF ValveInv
<1> QED
  BY <1>3, <1>4

\* However calls interleave, and whatever streams there are, affinity alone
\* never queues more than QueueLimit + 1 calls on a replica.
THEOREM LoadValve == Spec => []AffinityDepth
<1>1. Init => ValveInv
  <2> SUFFICES ASSUME Init PROVE StreamsWait /\ AffinityDepth
    BY InitIInv DEF ValveInv
  <2>1. StreamsWait
    BY DEF Init, StreamsWait, At, Idle
  <2>2. \A p, k : Followers(p, k) = {}
    BY DEF Init, Followers, Holders, At, Idle
  <2>3. AffinityDepth
    <3> SUFFICES ASSUME NEW p \in Pods, NEW k \in Replicas
                 PROVE  Cardinality(Followers(p, k)) <= QueueLimit + 1
      BY DEF AffinityDepth, Followers
    <3>1. Cardinality(Followers(p, k)) = 0
      BY <2>2, FS_EmptySet
    <3> QED
      BY <3>1, GatewayAssumption
  <2> QED
    BY <2>1, <2>3
<1>2. ValveInv /\ [Next]_vars => ValveInv'
  BY NextValve
<1>3. ValveInv => AffinityDepth
  BY DEF ValveInv
<1> QED
  BY <1>1, <1>2, <1>3, PTL DEF Spec

(***************************************************************************)
(* Homes.  Where no two pods share a map and the map answers, its owner    *)
(* alone moves a session, and only when it finds it at no replica.         *)
(***************************************************************************)
OneOwner ==
  /\ ~StoreFaults
  /\ \A p, q \in Pods : StoreOf(p) = StoreOf(q) => p = q

\* What select does to the map and where it sends a session that is found.
LEMMA SelectEffect ==
  ASSUME OneOwner, TypeOK, NEW p \in Pods, NEW s \in Sessions,
         NEW target \in Replicas, NEW via \in Vias, Select(p, s, target, via)
  PROVE  /\ \A d \in Stores, t \in Sessions :
              d # StoreOf(p) \/ t # s => home'[d][t] = home[d][t]
         /\ FoundAt(p, s, home[StoreOf(p)][s]) =>
              /\ home' = home
              /\ active[p][home[StoreOf(p)][s]] <= QueueLimit =>
                   target = home[StoreOf(p)][s]
         /\ via # "detour" => home'[StoreOf(p)][s] = target
<1> DEFINE d0 == StoreOf(p)
           k == home[d0][s]
<1>1. d0 \in Stores
  BY StoreOfType
<1>2. home \in [Stores -> [Sessions -> Replicas \cup LeftoverHomes \cup {Nobody}]]
  BY DEF TypeOK
<1>3. Route(p, s, k, target, via)
  BY DEF Select, Observed, OneOwner
<1>4. CASE ~FoundAt(p, s, k)
  <2>1. home' = [home EXCEPT ![d0][s] = target]
    BY <1>3, <1>4 DEF Route, MaySend, SetHome, OneOwner
  <2> QED
    BY <1>1, <1>2, <1>4, <2>1
<1>5. CASE FoundAt(p, s, k)
  <2>1. k \in Replicas
    BY <1>5 DEF FoundAt
  <2>2. home' = home
    BY <1>3, <1>5 DEF Route, MaySend
  <2>3. active[p][k] <= QueueLimit => target = k
    <3>1. active[p][k] \in Int /\ QueueLimit \in Int
      BY <2>1, GatewayAssumption DEF TypeOK
    <3> QED
      BY <1>3, <1>5, <3>1 DEF Route, MaySend
  <2>4. via # "detour" => target = k
    BY <1>3, <1>5 DEF Route, MaySend
  <2> QED
    BY <2>2, <2>3, <2>4
<1> QED
  BY <1>4, <1>5

\* Calls and streams are routed alike.
LEMMA OpeningStep ==
  ASSUME NEW r \in Requests, NEW p \in Pods, NEW s \in Sessions,
         Call(r, p, s) \/ OpenStream(r, p, s)
  PROVE  /\ At(r, "idle") /\ NoteCall(s)
         /\ warm' = warm /\ servedAt' = servedAt
         /\ \E target \in Replicas, via \in Vias, stream \in BOOLEAN :
              /\ Select(p, s, target, via)
              /\ req' = [req EXCEPT ![r] = NewCall(p, s, target, via, stream)]
BY DEF Call, OpenStream

LEMMA KeepsHome ==
  ASSUME OneOwner, TypeOK, [Next]_vars, NEW p \in Pods, NEW s \in Sessions,
         NEW k \in Replicas, home[StoreOf(p)][s] = k, FoundAt(p, s, k)
  PROVE  home'[StoreOf(p)][s] \in {k, Nobody}
<1>1. StoreOf(p) \in Stores
  BY StoreOfType
<1>2. home \in [Stores -> [Sessions -> Replicas \cup LeftoverHomes \cup {Nobody}]]
  BY DEF TypeOK
<1>3. CASE \E r \in Requests, q \in Pods, t \in Sessions : Call(r, q, t) \/ OpenStream(r, q, t)
  <2>1. PICK q \in Pods, t \in Sessions, target \in Replicas, via \in Vias :
          Select(q, t, target, via)
    BY <1>3, OpeningStep
  <2>2. CASE q = p /\ t = s
    BY <2>1, <2>2, SelectEffect
  <2>3. CASE ~(q = p /\ t = s)
    <3>1. StoreOf(p) # StoreOf(q) \/ s # t
      BY <2>3 DEF OneOwner
    <3> QED
      BY <1>1, <2>1, <3>1, SelectEffect
  <2> QED
    BY <2>2, <2>3
<1>4. CASE \E d \in Stores, t \in Sessions : ForgetHome(d, t)
  BY <1>1, <1>2, <1>4 DEF ForgetHome
<1>5. CASE \E q \in Pods : Restart(q)
  <2>1. PICK q \in Pods : Restart(q)
    BY <1>5
  <2>2. CASE SharedStore
    BY <2>1, <2>2 DEF Restart
  <2>3. CASE ~SharedStore
    BY <1>1, <1>2, <2>1, <2>3 DEF Restart
  <2> QED
    BY <2>2, <2>3
<1>6. CASE UNCHANGED home
  BY <1>6
<1>7. CASE \E r \in Requests :
        \/ StartStream(r) \/ Complete(r) \/ Fail(r) \/ DropUnstarted(r)
        \/ CancelStream(r) \/ AbandonStream(r) \/ Finalize(r)
  BY <1>7 DEF StartStream, Complete, Fail, DropUnstarted, CancelStream, AbandonStream, Finalize
<1> QED
  BY <1>3, <1>4, <1>5, <1>6, <1>7 DEF Next, vars

\* No race and no detour moves a session away from a replica that still has its
\* prefix, as long as one process owns the map and the map answers.  (With two
\* pods on one map it fails: run gateway_two_pods.)
THEOREM WarmHomesStay ==
  ASSUME OneOwner
  PROVE  Spec => WarmHomeIsKept
<1>1. TypeOK /\ [Next]_vars =>
        [\A p \in Pods, s \in Sessions, k \in Replicas :
           home[StoreOf(p)][s] = k /\ FoundAt(p, s, k) =>
             home'[StoreOf(p)][s] \in {k, Nobody}]_vars
  BY KeepsHome
<1> QED
  BY <1>1, GatewayTypes, PTL DEF Spec, WarmHomeIsKept

\* Without OneOwner a warm home does move, and this is all that moves it: a new
\* call at a pod whose own replica k does not have the session, although p's
\* has, or a Redis failure that hides the home from the router.
OtherPodRehomes ==
  [][\A p \in Pods, s \in Sessions, k \in Replicas :
       home[StoreOf(p)][s] = k /\ FoundAt(p, s, k) /\ home'[StoreOf(p)][s] \notin {k, Nobody} =>
         \E r \in Requests, q \in Pods :
           /\ Call(r, q, s) \/ OpenStream(r, q, s)
           /\ StoreOf(q) = StoreOf(p)
           /\ StoreFaults \/ (q # p /\ ~FoundAt(q, s, k))]_vars

LEMMA WhoMovesHome ==
  ASSUME TypeOK, [Next]_vars, NEW p \in Pods, NEW s \in Sessions, NEW k \in Replicas,
         home[StoreOf(p)][s] = k, FoundAt(p, s, k),
         home'[StoreOf(p)][s] \notin {k, Nobody}
  PROVE  \E r \in Requests, q \in Pods :
           /\ Call(r, q, s) \/ OpenStream(r, q, s)
           /\ StoreOf(q) = StoreOf(p)
           /\ StoreFaults \/ (q # p /\ ~FoundAt(q, s, k))
<1>1. StoreOf(p) \in Stores
  BY StoreOfType
<1>2. home \in [Stores -> [Sessions -> Replicas \cup LeftoverHomes \cup {Nobody}]]
  BY DEF TypeOK
<1>3. CASE \E r \in Requests, q \in Pods, t \in Sessions : Call(r, q, t) \/ OpenStream(r, q, t)
  <2>1. PICK r \in Requests, q \in Pods, t \in Sessions : Call(r, q, t) \/ OpenStream(r, q, t)
    BY <1>3
  <2>2. PICK target \in Replicas, via \in Vias : Select(q, t, target, via)
    BY <2>1, OpeningStep
  <2>3. PICK j \in Observed(q, t) : Route(q, t, j, target, via)
    BY <2>2 DEF Select
  <2>4. via = "cold" /\ ~FoundAt(q, t, j) /\ home' = [home EXCEPT ![StoreOf(q)][t] = target]
    <3>1. home' # home
      BY <1>1, <1>2
    <3> QED
      BY <2>3, <3>1 DEF Route, MaySend, SetHome
  <2>5. StoreOf(q) = StoreOf(p) /\ t = s
    <3>1. StoreOf(q) \in Stores
      BY StoreOfType
    <3> QED
      BY <1>1, <1>2, <2>4, <3>1
  <2>6. StoreFaults \/ j = k
    BY <2>3, <2>5 DEF Observed
  <2> QED
    BY <2>1, <2>4, <2>5, <2>6
<1>4. CASE \E d \in Stores, t \in Sessions : ForgetHome(d, t)
  BY <1>1, <1>2, <1>4 DEF ForgetHome
<1>5. CASE \E q \in Pods : Restart(q)
  <2>1. PICK q \in Pods : Restart(q)
    BY <1>5
  <2>2. CASE SharedStore
    BY <2>1, <2>2 DEF Restart
  <2>3. CASE ~SharedStore
    BY <1>1, <1>2, <2>1, <2>3 DEF Restart
  <2> QED
    BY <2>2, <2>3
<1>6. CASE UNCHANGED home
  BY <1>6
<1>7. CASE \E r \in Requests :
        \/ StartStream(r) \/ Complete(r) \/ Fail(r) \/ DropUnstarted(r)
        \/ CancelStream(r) \/ AbandonStream(r) \/ Finalize(r)
  BY <1>7 DEF StartStream, Complete, Fail, DropUnstarted, CancelStream, AbandonStream, Finalize
<1> QED
  BY <1>3, <1>4, <1>5, <1>6, <1>7 DEF Next, vars

\* Of however many pods on one map: where WarmHomesStay no longer holds, the
\* only steps that move a warm session are those that the finding of run
\* gateway_two_pods shows, another pod's cold call, and a call that met a
\* Redis failure; no detour, no ending call and no eviction ever does.
THEOREM OnlyAnotherPodRehomes == Spec => OtherPodRehomes
<1>1. TypeOK /\ [Next]_vars =>
        [\A p \in Pods, s \in Sessions, k \in Replicas :
           home[StoreOf(p)][s] = k /\ FoundAt(p, s, k)
             /\ home'[StoreOf(p)][s] \notin {k, Nobody} =>
           \E r \in Requests, q \in Pods :
             /\ Call(r, q, s) \/ OpenStream(r, q, s)
             /\ StoreOf(q) = StoreOf(p)
             /\ StoreFaults \/ (q # p /\ ~FoundAt(q, s, k))]_vars
  BY WhoMovesHome
<1> QED
  BY <1>1, GatewayTypes, PTL DEF Spec, OtherPodRehomes

(***************************************************************************)
(* Going back.  A patient session has at most one call in flight, so where *)
(* that call is no detour it was placed at the home, and no other call     *)
(* writes the home before it leaves its copy there.  Once a copy is warm   *)
(* at the home nothing moves either, overlapping calls included, until the *)
(* copy is evicted or the home forgotten.                                  *)
(***************************************************************************)
OneAtATime ==
  \A q, r \in Requests :
    InFlight(q) /\ InFlight(r) /\ req[q].session = req[r].session
      /\ req[r].session \in patient => q = r

PlacedAtHome ==
  \A r \in Requests :
    InFlight(r) /\ req[r].session \in patient /\ req[r].via # "detour" =>
      home[StoreOf(req[r].pod)][req[r].session] \in {req[r].target, Nobody}

CopiesAtHome ==
  \A p \in Pods, s \in Sessions :
    servedAt[p][s] # Nobody =>
      /\ home[StoreOf(p)][s] = servedAt[p][s]
      /\ s \in warm[p][servedAt[p][s]]

HomeInv == TypeOK /\ OneAtATime /\ PlacedAtHome /\ CopiesAtHome

\* A copy that is known is one that the router finds.
LEMMA CopyIsFound ==
  ASSUME HomeInv, NEW p \in Pods, NEW s \in Sessions, servedAt[p][s] # Nobody
  PROVE  /\ home[StoreOf(p)][s] = servedAt[p][s]
         /\ FoundAt(p, s, home[StoreOf(p)][s])
<1>1. servedAt[p][s] \in Replicas
  BY DEF HomeInv, TypeOK
<1> QED
  BY <1>1 DEF HomeInv, CopiesAtHome, FoundAt

LEMMA OpeningHomes ==
  ASSUME OneOwner, HomeInv, NEW r \in Requests, NEW p \in Pods, NEW s \in Sessions,
         Call(r, p, s) \/ OpenStream(r, p, s)
  PROVE  OneAtATime' /\ PlacedAtHome' /\ CopiesAtHome'
<1>1. PICK target \in Replicas, via \in Vias, stream \in BOOLEAN :
        /\ Select(p, s, target, via)
        /\ req' = [req EXCEPT ![r] = NewCall(p, s, target, via, stream)]
  BY OpeningStep
<1>2. /\ At(r, "idle") /\ NoteCall(s)
      /\ warm' = warm /\ servedAt' = servedAt
  BY OpeningStep
<1>3. /\ req'[r].pod = p /\ req'[r].session = s
      /\ req'[r].target = target /\ req'[r].via = via
      /\ \A q \in Requests \ {r} : req'[q] = req[q]
  BY <1>1 DEF HomeInv, TypeOK, NewCall
<1>4. /\ s \in patient' => \A q \in Requests : InFlight(q) => req[q].session # s
      /\ \A t : t # s => (t \in patient' <=> t \in patient)
  BY <1>2 DEF NoteCall
<1>5. \A q \in Requests \ {r} : InFlight(q)' <=> InFlight(q)
  BY <1>3 DEF InFlight, At
<1>6. OneAtATime'
  BY <1>3, <1>4, <1>5 DEF HomeInv, OneAtATime
<1>7. \A q \in Requests : InFlight(q) => req[q].session \in Sessions /\ req[q].pod \in Pods
  BY DEF HomeInv, TypeOK, InFlight, At, Idle, Live
<1>8. PlacedAtHome'
  <2> SUFFICES ASSUME NEW q \in Requests, InFlight(q)', req'[q].session \in patient',
                      req'[q].via # "detour"
               PROVE  home'[StoreOf(req'[q].pod)][req'[q].session] \in {req'[q].target, Nobody}
    BY DEF PlacedAtHome
  <2>1. CASE q = r
    BY <1>1, <1>3, <2>1, SelectEffect DEF HomeInv
  <2>2. CASE q # r
    <3>1. req'[q] = req[q] /\ InFlight(q)
      BY <1>3, <1>5, <2>2
    <3>2. req[q].session # s /\ req[q].session \in patient
      BY <1>4, <3>1
    <3>3. StoreOf(req[q].pod) \in Stores /\ req[q].session \in Sessions
      BY <1>7, <3>1, StoreOfType
    <3>4. home'[StoreOf(req[q].pod)][req[q].session] = home[StoreOf(req[q].pod)][req[q].session]
      BY <1>1, <3>2, <3>3, SelectEffect DEF HomeInv
    <3> QED
      BY <3>1, <3>2, <3>4 DEF HomeInv, PlacedAtHome
  <2> QED
    BY <2>1, <2>2
<1>9. CopiesAtHome'
  <2> SUFFICES ASSUME NEW q \in Pods, NEW t \in Sessions, servedAt[q][t] # Nobody
               PROVE  home'[StoreOf(q)][t] = home[StoreOf(q)][t]
    BY <1>2 DEF HomeInv, CopiesAtHome
  <2>1. StoreOf(q) \in Stores
    BY StoreOfType
  <2>2. CASE q = p /\ t = s
    BY <1>1, <2>2, CopyIsFound, SelectEffect DEF HomeInv
  <2>3. CASE ~(q = p /\ t = s)
    <3>1. StoreOf(q) # StoreOf(p) \/ t # s
      BY <2>3 DEF OneOwner
    <3> QED
      BY <1>1, <2>1, <3>1, SelectEffect DEF HomeInv
  <2> QED
    BY <2>2, <2>3
<1> QED
  BY <1>6, <1>8, <1>9

\* A step after which every call in flight was in flight before, unchanged but
\* for its pc, keeps the facts about calls.
FewerCalls ==
  \A q \in Requests : InFlight(q)' =>
    /\ InFlight(q)
    /\ req'[q].session = req[q].session /\ req'[q].pod = req[q].pod
    /\ req'[q].target = req[q].target /\ req'[q].via = req[q].via

LEMMA FewerAtATime == HomeInv /\ FewerCalls /\ UNCHANGED patient => OneAtATime'
BY DEF HomeInv, FewerCalls, OneAtATime

LEMMA FewerPlaced ==
  HomeInv /\ FewerCalls /\ UNCHANGED <<home, patient>> => PlacedAtHome'
BY DEF HomeInv, FewerCalls, PlacedAtHome

LEMMA ProgressHomes ==
  ASSUME HomeInv, NEW r \in Requests,
         \/ StartStream(r) \/ Fail(r) \/ DropUnstarted(r)
         \/ CancelStream(r) \/ AbandonStream(r) \/ Finalize(r)
  PROVE  OneAtATime' /\ PlacedAtHome' /\ CopiesAtHome'
<1>1. UNCHANGED <<warm, home, patient, servedAt>>
  BY DEF StartStream, Fail, DropUnstarted, CancelStream, AbandonStream, Finalize
<1>2. req \in [Requests -> {Idle} \cup Live]
  BY DEF HomeInv, TypeOK
<1>3. FewerCalls
  <2>1. CASE Fail(r) \/ DropUnstarted(r) \/ CancelStream(r) \/ Finalize(r)
    <3>1. req' = [req EXCEPT ![r] = Idle]
      BY <2>1 DEF Fail, DropUnstarted, CancelStream, Finalize
    <3> QED
      BY <1>2, <3>1 DEF FewerCalls, InFlight, At, Idle
  <2>2. CASE StartStream(r) \/ AbandonStream(r)
    <3>1. PICK pc \in {"upstream", "abandoned"} :
            InFlight(r) /\ req' = [req EXCEPT ![r].pc = pc]
      BY <2>2 DEF StartStream, AbandonStream, InFlight, At
    <3>2. req[r] \in Live
      BY <1>2, <3>1 DEF InFlight, At, Idle
    <3>3. /\ req'[r].session = req[r].session /\ req'[r].pod = req[r].pod
          /\ req'[r].target = req[r].target /\ req'[r].via = req[r].via
          /\ \A q \in Requests \ {r} : req'[q] = req[q]
      BY <1>2, <3>1, <3>2 DEF Live
    <3> QED
      BY <3>1, <3>3 DEF FewerCalls, InFlight, At
  <2> QED
    BY <2>1, <2>2
<1>4. CopiesAtHome'
  BY <1>1 DEF HomeInv, CopiesAtHome
<1> QED
  BY <1>1, <1>3, <1>4, FewerAtATime, FewerPlaced

LEMMA CompleteHomes ==
  ASSUME HomeInv, NEW r \in Requests, Complete(r)
  PROVE  OneAtATime' /\ PlacedAtHome' /\ CopiesAtHome'
<1> DEFINE p == req[r].pod
           s == req[r].session
           k == req[r].target
<1>1. req \in [Requests -> {Idle} \cup Live] /\ req[r] \in Live
  BY DEF HomeInv, TypeOK, Complete, At, Idle
<1>2. p \in Pods /\ s \in Sessions /\ k \in Replicas
  BY <1>1 DEF Live
<1>3. home' = home /\ patient' = patient /\ req' = [req EXCEPT ![r] = Idle]
  BY DEF Complete
<1>4. FewerCalls
  BY <1>1, <1>3 DEF FewerCalls, InFlight, At, Idle
<1>5. PICK held \in SUBSET (warm[p][k] \cup {s}) :
        /\ warm' = [warm EXCEPT ![p][k] = held]
        /\ servedAt' = [servedAt EXCEPT ![p] = CopiesAfter(r, held)]
  BY DEF Complete
<1>6. /\ warm'[p][k] = held
      /\ \A q \in Pods, j \in Replicas : q # p \/ j # k => warm'[q][j] = warm[q][j]
      /\ servedAt'[p] = CopiesAfter(r, held)
      /\ \A q \in Pods : q # p => servedAt'[q] = servedAt[q]
  BY <1>2, <1>5 DEF HomeInv, TypeOK
<1>7. CopiesAtHome'
  <2> SUFFICES ASSUME NEW q \in Pods, NEW t \in Sessions, servedAt'[q][t] # Nobody
               PROVE  /\ home[StoreOf(q)][t] = servedAt'[q][t]
                      /\ t \in warm'[q][servedAt'[q][t]]
    BY <1>3 DEF CopiesAtHome
  <2>2. servedAt[q][t] # Nobody => servedAt[q][t] \in Replicas
    BY DEF HomeInv, TypeOK
  <2>3. CASE q # p
    BY <1>6, <2>2, <2>3 DEF HomeInv, CopiesAtHome
  <2> DEFINE placed == s \in patient /\ req[r].via # "detour" /\ home[StoreOf(p)][s] # Nobody
  <2>4. CASE q = p /\ t = s /\ placed
    <3>1. servedAt'[q][t] = IF s \in held THEN k ELSE Nobody
      BY <1>6, <2>4 DEF CopiesAfter
    <3>2. home[StoreOf(p)][s] = k
      BY <2>4 DEF HomeInv, PlacedAtHome, Complete, InFlight
    <3> QED
      BY <1>6, <2>4, <3>1, <3>2
  <2>5. CASE q = p /\ ~(t = s /\ placed)
    <3>1. servedAt'[q][t] = IF servedAt[p][t] = k /\ t \notin held THEN Nobody
                            ELSE servedAt[p][t]
      BY <1>6, <2>5 DEF CopiesAfter
    <3>2. servedAt'[q][t] = servedAt[p][t] /\ (servedAt[p][t] = k => t \in held)
      BY <3>1
    <3>3. /\ home[StoreOf(p)][t] = servedAt[p][t]
          /\ t \in warm[p][servedAt[p][t]]
      BY <1>2, <2>5, <3>2 DEF HomeInv, CopiesAtHome
    <3> QED
      BY <1>6, <2>2, <2>5, <3>2, <3>3
  <2> QED
    BY <2>3, <2>4, <2>5
<1> QED
  BY <1>3, <1>4, <1>7, FewerAtATime, FewerPlaced

LEMMA ForgetHomeHomes ==
  ASSUME HomeInv, NEW d \in Stores, NEW t \in Sessions, ForgetHome(d, t)
  PROVE  OneAtATime' /\ PlacedAtHome' /\ CopiesAtHome'
<1>1. /\ home' = [home EXCEPT ![d][t] = Nobody]
      /\ servedAt' = [p \in Pods |->
                        IF StoreOf(p) = d THEN [servedAt[p] EXCEPT ![t] = Nobody]
                        ELSE servedAt[p]]
      /\ req' = req /\ warm' = warm /\ patient' = patient
  BY DEF ForgetHome
<1>2. \A e \in Stores, s \in Sessions :
        home'[e][s] = IF e = d /\ s = t THEN Nobody ELSE home[e][s]
  BY <1>1 DEF HomeInv, TypeOK
<1>3. \A p \in Pods, s \in Sessions :
        servedAt'[p][s] = IF StoreOf(p) = d /\ s = t THEN Nobody ELSE servedAt[p][s]
  BY <1>1 DEF HomeInv, TypeOK
<1>4. OneAtATime'
  BY <1>1 DEF HomeInv, OneAtATime, InFlight, At
<1>5. \A r \in Requests : InFlight(r) => req[r].session \in Sessions /\ req[r].pod \in Pods
  BY DEF HomeInv, TypeOK, InFlight, At, Idle, Live
<1>6. PlacedAtHome'
  <2> SUFFICES ASSUME NEW r \in Requests, InFlight(r), req[r].session \in patient,
                      req[r].via # "detour"
               PROVE  home'[StoreOf(req[r].pod)][req[r].session] \in {req[r].target, Nobody}
    BY <1>1 DEF PlacedAtHome, InFlight, At
  <2>1. home[StoreOf(req[r].pod)][req[r].session] \in {req[r].target, Nobody}
    BY DEF HomeInv, PlacedAtHome
  <2> QED
    BY <1>2, <1>5, <2>1, StoreOfType
<1>7. CopiesAtHome'
  <2> SUFFICES ASSUME NEW p \in Pods, NEW s \in Sessions, servedAt'[p][s] # Nobody
               PROVE  /\ home'[StoreOf(p)][s] = servedAt'[p][s]
                      /\ s \in warm[p][servedAt'[p][s]]
    BY <1>1 DEF CopiesAtHome
  <2>1. StoreOf(p) \in Stores
    BY StoreOfType
  <2>2. servedAt'[p][s] = servedAt[p][s] /\ home'[StoreOf(p)][s] = home[StoreOf(p)][s]
    BY <1>2, <1>3, <2>1
  <2> QED
    BY <2>2 DEF HomeInv, CopiesAtHome
<1> QED
  BY <1>4, <1>6, <1>7

LEMMA RestartHomes ==
  ASSUME HomeInv, OneOwner, NEW q \in Pods, Restart(q)
  PROVE  OneAtATime' /\ PlacedAtHome' /\ CopiesAtHome'
<1>1. \A r \in Requests :
        req'[r] = IF req[r].pc # "idle" /\ req[r].pod = q THEN Idle ELSE req[r]
  BY DEF Restart, At
<1>2. FewerCalls
  BY <1>1 DEF FewerCalls, InFlight, At, Idle
<1>3. /\ servedAt' = [servedAt EXCEPT ![q] = [s \in Sessions |-> Nobody]]
      /\ warm' = [warm EXCEPT ![q] = [k \in Replicas |-> {}]]
      /\ patient' = patient
  BY DEF Restart
<1>4. \A d \in Stores : d # StoreOf(q) => home'[d] = home[d]
  BY DEF Restart, StoreOf, HomeInv, TypeOK
<1>5. \A r \in Requests : InFlight(r)' => req[r].pod \in Pods /\ req[r].pod # q
  <2>1. \A r \in Requests : InFlight(r)' => req[r].pod # q
    BY <1>1 DEF InFlight, At, Idle
  <2>2. \A r \in Requests : InFlight(r) => req[r].pod \in Pods
    BY DEF HomeInv, TypeOK, InFlight, At, Idle, Live
  <2> QED
    BY <1>2, <2>1, <2>2 DEF FewerCalls
<1>6. \A p \in Pods : p # q => StoreOf(p) # StoreOf(q) /\ StoreOf(p) \in Stores
  BY StoreOfType DEF OneOwner
<1>7. PlacedAtHome'
  <2> SUFFICES ASSUME NEW r \in Requests, InFlight(r)', req'[r].session \in patient',
                      req'[r].via # "detour"
               PROVE  home'[StoreOf(req'[r].pod)][req'[r].session] \in {req'[r].target, Nobody}
    BY DEF PlacedAtHome
  <2>1. /\ InFlight(r)
        /\ req'[r].session = req[r].session /\ req'[r].pod = req[r].pod
        /\ req'[r].target = req[r].target /\ req'[r].via = req[r].via
    BY <1>2 DEF FewerCalls
  <2>2. home'[StoreOf(req[r].pod)] = home[StoreOf(req[r].pod)]
    BY <1>4, <1>5, <1>6
  <2> QED
    BY <1>3, <2>1, <2>2 DEF HomeInv, PlacedAtHome
<1>8. CopiesAtHome'
  <2> SUFFICES ASSUME NEW p \in Pods, NEW s \in Sessions, servedAt'[p][s] # Nobody
               PROVE  /\ home'[StoreOf(p)][s] = servedAt'[p][s]
                      /\ s \in warm'[p][servedAt'[p][s]]
    BY DEF CopiesAtHome
  <2>2. p # q
    BY <1>3 DEF HomeInv, TypeOK
  <2>3. /\ servedAt'[p] = servedAt[p] /\ warm'[p] = warm[p]
        /\ home'[StoreOf(p)] = home[StoreOf(p)]
    BY <1>3, <1>4, <1>6, <2>2 DEF HomeInv, TypeOK
  <2> QED
    BY <2>3 DEF HomeInv, CopiesAtHome
<1> QED
  BY <1>2, <1>3, <1>7, <1>8, FewerAtATime

LEMMA NextHomes ==
  ASSUME OneOwner, HomeInv, [Next]_vars
  PROVE  OneAtATime' /\ PlacedAtHome' /\ CopiesAtHome'
<1>1. CASE \E r \in Requests, p \in Pods, s \in Sessions : Call(r, p, s) \/ OpenStream(r, p, s)
  BY <1>1, OpeningHomes
<1>2. CASE \E r \in Requests : \/ StartStream(r) \/ Fail(r) \/ DropUnstarted(r)
                               \/ CancelStream(r) \/ AbandonStream(r) \/ Finalize(r)
  BY <1>2, ProgressHomes
<1>3. CASE \E r \in Requests : Complete(r)
  BY <1>3, CompleteHomes
<1>4. CASE \E d \in Stores, s \in Sessions : ForgetHome(d, s)
  BY <1>4, ForgetHomeHomes
<1>5. CASE \E p \in Pods : Restart(p)
  BY <1>5, RestartHomes
<1>6. CASE UNCHANGED vars
  BY <1>6 DEF vars, HomeInv, OneAtATime, PlacedAtHome, CopiesAtHome, InFlight, At
<1> QED
  BY <1>1, <1>2, <1>3, <1>4, <1>5, <1>6 DEF Next

LEMMA InitHomes == Init => OneAtATime /\ PlacedAtHome /\ CopiesAtHome
BY DEF Init, OneAtATime, PlacedAtHome, CopiesAtHome, InFlight, At, Idle

\* A session's next call goes to the replica of its copy.
LEMMA GoesBack ==
  ASSUME OneOwner, HomeInv, [Next]_vars, NEW r \in Requests,
         At(r, "idle"), req'[r].pc # "idle",
         servedAt[req'[r].pod][req'[r].session] # Nobody,
         active[req'[r].pod][servedAt[req'[r].pod][req'[r].session]] <= QueueLimit
  PROVE  req'[r].target = servedAt[req'[r].pod][req'[r].session]
<1>1. PICK p \in Pods, s \in Sessions : Call(r, p, s) \/ OpenStream(r, p, s)
  <2>1. CASE \E q \in Requests, p \in Pods, s \in Sessions : Call(q, p, s) \/ OpenStream(q, p, s)
    BY <2>1 DEF Call, OpenStream, HomeInv, TypeOK, At
  <2>2. CASE \E q \in Requests : \/ StartStream(q) \/ Complete(q) \/ Fail(q) \/ DropUnstarted(q)
                                 \/ CancelStream(q) \/ AbandonStream(q) \/ Finalize(q)
    <3>1. PICK q \in Requests : \/ StartStream(q) \/ Complete(q) \/ Fail(q) \/ DropUnstarted(q)
                                \/ CancelStream(q) \/ AbandonStream(q) \/ Finalize(q)
      BY <2>2
    <3>2. q # r
      BY <3>1 DEF StartStream, Complete, Fail, DropUnstarted, CancelStream, AbandonStream,
                  Finalize, At
    <3>3. PICK new : req' = [req EXCEPT ![q] = new]
      BY <3>1 DEF StartStream, Complete, Fail, DropUnstarted, CancelStream, AbandonStream,
                  Finalize
    <3> QED
      BY <3>2, <3>3 DEF At, HomeInv, TypeOK
  <2>3. CASE \E p \in Pods : Restart(p)
    BY <2>3 DEF Restart, At, Idle
  <2>4. CASE UNCHANGED req
    BY <2>4 DEF At
  <2>5. \A d \in Stores, s \in Sessions : ForgetHome(d, s) => UNCHANGED req
    BY DEF ForgetHome
  <2> QED
    BY <2>1, <2>2, <2>3, <2>4, <2>5 DEF Next, vars
<1>2. PICK target \in Replicas, via \in Vias, stream \in BOOLEAN :
        /\ Select(p, s, target, via)
        /\ req' = [req EXCEPT ![r] = NewCall(p, s, target, via, stream)]
  BY <1>1, OpeningStep
<1>3. req'[r].pod = p /\ req'[r].session = s /\ req'[r].target = target
  BY <1>2 DEF HomeInv, TypeOK, NewCall
<1> QED
  BY <1>2, <1>3, CopyIsFound, SelectEffect DEF HomeInv

\* A call goes back to the copy that its session's last undisturbed call left,
\* if that is still there and not congested, through any detours, overlapping
\* calls, evictions, failures, disconnects and restarts, as long as one process
\* owns the map and the map answers (select, Replica.lookup).
THEOREM SessionsReturn ==
  ASSUME OneOwner
  PROVE  Spec => ReturnsToWarmHome
<1>1. Init => HomeInv
  BY InitHomes, InitIInv DEF HomeInv, IInv
<1>2. HomeInv /\ [Next]_vars /\ TypeOK' => HomeInv'
  BY NextHomes DEF HomeInv
<1>3. HomeInv /\ [Next]_vars =>
        [\A r \in Requests : At(r, "idle") /\ req'[r].pc # "idle" =>
             LET p == req'[r].pod
                 k == servedAt[p][req'[r].session]
             IN  k # Nobody /\ active[p][k] <= QueueLimit => req'[r].target = k]_vars
  BY GoesBack
<1> QED
  BY <1>1, <1>2, <1>3, GatewayTypes, PTL DEF Spec, ReturnsToWarmHome

(***************************************************************************)
(* There is always a replica to send a call to: the candidates are never   *)
(* an empty list, so one of them has the smallest load.                    *)
(***************************************************************************)
LEMMA LeastNatural ==
  ASSUME NEW T, T \subseteq Nat, T # {}
  PROVE  \E m \in T : \A n \in T : m <= n
<1> DEFINE initial == {0..m : m \in T}
<1>1. initial \subseteq FiniteSubsetsOf(Nat)
  <2>1. ASSUME NEW m \in T PROVE 0..m \in FiniteSubsetsOf(Nat)
    <3>1. 0 \in Int /\ m \in Int
      OBVIOUS
    <3>2. IsFiniteSet(0..m) /\ 0..m \subseteq Nat
      BY <3>1, FS_Interval
    <3> QED
      BY <3>2 DEF FiniteSubsetsOf
  <2> QED
    BY <2>1
<1>2. initial # {}
  OBVIOUS
<1>3. PICK x \in initial : \A y \in initial : ~(<<y, x>> \in StrictSubsetOrdering(Nat))
  <2> HIDE DEF initial
  <2> QED
    BY <1>1, <1>2, FS_StrictSubsetOrderingWellFounded, WFMin
<1>4. PICK m \in T : x = 0..m
  OBVIOUS
<1>5. ASSUME NEW n \in T PROVE m <= n
  <2>1. m \in Nat /\ n \in Nat /\ 0..n \in initial
    OBVIOUS
  <2>2. 0..m \subseteq 0..n \/ ~(0..n \subseteq 0..m)
    <3> SUFFICES ASSUME 0..n \subseteq 0..m, 0..n # 0..m PROVE FALSE
      OBVIOUS
    <3>1. 0..n \in SUBSET Nat /\ 0..m \in SUBSET Nat
      BY <2>1
    <3>2. <<0..n, 0..m>> \in StrictSubsetOrdering(Nat)
      BY <3>1 DEF StrictSubsetOrdering
    <3> HIDE DEF initial
    <3> QED
      BY <1>3, <1>4, <2>1, <3>2
  <2>3. m \in 0..m /\ n \in 0..n
    BY <2>1
  <2> QED
    BY <2>1, <2>2, <2>3
<1> QED
  BY <1>5

\* Among those with the smallest load the first of the list is always eligible.
LEMMA SomeReplicaIsLeastLoaded ==
  ASSUME TypeOK, NEW p \in Pods, NEW avoid
  PROVE  \E k \in Replicas : k \in LeastLoaded(p, avoid)
<1> DEFINE candidates == IF Replicas \ {avoid} = {} THEN Replicas ELSE Replicas \ {avoid}
           loads == {active[p][k] : k \in candidates}
           fewest == {k \in candidates : \A j \in candidates : active[p][k] <= active[p][j]}
<1>1. active[p] \in [Replicas -> Nat]
  BY DEF TypeOK
<1>2. 0 \in Replicas /\ Replicas \subseteq Nat
  BY GatewayAssumption DEF Replicas
<1>3. candidates \subseteq Replicas /\ candidates # {}
  BY <1>2
<1>4. loads \subseteq Nat /\ loads # {}
  BY <1>1, <1>3
<1>5. PICK m \in loads : \A n \in loads : m <= n
  <2> HIDE DEF loads
  <2> QED
    BY <1>4, LeastNatural
<1>6. PICK k \in candidates : m = active[p][k]
  OBVIOUS
<1>7. k \in fewest
  BY <1>5, <1>6
<1>8. fewest \subseteq Nat /\ fewest # {} /\ fewest \subseteq Replicas
  BY <1>2, <1>3, <1>7
<1>9. PICK first \in fewest : \A j \in fewest : first <= j
  <2> HIDE DEF fewest
  <2> QED
    BY <1>8, LeastNatural
<1>10. \A j \in fewest : ~(j < first)
  <2>1. first \in Nat /\ \A j \in fewest : j \in Nat /\ first <= j
    BY <1>8, <1>9
  <2> HIDE DEF fewest
  <2> QED
    BY <2>1
<1>11. first \in LeastLoaded(p, avoid)
  BY <1>9, <1>10 DEF LeastLoaded
<1> QED
  BY <1>8, <1>9, <1>11

LEMMA TypesRoute == TypeOK => EveryCallIsRouted
<1> SUFFICES ASSUME TypeOK, NEW p \in Pods, NEW s \in Sessions, NEW k \in Observed(p, s)
             PROVE  \E target \in Replicas, via \in Vias : MaySend(p, s, k, target, via)
  BY DEF EveryCallIsRouted
<1>1. CASE FoundAt(p, s, k)
  <2>1. k \in Replicas /\ active[p][k] \in Nat /\ QueueLimit \in Nat
    BY <1>1, GatewayAssumption DEF FoundAt, TypeOK
  <2>2. CASE active[p][k] <= QueueLimit
    <3>1. MaySend(p, s, k, k, "affinity")
      BY <1>1, <2>2 DEF MaySend
    <3> QED
      BY <2>1, <3>1 DEF Vias
  <2>3. CASE active[p][k] > QueueLimit
    <3>1. PICK target \in Replicas : target \in LeastLoaded(p, k)
      BY SomeReplicaIsLeastLoaded
    <3>2. MaySend(p, s, k, target, "detour")
      BY <1>1, <2>3, <3>1 DEF MaySend
    <3> QED
      BY <3>2 DEF Vias
  <2> QED
    BY <2>1, <2>2, <2>3
<1>2. CASE ~FoundAt(p, s, k)
  <2>1. PICK target \in Replicas : target \in LeastLoaded(p, Nobody)
    BY SomeReplicaIsLeastLoaded
  <2>2. MaySend(p, s, k, target, "cold")
    BY <1>2, <2>1 DEF MaySend
  <2> QED
    BY <2>2 DEF Vias
<1> QED
  BY <1>1, <1>2

\* Whatever a shared map answers, None and ids of replicas that a scale-down
\* took away included, and whatever the load, select finds a replica.
THEOREM EveryCallFindsAReplica == Spec => []EveryCallIsRouted
BY GatewayTypes, TypesRoute, PTL
=============================================================================
