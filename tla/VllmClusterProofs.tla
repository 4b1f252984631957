-------------------------- MODULE VllmClusterProofs --------------------------
(***************************************************************************)
(* Proofs about VllmCluster: it implements Gateway, so what is proved of   *)
(* Gateway holds in front of real workers; and its own invariants hold for *)
(* any number of workers, retries, calls, sessions and pods.  The latter   *)
(* rest on _fallbacks being a sequence of distinct workers that starts     *)
(* with the scheduled one.                                                 *)
(***************************************************************************)
EXTENDS VllmCluster, GatewayProofs

(***************************************************************************)
(* Refinement.                                                             *)
(***************************************************************************)

\* Every step is a step of Gateway or leaves the gateway's state alone.
LEMMA ClusterStep == [ClusterNext]_clusterVars => [Next]_vars
<1> SUFFICES ASSUME [ClusterNext]_clusterVars PROVE [Next]_vars
  OBVIOUS
<1>1. CASE \E r \in Requests, p \in Pods, s \in Sessions :
             ClusterCall(r, p, s) \/ ClusterOpenStream(r, p, s)
  BY <1>1 DEF ClusterCall, ClusterOpenStream, Next
<1>2. ASSUME NEW r \in Requests, Succeed(r) \/ GiveUp(r) \/ Garble(r) \/ BreakStream(r)
      PROVE  Next
  <2>1. Complete(r) \/ Fail(r)
    BY <1>2 DEF Succeed, GiveUp, Garble, BreakStream
  <2> QED
    BY <2>1 DEF Next
<1>3. ASSUME NEW r \in Requests,
             TryNext(r) \/ SendToken(r) \/ ClientStops(r) \/ ClientReads(r)
      PROVE  UNCHANGED vars
  BY <1>3 DEF TryNext, SendToken, ClientStops, ClientReads
<1>4. ASSUME NEW r \in Requests, ClusterStartStream(r) \/ LeaveStream(r)
      PROVE  Next
  <2>1. StartStream(r) \/ DropUnstarted(r) \/ CancelStream(r) \/ AbandonStream(r) \/ Finalize(r)
    BY <1>4 DEF ClusterStartStream, LeaveStream
  <2> QED
    BY <2>1 DEF Next
<1>5. CASE \E w \in Replicas : LosePrefixes(w)
  BY <1>5 DEF LosePrefixes
<1>6. CASE \E d \in Stores, s \in Sessions : ClusterForgetHome(d, s)
  BY <1>6 DEF ClusterForgetHome, Next
<1>7. CASE \E p \in Pods : ClusterRestart(p)
  BY <1>7 DEF ClusterRestart, Next
<1>8. CASE UNCHANGED clusterVars
  BY <1>8 DEF clusterVars
<1> QED
  BY <1>1, <1>2, <1>3, <1>4, <1>5, <1>6, <1>7, <1>8 DEF ClusterNext

\* Failover, streaming and the workers' own caches are invisible to the
\* gateway's bookkeeping: the cluster implements Gateway.
THEOREM ClusterImplementsGateway == ClusterSpec => ImplementsGateway
<1>1. ClusterInit => Init
  BY DEF ClusterInit
<1>2. [ClusterNext]_clusterVars => [Next]_vars
  BY ClusterStep
<1> QED
  BY <1>1, <1>2, PTL DEF ClusterSpec, ImplementsGateway, Spec

\* However often a call is retried, its replica counts it once (Replica.slot
\* around aexecute).
THEOREM ClusterSlotAccounting == ClusterSpec => []SlotsMatchRequests
BY ClusterImplementsGateway, SlotAccounting, PTL DEF ImplementsGateway

\* In front of real workers as well affinity alone overloads no replica and no
\* call is left without one (select is run once for a call, before its tries).
THEOREM ClusterRouting == ClusterSpec => [](AffinityDepth /\ EveryCallIsRouted)
BY ClusterImplementsGateway, LoadValve, EveryCallFindsAReplica, PTL DEF ImplementsGateway

\* A call that another worker answered in the scheduled one's place does not
\* move its session: homes stay and sessions go back to them, failovers or not.
THEOREM ClusterHomes ==
  ASSUME OneOwner
  PROVE  ClusterSpec => WarmHomeIsKept /\ ReturnsToWarmHome
<1>1. Spec => WarmHomeIsKept /\ ReturnsToWarmHome
  BY WarmHomesStay, SessionsReturn
<1> QED
  BY <1>1, ClusterImplementsGateway DEF ImplementsGateway

(***************************************************************************)
(* The list of workers.                                                    *)
(***************************************************************************)

\* There is at least one try and at most one for each worker.
LEMMA TriesType ==
  /\ Tries \in Nat /\ Tries >= 1 /\ Tries <= NumReplicas
  /\ Tries = NumReplicas \/ Tries = 1 + MaxRetries
BY GatewayAssumption, ClusterAssumption DEF Tries

\* The first n tries, for n up to the number of workers, go to n distinct
\* workers (_fallbacks).
LEMMA TriesDistinct ==
  ASSUME NEW k \in Replicas, NEW n \in 0..NumReplicas
  PROVE  /\ {Fallback(k, i) : i \in 1..n} \subseteq Replicas
         /\ Cardinality({Fallback(k, i) : i \in 1..n}) = n
<1> DEFINE S == {Fallback(k, i) : i \in 1..n}
           f == [i \in 1..n |-> Fallback(k, i)]
<1>1. NumReplicas \in Nat \ {0} /\ k \in 0..(NumReplicas - 1) /\ n \in Nat
  BY GatewayAssumption DEF Replicas
<1>2. \A i \in 1..n : Fallback(k, i) \in 0..(NumReplicas - 1)
  BY <1>1 DEF Fallback
<1>3. \A i, j \in 1..n : Fallback(k, i) = Fallback(k, j) => i = j
  BY <1>1 DEF Fallback
<1>4. f \in Bijection(1..n, S)
  BY <1>3 DEF Bijection, Injection, Surjection, IsInjective
<1>5. ExistsBijection(1..n, S)
  BY <1>4 DEF ExistsBijection
<1>6. Cardinality(S) = n
  BY <1>1, <1>5, FS_CountingElements
<1> QED
  BY <1>2, <1>6 DEF Replicas

\* All of them are tried when there are as many tries as workers.
LEMMA TriesCover ==
  ASSUME NEW k \in Replicas
  PROVE  {Fallback(k, i) : i \in 1..NumReplicas} = Replicas
<1>1. NumReplicas \in Nat \ {0} /\ k \in 0..(NumReplicas - 1)
  BY GatewayAssumption DEF Replicas
<1>2. ASSUME NEW w \in Replicas PROVE \E i \in 1..NumReplicas : Fallback(k, i) = w
  <2>1. CASE w = k
    <3>1. 1 \in 1..NumReplicas /\ Fallback(k, 1) = w
      BY <1>1, <2>1 DEF Fallback
    <3> QED
      BY <3>1
  <2>2. CASE w < k
    <3>1. w + 2 \in 1..NumReplicas /\ Fallback(k, w + 2) = w
      BY <1>1, <2>2 DEF Fallback, Replicas
    <3> QED
      BY <3>1
  <2>3. CASE w > k
    <3>1. w + 1 \in 1..NumReplicas /\ Fallback(k, w + 1) = w
      BY <1>1, <2>3 DEF Fallback, Replicas
    <3> QED
      BY <3>1
  <2> QED
    BY <1>1, <2>1, <2>2, <2>3 DEF Replicas
<1>3. {Fallback(k, i) : i \in 1..NumReplicas} \subseteq Replicas
  <2>1. NumReplicas \in 0..NumReplicas
    BY <1>1
  <2> QED
    BY <2>1, TriesDistinct
<1> QED
  BY <1>2, <1>3

(***************************************************************************)
(* Invariants.  What a call was told depends on the number of its attempt, *)
(* so types, the attempts and the failures are carried along together.     *)
(***************************************************************************)

\* A stream makes one attempt, from its connection on.
StreamsTryOnce ==
  \A r \in Requests : At(r, "upstream") /\ req[r].stream => attempt[r] = 1

AttemptsOK == ClusterTypeOK /\ StreamsTryOnce
CInv == IInv /\ AttemptsOK /\ ExhaustsItsTries

\* A call that waits for a worker waits for one there is.
LEMMA WorkerType ==
  ASSUME IInv, AttemptsOK, NEW r \in Requests, At(r, "upstream")
  PROVE  /\ req[r] \in Live
         /\ Worker(r) \in Replicas
         /\ attempt[r] \in 1..Tries
<1>1. req[r] \in Live
  BY DEF IInv, TypeOK, At, Idle
<1>2. attempt[r] \in 1..Tries
  BY TriesType DEF AttemptsOK, ClusterTypeOK, StreamsTryOnce
<1>3. req[r].target \in Replicas /\ NumReplicas \in Nat \ {0}
  BY <1>1, GatewayAssumption DEF Live
<1>4. Fallback(req[r].target, attempt[r]) \in Replicas
  BY <1>2, <1>3, TriesType DEF Fallback, Replicas
<1> QED
  BY <1>1, <1>2, <1>4 DEF Worker

\* The state a call is left in by the steps that end its attempts.
LEMMA EndTypeOK ==
  ASSUME IInv, AttemptsOK, NEW r \in Requests, NEW new,
         new.pc # "upstream", req' = [req EXCEPT ![r] = new], EndAttempts(r),
         prefix' \in [Replicas -> SUBSET Sessions],
         astray' \in [Replicas -> SUBSET Sessions]
  PROVE  AttemptsOK'
<1>1. attempt' \in [Requests -> 0..Tries]
  BY TriesType DEF EndAttempts, AttemptsOK, ClusterTypeOK, StreamsTryOnce
<1>2. req \in [Requests -> {Idle} \cup Live]
  BY DEF IInv, TypeOK
<1>3. ASSUME NEW q \in Requests
      PROVE  (attempt[q] # 0 <=> At(q, "upstream"))'
  BY <1>2, <1>3 DEF EndAttempts, AttemptsOK, ClusterTypeOK, StreamsTryOnce, At
<1>4. ASSUME NEW q \in Requests, At(q, "upstream")', req'[q].stream
      PROVE  attempt'[q] = 1
  BY <1>2, <1>4 DEF EndAttempts, AttemptsOK, ClusterTypeOK, StreamsTryOnce, At
<1>5. ASSUME NEW q \in onWire'
      PROVE  q \in Requests /\ (At(q, "upstream") /\ req[q].stream)'
  BY <1>2, <1>5 DEF EndAttempts, AttemptsOK, ClusterTypeOK, StreamsTryOnce, At
<1>6. onWire' \subseteq Requests /\ stalled' \subseteq onWire'
  BY DEF EndAttempts, AttemptsOK, ClusterTypeOK
<1> QED
  BY <1>1, <1>3, <1>4, <1>5, <1>6 DEF AttemptsOK, ClusterTypeOK, StreamsTryOnce

\* A call that takes its slot makes its first attempt.
LEMMA StartTypeOK ==
  ASSUME IInv, AttemptsOK, NEW r \in Requests, NEW new,
         ~At(r, "upstream"), new.pc = "upstream", req' = [req EXCEPT ![r] = new],
         attempt' = [attempt EXCEPT ![r] = 1],
         UNCHANGED <<onWire, stalled, prefix, astray>>
  PROVE  AttemptsOK'
<1>1. attempt' \in [Requests -> 0..Tries]
  BY TriesType DEF AttemptsOK, ClusterTypeOK, StreamsTryOnce
<1>2. req \in [Requests -> {Idle} \cup Live]
  BY DEF IInv, TypeOK
<1>3. ASSUME NEW q \in Requests
      PROVE  (attempt[q] # 0 <=> At(q, "upstream"))'
  BY <1>2, <1>3 DEF AttemptsOK, ClusterTypeOK, StreamsTryOnce, At
<1>4. ASSUME NEW q \in Requests, At(q, "upstream")', req'[q].stream
      PROVE  attempt'[q] = 1
  BY <1>2, <1>4 DEF AttemptsOK, ClusterTypeOK, StreamsTryOnce, At
<1>5. ASSUME NEW q \in onWire
      PROVE  q \in Requests /\ (At(q, "upstream") /\ req[q].stream)'
  <2>1. At(q, "upstream") /\ q \in Requests /\ req[q].stream
    BY <1>5 DEF AttemptsOK, ClusterTypeOK, StreamsTryOnce
  <2>2. q # r
    BY <2>1
  <2> QED
    BY <1>2, <2>1, <2>2 DEF At
<1> QED
  BY <1>1, <1>3, <1>4, <1>5 DEF AttemptsOK, ClusterTypeOK, StreamsTryOnce

LEMMA ForgottenType ==
  ASSUME AttemptsOK, prefix' \in [Replicas -> SUBSET Sessions], NoteLoss
  PROVE  astray' \in [Replicas -> SUBSET Sessions]
BY DEF NoteLoss, AttemptsOK, ClusterTypeOK, StreamsTryOnce

LEMMA BookedType ==
  ASSUME AttemptsOK, prefix' \in [Replicas -> SUBSET Sessions],
         NEW k, NEW s \in Sessions, NoteBooking(k, s)
  PROVE  astray' \in [Replicas -> SUBSET Sessions]
BY DEF NoteBooking, AttemptsOK, ClusterTypeOK, StreamsTryOnce

LEMMA CallTypeOK ==
  ASSUME IInv, AttemptsOK, NEW r \in Requests, NEW p \in Pods, NEW s \in Sessions,
         ClusterCall(r, p, s) \/ ClusterOpenStream(r, p, s)
  PROVE  AttemptsOK'
<1>1. CASE ClusterCall(r, p, s)
  <2>1. PICK target \in Replicas, via \in Vias :
          req' = [req EXCEPT ![r] = NewCall(p, s, target, via, FALSE)]
    BY <1>1 DEF ClusterCall, Call
  <2>2. NewCall(p, s, target, via, FALSE).pc = "upstream"
    BY DEF NewCall
  <2>3. ~At(r, "upstream")
    BY <1>1 DEF ClusterCall, Call, At
  <2>4. attempt' = [attempt EXCEPT ![r] = 1] /\ UNCHANGED <<onWire, stalled, prefix, astray>>
    BY <1>1 DEF ClusterCall
  <2> QED
    BY <2>1, <2>2, <2>3, <2>4, StartTypeOK
<1>2. CASE ClusterOpenStream(r, p, s)
  <2>1. PICK target \in Replicas, via \in Vias :
          req' = [req EXCEPT ![r] = NewCall(p, s, target, via, TRUE)]
    BY <1>2 DEF ClusterOpenStream, OpenStream
  <2>2. NewCall(p, s, target, via, TRUE).pc = "scheduled"
    BY DEF NewCall
  <2>3. At(r, "idle")
    BY <1>2 DEF ClusterOpenStream, OpenStream
  <2>4. attempt[r] = 0 /\ r \notin onWire
    BY <2>3 DEF AttemptsOK, ClusterTypeOK, StreamsTryOnce, At
  <2>5. req \in [Requests -> {Idle} \cup Live]
    BY DEF IInv, TypeOK
  <2> QED
    BY <1>2, <2>1, <2>2, <2>4, <2>5 DEF ClusterOpenStream, AttemptsOK, ClusterTypeOK, StreamsTryOnce, At
<1> QED
  BY <1>1, <1>2

LEMMA EndingTypeOK ==
  ASSUME IInv, AttemptsOK, NEW r \in Requests,
         Succeed(r) \/ GiveUp(r) \/ Garble(r) \/ BreakStream(r) \/ LeaveStream(r)
  PROVE  AttemptsOK'
<1>1. CASE Succeed(r)
  <2>1. At(r, "upstream") /\ req' = [req EXCEPT ![r] = Idle] /\ Idle.pc = "idle"
    BY <1>1 DEF Succeed, Complete, Idle
  <2>2. req[r].session \in Sessions /\ Worker(r) \in Replicas
    BY <2>1, WorkerType DEF Live
  <2>3. prefix' \in [Replicas -> SUBSET Sessions]
    BY <1>1, <2>2 DEF Succeed, Learn, AttemptsOK, ClusterTypeOK, StreamsTryOnce
  <2>4. astray' \in [Replicas -> SUBSET Sessions]
    BY <1>1, <2>2, <2>3, BookedType DEF Succeed
  <2> QED
    BY <1>1, <2>1, <2>3, <2>4, EndTypeOK DEF Succeed
<1>2. CASE GiveUp(r) \/ Garble(r) \/ BreakStream(r)
  <2>1. req' = [req EXCEPT ![r] = Idle] /\ Idle.pc = "idle"
    BY <1>2 DEF GiveUp, Garble, BreakStream, Fail, Idle
  <2>2. EndAttempts(r) /\ UNCHANGED <<prefix, astray>>
    BY <1>2 DEF GiveUp, Garble, BreakStream
  <2> QED
    BY <2>1, <2>2, EndTypeOK DEF AttemptsOK, ClusterTypeOK, StreamsTryOnce
<1>3. CASE LeaveStream(r)
  <2>1. EndAttempts(r) /\ UNCHANGED <<prefix, astray>>
    BY <1>3 DEF LeaveStream
  <2>2. CASE req' = [req EXCEPT ![r] = Idle]
    BY <2>1, <2>2, EndTypeOK DEF Idle, AttemptsOK, ClusterTypeOK, StreamsTryOnce
  <2>3. CASE AbandonStream(r)
    <3> DEFINE new == [req[r] EXCEPT !.pc = "abandoned"]
    <3>1. req' = [req EXCEPT ![r] = new]
      BY <2>3 DEF AbandonStream
    <3>2. new.pc # "upstream"
      BY <2>3, WorkerType DEF AbandonStream, Live
    <3> QED
      BY <2>1, <3>1, <3>2, EndTypeOK DEF AttemptsOK, ClusterTypeOK, StreamsTryOnce
  <2> QED
    BY <1>3, <2>2, <2>3 DEF LeaveStream, DropUnstarted, CancelStream, Finalize
<1> QED
  BY <1>1, <1>2, <1>3

LEMMA WorkingTypeOK ==
  ASSUME IInv, AttemptsOK, NEW r \in Requests,
         \/ ClusterStartStream(r) \/ TryNext(r) \/ SendToken(r)
         \/ ClientStops(r) \/ ClientReads(r)
  PROVE  AttemptsOK'
<1>1. CASE ClusterStartStream(r)
  <2> DEFINE new == [req[r] EXCEPT !.pc = "upstream"]
  <2>1. At(r, "scheduled") /\ req' = [req EXCEPT ![r] = new]
    BY <1>1 DEF ClusterStartStream, StartStream
  <2>2. ~At(r, "upstream")
    BY <2>1 DEF At
  <2>3. new.pc = "upstream"
    BY <2>1 DEF IInv, TypeOK, At, Idle, Live
  <2>4. attempt' = [attempt EXCEPT ![r] = 1] /\ UNCHANGED <<onWire, stalled, prefix, astray>>
    BY <1>1 DEF ClusterStartStream
  <2> QED
    BY <2>1, <2>2, <2>3, <2>4, StartTypeOK
<1>2. CASE TryNext(r)
  <2>1. At(r, "upstream") /\ ~req[r].stream /\ attempt[r] < Tries
    BY <1>2 DEF TryNext
  <2>2. req[r].session \in Sessions /\ Worker(r) \in Replicas /\ attempt[r] \in 1..Tries
    BY <2>1, WorkerType DEF Live
  <2>3. prefix' \in [Replicas -> SUBSET Sessions]
    BY <1>2, <2>2 DEF TryNext, Learn, AttemptsOK, ClusterTypeOK, StreamsTryOnce
  <2>4. astray' \in [Replicas -> SUBSET Sessions]
    BY <1>2, <2>3, ForgottenType DEF TryNext
  <2>5. /\ attempt' = [attempt EXCEPT ![r] = attempt[r] + 1]
        /\ req' = req /\ onWire' = onWire /\ stalled' = stalled
    BY <1>2 DEF TryNext, vars
  <2>6. attempt' \in [Requests -> 0..Tries]
    BY <2>1, <2>2, <2>5, TriesType DEF AttemptsOK, ClusterTypeOK, StreamsTryOnce
  <2>7. \A q \in Requests : (attempt[q] # 0 <=> At(q, "upstream"))'
    BY <2>1, <2>2, <2>5 DEF AttemptsOK, ClusterTypeOK, StreamsTryOnce, At
  <2>8. r \notin onWire
    BY <2>1 DEF AttemptsOK, ClusterTypeOK, StreamsTryOnce
  <2> QED
    BY <2>1, <2>3, <2>4, <2>5, <2>6, <2>7, <2>8 DEF AttemptsOK, ClusterTypeOK, StreamsTryOnce, At
<1>3. CASE SendToken(r)
  <2>1. At(r, "upstream") /\ req[r].stream
    BY <1>3 DEF SendToken
  <2>2. req[r].session \in Sessions /\ Worker(r) \in Replicas /\ attempt[r] \in 1..Tries
    BY <2>1, WorkerType DEF Live
  <2>3. prefix' \in [Replicas -> SUBSET Sessions]
    BY <1>3, <2>2 DEF SendToken, Learn, AttemptsOK, ClusterTypeOK, StreamsTryOnce
  <2>4. astray' \in [Replicas -> SUBSET Sessions]
    BY <1>3, <2>3, ForgottenType DEF SendToken
  <2>5. attempt[r] = 1
    BY <2>1 DEF AttemptsOK, ClusterTypeOK, StreamsTryOnce
  <2> QED
    BY <1>3, <2>1, <2>3, <2>4, <2>5 DEF SendToken, vars, AttemptsOK, ClusterTypeOK, StreamsTryOnce, At
<1>4. CASE ClientStops(r) \/ ClientReads(r)
  BY <1>4 DEF ClientStops, ClientReads, vars, AttemptsOK, ClusterTypeOK, StreamsTryOnce, At
<1> QED
  BY <1>1, <1>2, <1>3, <1>4

LEMMA EnvironmentTypeOK ==
  ASSUME IInv, AttemptsOK,
         \/ \E w \in Replicas : LosePrefixes(w)
         \/ \E d \in Stores, s \in Sessions : ClusterForgetHome(d, s)
         \/ \E p \in Pods : ClusterRestart(p)
  PROVE  AttemptsOK'
<1>1. ASSUME NEW w \in Replicas, LosePrefixes(w) PROVE AttemptsOK'
  <2>1. prefix' \in [Replicas -> SUBSET Sessions]
    BY <1>1 DEF LosePrefixes, AttemptsOK, ClusterTypeOK, StreamsTryOnce
  <2>2. astray' \in [Replicas -> SUBSET Sessions]
    BY <1>1, <2>1, ForgottenType DEF LosePrefixes
  <2> QED
    BY <1>1, <2>1, <2>2 DEF LosePrefixes, vars, AttemptsOK, ClusterTypeOK, StreamsTryOnce, At
<1>2. ASSUME NEW d \in Stores, NEW s \in Sessions, ClusterForgetHome(d, s)
      PROVE  AttemptsOK'
  BY <1>2 DEF ClusterForgetHome, ForgetHome, AttemptsOK, ClusterTypeOK, StreamsTryOnce, At
<1>3. ASSUME NEW p \in Pods, ClusterRestart(p) PROVE AttemptsOK'
  <2>1. req \in [Requests -> {Idle} \cup Live]
    BY DEF IInv, TypeOK
  <2>2. \A q \in Requests : req'[q] = Idle \/ req'[q] = req[q]
    BY <1>3 DEF ClusterRestart, Restart
  <2>3. attempt' \in [Requests -> 0..Tries]
    BY <1>3, TriesType DEF ClusterRestart, AttemptsOK, ClusterTypeOK, StreamsTryOnce
  <2>4. ASSUME NEW q \in Requests PROVE (attempt[q] # 0 <=> At(q, "upstream"))'
    BY <1>3, <2>1, <2>2 DEF ClusterRestart, AttemptsOK, ClusterTypeOK, StreamsTryOnce, At, Idle
  <2>5. ASSUME NEW q \in Requests, At(q, "upstream")', req'[q].stream
        PROVE  attempt'[q] = 1
    BY <1>3, <2>2, <2>5 DEF ClusterRestart, AttemptsOK, ClusterTypeOK, StreamsTryOnce, At, Idle
  <2>6. ASSUME NEW q \in onWire'
        PROVE  q \in Requests /\ (At(q, "upstream") /\ req[q].stream)'
    BY <1>3, <2>2, <2>6 DEF ClusterRestart, AttemptsOK, ClusterTypeOK, StreamsTryOnce, At, Idle
  <2> QED
    BY <1>3, <2>3, <2>4, <2>5, <2>6 DEF ClusterRestart, AttemptsOK, ClusterTypeOK, StreamsTryOnce
<1> QED
  BY <1>1, <1>2, <1>3

LEMMA NextTypeOK == IInv /\ AttemptsOK /\ [ClusterNext]_clusterVars => AttemptsOK'
<1> SUFFICES ASSUME IInv, AttemptsOK, [ClusterNext]_clusterVars PROVE AttemptsOK'
  OBVIOUS
<1>1. CASE UNCHANGED clusterVars
  BY <1>1 DEF clusterVars, vars, AttemptsOK, ClusterTypeOK, StreamsTryOnce, At
<1>2. CASE ClusterNext
  BY <1>2, CallTypeOK, EndingTypeOK, WorkingTypeOK, EnvironmentTypeOK DEF ClusterNext
<1> QED
  BY <1>1, <1>2

(***************************************************************************)
(* Failures.                                                               *)
(***************************************************************************)

\* Only GiveUp tells a client that all workers failed, after the last try.
LEMMA NextExhausts ==
  IInv /\ AttemptsOK /\ ExhaustsItsTries /\ [ClusterNext]_clusterVars => ExhaustsItsTries'
<1> SUFFICES ASSUME IInv, AttemptsOK, ExhaustsItsTries, [ClusterNext]_clusterVars
             PROVE  ExhaustsItsTries'
  OBVIOUS
<1>1. ASSUME NEW r \in Requests, GiveUp(r) PROVE ExhaustsItsTries'
  <2> DEFINE k == req[r].target
  <2>1. At(r, "upstream") /\ attempt[r] = Tries /\ failure' = FailureOf(r, "exhausted")
    BY <1>1 DEF GiveUp, Fail
  <2>2. k \in Replicas
    BY <2>1, WorkerType DEF Live
  <2>3. failure'.replica = k /\ failure'.tried = {Fallback(k, i) : i \in 1..Tries}
    BY <2>1 DEF FailureOf, Tried
  <2>4. Fallback(k, 1) = k /\ 1 \in 1..Tries
    BY TriesType DEF Fallback
  <2>5. CASE Tries = NumReplicas
    BY <2>2, <2>3, <2>4, <2>5, TriesCover DEF ExhaustsItsTries
  <2>6. CASE Tries = 1 + MaxRetries
    <3>1. Tries \in 0..NumReplicas
      BY TriesType, GatewayAssumption
    <3>2. Cardinality({Fallback(k, i) : i \in 1..Tries}) = 1 + MaxRetries
      BY <2>2, <2>6, <3>1, TriesDistinct
    <3> QED
      BY <2>3, <2>4, <3>2 DEF ExhaustsItsTries
  <2> QED
    BY <2>5, <2>6, TriesType
<1>2. ASSUME NEW r \in Requests, Succeed(r) \/ Garble(r) \/ BreakStream(r)
      PROVE  ExhaustsItsTries'
  <2>1. failure'.kind \in {"none", "garbled", "broken"}
    BY <1>2 DEF Succeed, Garble, BreakStream, NoFailure, FailureOf
  <2> QED
    BY <2>1 DEF ExhaustsItsTries
<1>3. CASE UNCHANGED failure
  BY <1>3 DEF ExhaustsItsTries, Replicas
<1>4. CASE failure' = NoFailure
  BY <1>4 DEF ExhaustsItsTries, NoFailure
<1> QED
  BY <1>1, <1>2, <1>3, <1>4 DEF ClusterNext, ClusterCall, ClusterOpenStream, TryNext,
     ClusterStartStream, SendToken, LeaveStream, ClientStops, ClientReads, LosePrefixes,
     ClusterForgetHome, ClusterRestart, clusterVars

\* Types, slots and what failed calls were told hold together in every reachable state.
THEOREM ClusterInvariant == ClusterSpec => []CInv
<1>1. ClusterSpec => []IInv
  BY ClusterImplementsGateway, GatewayInvariant, PTL DEF ImplementsGateway
<1>2. ClusterInit => AttemptsOK /\ ExhaustsItsTries
  BY TriesType DEF ClusterInit, Init, AttemptsOK, ClusterTypeOK, StreamsTryOnce,
     ExhaustsItsTries, NoFailure, At, Idle
<1>3. IInv /\ AttemptsOK /\ ExhaustsItsTries /\ [ClusterNext]_clusterVars
        => AttemptsOK' /\ ExhaustsItsTries'
  BY NextTypeOK, NextExhausts
<1> QED
  BY <1>1, <1>2, <1>3, PTL DEF ClusterSpec, CInv

\* A call makes an attempt exactly while it holds its slot for one, and never
\* more than there are tries, whatever fails and whoever leaves (aexecute).
THEOREM AttemptsAreInOrder == ClusterSpec => []ClusterTypeOK
<1>1. CInv => ClusterTypeOK
  BY DEF CInv, AttemptsOK
<1> QED
  BY <1>1, ClusterInvariant, PTL

LEMMA OnWireKeepsAttempt ==
  ASSUME IInv, AttemptsOK, [ClusterNext]_clusterVars, NEW r \in onWire
  PROVE  attempt'[r] \in {0, attempt[r]}
<1>1. /\ r \in Requests /\ At(r, "upstream") /\ req[r].stream
      /\ attempt \in [Requests -> 0..Tries]
  BY DEF AttemptsOK, ClusterTypeOK
<1>2. CASE \E q \in Requests, p \in Pods, s \in Sessions :
             ClusterCall(q, p, s) \/ ClusterOpenStream(q, p, s)
  BY <1>1, <1>2 DEF ClusterCall, ClusterOpenStream, Call, OpenStream, At
<1>3. ASSUME NEW q \in Requests,
             \/ Succeed(q) \/ GiveUp(q) \/ Garble(q) \/ BreakStream(q) \/ LeaveStream(q)
      PROVE  attempt'[r] \in {0, attempt[r]}
  BY <1>1, <1>3 DEF Succeed, GiveUp, Garble, BreakStream, LeaveStream, EndAttempts
<1>4. ASSUME NEW q \in Requests, TryNext(q) \/ ClusterStartStream(q)
      PROVE  attempt'[r] \in {0, attempt[r]}
  BY <1>1, <1>4 DEF TryNext, ClusterStartStream, StartStream, At
<1>5. CASE \E p \in Pods : ClusterRestart(p)
  BY <1>1, <1>5 DEF ClusterRestart
<1>6. CASE UNCHANGED attempt
  BY <1>6
<1> QED
  BY <1>2, <1>3, <1>4, <1>5, <1>6 DEF ClusterNext, SendToken, ClientStops, ClientReads,
     LosePrefixes, ClusterForgetHome, clusterVars

\* No stream is replayed to a client that has seen part of it, whatever breaks
\* and for any number of workers and retries (astream).
THEOREM NoSplicedStreams == ClusterSpec => StreamsAreNotSpliced
<1>1. CInv /\ [ClusterNext]_clusterVars =>
        [\A r \in onWire : attempt'[r] \in {0, attempt[r]}]_clusterVars
  BY OnWireKeepsAttempt DEF CInv
<1> QED
  BY <1>1, ClusterInvariant, PTL DEF ClusterSpec, StreamsAreNotSpliced

\* "all vLLM workers failed" is only said after as many distinct workers have
\* failed as there are, or as the retries allow (_fallbacks, aexecute).
THEOREM RetriesAreExhausted == ClusterSpec => []ExhaustsItsTries
<1>1. CInv => ExhaustsItsTries
  BY DEF CInv
<1> QED
  BY <1>1, ClusterInvariant, PTL

\* Each attempt of a call is made at a worker that has not failed it yet; a
\* stream is asked of the scheduled one only, its connection included, against
\* the docstring of astream (_fallbacks, aexecute, astream).
NoWorkerTwice ==
  \A r \in Requests : At(r, "upstream") =>
    /\ Tried(r) \subseteq Replicas
    /\ Cardinality(Tried(r)) = attempt[r]
    /\ req[r].stream => Worker(r) = req[r].target

\* A retry never asks again a worker that has just failed the call (aexecute).
THEOREM TriesAreFresh == ClusterSpec => []NoWorkerTwice
<1>1. CInv => NoWorkerTwice
  <2> SUFFICES ASSUME CInv, NEW r \in Requests, At(r, "upstream")
               PROVE  /\ Tried(r) \subseteq Replicas
                      /\ Cardinality(Tried(r)) = attempt[r]
                      /\ req[r].stream => Worker(r) = req[r].target
    BY DEF NoWorkerTwice
  <2>1. req[r].target \in Replicas
    BY WorkerType DEF CInv, Live
  <2>2. attempt[r] \in 0..NumReplicas
    BY TriesType, GatewayAssumption DEF CInv, AttemptsOK, ClusterTypeOK
  <2>3. req[r].stream => Worker(r) = req[r].target
    BY DEF CInv, AttemptsOK, StreamsTryOnce, Worker, Fallback
  <2> QED
    BY <2>1, <2>2, <2>3, TriesDistinct DEF Tried
<1> QED
  BY <1>1, ClusterInvariant, PTL

(***************************************************************************)
(* Beliefs.  The workers' caches only shrink in LosePrefixes, which notes  *)
(* what is gone; the gateway's beliefs only grow in Succeed, which notes   *)
(* the booking.                                                            *)
(***************************************************************************)

\* Loss notes keep every prefix known that was known before.
LEMMA LossKeepsCause ==
  ASSUME BeliefNeedsCause, NoteLoss, UNCHANGED warm
  PROVE  BeliefNeedsCause'
BY DEF BeliefNeedsCause, NoteLoss, Replicas

LEMMA NextBelief ==
  IInv /\ AttemptsOK /\ BeliefNeedsCause /\ [ClusterNext]_clusterVars => BeliefNeedsCause'
<1> SUFFICES ASSUME IInv, AttemptsOK, BeliefNeedsCause, [ClusterNext]_clusterVars
             PROVE  BeliefNeedsCause'
  OBVIOUS
<1>1. ASSUME NEW r \in Requests, Succeed(r) PROVE BeliefNeedsCause'
  <2> DEFINE q == req[r].pod
             s == req[r].session
             t == req[r].target
  <2>1. At(r, "upstream")
    BY <1>1 DEF Succeed, Complete
  <2>2. q \in Pods /\ s \in Sessions /\ t \in Replicas /\ Worker(r) \in Replicas
    BY <2>1, WorkerType DEF Live
  <2>3. \A k \in Replicas : prefix[k] \subseteq prefix'[k]
    BY <1>1, <2>2 DEF Succeed, Learn, AttemptsOK, ClusterTypeOK
  <2>4. \A k \in Replicas :
          /\ astray[k] \subseteq prefix'[k] \cup astray'[k]
          /\ k = t => s \in prefix'[k] \cup astray'[k]
    BY <1>1 DEF Succeed, NoteBooking
  <2>5. PICK held \in SUBSET (warm[q][t] \cup {s}) : warm' = [warm EXCEPT ![q][t] = held]
    BY <1>1 DEF Succeed, Complete
  <2>6. warm \in [Pods -> [Replicas -> SUBSET Sessions]]
    BY DEF IInv, TypeOK
  <2>7. ASSUME NEW p \in Pods, NEW k \in Replicas
        PROVE  warm'[p][k] \subseteq warm[p][k] \cup (IF k = t THEN {s} ELSE {})
    BY <2>2, <2>5, <2>6
  <2> QED
    BY <2>3, <2>4, <2>7 DEF BeliefNeedsCause, Replicas
<1>2. ASSUME NEW r \in Requests, TryNext(r) \/ SendToken(r)
      PROVE  BeliefNeedsCause'
  BY <1>2, LossKeepsCause DEF TryNext, SendToken, vars
<1>3. ASSUME NEW w \in Replicas, LosePrefixes(w) PROVE BeliefNeedsCause'
  BY <1>3, LossKeepsCause DEF LosePrefixes, vars
<1>4. ASSUME NEW p \in Pods, ClusterRestart(p) PROVE BeliefNeedsCause'
  <2>1. UNCHANGED <<prefix, astray>> /\ warm' = [warm EXCEPT ![p] = [k \in Replicas |-> {}]]
    BY <1>4 DEF ClusterRestart, Restart
  <2>2. warm \in [Pods -> [Replicas -> SUBSET Sessions]]
    BY DEF IInv, TypeOK
  <2>3. ASSUME NEW o \in Pods, NEW k \in Replicas PROVE warm'[o][k] \subseteq warm[o][k]
    BY <2>1, <2>2
  <2> QED
    BY <2>1, <2>3 DEF BeliefNeedsCause, Replicas
<1>5. CASE UNCHANGED <<warm, prefix, astray>>
  BY <1>5 DEF BeliefNeedsCause, Replicas
<1>6. ASSUME NEW r \in Requests,
             \/ GiveUp(r) \/ Garble(r) \/ BreakStream(r)
             \/ ClusterStartStream(r) \/ LeaveStream(r)
             \/ ClientStops(r) \/ ClientReads(r)
      PROVE  UNCHANGED <<warm, prefix, astray>>
  BY <1>6 DEF GiveUp, Garble, BreakStream, Fail, ClusterStartStream, StartStream,
     LeaveStream, DropUnstarted, CancelStream, AbandonStream, Finalize,
     ClientStops, ClientReads, vars
<1>7. ASSUME NEW r \in Requests, NEW p \in Pods, NEW s \in Sessions,
             ClusterCall(r, p, s) \/ ClusterOpenStream(r, p, s)
      PROVE  UNCHANGED <<warm, prefix, astray>>
  BY <1>7 DEF ClusterCall, Call, ClusterOpenStream, OpenStream
<1>8. ASSUME NEW d \in Stores, NEW s \in Sessions, ClusterForgetHome(d, s)
      PROVE  UNCHANGED <<warm, prefix, astray>>
  BY <1>8 DEF ClusterForgetHome, ForgetHome
<1> QED
  BY <1>1, <1>2, <1>3, <1>4, <1>5, <1>6, <1>7, <1>8 DEF ClusterNext, clusterVars, vars

\* No call that failed leaves the gateway believing in a prefix that nobody
\* computed: wrong beliefs come from failovers and from the workers alone.
THEOREM BeliefsHaveCauses == ClusterSpec => []BeliefNeedsCause
<1>1. ClusterSpec => [](IInv /\ AttemptsOK)
  BY ClusterInvariant, PTL DEF CInv
<1>2. ClusterInit => BeliefNeedsCause
  BY DEF ClusterInit, Init, BeliefNeedsCause, Replicas
<1>3. IInv /\ AttemptsOK /\ BeliefNeedsCause /\ [ClusterNext]_clusterVars
        => BeliefNeedsCause'
  BY NextBelief
<1> QED
  BY <1>1, <1>2, <1>3, PTL DEF ClusterSpec
=============================================================================
