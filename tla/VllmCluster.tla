----------------------------- MODULE VllmCluster -----------------------------
(***************************************************************************)
(* The gateway in front of real vLLM workers (agentserve/backends/vllm.py):*)
(* what happens between a call taking its slot and giving it back.  A call *)
(* that is not streamed is tried on several workers, a streamed one on the *)
(* scheduled worker only.  The workers keep prefix caches of their own, of *)
(* which the gateway knows only what its Replica objects believe.          *)
(*                                                                         *)
(* A worker that is down, refuses, times out or answers with an error is   *)
(* one on which an attempt fails, and that can happen at any time; a       *)
(* restart shows only in the prefixes it loses.                            *)
(***************************************************************************)
EXTENDS Gateway

CONSTANTS
  MaxRetries,     \* Settings.vllm_max_retries
  WorkersForget   \* bound: workers may restart or evict prefixes

ASSUME ClusterAssumption ==
  /\ MaxRetries \in Nat
  /\ WorkersForget \in BOOLEAN

VARIABLES
  attempt,  \* number of the attempt each call is making, 0 when it makes none
  onWire,   \* calls that have sent a token to their client
  stalled,  \* those suspended at a yield because their client does not read
  prefix,   \* sessions whose prefix each worker holds
  astray,   \* history: sessions whose prefix a worker has lost since it last
            \* held it, or that were booked on it when another one served them
  failure   \* history: the last call that ended without an answer, until the
            \* next one arrives or is answered
clusterVars == <<vars, attempt, onWire, stalled, prefix, astray, failure>>

(***************************************************************************)
(* _fallbacks: the scheduled worker, then the others by id, cut to         *)
(* 1 + max_retries.                                                        *)
(***************************************************************************)

\* Mutant: the scheduled worker is not left out of the others.
FallbackRepeating(k, i) == IF i = 1 THEN k ELSE i - 2

Fallback(k, i) == IF i = 1 THEN k ELSE IF i - 2 < k THEN i - 2 ELSE i - 1

Tries == IF MaxRetries < NumReplicas THEN 1 + MaxRetries ELSE NumReplicas

Worker(r) == Fallback(req[r].target, attempt[r])
Tried(r)  == {Fallback(req[r].target, i) : i \in 1..attempt[r]}

NoFailure == [kind |-> "none"]
FailureOf(r, kind) ==
  [kind |-> kind, replica |-> req[r].target, tried |-> Tried(r)]

EndAttempts(r) ==
  /\ attempt' = [attempt EXCEPT ![r] = 0]
  /\ onWire' = onWire \ {r}
  /\ stalled' = stalled \ {r}

\* Worker w ends up with the prefix of s.
Learn(w, s) == prefix' = [prefix EXCEPT ![w] = @ \cup {s}]

\* History: s has just been booked on replica k.
NoteBooking(k, s) ==
  astray' = [w \in Replicas |->
               (astray[w] \cup IF w = k THEN {s} ELSE {}) \ prefix'[w]]
NoteLoss ==
  astray' = [w \in Replicas |-> (astray[w] \cup prefix[w]) \ prefix'[w]]

(***************************************************************************)
(* chat_completions and aexecute.                                          *)
(***************************************************************************)
ClusterCall(r, p, s) ==
  /\ Call(r, p, s)
  /\ attempt' = [attempt EXCEPT ![r] = 1]
  /\ failure' = NoFailure
  /\ UNCHANGED <<onWire, stalled, prefix, astray>>

\* The worker of this attempt has answered: _result stores the prefix in the
\* scheduled replica, whichever worker it was.
Succeed(r) ==
  /\ Complete(r)
  /\ r \notin stalled
  /\ Learn(Worker(r), req[r].session)
  /\ NoteBooking(req[r].target, req[r].session)
  /\ failure' = NoFailure
  /\ EndAttempts(r)

\* Mutant: the call is routed again, to the worker that is tried next.
TryNextRerouting(r) ==
  /\ At(r, "upstream") /\ ~req[r].stream
  /\ attempt[r] < Tries
  /\ attempt' = [attempt EXCEPT ![r] = @ + 1]
  /\ req' = [req EXCEPT ![r].target = Fallback(req[r].target, attempt[r] + 1)]
  /\ UNCHANGED <<active, warm, home, patient, servedAt, onWire, stalled, prefix,
                 astray, failure>>

\* Mutant: a stream is retried as well, whatever it has sent.
TryNextMidStream(r) ==
  /\ At(r, "upstream")
  /\ attempt[r] < Tries
  /\ attempt' = [attempt EXCEPT ![r] = @ + 1]
  /\ UNCHANGED <<vars, onWire, stalled, prefix, astray, failure>>

\* Mutant: one retry too many, as if the list were not cut.
TryNextTooOften(r) ==
  /\ At(r, "upstream") /\ ~req[r].stream
  /\ attempt[r] <= Tries
  /\ attempt' = [attempt EXCEPT ![r] = @ + 1]
  /\ UNCHANGED <<vars, onWire, stalled, prefix, astray, failure>>

\* Mutant: the list of workers is gone through again and again.
TryNextAround(r) ==
  /\ At(r, "upstream") /\ ~req[r].stream
  /\ attempt' = [attempt EXCEPT ![r] = IF @ < Tries THEN @ + 1 ELSE 1]
  /\ UNCHANGED <<vars, onWire, stalled, prefix, astray, failure>>

\* The attempt failed and there is another worker to try.  A worker that was
\* given up on by a timeout may well have done the work.
TryNext(r) ==
  /\ At(r, "upstream") /\ ~req[r].stream
  /\ attempt[r] < Tries
  /\ attempt' = [attempt EXCEPT ![r] = @ + 1]
  /\ Learn(Worker(r), req[r].session) \/ UNCHANGED prefix
  /\ NoteLoss
  /\ UNCHANGED <<vars, onWire, stalled, failure>>

\* Mutant: the prefix is stored before it is known that a worker has it.
GiveUpStoring(r) ==
  /\ Complete(r)
  /\ ~req[r].stream
  /\ attempt[r] = Tries
  /\ failure' = FailureOf(r, "exhausted")
  /\ EndAttempts(r)
  /\ UNCHANGED <<prefix, astray>>

\* The last attempt failed.
GiveUp(r) ==
  /\ Fail(r)
  /\ ~req[r].stream
  /\ attempt[r] = Tries
  /\ failure' = FailureOf(r, "exhausted")
  /\ EndAttempts(r)
  /\ UNCHANGED <<prefix, astray>>

\* A worker answered 200 with a body that cannot be read: response.json() is
\* outside the try, so there is no further attempt.
Garble(r) ==
  /\ Fail(r)
  /\ ~req[r].stream
  /\ failure' = FailureOf(r, "garbled")
  /\ EndAttempts(r)
  /\ UNCHANGED <<prefix, astray>>

(***************************************************************************)
(* stream_response and astream.                                            *)
(***************************************************************************)
ClusterOpenStream(r, p, s) ==
  /\ OpenStream(r, p, s)
  /\ failure' = NoFailure
  /\ UNCHANGED <<attempt, onWire, stalled, prefix, astray>>

ClusterStartStream(r) ==
  /\ StartStream(r)
  /\ attempt' = [attempt EXCEPT ![r] = 1]
  /\ UNCHANGED <<onWire, stalled, prefix, astray, failure>>

\* The first token reaches the client; later ones change nothing here.
SendToken(r) ==
  /\ At(r, "upstream") /\ req[r].stream /\ r \notin onWire
  /\ onWire' = onWire \cup {r}
  /\ Learn(Worker(r), req[r].session)
  /\ NoteLoss
  /\ UNCHANGED <<vars, attempt, stalled, failure>>

\* The connection is refused, the status is an error, or the stream is cut.
BreakStream(r) ==
  /\ Fail(r)
  /\ req[r].stream /\ r \notin stalled
  /\ failure' = FailureOf(r, "broken")
  /\ EndAttempts(r)
  /\ UNCHANGED <<prefix, astray>>

\* The client goes away; the generator can be suspended at a yield only once
\* it has sent a token.
LeaveStream(r) ==
  /\ \/ DropUnstarted(r)
     \/ CancelStream(r) /\ r \notin stalled
     \/ r \in onWire /\ AbandonStream(r)
     \/ Finalize(r)
  /\ EndAttempts(r)
  /\ UNCHANGED <<prefix, astray, failure>>

(***************************************************************************)
(* The environment.                                                        *)
(***************************************************************************)

\* The client stops to read: once the buffers are full the server does not pull
\* on the generator, which stays suspended at its yield inside the slot.
ClientStops(r) ==
  /\ r \in onWire \ stalled
  /\ stalled' = stalled \cup {r}
  /\ UNCHANGED <<vars, attempt, onWire, prefix, astray, failure>>

ClientReads(r) ==
  /\ r \in stalled
  /\ stalled' = stalled \ {r}
  /\ UNCHANGED <<vars, attempt, onWire, prefix, astray, failure>>

LosePrefixes(w) ==
  /\ WorkersForget
  /\ \E gone \in SUBSET prefix[w] \ {{}} : prefix' = [prefix EXCEPT ![w] = @ \ gone]
  /\ NoteLoss
  /\ UNCHANGED <<vars, attempt, onWire, stalled, failure>>

ClusterForgetHome(d, s) ==
  /\ ForgetHome(d, s)
  /\ UNCHANGED <<attempt, onWire, stalled, prefix, astray, failure>>

ClusterRestart(p) ==
  /\ Restart(p)
  /\ attempt' = [r \in Requests |-> IF req'[r].pc = "idle" THEN 0 ELSE attempt[r]]
  /\ onWire' = {r \in onWire : req'[r].pc # "idle"}
  /\ stalled' = {r \in stalled : req'[r].pc # "idle"}
  /\ UNCHANGED <<prefix, astray, failure>>

ClusterInit ==
  /\ Init
  /\ attempt = [r \in Requests |-> 0]
  /\ onWire = {}
  /\ stalled = {}
  /\ prefix = [w \in Replicas |-> {}]
  /\ astray = [w \in Replicas |-> {}]
  /\ failure = NoFailure

ClusterNext ==
  \/ \E r \in Requests, p \in Pods, s \in Sessions :
       ClusterCall(r, p, s) \/ ClusterOpenStream(r, p, s)
  \/ \E r \in Requests :
       \/ Succeed(r)
       \/ TryNext(r)
       \/ GiveUp(r)
       \/ Garble(r)
       \/ ClusterStartStream(r)
       \/ SendToken(r)
       \/ BreakStream(r)
       \/ LeaveStream(r)
       \/ ClientStops(r)
       \/ ClientReads(r)
  \/ \E w \in Replicas : LosePrefixes(w)
  \/ \E d \in Stores, s \in Sessions : ClusterForgetHome(d, s)
  \/ \E p \in Pods : ClusterRestart(p)

ClusterSpec == ClusterInit /\ [][ClusterNext]_clusterVars

\* An attempt ends, as httpx bounds every wait for a worker and max_tokens the
\* length of an answer; strongly, because a client may stop to read and resume
\* any number of times.  The server pulls on the bodies it was given and the
\* event loop finalizes what was dropped.  Nothing is assumed of the clients.
FairClusterSpec ==
  /\ ClusterSpec
  /\ \A r \in Requests :
       /\ WF_clusterVars(ClusterStartStream(r))
       /\ SF_clusterVars(Succeed(r) \/ TryNext(r) \/ GiveUp(r) \/ BreakStream(r))
       /\ WF_clusterVars(At(r, "abandoned") /\ LeaveStream(r))

(***************************************************************************)
(* Properties                                                              *)
(***************************************************************************)

\* A call makes an attempt exactly while it holds its slot for one, never more
\* than there are tries; only streams have sent tokens and only those stall.
ClusterTypeOK ==
  /\ attempt \in [Requests -> 0..Tries]
  /\ prefix \in [Replicas -> SUBSET Sessions]
  /\ astray \in [Replicas -> SUBSET Sessions]
  /\ onWire \subseteq Requests
  /\ \A r \in Requests : attempt[r] # 0 <=> At(r, "upstream")
  /\ \A r \in onWire : At(r, "upstream") /\ req[r].stream
  /\ stalled \subseteq onWire

\* Seen from the gateway's side a failover is nothing but a longer call: slots,
\* homes and beliefs behave as Gateway says (aexecute, astream).
ImplementsGateway == Spec

\* A call is answered with "all vLLM workers failed" only after as many
\* distinct workers as there are, or as the retries allow, have failed it, the
\* scheduled one among them (_fallbacks and the loop of aexecute).
ExhaustsItsTries ==
  failure.kind = "exhausted" =>
    /\ failure.replica \in failure.tried
    /\ \/ failure.tried = Replicas
       \/ Cardinality(failure.tried) = 1 + MaxRetries

\* The gateway believes a worker to hold a prefix that it does not hold only
\* if the worker has lost it or another worker served the session in its
\* place: an attempt that failed leaves no belief behind.
BeliefNeedsCause ==
  \A p \in Pods, k \in Replicas : warm[p][k] \subseteq prefix[k] \cup astray[k]

\* Once bytes are on the wire a call is not tried again, whatever breaks: its
\* client would see the same tokens twice (the docstring of astream).
StreamsAreNotSpliced ==
  [][\A r \in onWire : attempt'[r] \in {0, attempt[r]}]_clusterVars

\* Every call ends and gives its slot back, those that are retried and those
\* whose clients leave included.  The one exception is a stream whose client
\* neither reads nor leaves: nothing in the code bounds how long that takes
\* (stream_response, suspended at its yield inside the slot).
EveryCallEnds ==
  \A r \in Requests : []<>At(r, "idle") \/ <>[](r \in stalled)
=============================================================================
