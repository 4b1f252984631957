------------------------------ MODULE LiveReplay ------------------------------
(***************************************************************************)
(* The measurement harness bench/live_replay.py in front of a gateway that *)
(* learns from it (ToolGaps).  Each session is a task: it waits for one of *)
(* Concurrency permits, then makes its calls one after another, sleeping   *)
(* for its tool between them, and keeps the permit until it is done.       *)
(*                                                                         *)
(* A call that exceeds the client's timeout is recorded as failed and the  *)
(* session goes on, while the gateway keeps working on the call: it is not *)
(* told that its client has gone.  The event loop does not lag: what is    *)
(* due happens before the clock advances.                                  *)
(***************************************************************************)
EXTENDS ToolGaps, Sequences

CONSTANTS
  Turns,          \* bound: the number of calls in each session's trace
  Durations,      \* bound: tool_duration_ms / speedup
  Concurrency,    \* asyncio.Semaphore(concurrency)
  ClientTimeout   \* httpx.Timeout(timeout_s)

ASSUME LiveAssumption ==
  /\ Turns \in [Sessions -> Nat \ {0}]
  /\ Durations \subseteq Nat \ {0}
  /\ Concurrency \in Nat \ {0}
  /\ ClientTimeout \in Nat \ {0}

VARIABLES
  line,      \* the tasks that wait for a permit, first come first served
  permits,   \* the value of the semaphore
  pc,        \* "waiting", "calling", "tool" or "done"
  turn,      \* the turn a session is in
  tools,     \* the tool that follows each turn of a session's trace
  due,       \* when the client gives up the call, or when its tool ends
  recorded,  \* CallRecords of each session
  stored,    \* the turn whose prefix is cached, 0 if none
  left,      \* history: when the session's last call ended for the client
  gaveUp,    \* history: the calls that exceeded the client's timeout
  troubled   \* history: the last call failed, was retried or was overtaken
liveVars == <<line, permits, pc, turn, tools, due, recorded, stored, left, gaveUp, troubled>>
vars == <<gapVars, liveVars>>

\* A tool between any two turns of a session.
TraceTools ==
  {f \in [Sessions -> UNION {[1..(Turns[s] - 1) -> Tools] : s \in Sessions}] :
     \A s \in Sessions : DOMAIN f[s] = 1..(Turns[s] - 1)}

ToolAfter(s, t) == IF t \in 1..(Turns[s] - 1) THEN tools[s][t] ELSE NoTool
Admitted == {s \in Sessions : pc[s] \in {"calling", "tool"}}

\* client.post of turn t, which names the tool that follows the turn.
Post(s, t) ==
  /\ Schedule(s, t, ToolAfter(s, t), ToolAfter(s, t - 1))
  /\ pc' = [pc EXCEPT ![s] = "calling"]
  /\ turn' = [turn EXCEPT ![s] = t]
  /\ due' = [due EXCEPT ![s] = clock + ClientTimeout]

\* The task gets its permit and makes its first call.
Begin(s) ==
  /\ line # <<>> /\ s = Head(line) /\ permits > 0
  /\ line' = Tail(line)
  /\ permits' = permits - 1
  /\ Post(s, 1)
  /\ UNCHANGED <<clock, tools, recorded, stored, left, gaveUp, troubled>>

\* Mutant: the next call does not wait for the answer.
NextTurnAtOnce(s) ==
  /\ pc[s] \in {"tool", "calling"} /\ turn[s] < Turns[s]
  /\ Post(s, turn[s] + 1)
  /\ UNCHANGED <<clock, line, permits, tools, recorded, stored, left, gaveUp, troubled>>

\* The tool has ended.
NextTurn(s) ==
  /\ pc[s] = "tool" /\ clock >= due[s]
  /\ Post(s, turn[s] + 1)
  /\ UNCHANGED <<clock, line, permits, tools, recorded, stored, left, gaveUp, troubled>>

\* Mutant: the permit is given back when the tool starts.
PermitsAfterEach(s) == permits + 1

\* A session gives its permit back after its last turn.
PermitsAfter(s) == IF turn[s] = Turns[s] THEN permits + 1 ELSE permits

\* The call has ended for the client, one way or the other: it is recorded, and
\* the session sleeps for its tool or, after its last turn, is done.
MoveOn(s) ==
  /\ left' = [left EXCEPT ![s] = clock]
  /\ recorded' = [recorded EXCEPT ![s] = @ + 1]
  /\ permits' = PermitsAfter(s)
  /\ \/ /\ turn[s] < Turns[s]
        /\ pc' = [pc EXCEPT ![s] = "tool"]
        /\ \E d \in Durations : due' = [due EXCEPT ![s] = clock + d]
     \/ /\ turn[s] = Turns[s]
        /\ pc' = [pc EXCEPT ![s] = "done"]
        /\ UNCHANGED due

AwaitedBy(call) == pc[call.session] = "calling" /\ turn[call.session] = call.turn
OnlyCall(call) == \A c \in upstream : c.session = call.session => c = call

\* The worker answers after `wasted' in attempts that failed: the prefix is
\* stored, the answer recorded, and the client served if it still waits.
Answer(call, wasted) ==
  /\ call \in upstream
  /\ upstream' = upstream \ {call}
  /\ stored' = [stored EXCEPT ![call.session] = call.turn]
  /\ Record(call, wasted)
  /\ troubled' = [troubled EXCEPT ![call.session] =
                    ~(wasted = 0 /\ AwaitedBy(call) /\ OnlyCall(call))]
  /\ \/ AwaitedBy(call) /\ MoveOn(call.session)
     \/ ~AwaitedBy(call) /\ UNCHANGED <<left, recorded, pc, permits, due>>
  /\ UNCHANGED <<clock, counts, learnt, resumed, line, turn, tools, gaveUp>>

\* The gateway answers 502, or nobody is left to hear it.
Fail(call) ==
  /\ call \in upstream
  /\ upstream' = upstream \ {call}
  /\ troubled' = [troubled EXCEPT ![call.session] = TRUE]
  /\ \/ AwaitedBy(call) /\ MoveOn(call.session)
     \/ ~AwaitedBy(call) /\ UNCHANGED <<left, recorded, pc, permits, due>>
  /\ UNCHANGED <<clock, seen, counts, learnt, resumed, line, turn, tools, stored, gaveUp>>

\* Mutant: a call that times out is not given up but awaited further.
TimeOutWaiting(s) ==
  /\ pc[s] = "calling" /\ clock >= due[s]
  /\ gaveUp' = gaveUp \cup {<<s, turn[s]>>}
  /\ troubled' = [troubled EXCEPT ![s] = TRUE]
  /\ UNCHANGED <<gapVars, line, permits, pc, turn, tools, due, recorded, stored, left>>

\* httpx raises a timeout; the gateway does not notice.
TimeOut(s) ==
  /\ pc[s] = "calling" /\ clock >= due[s]
  /\ MoveOn(s)
  /\ gaveUp' = gaveUp \cup {<<s, turn[s]>>}
  /\ troubled' = [troubled EXCEPT ![s] = TRUE]
  /\ UNCHANGED <<gapVars, line, turn, tools, stored>>

Forget(s) == ForgetSeen(s) /\ UNCHANGED <<clock, upstream, counts, learnt, resumed, liveVars>>

\* Time passes while somebody waits for it and nothing is due.
Tick ==
  /\ Admitted # {}
  /\ \A s \in Admitted : clock < due[s]
  /\ line = <<>> \/ permits = 0
  /\ clock' = clock + 1
  /\ UNCHANGED <<seen, upstream, counts, learnt, resumed, liveVars>>

Init ==
  /\ GapInit
  /\ line \in {l \in [1..Cardinality(Sessions) -> Sessions] :
                 \A i, j \in DOMAIN l : i # j => l[i] # l[j]}
  /\ permits = Concurrency
  /\ pc = [s \in Sessions |-> "waiting"]
  /\ turn = [s \in Sessions |-> 0]
  /\ tools \in TraceTools
  /\ due = [s \in Sessions |-> 0]
  /\ recorded = [s \in Sessions |-> 0]
  /\ stored = [s \in Sessions |-> 0]
  /\ left = [s \in Sessions |-> 0]
  /\ gaveUp = {}
  /\ troubled = [s \in Sessions |-> FALSE]

Next ==
  \/ \E s \in Sessions : Begin(s) \/ NextTurn(s) \/ TimeOut(s) \/ Forget(s)
  \/ \E call \in upstream : Fail(call) \/ \E wasted \in 0..(clock - call.arrival) : Answer(call, wasted)
  \/ Tick

Spec == Init /\ [][Next]_vars

\* The event loop runs the tasks that are due and time goes on.  Nothing is
\* assumed of the gateway.
FairSpec ==
  /\ Spec
  /\ WF_vars(Tick)
  /\ \A s \in Sessions : WF_vars(Begin(s) \/ NextTurn(s) \/ TimeOut(s))

(***************************************************************************)
(* Properties                                                              *)
(***************************************************************************)

\* The semaphore admits at most Concurrency sessions, through failures and
\* timeouts, and a session that is done has given its permit back.
AdmissionIsExact == permits + Cardinality(Admitted) = Concurrency

\* What the gateway takes for the start of a gap is when the agent really left,
\* unless the agent's last call failed, was retried, or was overtaken by one
\* that the client had given up (record, schedule).
GapsAreMeasured ==
  \A s \in Sessions :
    pc[s] = "tool" /\ ~troubled[s] /\ seen[s] # Never => seen[s] = left[s]

\* A shorter prefix replaces a longer one only when its call had outlived the
\* client that made it: sessions that wait for their answers are stored in the
\* order of their turns (Replica.store).
NewestPrefixWins ==
  [][\A s \in Sessions :
       stored'[s] < stored[s] => <<s, stored'[s]>> \in gaveUp]_vars

\* Whatever the gateway does with the calls, the replay ends, with one record
\* for each turn of each session.
ReplayEnds ==
  <>[](\A s \in Sessions : pc[s] = "done" /\ recorded[s] = Turns[s])

\* What the README says of the predictor: an estimate that comes from a tool's
\* history (predict_ms) is made of gaps in which that tool ran.
EstimatesAreOfTheTool ==
  \A s \in Sessions, t \in Tools : Source(s, t) = "tool" => learnt[t] \subseteq {t}
=============================================================================
