------------------------------- MODULE ToolGaps -------------------------------
(***************************************************************************)
(* How the gateway learns how long an agent stays away: schedule and       *)
(* record of agentserve/gateway.py with the predictor they feed            *)
(* (agentserve/predictor.py).                                              *)
(*                                                                         *)
(* The gap is measured from the time the last answer was recorded to the   *)
(* arrival of the next call, and enters the estimate of the tool that this *)
(* next call names.  The EWMA of a tool is reduced to what it is made of:  *)
(* the tools whose gaps entered it, and how many did.  schedule and record *)
(* do not await, so each is part of one step.                              *)
(***************************************************************************)
EXTENDS Integers, FiniteSets

CONSTANTS
  Sessions,
  Tools,            \* values of X-Tool-Name
  NoTool,           \* the header is missing
  Never,            \* no last-seen time (Python's None)
  MinObservations   \* PredictorConfig.min_observations

ASSUME ToolAssumption ==
  /\ IsFiniteSet(Sessions) /\ IsFiniteSet(Tools)
  /\ NoTool \notin Tools
  /\ Never \notin Int
  /\ MinObservations \in Nat \ {0}

VARIABLES
  clock,     \* time.time() * 1000
  seen,      \* the last-seen time of each session in the session store
  upstream,  \* calls scheduled and not finished: their session, turn and arrival
  counts,    \* _tool_counts; bound: counted up to MinObservations
  learnt,    \* for each tool, the tools whose gaps entered its EWMA
  resumed    \* sessions that have an EWMA of their own
gapVars == <<clock, seen, upstream, counts, learnt, resumed>>

\* observe: a gap of session s, in which it really ran the tool `ran', is
\* credited to the tool that the new call names.
Observe(s, named, ran) ==
  /\ resumed' = resumed \cup {s}
  /\ \/ /\ named = NoTool
        /\ UNCHANGED <<counts, learnt>>
     \/ /\ named # NoTool
        /\ counts' = [counts EXCEPT ![named] =
                        IF @ < MinObservations THEN @ + 1 ELSE @]
        /\ learnt' = [learnt EXCEPT ![named] = @ \cup {ran}]

\* predict_ms: where the estimate of a gap comes from.
Source(s, named) ==
  IF named # NoTool /\ counts[named] >= MinObservations THEN "tool"
  ELSE IF s \in resumed THEN "session"
  ELSE IF resumed # {} THEN "global"
  ELSE "prior"

\* schedule of a call for turn t that names a tool; ran is the tool the agent
\* has been away with.
Schedule(s, t, named, ran) ==
  /\ upstream' = upstream \cup {[session |-> s, turn |-> t, arrival |-> clock]}
  /\ \/ seen[s] = Never /\ UNCHANGED <<counts, learnt, resumed>>
     \/ seen[s] # Never /\ Observe(s, named, ran)
  /\ UNCHANGED seen

\* Mutant: the answer is dated by its arrival.
RecordArrival(call, wasted) ==
  seen' = [seen EXCEPT ![call.session] = call.arrival]

\* record: the answer is dated by its arrival and the latency that the backend
\* reports, which leaves out the time `wasted' in attempts that failed.
Record(call, wasted) ==
  seen' = [seen EXCEPT ![call.session] = call.arrival + (clock - call.arrival - wasted)]

\* The session store loses the last-seen time (TTL, bound, Redis).
ForgetSeen(s) ==
  /\ seen[s] # Never
  /\ seen' = [seen EXCEPT ![s] = Never]

GapInit ==
  /\ clock = 0
  /\ seen = [s \in Sessions |-> Never]
  /\ upstream = {}
  /\ counts = [t \in Tools |-> 0]
  /\ learnt = [t \in Tools |-> {}]
  /\ resumed = {}
=============================================================================
