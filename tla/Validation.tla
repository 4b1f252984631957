------------------------------ MODULE Validation ------------------------------
(***************************************************************************)
(* scripts/gpu_validate.py: the A/B on real hardware.  The script starts   *)
(* the vLLM workers, measures one arm after the other through a gateway of *)
(* its own on one fixed port, and stops what it has started, whether it    *)
(* ends well, gives up or is interrupted.                                  *)
(*                                                                         *)
(* A process takes as long as it likes to come up, may die at any time and *)
(* need not heed a SIGINT: uvicorn waits for open calls, vLLM for its      *)
(* engine.  Not interrupted are the script's own last stop and the moment  *)
(* between a Popen and the assignment that remembers it.                   *)
(***************************************************************************)
EXTENDS Integers

CONSTANTS
  NumWorkers,   \* args.replicas
  Foreign       \* bound: TRUE lets port 8299 be taken before the script starts

ASSUME ValidationAssumption == NumWorkers \in Nat \ {0} /\ Foreign \in BOOLEAN

VARIABLES
  pc,         \* where main is
  arm,        \* the arm it is in
  at,         \* the worker it starts or waits for
  gateway,    \* its variable `gateway'
  proc,       \* "none", "starting", "up" or "dead"
  port,       \* who listens on 8299
  warm,       \* workers whose prefix cache holds prompts of the traces
  measured    \* history: who listened when an arm was replayed
vars == <<pc, arm, at, gateway, proc, port, warm, measured>>

Arms       == 1..2                     \* round-robin with LRU, then AgentServe
Worker(i)  == <<"vllm", i>>
Gateway(a) == <<"gateway", a>>
Workers    == {Worker(i) : i \in 1..NumWorkers}
Gateways   == {Gateway(a) : a \in Arms}
Processes  == Workers \cup Gateways
Nobody     == <<"nobody", 0>>
Stranger   == <<"stranger", 0>>

Alive(p) == proc[p] \in {"starting", "up"}
Launch(p) == proc' = [proc EXCEPT ![p] = "starting"]

\* start_vllm, for one worker after the other.
LaunchWorker ==
  /\ pc = "launch"
  /\ Launch(Worker(at))
  /\ \/ at < NumWorkers /\ at' = at + 1 /\ UNCHANGED pc
     \/ at = NumWorkers /\ at' = 1 /\ pc' = "await worker"
  /\ UNCHANGED <<arm, gateway, port, warm, measured>>

\* wait_http of a worker's /health sees a 200 ...
FindWorker ==
  /\ pc = "await worker"
  /\ proc[Worker(at)] = "up"
  /\ \/ at < NumWorkers /\ at' = at + 1 /\ UNCHANGED pc
     \/ at = NumWorkers /\ pc' = "start" /\ UNCHANGED at
  /\ UNCHANGED <<arm, gateway, proc, port, warm, measured>>

\* start_gateway, with the router and the policy of the arm.
StartGateway ==
  /\ pc = "start"
  /\ Launch(Gateway(arm))
  /\ gateway' = Gateway(arm)
  /\ pc' = "await gateway"
  /\ UNCHANGED <<arm, at, port, warm, measured>>

\* wait_http asks whoever listens on the port.
FindGateway ==
  /\ pc = "await gateway"
  /\ port # Nobody
  /\ pc' = "replay"
  /\ UNCHANGED <<arm, at, gateway, proc, port, warm, measured>>

\* Mutant: the wait for the gateway has no deadline.
WaitsForWorkerInVain == pc = "await worker" /\ proc[Worker(at)] # "up"

WaitsInVain ==
  \/ pc = "await worker" /\ proc[Worker(at)] # "up"
  \/ pc = "await gateway" /\ port = Nobody

\* The deadline of wait_http passes.
GiveUp ==
  /\ WaitsInVain
  /\ pc' = "finally"
  /\ UNCHANGED <<arm, at, gateway, proc, port, warm, measured>>

\* replay ends, answered or not (LiveReplay).  The gateways of both arms are in
\* front of the same workers, and leave the prompts in the caches of those that
\* serve.
Replay ==
  /\ pc = "replay"
  /\ measured' = [measured EXCEPT ![arm] = port]
  /\ \E served \in SUBSET {w \in Workers : proc[w] = "up" /\ port \in Gateways} :
       warm' = warm \cup served
  /\ pc' = "stop"
  /\ UNCHANGED <<arm, at, gateway, proc, port>>

(***************************************************************************)
(* stop: a SIGINT, after which a process may exit, three seconds, and a    *)
(* kill for those that have not.                                           *)
(***************************************************************************)

\* Mutant: stop trusts the SIGINT.
KillNone(procs) == UNCHANGED <<proc, port, warm>>

Kill(procs) ==
  /\ proc' = [p \in Processes |-> IF p \in procs /\ Alive(p) THEN "dead" ELSE proc[p]]
  /\ port' = IF port \in procs THEN Nobody ELSE port
  /\ warm' = warm \ procs

\* Between the arms.
StopGateway ==
  /\ pc = "stop"
  /\ Kill({gateway})
  /\ gateway' = Nobody
  /\ pc' = "cool"
  /\ UNCHANGED <<arm, at, measured>>

\* Twenty seconds of sleep.  After the second arm the report is written.
CoolDown ==
  /\ pc = "cool"
  /\ \/ arm = 1 /\ arm' = 2 /\ pc' = "start"
     \/ arm = 2 /\ pc' = "finally" /\ UNCHANGED arm
  /\ UNCHANGED <<at, gateway, proc, port, warm, measured>>

\* Ctrl-C, or an exception.
Abort ==
  /\ pc \notin {"finally", "ended"}
  /\ pc' = "finally"
  /\ UNCHANGED <<arm, at, gateway, proc, port, warm, measured>>

\* Mutant: the gateway of an arm that is cut short is forgotten.
RememberedWorkers == Workers

\* workers + ([gateway] if gateway else []).
Remembered == Workers \cup ({gateway} \ {Nobody})

StopAll ==
  /\ pc = "finally"
  /\ Kill(Remembered)
  /\ pc' = "ended"
  /\ UNCHANGED <<arm, at, gateway, measured>>

(***************************************************************************)
(* The processes.                                                          *)
(***************************************************************************)

\* A gateway binds the port before it answers; every worker has its own.
ComeUp(p) ==
  /\ proc[p] = "starting"
  /\ p \in Gateways => port = Nobody
  /\ proc' = [proc EXCEPT ![p] = "up"]
  /\ port' = IF p \in Gateways THEN p ELSE port
  /\ UNCHANGED <<pc, arm, at, gateway, warm, measured>>

\* It heeds the signal, cannot bind its port, refuses its settings, ...
Exit(p) ==
  /\ Alive(p)
  /\ proc' = [proc EXCEPT ![p] = "dead"]
  /\ port' = IF port = p THEN Nobody ELSE port
  /\ warm' = warm \ {p}
  /\ UNCHANGED <<pc, arm, at, gateway, measured>>

Init ==
  /\ pc = "launch"
  /\ arm = 1
  /\ at = 1
  /\ gateway = Nobody
  /\ proc = [p \in Processes |-> "none"]
  /\ port \in IF Foreign THEN {Nobody, Stranger} ELSE {Nobody}
  /\ warm = {}
  /\ measured = [a \in Arms |-> Nobody]

Script ==
  \/ LaunchWorker \/ FindWorker \/ StartGateway \/ FindGateway \/ GiveUp
  \/ Replay \/ StopGateway \/ CoolDown \/ StopAll

Next ==
  \/ Script
  \/ Abort
  \/ \E p \in Processes : ComeUp(p) \/ Exit(p)

Spec == Init /\ [][Next]_vars

\* The script goes on: its waits have deadlines, its replay ends.
FairSpec == Spec /\ WF_vars(Script)

(***************************************************************************)
(* Properties                                                              *)
(***************************************************************************)

\* The last stop knows every process that can still be alive: wherever the
\* script gives up or is cut short, and whatever ignores its SIGINT, nothing
\* goes on holding a GPU or the port (the finally of main).
NothingSurvives == pc = "ended" => \A p \in Processes : ~Alive(p)

\* No arm is measured through the gateway of the other one: it would find the
\* port taken, and wait_http would take that gateway for its own (stop between
\* the arms).
ArmsAreTheirOwn ==
  \A a \in Arms : measured[a] \in Gateways => measured[a] = Gateway(a)

\* The script comes to its end, however its processes behave.
ValidationEnds == <>(pc = "ended")

\* What the comment on the cool-down and the README say: the second arm does
\* not inherit warm caches from the first.
SecondArmStartsCold == pc = "replay" /\ arm = 2 => warm = {}
=============================================================================
