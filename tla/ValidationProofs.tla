--------------------------- MODULE ValidationProofs ---------------------------
(***************************************************************************)
(* The validation script stops what it started and measures each arm       *)
(* through its own gateway, for any number of workers.  The invariant says *)
(* that the script always remembers the one gateway that can be alive.     *)
(* What the workers hold when an arm starts is a second invariant, Warmth. *)
(***************************************************************************)
EXTENDS Validation, TLAPS

Places ==
  {"launch", "await worker", "start", "await gateway", "replay", "stop", "cool",
   "finally", "ended"}

ValidationTypeOK ==
  /\ pc \in Places
  /\ arm \in Arms
  /\ at \in 1..NumWorkers
  /\ gateway \in Gateways \cup {Nobody}
  /\ proc \in [Processes -> {"none", "starting", "up", "dead"}]
  /\ port \in Gateways \cup {Nobody, Stranger}
  /\ warm \subseteq Workers
  /\ measured \in [Arms -> Gateways \cup {Nobody, Stranger}]

\* The variable `gateway' is set exactly while a gateway may be running.
Remembers ==
  /\ gateway \in {Nobody, Gateway(arm)}
  /\ pc \in {"launch", "await worker", "start", "cool"} => gateway = Nobody
  /\ \A g \in Gateways : Alive(g) => g = gateway

\* Only a gateway that is alive listens.
Listens == port \in Gateways => Alive(port)

VInv == ValidationTypeOK /\ Remembers /\ Listens /\ ArmsAreTheirOwn /\ NothingSurvives

LEMMA Names ==
  /\ Nobody \notin Processes /\ Stranger \notin Processes
  /\ Workers \cap Gateways = {}
  /\ \A a, b \in Arms : Gateway(a) = Gateway(b) => a = b
  /\ \A a \in Arms : Gateway(a) \in Gateways
BY DEF Nobody, Stranger, Processes, Workers, Gateways, Worker, Gateway

LEMMA WorkerNames == ValidationTypeOK => Worker(at) \in Workers
BY DEF ValidationTypeOK, Workers

LEMMA Counts ==
  ASSUME NEW n \in 1..NumWorkers
  PROVE  1 \in 1..NumWorkers /\ (n < NumWorkers => n + 1 \in 1..NumWorkers)
BY ValidationAssumption

LEMMA VInvInit == Init => VInv
<1> SUFFICES ASSUME Init PROVE VInv
  OBVIOUS
<1>1. ValidationTypeOK
  BY ValidationAssumption DEF Init, ValidationTypeOK, Places, Arms
<1> QED BY <1>1, Names DEF Init, VInv, Remembers, Listens, ArmsAreTheirOwn,
           NothingSurvives, Alive, Arms, Processes

\* What Kill does to the processes it is given and to nobody else.
LEMMA KillFacts ==
  ASSUME NEW procs, procs \subseteq Processes, ValidationTypeOK, Listens, Kill(procs)
  PROVE  /\ proc' \in [Processes -> {"none", "starting", "up", "dead"}]
         /\ port' \in Gateways \cup {Nobody, Stranger}
         /\ warm' \subseteq Workers
         /\ \A p \in Processes : Alive(p)' => p \notin procs /\ Alive(p)
         /\ Listens'
<1> USE DEF ValidationTypeOK, Kill, Alive
<1>1. proc' \in [Processes -> {"none", "starting", "up", "dead"}]
  OBVIOUS
<1>2. \A p \in Processes : Alive(p)' => p \notin procs /\ Alive(p)
  OBVIOUS
<1>3. Listens'
  BY Names DEF Listens, Processes
<1> QED BY <1>1, <1>2, <1>3

LEMMA VInvStep == VInv /\ [Next]_vars => VInv'
<1> SUFFICES ASSUME VInv, [Next]_vars PROVE VInv'
  OBVIOUS
<1> USE DEF VInv
<1>1. CASE LaunchWorker
  <2>1. proc' = [proc EXCEPT ![Worker(at)] = "starting"] /\ Worker(at) \in Workers
    BY <1>1, WorkerNames DEF LaunchWorker, Launch
  <2>2. \A g \in Gateways : proc'[g] = proc[g]
    BY <2>1, Names DEF ValidationTypeOK, Processes
  <2>3. at' \in 1..NumWorkers /\ pc' \in Places
    <3>1. at \in 1..NumWorkers /\ pc \in Places
      BY DEF ValidationTypeOK
    <3>2. at' = at \/ at' = 1 \/ (at < NumWorkers /\ at' = at + 1)
      BY <1>1 DEF LaunchWorker
    <3>3. pc' = pc \/ pc' \in {"await worker", "start"}
      BY <1>1 DEF LaunchWorker
    <3>4. pc' \in Places
      BY <3>1, <3>3 DEF Places
    <3> QED BY <3>1, <3>2, <3>4, Counts
  <2>4. proc' \in [Processes -> {"none", "starting", "up", "dead"}]
    BY <2>1 DEF ValidationTypeOK
  <2>5. ValidationTypeOK'
    BY <1>1, <2>3, <2>4 DEF LaunchWorker, ValidationTypeOK
  <2> QED BY <1>1, <2>2, <2>5 DEF LaunchWorker, Remembers, Listens, ArmsAreTheirOwn,
             NothingSurvives, Alive
<1>2. CASE FindWorker
  <2>1. at' \in 1..NumWorkers /\ pc' \in Places
    <3>1. at \in 1..NumWorkers /\ pc \in Places
      BY DEF ValidationTypeOK
    <3>2. at' = at \/ at' = 1 \/ (at < NumWorkers /\ at' = at + 1)
      BY <1>2 DEF FindWorker
    <3>3. pc' = pc \/ pc' \in {"await worker", "start"}
      BY <1>2 DEF FindWorker
    <3>4. pc' \in Places
      BY <3>1, <3>3 DEF Places
    <3> QED BY <3>1, <3>2, <3>4, Counts
  <2>2. ValidationTypeOK'
    BY <1>2, <2>1 DEF FindWorker, ValidationTypeOK
  <2> QED BY <1>2, <2>2 DEF FindWorker, Remembers, Listens, ArmsAreTheirOwn,
             NothingSurvives, Alive
<1>3. CASE StartGateway
  <2>1. proc' = [proc EXCEPT ![Gateway(arm)] = "starting"] /\ Gateway(arm) \in Gateways
    BY <1>3, Names DEF StartGateway, Launch, ValidationTypeOK
  <2>2. ValidationTypeOK'
    BY <1>3, <2>1 DEF StartGateway, ValidationTypeOK, Places, Processes
  <2>3. \A g \in Gateways : ~Alive(g)
    BY <1>3, Names DEF StartGateway, Remembers, Processes
  <2>4. \A g \in Gateways : Alive(g)' => g = Gateway(arm)
    BY <2>1, <2>3 DEF ValidationTypeOK, Processes, Alive
  <2>5. Listens'
    BY <1>3, <2>3 DEF StartGateway, Listens
  <2> QED BY <1>3, <2>2, <2>4, <2>5 DEF StartGateway, Remembers, ArmsAreTheirOwn, NothingSurvives
<1>4. CASE FindGateway \/ GiveUp
  <2>1. ValidationTypeOK'
    BY <1>4 DEF FindGateway, GiveUp, ValidationTypeOK, Places
  <2> QED BY <1>4, <2>1 DEF FindGateway, GiveUp, Remembers, Listens, ArmsAreTheirOwn,
             NothingSurvives, Alive
<1>5. CASE Replay
  <2>1. ValidationTypeOK'
    BY <1>5 DEF Replay, ValidationTypeOK, Places
  <2>2. port \in Gateways => port = Gateway(arm)
    BY Names DEF Remembers, Listens, Processes
  <2>3. ArmsAreTheirOwn'
    BY <1>5, <2>2 DEF Replay, ArmsAreTheirOwn, ValidationTypeOK
  <2> QED BY <1>5, <2>1, <2>3 DEF Replay, Remembers, Listens, NothingSurvives, Alive
<1>6. CASE StopGateway
  <2>1. CASE gateway = Nobody
    <3>1. UNCHANGED proc /\ UNCHANGED warm
      BY <1>6, <2>1, Names DEF StopGateway, Kill, Alive, ValidationTypeOK, Processes, Workers
    <3>2. port' \in Gateways => port' = port
      BY <1>6, Names DEF StopGateway, Kill, Processes
    <3>3. port' \in Gateways \cup {Nobody, Stranger}
      BY <1>6 DEF StopGateway, Kill, ValidationTypeOK
    <3>4. ValidationTypeOK'
      BY <1>6, <3>1, <3>3 DEF StopGateway, ValidationTypeOK, Places
    <3> QED BY <1>6, <2>1, <3>1, <3>2, <3>4 DEF StopGateway, Remembers, Listens,
               ArmsAreTheirOwn, NothingSurvives, Alive
  <2>2. CASE gateway # Nobody
    <3>1. {gateway} \subseteq Processes
      BY <2>2 DEF ValidationTypeOK, Processes
    <3>2. /\ proc' \in [Processes -> {"none", "starting", "up", "dead"}]
          /\ port' \in Gateways \cup {Nobody, Stranger}
          /\ warm' \subseteq Workers
          /\ \A p \in Processes : Alive(p)' => p \notin {gateway} /\ Alive(p)
          /\ Listens'
      BY <1>6, <3>1, KillFacts DEF StopGateway
    <3>3. \A g \in Gateways : ~Alive(g)'
      BY <3>2 DEF Remembers, Processes
    <3>4. ValidationTypeOK'
      BY <1>6, <3>2 DEF StopGateway, ValidationTypeOK, Places
    <3> QED BY <1>6, <3>2, <3>3, <3>4 DEF StopGateway, Remembers, ArmsAreTheirOwn,
               NothingSurvives
  <2> QED BY <2>1, <2>2
<1>7. CASE CoolDown
  <2>1. arm' \in Arms /\ pc' \in Places
    <3>1. (arm' = arm \/ arm' = 2) /\ pc' \in {"start", "finally"}
      BY <1>7 DEF CoolDown
    <3>2. arm \in Arms
      BY DEF ValidationTypeOK
    <3>3. arm' \in Arms
      BY <3>1, <3>2 DEF Arms
    <3>4. pc' \in Places
      BY <3>1 DEF Places
    <3> QED BY <3>3, <3>4
  <2>2. ValidationTypeOK'
    BY <1>7, <2>1 DEF CoolDown, ValidationTypeOK
  <2> QED BY <1>7, <2>2 DEF CoolDown, Remembers, Listens, ArmsAreTheirOwn,
             NothingSurvives, Alive
<1>8. CASE Abort
  <2>1. ValidationTypeOK'
    BY <1>8 DEF Abort, ValidationTypeOK, Places
  <2> QED BY <1>8, <2>1 DEF Abort, Remembers, Listens, ArmsAreTheirOwn,
             NothingSurvives, Alive
<1>9. CASE StopAll
  <2>1. Remembered \subseteq Processes
    BY DEF Remembered, ValidationTypeOK, Processes
  <2>2. /\ proc' \in [Processes -> {"none", "starting", "up", "dead"}]
        /\ port' \in Gateways \cup {Nobody, Stranger}
        /\ warm' \subseteq Workers
        /\ \A p \in Processes : Alive(p)' => p \notin Remembered /\ Alive(p)
        /\ Listens'
    BY <1>9, <2>1, KillFacts DEF StopAll
  <2>3. \A p \in Processes : Alive(p) => p \in Remembered
    BY Names DEF Remembers, Remembered, Processes
  <2>4. ValidationTypeOK'
    BY <1>9, <2>2 DEF StopAll, ValidationTypeOK, Places
  <2> QED BY <1>9, <2>2, <2>3, <2>4 DEF StopAll, Remembers, ArmsAreTheirOwn,
             NothingSurvives, Processes
<1>10. ASSUME NEW p \in Processes, ComeUp(p) PROVE VInv'
  <2>1. proc' = [proc EXCEPT ![p] = "up"] /\ Alive(p)
    BY <1>10 DEF ComeUp, Alive
  <2>2. \A q \in Processes : Alive(q)' <=> Alive(q)
    BY <2>1 DEF ValidationTypeOK, Alive
  <2>3. ValidationTypeOK'
    BY <1>10, <2>1 DEF ComeUp, ValidationTypeOK
  <2>4. Listens'
    BY <1>10, <2>1, <2>2 DEF ComeUp, Listens, Processes
  <2> QED BY <1>10, <2>2, <2>3, <2>4 DEF ComeUp, Remembers, ArmsAreTheirOwn,
             NothingSurvives, Processes
<1>11. ASSUME NEW p \in Processes, Exit(p) PROVE VInv'
  <2>1. \A q \in Processes : Alive(q)' => Alive(q) /\ q # p
    BY <1>11 DEF Exit, ValidationTypeOK, Alive
  <2>2. \A q \in Processes : Alive(q) /\ q # p => Alive(q)'
    BY <1>11 DEF Exit, ValidationTypeOK, Alive
  <2>3. ValidationTypeOK'
    BY <1>11 DEF Exit, ValidationTypeOK
  <2>4. Listens'
    BY <1>11, <2>2, Names DEF Exit, Listens, Processes
  <2> QED BY <1>11, <2>1, <2>3, <2>4 DEF Exit, Remembers, ArmsAreTheirOwn,
             NothingSurvives, Processes
<1>12. CASE UNCHANGED vars
  BY <1>12 DEF vars, ValidationTypeOK, Remembers, Listens, ArmsAreTheirOwn,
     NothingSurvives, Alive
<1> QED BY <1>1, <1>2, <1>3, <1>4, <1>5, <1>6, <1>7, <1>8, <1>9, <1>10, <1>11, <1>12
        DEF Next, Script

\* Wherever the script gives up or is cut short, its last stop reaches every
\* process it has started, for any number of workers (the finally of main).
THEOREM StopsEverything == Spec => []NothingSurvives
<1>1. VInv => NothingSurvives
  BY DEF VInv
<1> QED BY <1>1, VInvInit, VInvStep, PTL DEF Spec

\* An arm that is answered by a gateway of this script is answered by its own
\* (stop between the arms).
THEOREM ArmsAreSeparate == Spec => []ArmsAreTheirOwn
<1>1. VInv => ArmsAreTheirOwn
  BY DEF VInv
<1> QED BY <1>1, VInvInit, VInvStep, PTL DEF Spec

(***************************************************************************)
(* Warm caches.  The workers hold prompts only after an arm was answered   *)
(* by a gateway, and an arm is measured once, at its end.                  *)
(***************************************************************************)
IsMeasured(a) == a < arm \/ (a = arm /\ pc \in {"stop", "cool", "finally", "ended"})

Warmth ==
  /\ \A a \in Arms : measured[a] \in Gateways => IsMeasured(a)
  /\ warm # {} => \E a \in Arms : measured[a] \in Gateways

\* The first arm starts cold; the second finds warm caches only if the first
\* was answered, by the gateway of its own (main; the other half of what run
\* validation_cold shows of the cool-down).
WarmByTheFirstArm ==
  pc = "replay" /\ warm # {} => arm = 2 /\ measured[1] = Gateway(1)

LEMMA WarmthInit == Init => Warmth
BY Names DEF Init, Warmth, Arms, Processes

LEMMA WarmthStep == VInv /\ Warmth /\ [Next]_vars => Warmth'
<1> SUFFICES ASSUME VInv, Warmth, [Next]_vars PROVE Warmth'
  OBVIOUS
<1> DEFINE late == {"stop", "cool", "finally", "ended"}
<1>1. CASE Replay
  <2>1. /\ measured' = [measured EXCEPT ![arm] = port] /\ arm' = arm /\ pc' = "stop"
        /\ warm' # {} => warm # {} \/ port \in Gateways
    BY <1>1 DEF Replay
  <2>2. measured \in [Arms -> Gateways \cup {Nobody, Stranger}] /\ arm \in Arms
    BY DEF VInv, ValidationTypeOK
  <2>3. measured[arm] \notin Gateways
    BY <1>1, <2>2 DEF Replay, Warmth, IsMeasured, Arms
  <2>4. \A a \in Arms : measured[a] \in Gateways => measured'[a] \in Gateways /\ a < arm
    BY <1>1, <2>1, <2>2, <2>3 DEF Warmth, IsMeasured, Replay
  <2>5. \A a \in Arms : measured'[a] \in Gateways => IsMeasured(a)'
    BY <2>1, <2>2, <2>4 DEF IsMeasured
  <2>6. warm' # {} => \E a \in Arms : measured'[a] \in Gateways
    BY <2>1, <2>2, <2>4 DEF Warmth
  <2> QED
    BY <2>5, <2>6 DEF Warmth
<1>2. CASE CoolDown
  <2>1. measured' = measured /\ warm' = warm
        /\ \/ arm = 1 /\ arm' = 2
           \/ arm = 2 /\ arm' = 2 /\ pc' = "finally"
    BY <1>2 DEF CoolDown
  <2>2. \A a \in Arms : measured[a] \in Gateways => a < arm \/ a = arm
    BY DEF Warmth, IsMeasured
  <2> QED
    BY <2>1, <2>2 DEF Warmth, IsMeasured, Arms
<1>3. ASSUME measured' = measured, warm' \subseteq warm, arm' = arm, pc \in late => pc' \in late
      PROVE  Warmth'
  BY <1>3 DEF Warmth, IsMeasured
<1>4. CASE LaunchWorker \/ FindWorker \/ StartGateway \/ FindGateway \/ GiveUp \/ Abort
  BY <1>3, <1>4 DEF LaunchWorker, FindWorker, StartGateway, FindGateway, GiveUp,
     WaitsInVain, Abort
<1>5. CASE StopGateway \/ StopAll
  BY <1>3, <1>5 DEF StopGateway, StopAll, Kill
<1>6. ASSUME NEW p \in Processes, ComeUp(p) \/ Exit(p) PROVE Warmth'
  BY <1>3, <1>6 DEF ComeUp, Exit
<1>7. CASE UNCHANGED vars
  BY <1>3, <1>7 DEF vars
<1> QED
  BY <1>1, <1>2, <1>4, <1>5, <1>6, <1>7 DEF Next, Script

\* What the second arm inherits is the first arm's doing and nothing else's:
\* no process that was there before, no failed start and no stranger on the
\* port warms the workers.
THEOREM SecondInheritsFirst == Spec => []WarmByTheFirstArm
<1>1. VInv /\ Warmth => WarmByTheFirstArm
  <2> SUFFICES ASSUME VInv, Warmth, pc = "replay", warm # {}
               PROVE  arm = 2 /\ measured[1] = Gateway(1)
    BY DEF WarmByTheFirstArm
  <2>1. PICK a \in Arms : measured[a] \in Gateways
    BY DEF Warmth
  <2>2. a < arm /\ arm \in Arms
    BY <2>1 DEF Warmth, IsMeasured, VInv, ValidationTypeOK
  <2>3. a = 1 /\ arm = 2
    BY <2>2 DEF Arms
  <2> QED
    BY <2>1, <2>3 DEF VInv, ArmsAreTheirOwn
<1> QED BY <1>1, VInvInit, VInvStep, WarmthInit, WarmthStep, PTL DEF Spec
=============================================================================
