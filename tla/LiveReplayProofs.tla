--------------------------- MODULE LiveReplayProofs ---------------------------
(***************************************************************************)
(* Proofs about LiveReplay for any sessions, traces, tools, concurrency    *)
(* and timeout, and a gateway that answers, fails or forgets at any time.  *)
(*                                                                         *)
(* Admission rests on the line being a queue of sessions that wait, each   *)
(* once.  The order of prefixes and the gaps rest on what the gateway has  *)
(* in hand: of each turn at most one call, awaited or given up.            *)
(*                                                                         *)
(* A second invariant, ReplayInv, is about the harness's records and about *)
(* what the gateway learns: each turn is recorded once, whoever waits is   *)
(* in line, and a tool's history holds what ran before it.                 *)
(***************************************************************************)
EXTENDS LiveReplay, FiniteSetTheorems, TLAPS

LiveTypes ==
  /\ clock \in Nat
  /\ \A c \in upstream : c.session \in Sessions /\ c.turn \in Nat /\ c.arrival \in Nat
  /\ seen \in [Sessions -> Int \cup {Never}]
  /\ line \in Seq(Sessions)
  /\ permits \in Nat
  /\ pc \in [Sessions -> {"waiting", "calling", "tool", "done"}]
  /\ turn \in [Sessions -> Nat]
  /\ stored \in [Sessions -> Nat]
  /\ left \in [Sessions -> Int]
  /\ troubled \in [Sessions -> BOOLEAN]

\* Who stands in line waits, and stands there once.
Queue ==
  /\ \A i \in 1..Len(line) : pc[line[i]] = "waiting"
  /\ \A i, j \in 1..Len(line) : i # j => line[i] # line[j]

\* What the gateway has in hand.
InHand ==
  /\ \A s \in Sessions : pc[s] = "waiting" => turn[s] = 0
  /\ \A s \in Sessions : stored[s] <= turn[s]
  /\ \A c \in upstream : 1 <= c.turn /\ c.turn <= turn[c.session]
  /\ \A c, d \in upstream : c.session = d.session /\ c.turn = d.turn => c = d
  /\ \A c \in upstream : AwaitedBy(c) \/ <<c.session, c.turn>> \in gaveUp

\* An agent that is away without trouble has no call left at the gateway.
GapStart ==
  \A s \in Sessions : pc[s] = "tool" /\ ~troubled[s] =>
    /\ \A c \in upstream : c.session # s
    /\ seen[s] # Never => seen[s] = left[s]

LiveInv == LiveTypes /\ Queue /\ InHand /\ GapStart /\ AdmissionIsExact

LEMMA AdmittedFinite == IsFiniteSet(Admitted) /\ Cardinality(Admitted) \in Nat
<1>1. Admitted \in SUBSET Sessions
  BY DEF Admitted
<1> QED
  BY <1>1, ToolAssumption, FS_Subset, FS_CardinalityType

(***************************************************************************)
(* A session makes its next call.                                          *)
(***************************************************************************)
LEMMA PostInHand ==
  ASSUME LiveTypes, InHand, GapStart, NEW s \in Sessions, pc[s] \in {"waiting", "tool"},
         Post(s, turn[s] + 1), UNCHANGED <<clock, stored, left, gaveUp, troubled>>
  PROVE  /\ InHand' /\ GapStart'
         /\ \A c \in upstream' : c.session \in Sessions /\ c.turn \in Nat /\ c.arrival \in Nat
         /\ seen' = seen
         /\ pc' = [pc EXCEPT ![s] = "calling"]
         /\ turn' \in [Sessions -> Nat]
<1> DEFINE t == turn[s] + 1
           new == [session |-> s, turn |-> t, arrival |-> clock]
<1>1. turn[s] \in Nat /\ t \in Nat /\ clock \in Nat
  BY DEF LiveTypes
<1>2. /\ upstream' = upstream \cup {new}
      /\ seen' = seen
      /\ pc' = [pc EXCEPT ![s] = "calling"]
      /\ turn' = [turn EXCEPT ![s] = t]
  BY DEF Post, Schedule
<1>3. new.session = s /\ new.turn = t /\ new.arrival = clock
  OBVIOUS
<1>4. t = turn[s] + 1
  OBVIOUS
<1> HIDE DEF new, t
<1>5. /\ turn' \in [Sessions -> Nat]
      /\ turn'[s] = t
      /\ \A r \in Sessions \ {s} : turn'[r] = turn[r] /\ pc'[r] = pc[r]
      /\ pc'[s] = "calling"
  BY <1>1, <1>2 DEF LiveTypes
<1>6. \A c \in upstream : c.session = s => c.turn < t
  BY <1>1, <1>4 DEF LiveTypes, InHand
<1>7. \A c \in upstream' : c.session \in Sessions /\ c.turn \in Nat /\ c.arrival \in Nat
  BY <1>1, <1>2, <1>3 DEF LiveTypes
<1>8. InHand'
  <2>1. \A r \in Sessions : pc'[r] = "waiting" => turn'[r] = 0
    BY <1>5 DEF InHand
  <2>2. ASSUME NEW r \in Sessions PROVE stored'[r] <= turn'[r]
    <3>1. stored[r] <= turn[r] /\ stored[r] \in Nat /\ turn[r] \in Nat
      BY DEF InHand, LiveTypes
    <3>2. turn'[r] \in {turn[r], turn[r] + 1}
      BY <1>4, <1>5
    <3> QED
      BY <3>1, <3>2
  <2>3. \A c \in upstream' : 1 <= c.turn /\ c.turn <= turn'[c.session]
    <3>1. 1 <= t /\ t <= turn'[s]
      BY <1>1, <1>4, <1>5
    <3>2. ASSUME NEW c \in upstream PROVE 1 <= c.turn /\ c.turn <= turn'[c.session]
      <4>1. /\ 1 <= c.turn /\ c.turn <= turn[c.session] /\ c.session \in Sessions
            /\ c.turn \in Nat
        BY DEF InHand, LiveTypes
      <4>2. CASE c.session = s
        BY <1>1, <1>5, <1>6, <4>1, <4>2
      <4>3. CASE c.session # s
        BY <1>5, <4>1, <4>3
      <4> QED
        BY <4>2, <4>3
    <3> QED
      BY <1>2, <1>3, <3>1, <3>2
  <2>4. \A c, d \in upstream' : c.session = d.session /\ c.turn = d.turn => c = d
    <3>1. \A c \in upstream : ~(c.session = s /\ c.turn = t)
      BY <1>1, <1>6 DEF LiveTypes
    <3> QED
      BY <1>2, <1>3, <3>1 DEF InHand
  <2>5. \A c \in upstream' :
          (pc'[c.session] = "calling" /\ turn'[c.session] = c.turn)
            \/ <<c.session, c.turn>> \in gaveUp'
    <3>1. pc'[new.session] = "calling" /\ turn'[new.session] = new.turn
      BY <1>3, <1>5
    <3>2. ASSUME NEW c \in upstream
          PROVE  (pc'[c.session] = "calling" /\ turn'[c.session] = c.turn)
                   \/ <<c.session, c.turn>> \in gaveUp
      <4>1. c.session \in Sessions
        BY DEF LiveTypes
      <4>2. CASE c.session = s
        BY <4>2 DEF InHand, AwaitedBy
      <4>3. CASE c.session # s
        BY <1>5, <4>1, <4>3 DEF InHand, AwaitedBy
      <4> QED
        BY <4>2, <4>3
    <3> QED
      BY <1>2, <3>1, <3>2
  <2> QED
    BY <2>1, <2>2, <2>3, <2>4, <2>5 DEF InHand, AwaitedBy
<1>9. GapStart'
  BY <1>2, <1>3, <1>5 DEF GapStart
<1> QED
  BY <1>2, <1>5, <1>7, <1>8, <1>9

LEMMA BeginLive ==
  ASSUME LiveInv, NEW s \in Sessions, Begin(s)
  PROVE  LiveInv'
<1>1. /\ line \in Seq(Sessions) /\ line # <<>> /\ s = line[1]
      /\ permits \in Nat /\ permits > 0
  BY DEF LiveInv, LiveTypes, Begin
<1>2. line' = Tail(line) /\ permits' = permits - 1
  BY DEF Begin
<1>3. /\ Len(line) \in Nat /\ Len(line) > 0
      /\ line' \in Seq(Sessions) /\ Len(line') = Len(line) - 1
      /\ \A i \in 1..Len(line') : line'[i] = line[i + 1]
  BY <1>1, <1>2
<1>4. pc[s] = "waiting"
  BY <1>1, <1>3 DEF LiveInv, Queue
<1>5. turn[s] + 1 = 1
  BY <1>4 DEF LiveInv, InHand
<1>6. /\ InHand' /\ GapStart'
      /\ \A c \in upstream' : c.session \in Sessions /\ c.turn \in Nat /\ c.arrival \in Nat
      /\ seen' = seen
      /\ pc' = [pc EXCEPT ![s] = "calling"]
      /\ turn' \in [Sessions -> Nat]
  BY <1>4, <1>5, PostInHand DEF LiveInv, Begin
<1>7. LiveTypes'
  BY <1>1, <1>2, <1>3, <1>6 DEF LiveInv, LiveTypes, Begin
<1>8. Queue'
  <2>1. \A i \in 1..Len(line') : i + 1 \in 1..Len(line) /\ i + 1 # 1 /\ 1 \in 1..Len(line)
    BY <1>3
  <2>2. \A i \in 1..Len(line') : line'[i] # s /\ line'[i] \in Sessions
    BY <1>1, <1>3, <2>1 DEF LiveInv, Queue
  <2>3. \A i \in 1..Len(line') : pc'[line'[i]] = "waiting"
    <3> SUFFICES ASSUME NEW i \in 1..Len(line') PROVE pc'[line'[i]] = "waiting"
      OBVIOUS
    <3>1. line'[i] = line[i + 1] /\ i + 1 \in 1..Len(line)
      BY <1>3, <2>1
    <3>2. pc[line'[i]] = "waiting"
      BY <3>1 DEF LiveInv, Queue
    <3> QED
      BY <1>6, <2>2, <3>2 DEF LiveInv, LiveTypes
  <2>4. \A i, j \in 1..Len(line') : i # j => line'[i] # line'[j]
    BY <1>3, <2>1 DEF LiveInv, Queue
  <2> QED
    BY <2>3, <2>4 DEF Queue
<1>9. AdmissionIsExact'
  <2>1. Admitted' = Admitted \cup {s} /\ s \notin Admitted
    BY <1>4, <1>6 DEF LiveInv, LiveTypes, Admitted
  <2>2. Cardinality(Admitted') = Cardinality(Admitted) + 1
    BY <2>1, AdmittedFinite, FS_AddElement
  <2>3. permits + Cardinality(Admitted) = Concurrency
    BY DEF LiveInv, AdmissionIsExact
  <2>4. (permits - 1) + (Cardinality(Admitted) + 1) = permits + Cardinality(Admitted)
    BY <1>1, AdmittedFinite
  <2> QED
    BY <1>2, <2>2, <2>3, <2>4 DEF AdmissionIsExact
<1> QED
  BY <1>6, <1>7, <1>8, <1>9 DEF LiveInv

LEMMA NextTurnLive ==
  ASSUME LiveInv, NEW s \in Sessions, NextTurn(s)
  PROVE  LiveInv'
<1>1. pc[s] = "tool"
  BY DEF NextTurn
<1>2. /\ InHand' /\ GapStart'
      /\ \A c \in upstream' : c.session \in Sessions /\ c.turn \in Nat /\ c.arrival \in Nat
      /\ seen' = seen
      /\ pc' = [pc EXCEPT ![s] = "calling"]
      /\ turn' \in [Sessions -> Nat]
  BY <1>1, PostInHand DEF LiveInv, NextTurn
<1>3. LiveTypes'
  BY <1>2 DEF LiveInv, LiveTypes, NextTurn
<1>4. Queue'
  <2>1. line' = line /\ line \in Seq(Sessions)
    BY DEF LiveInv, LiveTypes, NextTurn
  <2>2. \A i \in 1..Len(line) : line[i] \in Sessions /\ line[i] # s
    BY <1>1, <2>1 DEF LiveInv, Queue
  <2> QED
    BY <1>2, <2>1, <2>2 DEF LiveInv, LiveTypes, Queue
<1>5. AdmissionIsExact'
  <2>1. Admitted' = Admitted
    BY <1>1, <1>2 DEF LiveInv, LiveTypes, Admitted
  <2> QED
    BY <2>1 DEF LiveInv, AdmissionIsExact, NextTurn
<1> QED
  BY <1>2, <1>3, <1>4, <1>5 DEF LiveInv

(***************************************************************************)
(* A call ends for its client.                                             *)
(***************************************************************************)
LEMMA MoveOnEffect ==
  ASSUME LiveInv, NEW s \in Sessions, pc[s] = "calling", MoveOn(s), line' = line
  PROVE  /\ permits' \in Nat
         /\ pc' \in [Sessions -> {"waiting", "calling", "tool", "done"}]
         /\ pc'[s] \in {"tool", "done"}
         /\ \A r \in Sessions \ {s} : pc'[r] = pc[r]
         /\ left' = [left EXCEPT ![s] = clock]
         /\ Queue' /\ AdmissionIsExact'
<1>1. PICK next \in {"tool", "done"} :
        /\ pc' = [pc EXCEPT ![s] = next]
        /\ permits' = IF next = "done" THEN permits + 1 ELSE permits
  <2>1. CASE turn[s] = Turns[s]
    BY <2>1 DEF MoveOn, PermitsAfter, LiveInv, LiveTypes, LiveAssumption
  <2>2. CASE turn[s] # Turns[s]
    BY <2>2 DEF MoveOn, PermitsAfter
  <2> QED
    BY <2>1, <2>2
<1>2. pc \in [Sessions -> {"waiting", "calling", "tool", "done"}] /\ permits \in Nat
  BY DEF LiveInv, LiveTypes
<1>3. Queue'
  <2>1. line \in Seq(Sessions)
    BY DEF LiveInv, LiveTypes
  <2>2. \A i \in 1..Len(line) : line[i] \in Sessions /\ line[i] # s
    BY <2>1 DEF LiveInv, Queue
  <2> QED
    BY <1>1, <1>2, <2>2 DEF LiveInv, Queue
<1>4. AdmissionIsExact'
  <2>1. permits + Cardinality(Admitted) = Concurrency
    BY DEF LiveInv, AdmissionIsExact
  <2>2. CASE next = "tool"
    <3>1. Admitted' = Admitted
      BY <1>1, <1>2, <2>2 DEF Admitted
    <3> QED
      BY <1>1, <2>1, <2>2, <3>1 DEF AdmissionIsExact
  <2>3. CASE next = "done"
    <3>1. Admitted' = Admitted \ {s} /\ s \in Admitted
      BY <1>1, <1>2, <2>3 DEF Admitted
    <3>2. Cardinality(Admitted') = Cardinality(Admitted) - 1
      BY <3>1, AdmittedFinite, FS_RemoveElement
    <3>3. (permits + 1) + (Cardinality(Admitted) - 1) = permits + Cardinality(Admitted)
      BY <1>2, AdmittedFinite
    <3> QED
      BY <1>1, <2>1, <2>3, <3>2, <3>3 DEF AdmissionIsExact
  <2> QED
    BY <2>2, <2>3
<1> QED
  BY <1>1, <1>2, <1>3, <1>4 DEF MoveOn

\* Whether the client still waits or not, a call that the gateway has done with
\* leaves sessions, permits and the line in order.
LEMMA EndingEffect ==
  ASSUME LiveInv, NEW c \in upstream,
         upstream' = upstream \ {c}, line' = line, turn' = turn, gaveUp' = gaveUp,
         \/ AwaitedBy(c) /\ MoveOn(c.session)
         \/ ~AwaitedBy(c) /\ UNCHANGED <<left, recorded, pc, permits, due>>
  PROVE  /\ permits' \in Nat
         /\ pc' \in [Sessions -> {"waiting", "calling", "tool", "done"}]
         /\ left' \in [Sessions -> Int]
         /\ Queue' /\ AdmissionIsExact'
         /\ \A s \in Sessions : pc'[s] = "waiting" => turn[s] = 0
         /\ \A d \in upstream' : AwaitedBy(d)' \/ <<d.session, d.turn>> \in gaveUp
         /\ \A s \in Sessions \ {c.session} : pc'[s] = pc[s] /\ left'[s] = left[s]
         /\ AwaitedBy(c) => left'[c.session] = clock
<1>1. c.session \in Sessions /\ clock \in Int
  BY DEF LiveInv, LiveTypes
<1>2. CASE AwaitedBy(c) /\ MoveOn(c.session)
  <2>1. /\ permits' \in Nat
        /\ pc' \in [Sessions -> {"waiting", "calling", "tool", "done"}]
        /\ pc'[c.session] \in {"tool", "done"}
        /\ \A r \in Sessions \ {c.session} : pc'[r] = pc[r]
        /\ left' = [left EXCEPT ![c.session] = clock]
        /\ Queue' /\ AdmissionIsExact'
    BY <1>1, <1>2, MoveOnEffect DEF AwaitedBy
  <2>2. \A s \in Sessions : pc'[s] = "waiting" => turn[s] = 0
    BY <2>1 DEF LiveInv, InHand
  <2>3. left \in [Sessions -> Int]
    BY DEF LiveInv, LiveTypes
  <2>4. ASSUME NEW d \in upstream' PROVE AwaitedBy(d)' \/ <<d.session, d.turn>> \in gaveUp
    <3>1. d \in upstream /\ d # c /\ d.session \in Sessions
      BY DEF LiveInv, LiveTypes
    <3>2. CASE d.session = c.session
      <4>1. d.turn # c.turn
        BY <3>1, <3>2 DEF LiveInv, InHand
      <4>2. ~AwaitedBy(d)
        BY <1>2, <3>2, <4>1 DEF AwaitedBy
      <4> QED
        BY <3>1, <4>2 DEF LiveInv, InHand
    <3>3. CASE d.session # c.session
      BY <2>1, <3>1, <3>3 DEF LiveInv, InHand, AwaitedBy
    <3> QED
      BY <3>2, <3>3
  <2> QED
    BY <1>1, <2>1, <2>2, <2>3, <2>4
<1>3. CASE ~AwaitedBy(c) /\ UNCHANGED <<left, recorded, pc, permits, due>>
  <2>1. Queue' /\ AdmissionIsExact'
    BY <1>3 DEF LiveInv, Queue, AdmissionIsExact, Admitted
  <2>2. \A d \in upstream' : AwaitedBy(d)' \/ <<d.session, d.turn>> \in gaveUp
    BY <1>3 DEF LiveInv, InHand, AwaitedBy
  <2>3. \A s \in Sessions : pc'[s] = "waiting" => turn[s] = 0
    BY <1>3 DEF LiveInv, InHand
  <2> QED
    BY <1>3, <2>1, <2>2, <2>3 DEF LiveInv, LiveTypes
<1> QED
  BY <1>2, <1>3

LEMMA AnswerLive ==
  ASSUME LiveInv, NEW c \in upstream, NEW wasted \in 0..(clock - c.arrival), Answer(c, wasted)
  PROVE  /\ LiveInv'
         /\ \A s \in Sessions : stored'[s] < stored[s] => <<s, stored'[s]>> \in gaveUp
<1> DEFINE s == c.session
           smooth == wasted = 0 /\ AwaitedBy(c) /\ OnlyCall(c)
<1>1. /\ s \in Sessions /\ c.turn \in Nat /\ c.arrival \in Nat /\ clock \in Nat
      /\ wasted \in Int
  BY DEF LiveInv, LiveTypes
<1>2. /\ upstream' = upstream \ {c} /\ line' = line /\ turn' = turn /\ gaveUp' = gaveUp
      /\ stored' = [stored EXCEPT ![s] = c.turn]
      /\ seen' = [seen EXCEPT ![s] = c.arrival + (clock - c.arrival - wasted)]
      /\ troubled' = [troubled EXCEPT ![s] = ~smooth]
      /\ clock' = clock
  BY DEF Answer, Record
<1>3. /\ permits' \in Nat
      /\ pc' \in [Sessions -> {"waiting", "calling", "tool", "done"}]
      /\ left' \in [Sessions -> Int]
      /\ Queue' /\ AdmissionIsExact'
      /\ \A r \in Sessions : pc'[r] = "waiting" => turn[r] = 0
      /\ \A d \in upstream' : AwaitedBy(d)' \/ <<d.session, d.turn>> \in gaveUp
      /\ \A r \in Sessions \ {s} : pc'[r] = pc[r] /\ left'[r] = left[r]
      /\ AwaitedBy(c) => left'[s] = clock
  BY <1>2, EndingEffect DEF Answer
<1>4. c.arrival + (clock - c.arrival - wasted) = clock - wasted
  BY <1>1
<1>5. /\ seen' \in [Sessions -> Int \cup {Never}]
      /\ seen'[s] = clock - wasted
      /\ \A r \in Sessions \ {s} : seen'[r] = seen[r]
  BY <1>1, <1>2, <1>4 DEF LiveInv, LiveTypes
<1>6. /\ troubled' \in [Sessions -> BOOLEAN]
      /\ troubled'[s] <=> ~smooth
      /\ \A r \in Sessions \ {s} : troubled'[r] = troubled[r]
  BY <1>1, <1>2 DEF LiveInv, LiveTypes
<1>7. stored' \in [Sessions -> Nat]
  BY <1>1, <1>2 DEF LiveInv, LiveTypes
<1>8. LiveTypes'
  BY <1>2, <1>3, <1>5, <1>6, <1>7 DEF LiveInv, LiveTypes
<1>9. InHand'
  <2>1. \A r \in Sessions : stored'[r] <= turn'[r]
    BY <1>1, <1>2 DEF LiveInv, LiveTypes, InHand
  <2> QED
    BY <1>2, <1>3, <2>1 DEF LiveInv, InHand
<1>10. GapStart'
  <2> SUFFICES ASSUME NEW r \in Sessions, pc'[r] = "tool", ~troubled'[r]
               PROVE  /\ \A d \in upstream' : d.session # r
                      /\ seen'[r] # Never => seen'[r] = left'[r]
    BY DEF GapStart
  <2>1. CASE r = s
    <3>1. wasted = 0 /\ AwaitedBy(c) /\ OnlyCall(c)
      BY <1>6, <2>1
    <3>2. \A d \in upstream' : d.session # s
      BY <1>2, <3>1 DEF OnlyCall
    <3>3. seen'[s] = left'[s]
      BY <1>1, <1>3, <1>5, <3>1
    <3> QED
      BY <2>1, <3>2, <3>3
  <2>2. CASE r # s
    BY <1>2, <1>3, <1>5, <1>6, <2>2 DEF LiveInv, GapStart
  <2> QED
    BY <2>1, <2>2
<1>11. \A r \in Sessions : stored'[r] < stored[r] => <<r, stored'[r]>> \in gaveUp
  <2> SUFFICES ASSUME NEW r \in Sessions, stored'[r] < stored[r]
               PROVE  <<r, stored'[r]>> \in gaveUp
    OBVIOUS
  <2>1. \A n \in Nat : ~(n < n)
    OBVIOUS
  <2>2. r = s /\ stored'[r] = c.turn
    BY <1>1, <1>2, <2>1 DEF LiveInv, LiveTypes
  <2>3. stored[s] <= turn[s] /\ stored[s] \in Nat /\ turn[s] \in Nat
    BY <1>1 DEF LiveInv, LiveTypes, InHand
  <2>4. c.turn # turn[s]
    BY <1>1, <2>2, <2>3
  <2>5. <<c.session, c.turn>> \in gaveUp
    BY <2>4 DEF LiveInv, InHand, AwaitedBy
  <2> QED
    BY <1>2, <2>2, <2>5
<1> QED
  BY <1>3, <1>8, <1>9, <1>10, <1>11 DEF LiveInv

LEMMA FailLive ==
  ASSUME LiveInv, NEW c \in upstream, Fail(c)
  PROVE  LiveInv'
<1> DEFINE s == c.session
<1>1. s \in Sessions
  BY DEF LiveInv, LiveTypes
<1>2. /\ upstream' = upstream \ {c} /\ line' = line /\ turn' = turn /\ gaveUp' = gaveUp
      /\ stored' = stored /\ seen' = seen /\ clock' = clock
      /\ troubled' = [troubled EXCEPT ![s] = TRUE]
  BY DEF Fail
<1>3. /\ permits' \in Nat
      /\ pc' \in [Sessions -> {"waiting", "calling", "tool", "done"}]
      /\ left' \in [Sessions -> Int]
      /\ Queue' /\ AdmissionIsExact'
      /\ \A r \in Sessions : pc'[r] = "waiting" => turn[r] = 0
      /\ \A d \in upstream' : AwaitedBy(d)' \/ <<d.session, d.turn>> \in gaveUp
      /\ \A r \in Sessions \ {s} : pc'[r] = pc[r] /\ left'[r] = left[r]
  BY <1>2, EndingEffect DEF Fail
<1>4. /\ troubled' \in [Sessions -> BOOLEAN]
      /\ troubled'[s]
      /\ \A r \in Sessions \ {s} : troubled'[r] = troubled[r]
  BY <1>1, <1>2 DEF LiveInv, LiveTypes
<1>5. LiveTypes'
  BY <1>2, <1>3, <1>4 DEF LiveInv, LiveTypes
<1>6. InHand'
  BY <1>2, <1>3 DEF LiveInv, InHand
<1>7. GapStart'
  BY <1>2, <1>3, <1>4 DEF LiveInv, GapStart
<1> QED
  BY <1>3, <1>5, <1>6, <1>7 DEF LiveInv

LEMMA TimeOutLive ==
  ASSUME LiveInv, NEW s \in Sessions, TimeOut(s)
  PROVE  LiveInv'
<1>1. /\ upstream' = upstream /\ line' = line /\ turn' = turn
      /\ gaveUp' = gaveUp \cup {<<s, turn[s]>>}
      /\ stored' = stored /\ seen' = seen /\ clock' = clock
      /\ troubled' = [troubled EXCEPT ![s] = TRUE]
      /\ pc[s] = "calling"
  BY DEF TimeOut, gapVars
<1>2. /\ permits' \in Nat
      /\ pc' \in [Sessions -> {"waiting", "calling", "tool", "done"}]
      /\ pc'[s] \in {"tool", "done"}
      /\ \A r \in Sessions \ {s} : pc'[r] = pc[r]
      /\ left' = [left EXCEPT ![s] = clock]
      /\ Queue' /\ AdmissionIsExact'
  BY <1>1, MoveOnEffect DEF TimeOut
<1>3. /\ troubled' \in [Sessions -> BOOLEAN]
      /\ troubled'[s]
      /\ \A r \in Sessions \ {s} : troubled'[r] = troubled[r]
      /\ left' \in [Sessions -> Int]
      /\ \A r \in Sessions \ {s} : left'[r] = left[r]
  BY <1>1, <1>2 DEF LiveInv, LiveTypes
<1>4. LiveTypes'
  BY <1>1, <1>2, <1>3 DEF LiveInv, LiveTypes
<1>5. InHand'
  <2>1. ASSUME NEW c \in upstream PROVE AwaitedBy(c)' \/ <<c.session, c.turn>> \in gaveUp'
    <3>1. c.session \in Sessions
      BY DEF LiveInv, LiveTypes
    <3>2. CASE AwaitedBy(c) /\ c.session = s
      BY <1>1, <3>2 DEF AwaitedBy
    <3>3. CASE AwaitedBy(c) /\ c.session # s
      BY <1>1, <1>2, <3>1, <3>3 DEF AwaitedBy
    <3>4. CASE ~AwaitedBy(c)
      BY <1>1, <3>4 DEF LiveInv, InHand
    <3> QED
      BY <3>2, <3>3, <3>4
  <2>2. \A r \in Sessions : pc'[r] = "waiting" => turn[r] = 0
    BY <1>2 DEF LiveInv, InHand
  <2> QED
    BY <1>1, <2>1, <2>2 DEF LiveInv, InHand
<1>6. GapStart'
  BY <1>1, <1>2, <1>3 DEF LiveInv, GapStart
<1> QED
  BY <1>2, <1>4, <1>5, <1>6 DEF LiveInv

(***************************************************************************)
(* The rest.                                                               *)
(***************************************************************************)
LEMMA OtherLive ==
  ASSUME LiveInv, (\E s \in Sessions : Forget(s)) \/ Tick \/ UNCHANGED vars
  PROVE  LiveInv' /\ stored' = stored
<1>1. /\ UNCHANGED <<upstream, line, permits, pc, turn, stored, left, gaveUp, troubled>>
      /\ clock' \in {clock, clock + 1}
      /\ seen' = seen \/ \E s \in Sessions : seen' = [seen EXCEPT ![s] = Never]
  BY DEF Forget, ForgetSeen, Tick, liveVars, gapVars, vars
<1>2. LiveTypes'
  <2>1. clock' \in Nat
    BY <1>1 DEF LiveInv, LiveTypes
  <2>2. seen' \in [Sessions -> Int \cup {Never}]
    BY <1>1 DEF LiveInv, LiveTypes
  <2> QED
    BY <1>1, <2>1, <2>2 DEF LiveInv, LiveTypes
<1>3. \A s \in Sessions : seen'[s] \in {seen[s], Never}
  BY <1>1 DEF LiveInv, LiveTypes
<1>4. GapStart'
  BY <1>1, <1>3 DEF LiveInv, GapStart
<1>5. Queue' /\ InHand' /\ AdmissionIsExact'
  BY <1>1 DEF LiveInv, Queue, InHand, AwaitedBy, AdmissionIsExact, Admitted
<1> QED
  BY <1>1, <1>2, <1>4, <1>5 DEF LiveInv

\* A step in the order of NewestPrefixWins.
NewestWins == \A s \in Sessions : stored'[s] < stored[s] => <<s, stored'[s]>> \in gaveUp

LEMMA SameStored == ASSUME LiveInv, stored' = stored PROVE NewestWins
<1>1. \A n \in Nat : ~(n < n)
  OBVIOUS
<1> QED
  BY <1>1 DEF LiveInv, LiveTypes, NewestWins

LEMMA NextLive ==
  ASSUME LiveInv, [Next]_vars
  PROVE  LiveInv' /\ NewestWins
<1>1. CASE \E s \in Sessions : Begin(s) \/ NextTurn(s)
  BY <1>1, BeginLive, NextTurnLive, SameStored DEF Begin, NextTurn
<1>2. CASE \E s \in Sessions : TimeOut(s)
  BY <1>2, TimeOutLive, SameStored DEF TimeOut
<1>3. CASE \E c \in upstream : Fail(c)
  BY <1>3, FailLive, SameStored DEF Fail
<1>4. CASE \E c \in upstream : \E wasted \in 0..(clock - c.arrival) : Answer(c, wasted)
  BY <1>4, AnswerLive DEF NewestWins
<1>5. CASE (\E s \in Sessions : Forget(s)) \/ Tick \/ UNCHANGED vars
  BY <1>5, OtherLive, SameStored
<1> QED
  BY <1>1, <1>2, <1>3, <1>4, <1>5 DEF Next

LEMMA InitLive == Init => LiveInv
<1> SUFFICES ASSUME Init PROVE LiveInv
  OBVIOUS
<1>1. /\ line \in [1..Cardinality(Sessions) -> Sessions]
      /\ \A i, j \in DOMAIN line : i # j => line[i] # line[j]
  BY DEF Init
<1>2. Cardinality(Sessions) \in Nat
  BY ToolAssumption, FS_CardinalityType
<1>3. line \in Seq(Sessions) /\ Len(line) = Cardinality(Sessions)
  BY <1>1, <1>2
<1>4. Queue
  BY <1>1, <1>2, <1>3 DEF Init, Queue
<1>5. LiveTypes
  BY <1>3, LiveAssumption DEF Init, GapInit, LiveTypes
<1>6. InHand /\ GapStart
  BY DEF Init, GapInit, InHand, GapStart
<1>7. AdmissionIsExact
  <2>1. Admitted = {}
    BY DEF Init, Admitted
  <2>2. Cardinality(Admitted) = 0
    BY <2>1, FS_EmptySet
  <2> QED
    BY <2>2, LiveAssumption DEF Init, AdmissionIsExact
<1> QED
  BY <1>4, <1>5, <1>6, <1>7 DEF LiveInv

\* The invariant behind the others: the line, what the gateway has in hand and
\* what it has learnt, together.
THEOREM LiveInvariant == Spec => []LiveInv
<1>1. LiveInv /\ [Next]_vars => LiveInv'
  BY NextLive
<1> QED
  BY <1>1, InitLive, PTL DEF Spec

\* Permits are neither lost nor made, however calls fail or time out: at any
\* time, those that are out are held by the sessions that run.
THEOREM AdmissionHolds == Spec => []AdmissionIsExact
<1>1. LiveInv => AdmissionIsExact
  BY DEF LiveInv
<1> QED
  BY <1>1, LiveInvariant, PTL

\* The gap the gateway learns from starts when the agent left, unless its last
\* call failed, was retried or was overtaken (record, schedule).
THEOREM GapsStartAtLeaving == Spec => []GapsAreMeasured
<1>1. LiveInv => GapsAreMeasured
  BY DEF LiveInv, GapStart, GapsAreMeasured
<1> QED
  BY <1>1, LiveInvariant, PTL

\* An older prefix replaces a newer one only through a call its client gave up.
THEOREM PrefixesAdvance == Spec => NewestPrefixWins
<1>1. LiveInv /\ [Next]_vars =>
        [\A s \in Sessions : stored'[s] < stored[s] => <<s, stored'[s]>> \in gaveUp]_vars
  BY NextLive DEF NewestWins
<1> QED
  BY <1>1, LiveInvariant, PTL DEF Spec, NewestPrefixWins

(***************************************************************************)
(* The replay as a whole: records, the line and what is learnt.            *)
(***************************************************************************)
ReplayTypes ==
  /\ recorded \in [Sessions -> Nat]
  /\ due \in [Sessions -> Nat]
  /\ learnt \in [Tools -> SUBSET Tools]
  /\ \A s \in Sessions : \A i \in 1..(Turns[s] - 1) : tools[s][i] \in Tools

\* Each turn that ended for the client has been recorded once, whether it was
\* answered, failed or timed out (run_session), and a session ends with the
\* last turn of its trace.
RecordsFollowTurns ==
  \A s \in Sessions :
    /\ pc[s] = "waiting" => recorded[s] = 0
    /\ pc[s] = "calling" => turn[s] \in 1..Turns[s] /\ recorded[s] = turn[s] - 1
    /\ pc[s] = "tool"    => turn[s] \in 1..(Turns[s] - 1) /\ recorded[s] = turn[s]
    /\ pc[s] = "done"    => recorded[s] = Turns[s]

\* Who waits stands in line, and the gateway has not heard of it.
WaitInLine ==
  \A s \in Sessions : pc[s] = "waiting" =>
    /\ \E i \in 1..Len(line) : line[i] = s
    /\ seen[s] = Never

\* In some trace tool t directly follows tool x.
Follows(t, x) ==
  \E s \in Sessions : \E i \in 2..(Turns[s] - 1) : tools[s][i] = t /\ tools[s][i - 1] = x

\* What a tool's history is really made of: the gaps of the tools that ran just
\* before it (schedule observes a gap under the tool that the next call names).
LearntFromPredecessors == \A t \in Tools : \A x \in learnt[t] : Follows(t, x)

ReplayInv ==
  LiveInv /\ ReplayTypes /\ RecordsFollowTurns /\ WaitInLine /\ LearntFromPredecessors

LEMMA BeginReplay ==
  ASSUME ReplayInv, NEW s \in Sessions, Begin(s)
  PROVE  ReplayInv'
<1>1. LiveInv'
  BY BeginLive DEF ReplayInv
<1>2. /\ line \in Seq(Sessions) /\ line # <<>> /\ s = line[1]
      /\ line' = Tail(line)
      /\ \A i \in 1..Len(line) : pc[line[i]] = "waiting"
  BY DEF ReplayInv, LiveInv, LiveTypes, Queue, Begin
<1>3. pc[s] = "waiting" /\ seen[s] = Never
  BY <1>2 DEF ReplayInv, WaitInLine
<1>4. /\ UNCHANGED <<seen, learnt, tools, recorded>>
      /\ pc' = [pc EXCEPT ![s] = "calling"]
      /\ turn' = [turn EXCEPT ![s] = 1]
      /\ due' = [due EXCEPT ![s] = clock + ClientTimeout]
  BY <1>3 DEF Begin, Post, Schedule
<1>5. ReplayTypes'
  BY <1>4, LiveAssumption DEF ReplayInv, ReplayTypes, LiveInv, LiveTypes
<1>6. RecordsFollowTurns'
  <2>1. 1 \in 1..Turns[s] /\ recorded[s] = 1 - 1
    BY <1>3, LiveAssumption DEF ReplayInv, RecordsFollowTurns
  <2>2. ASSUME NEW r \in Sessions, r # s
        PROVE  pc'[r] = pc[r] /\ turn'[r] = turn[r]
    BY <1>4, <2>2 DEF ReplayInv, LiveInv, LiveTypes
  <2>3. pc'[s] = "calling" /\ turn'[s] = 1 /\ recorded' = recorded
    BY <1>4 DEF ReplayInv, LiveInv, LiveTypes
  <2> QED
    BY <2>1, <2>2, <2>3 DEF ReplayInv, RecordsFollowTurns
<1>7. WaitInLine'
  <2> SUFFICES ASSUME NEW r \in Sessions, pc'[r] = "waiting"
               PROVE  (\E i \in 1..Len(line') : line'[i] = r) /\ seen'[r] = Never
    BY DEF WaitInLine
  <2>1. r # s /\ pc[r] = "waiting"
    BY <1>4 DEF ReplayInv, LiveInv, LiveTypes
  <2>2. PICK i \in 1..Len(line) : line[i] = r
    BY <2>1 DEF ReplayInv, WaitInLine
  <2>3. i # 1 /\ i - 1 \in 1..Len(line') /\ line'[i - 1] = r
    BY <1>2, <2>1, <2>2
  <2> QED
    BY <1>4, <2>1, <2>3 DEF ReplayInv, WaitInLine
<1>8. LearntFromPredecessors'
  BY <1>4 DEF ReplayInv, LearntFromPredecessors, Follows
<1> QED
  BY <1>1, <1>5, <1>6, <1>7, <1>8 DEF ReplayInv

LEMMA NextTurnReplay ==
  ASSUME ReplayInv, NEW s \in Sessions, NextTurn(s)
  PROVE  ReplayInv'
<1> DEFINE t == turn[s] + 1
           named == ToolAfter(s, t)
           ran == ToolAfter(s, t - 1)
<1>1. LiveInv'
  BY NextTurnLive DEF ReplayInv
<1>2. pc[s] = "tool" /\ turn[s] \in 1..(Turns[s] - 1) /\ recorded[s] = turn[s]
  BY DEF NextTurn, ReplayInv, RecordsFollowTurns
<1>3. Turns[s] \in Nat /\ t \in 2..Turns[s] /\ t - 1 = turn[s] /\ NoTool \notin Tools
  BY <1>2, LiveAssumption, ToolAssumption
<1>4. /\ UNCHANGED <<seen, tools, recorded, line>>
      /\ pc' = [pc EXCEPT ![s] = "calling"]
      /\ turn' = [turn EXCEPT ![s] = t]
      /\ due' = [due EXCEPT ![s] = clock + ClientTimeout]
      /\ learnt' = learnt \/ (named # NoTool /\ learnt' = [learnt EXCEPT ![named] = @ \cup {ran}])
  BY DEF NextTurn, Post, Schedule, Observe
<1>5. named # NoTool => /\ named \in Tools /\ ran \in Tools
                        /\ t \in 2..(Turns[s] - 1)
                        /\ named = tools[s][t] /\ ran = tools[s][t - 1]
  BY <1>2, <1>3 DEF ToolAfter, ReplayInv, ReplayTypes
<1>6. named # NoTool => Follows(named, ran)
  BY <1>5 DEF Follows
<1> HIDE DEF named, ran
<1>7. \A u \in Tools : learnt'[u] \subseteq learnt[u] \cup {x \in Tools : u = named /\ x = ran /\ named # NoTool}
  BY <1>4, <1>5 DEF ReplayInv, ReplayTypes
<1>8. learnt' \in [Tools -> SUBSET Tools]
  BY <1>4, <1>5 DEF ReplayInv, ReplayTypes
<1>9. ReplayTypes'
  BY <1>4, <1>8, LiveAssumption DEF ReplayInv, ReplayTypes, LiveInv, LiveTypes
<1>10. RecordsFollowTurns'
  BY <1>2, <1>3, <1>4 DEF ReplayInv, RecordsFollowTurns, LiveInv, LiveTypes
<1>11. WaitInLine'
  BY <1>4 DEF ReplayInv, WaitInLine, LiveInv, LiveTypes
<1>12. \A u, x : Follows(u, x)' <=> Follows(u, x)
  BY <1>4 DEF Follows
<1>13. LearntFromPredecessors'
  BY <1>6, <1>7, <1>12 DEF ReplayInv, LearntFromPredecessors
<1> QED
  BY <1>1, <1>9, <1>10, <1>11, <1>13 DEF ReplayInv

\* A call that ends for its client is recorded, once.
LEMMA MoveOnReplay ==
  ASSUME ReplayInv, NEW s \in Sessions, pc[s] = "calling", MoveOn(s),
         UNCHANGED <<line, turn, tools, learnt>>
  PROVE  /\ ReplayTypes' /\ RecordsFollowTurns' /\ LearntFromPredecessors'
         /\ \A r \in Sessions : pc'[r] = "waiting" => pc[r] = "waiting"
<1>1. turn[s] \in 1..Turns[s] /\ recorded[s] = turn[s] - 1 /\ Turns[s] \in Nat
  BY LiveAssumption DEF ReplayInv, RecordsFollowTurns
<1>2. recorded' = [recorded EXCEPT ![s] = @ + 1]
  BY DEF MoveOn
<1>3. PICK next \in {"tool", "done"} :
        /\ pc' = [pc EXCEPT ![s] = next]
        /\ next = "done" <=> turn[s] = Turns[s]
  BY <1>1 DEF MoveOn
<1>4. due' \in [Sessions -> Nat]
  <2>1. CASE UNCHANGED due
    BY <2>1 DEF ReplayInv, ReplayTypes
  <2>2. CASE \E d \in Durations : due' = [due EXCEPT ![s] = clock + d]
    BY <2>2, LiveAssumption DEF ReplayInv, ReplayTypes, LiveInv, LiveTypes
  <2> QED
    BY <2>1, <2>2 DEF MoveOn
<1>5. ReplayTypes'
  <2>1. recorded' \in [Sessions -> Nat]
    BY <1>2 DEF ReplayInv, ReplayTypes
  <2> QED
    BY <1>4, <2>1 DEF ReplayInv, ReplayTypes
<1>6. RecordsFollowTurns'
  BY <1>1, <1>2, <1>3 DEF ReplayInv, ReplayTypes, RecordsFollowTurns, LiveInv, LiveTypes
<1>7. LearntFromPredecessors'
  BY DEF ReplayInv, LearntFromPredecessors, Follows
<1>8. \A r \in Sessions : pc'[r] = "waiting" => pc[r] = "waiting"
  BY <1>3 DEF ReplayInv, LiveInv, LiveTypes
<1> QED
  BY <1>5, <1>6, <1>7, <1>8

\* The gateway has done with a call, which is of a session that has begun.
LEMMA EndingReplay ==
  ASSUME ReplayInv, NEW c \in upstream,
         \/ AwaitedBy(c) /\ MoveOn(c.session)
         \/ ~AwaitedBy(c) /\ UNCHANGED <<left, recorded, pc, permits, due>>,
         UNCHANGED <<line, turn, tools, learnt>>,
         \A s \in Sessions \ {c.session} : seen'[s] = seen[s]
  PROVE  ReplayTypes' /\ RecordsFollowTurns' /\ WaitInLine' /\ LearntFromPredecessors'
<1>1. c.session \in Sessions /\ pc[c.session] # "waiting"
  <2>1. c.session \in Sessions /\ c.turn \in Nat /\ turn[c.session] \in Nat
    BY DEF ReplayInv, LiveInv, LiveTypes
  <2>2. 1 <= c.turn /\ c.turn <= turn[c.session]
    BY DEF ReplayInv, LiveInv, InHand
  <2>3. turn[c.session] # 0
    BY <2>1, <2>2
  <2> QED
    BY <2>1, <2>3 DEF ReplayInv, LiveInv, InHand
<1>2. /\ ReplayTypes' /\ RecordsFollowTurns' /\ LearntFromPredecessors'
      /\ \A r \in Sessions : pc'[r] = "waiting" => pc[r] = "waiting"
  <2>1. CASE AwaitedBy(c) /\ MoveOn(c.session)
    BY <1>1, <2>1, MoveOnReplay DEF AwaitedBy
  <2>2. CASE ~AwaitedBy(c) /\ UNCHANGED <<left, recorded, pc, permits, due>>
    BY <2>2 DEF ReplayInv, ReplayTypes, RecordsFollowTurns, LearntFromPredecessors, Follows
  <2> QED
    BY <2>1, <2>2
<1>3. WaitInLine'
  BY <1>1, <1>2 DEF ReplayInv, WaitInLine
<1> QED
  BY <1>2, <1>3

LEMMA NextReplay ==
  ASSUME ReplayInv, [Next]_vars
  PROVE  ReplayInv'
<1>1. LiveInv'
  BY NextLive DEF ReplayInv
<1>2. CASE \E s \in Sessions : Begin(s) \/ NextTurn(s)
  BY <1>2, BeginReplay, NextTurnReplay
<1>3. ASSUME NEW s \in Sessions, TimeOut(s) PROVE ReplayInv'
  <2>1. /\ ReplayTypes' /\ RecordsFollowTurns' /\ LearntFromPredecessors'
        /\ \A r \in Sessions : pc'[r] = "waiting" => pc[r] = "waiting"
    BY <1>3, MoveOnReplay DEF TimeOut, gapVars
  <2>2. WaitInLine'
    BY <1>3, <2>1 DEF ReplayInv, WaitInLine, TimeOut, gapVars
  <2> QED
    BY <1>1, <2>1, <2>2 DEF ReplayInv
<1>4. ASSUME NEW c \in upstream, Fail(c) PROVE ReplayInv'
  BY <1>1, <1>4, EndingReplay DEF Fail, ReplayInv
<1>5. ASSUME NEW c \in upstream, NEW wasted \in 0..(clock - c.arrival), Answer(c, wasted)
      PROVE  ReplayInv'
  <2>1. \A s \in Sessions \ {c.session} : seen'[s] = seen[s]
    BY <1>5 DEF Answer, Record, ReplayInv, LiveInv, LiveTypes
  <2> QED
    BY <1>1, <1>5, <2>1, EndingReplay DEF Answer, ReplayInv
<1>6. CASE (\E s \in Sessions : Forget(s)) \/ Tick \/ UNCHANGED vars
  <2>1. /\ UNCHANGED <<line, pc, turn, tools, due, recorded, learnt>>
        /\ seen' = seen \/ \E s \in Sessions : seen' = [seen EXCEPT ![s] = Never]
    BY <1>6 DEF Forget, ForgetSeen, Tick, liveVars, gapVars, vars
  <2>2. \A s \in Sessions : seen[s] = Never => seen'[s] = Never
    BY <2>1 DEF ReplayInv, LiveInv, LiveTypes
  <2>3. ReplayTypes' /\ RecordsFollowTurns'
    BY <2>1 DEF ReplayInv, ReplayTypes, RecordsFollowTurns
  <2>4. WaitInLine' /\ LearntFromPredecessors'
    BY <2>1, <2>2 DEF ReplayInv, WaitInLine, LearntFromPredecessors, Follows
  <2> QED
    BY <1>1, <2>3, <2>4 DEF ReplayInv
<1> QED
  BY <1>2, <1>3, <1>4, <1>5, <1>6 DEF Next

\* A trace names a tool wherever one turn follows another.
LEMMA TraceType ==
  ASSUME tools \in TraceTools, NEW s \in Sessions, NEW i \in 1..(Turns[s] - 1)
  PROVE  tools[s][i] \in Tools
<1>1. PICK q \in Sessions : tools[s] \in [1..(Turns[q] - 1) -> Tools]
  BY DEF TraceTools
<1>2. DOMAIN tools[s] = 1..(Turns[s] - 1)
  BY DEF TraceTools
<1> QED
  BY <1>1, <1>2

\* Everybody stands in line at the start: a line of as many places as there are
\* sessions, in which nobody stands twice, has them all.
LEMMA AllInLine ==
  ASSUME Init, NEW s \in Sessions
  PROVE  \E i \in 1..Len(line) : line[i] = s
<1> DEFINE n == Cardinality(Sessions)
<1>1. n \in Nat
  BY ToolAssumption, FS_CardinalityType
<1>2. line \in [1..n -> Sessions] /\ \A i, j \in 1..n : i # j => line[i] # line[j]
  BY DEF Init
<1>3. Len(line) = n
  BY <1>1, <1>2
<1>4. line \in Injection(1..n, Sessions)
  BY <1>2 DEF Injection, IsInjective
<1>5. Cardinality(1..n) = n
  BY <1>1, FS_Interval
<1>6. line \in Surjection(1..n, Sessions)
  BY <1>4, <1>5, ToolAssumption, FS_Injection
<1> QED
  BY <1>3, <1>6 DEF Surjection

LEMMA InitReplay == Init => ReplayInv
<1> SUFFICES ASSUME Init PROVE ReplayInv
  OBVIOUS
<1>1. ReplayTypes
  BY TraceType DEF Init, GapInit, ReplayTypes
<1>2. RecordsFollowTurns
  BY DEF Init, RecordsFollowTurns
<1>3. WaitInLine
  BY AllInLine DEF Init, GapInit, WaitInLine
<1>4. LearntFromPredecessors
  BY DEF Init, GapInit, LearntFromPredecessors
<1> QED
  BY <1>1, <1>2, <1>3, <1>4, InitLive DEF ReplayInv

\* The records, the line and the predictor's histories, for any traces.
THEOREM ReplayInvariant == Spec => []ReplayInv
<1>1. ReplayInv /\ [Next]_vars => ReplayInv'
  BY NextReplay
<1> QED
  BY <1>1, InitReplay, PTL DEF Spec

\* However its calls end, a session that is done has one record for each turn
\* of its trace, and none is recorded twice or skipped on the way (run_session,
\* the except branch of post_turn included): the part of ReplayEnds that is not
\* about fairness.
THEOREM TurnsAreRecorded == Spec => []RecordsFollowTurns
<1>1. ReplayInv => RecordsFollowTurns
  BY DEF ReplayInv
<1> QED
  BY <1>1, ReplayInvariant, PTL

\* As long as a session is not done there is something for the event loop to
\* do: a session to admit, a timeout or the end of a tool that is due, or time
\* that has to pass.  Nobody is left waiting for a permit that nobody holds
\* (asyncio.Semaphore, main).
NeverStuck ==
  (\E s \in Sessions : pc[s] # "done") =>
    \/ line # <<>> /\ permits > 0
    \/ \E s \in Admitted : clock >= due[s]
    \/ Admitted # {} /\ (\A s \in Admitted : clock < due[s]) /\ (line = <<>> \/ permits = 0)

\* In particular a task that fails or times out gives its permit back (the
\* async with of run_session).
THEOREM ReplayGoesOn == Spec => []NeverStuck
<1>1. ReplayInv => NeverStuck
  <2> SUFFICES ASSUME ReplayInv, NEW s \in Sessions, pc[s] # "done", Admitted = {}
               PROVE  line # <<>> /\ permits > 0
    BY DEF NeverStuck, ReplayInv, LiveInv, LiveTypes, ReplayTypes, Admitted
  <2>1. pc[s] = "waiting"
    BY DEF ReplayInv, LiveInv, LiveTypes, Admitted
  <2>2. line # <<>>
    BY <2>1 DEF ReplayInv, WaitInLine
  <2>3. Cardinality(Admitted) = 0
    BY FS_EmptySet
  <2>4. permits > 0
    BY <2>3, LiveAssumption DEF ReplayInv, LiveInv, LiveTypes, AdmissionIsExact
  <2> QED
    BY <2>2, <2>4
<1> QED
  BY <1>1, ReplayInvariant, PTL

\* The gaps in a tool's history are misplaced by one: they are those of
\* the tools that some trace runs directly before it.
THEOREM HistoriesAreOfPredecessors == Spec => []LearntFromPredecessors
<1>1. ReplayInv => LearntFromPredecessors
  BY DEF ReplayInv
<1> QED
  BY <1>1, ReplayInvariant, PTL

\* Each session uses one tool throughout.
OneToolEach ==
  \A s \in Sessions : \A i, j \in 1..(Turns[s] - 1) : tools[s][i] = tools[s][j]

\* Where every session keeps to one tool the README's claim about the predictor
\* does hold; the counterexample of run live_credit needs a session that
\* changes tools.
THEOREM OneToolEstimates == Spec /\ OneToolEach => []EstimatesAreOfTheTool
<1>1. OneToolEach /\ [Next]_vars => OneToolEach'
  <2>1. [Next]_vars => tools' = tools
    BY DEF Next, vars, liveVars, Begin, NextTurn, TimeOut, Forget, Fail, Answer, Tick
  <2> QED
    BY <2>1 DEF OneToolEach
<1>2. OneToolEach /\ LearntFromPredecessors => EstimatesAreOfTheTool
  <2> SUFFICES ASSUME OneToolEach, NEW t \in Tools, NEW x, Follows(t, x)
               PROVE  x = t
    BY DEF LearntFromPredecessors, EstimatesAreOfTheTool
  <2>1. PICK s \in Sessions : \E i \in 2..(Turns[s] - 1) : tools[s][i] = t /\ tools[s][i - 1] = x
    BY DEF Follows
  <2>2. PICK i \in 2..(Turns[s] - 1) : tools[s][i] = t /\ tools[s][i - 1] = x
    BY <2>1
  <2>3. i \in 1..(Turns[s] - 1) /\ i - 1 \in 1..(Turns[s] - 1)
    BY LiveAssumption
  <2> QED
    BY <2>2, <2>3 DEF OneToolEach
<1> QED
  BY <1>1, <1>2, HistoriesAreOfPredecessors, PTL DEF Spec
=============================================================================
