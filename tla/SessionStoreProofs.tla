-------------------------- MODULE SessionStoreProofs --------------------------
(***************************************************************************)
(* Proofs about SessionStore for any sessions, bound, lifetime and clock.  *)
(*                                                                         *)
(* The state predicates of SessionStore speak of the variable table; the   *)
(* lemmas here speak of any table, so that they serve both ends of a step. *)
(***************************************************************************)
EXTENDS SessionStore, FiniteSetTheorems, TLAPS

Records == [Sessions -> [value : Values \cup {NoValue}, at : Nat]]

\* A dict: entries of distinct sessions.
IsTable(t) ==
  /\ t \in Seq(Entries)
  /\ \A i, j \in DOMAIN t : t[i].session = t[j].session => i = j

\* Every entry is the last write of its session, and expires with it.
Agrees(t, w, life) ==
  \A i \in DOMAIN t :
    /\ t[i].value = w[t[i].session].value
    /\ t[i].expires = w[t[i].session].at + life

\* What stands behind an entry has been used after it.
InOrder(t, snc) ==
  \A i, j \in DOMAIN t : i < j => t[j].session \in snc[t[i].session]

(***************************************************************************)
(* Lifetimes.                                                              *)
(***************************************************************************)
LEMMA LifetimeType ==
  ASSUME kind \in {"memory", "redis"}
  PROVE  /\ Lifetime \in Nat /\ Lifetime <= Ttl
         /\ kind = "memory" => Lifetime = Ttl
         /\ kind = "redis" => Lifetime > Ttl - TicksPerSecond
<1> DEFINE q == Ttl \div TicksPerSecond
           r == Ttl % TicksPerSecond
<1>1. /\ Ttl \in Nat /\ TicksPerSecond \in Nat /\ TicksPerSecond > 0
  BY StoreAssumption
<1>2. q \in Nat /\ r \in Nat /\ r < TicksPerSecond
  BY <1>1
<1>3. Ttl = q * TicksPerSecond + r
  BY <1>1
<1>4. q * TicksPerSecond \in Nat
  BY <1>1, <1>2
<1> QED
  BY <1>1, <1>2, <1>3, <1>4 DEF Lifetime

(***************************************************************************)
(* Removing an entry.                                                      *)
(***************************************************************************)
LEMMA PoppedIs ==
  ASSUME IsTable(table), NEW s \in Sessions
  PROVE  /\ IsTable(Popped(s))
         /\ Len(Popped(s)) <= Len(table)
         /\ Has(s) => Len(Popped(s)) < Len(table)
         /\ \A i \in DOMAIN Popped(s) : Popped(s)[i].session # s
         /\ \A i \in DOMAIN Popped(s) : \E j \in DOMAIN table :
              j >= i /\ Popped(s)[i] = table[j]
         /\ \A j \in DOMAIN table : table[j].session # s =>
              \E i \in DOMAIN Popped(s) : Popped(s)[i] = table[j]
         /\ \A h, i \in DOMAIN Popped(s) : h < i =>
              \E j, k \in DOMAIN table :
                j < k /\ Popped(s)[h] = table[j] /\ Popped(s)[i] = table[k]
<1>1. CASE ~Has(s)
  BY <1>1 DEF Popped, Has, Positions, IsTable
<1>2. CASE Has(s)
  <2> DEFINE p == CHOOSE i \in Positions(s) : TRUE
             u == SubSeq(table, 1, p - 1) \o SubSeq(table, p + 1, Len(table))
  <2>1. p \in DOMAIN table /\ table[p].session = s
    BY <1>2 DEF Has, Positions
  <2>2. Popped(s) = u
    BY <1>2 DEF Popped
  <2> HIDE DEF p
  <2>3. table \in Seq(Entries) /\ p \in 1..Len(table)
    BY <2>1 DEF IsTable
  <2>4. /\ u \in Seq(Entries)
        /\ Len(u) = Len(table) - 1
        /\ \A i \in 1..Len(u) : u[i] = IF i < p THEN table[i] ELSE table[i + 1]
    <3> DEFINE a == SubSeq(table, 1, p - 1)
               b == SubSeq(table, p + 1, Len(table))
    <3>1. a \in Seq(Entries) /\ Len(a) = p - 1 /\ \A i \in 1..(p - 1) : a[i] = table[i]
      BY <2>3
    <3>2. /\ b \in Seq(Entries)
          /\ Len(b) = Len(table) - p
          /\ \A i \in 1..(Len(table) - p) : b[i] = table[i + p]
      BY <2>3
    <3>3. u = a \o b
      OBVIOUS
    <3> HIDE DEF a, b, u
    <3>4. u \in Seq(Entries) /\ Len(u) = Len(table) - 1
      BY <2>3, <3>1, <3>2, <3>3
    <3>5. \A i \in 1..Len(u) : u[i] = IF i <= p - 1 THEN a[i] ELSE b[i - (p - 1)]
      BY <2>3, <3>1, <3>2, <3>3
    <3> QED
      BY <2>3, <3>1, <3>2, <3>4, <3>5
  <2> HIDE DEF u
  <2>5. \A i, j \in DOMAIN table : table[i].session = table[j].session => i = j
    BY DEF IsTable
  <2>6. /\ DOMAIN u = 1..Len(u) /\ DOMAIN table = 1..Len(table) /\ Len(table) \in Nat
    BY <2>3, <2>4
  <2>7. IsTable(u)
    <3>1. ASSUME NEW h \in DOMAIN u, NEW i \in DOMAIN u, u[h].session = u[i].session
          PROVE  h = i
      <4> DEFINE j == IF h < p THEN h ELSE h + 1
                 k == IF i < p THEN i ELSE i + 1
      <4>1. j \in DOMAIN table /\ k \in DOMAIN table /\ u[h] = table[j] /\ u[i] = table[k]
        BY <2>3, <2>4, <2>6
      <4>2. j = k
        BY <2>5, <3>1, <4>1
      <4> QED
        BY <2>3, <2>6, <4>2
    <3> QED
      BY <2>4, <3>1 DEF IsTable
  <2>8. \A i \in DOMAIN u : u[i].session # s
    BY <2>1, <2>3, <2>4, <2>5, <2>6
  <2>9. \A i \in DOMAIN u : \E j \in DOMAIN table : j >= i /\ u[i] = table[j]
    BY <2>3, <2>4, <2>6
  <2>10. ASSUME NEW j \in DOMAIN table, table[j].session # s
         PROVE  \E i \in DOMAIN u : u[i] = table[j]
    <3>1. CASE j < p
      BY <2>3, <2>4, <2>6, <3>1
    <3>2. CASE j > p
      <4>1. j - 1 \in DOMAIN u /\ u[j - 1] = table[j]
        BY <2>3, <2>4, <2>6, <3>2
      <4> QED
        BY <4>1
    <3> QED
      BY <2>1, <2>3, <2>6, <2>10, <3>1, <3>2
  <2>11. ASSUME NEW h \in DOMAIN u, NEW i \in DOMAIN u, h < i
         PROVE  \E j, k \in DOMAIN table : j < k /\ u[h] = table[j] /\ u[i] = table[k]
    <3> DEFINE j == IF h < p THEN h ELSE h + 1
               k == IF i < p THEN i ELSE i + 1
    <3>1. j \in DOMAIN table /\ k \in DOMAIN table /\ j < k
      BY <2>3, <2>4, <2>6, <2>11
    <3>2. u[h] = table[j] /\ u[i] = table[k]
      BY <2>4, <2>6
    <3> QED
      BY <3>1, <3>2
  <2> QED
    BY <2>2, <2>4, <2>6, <2>7, <2>8, <2>9, <2>10, <2>11
<1> QED
  BY <1>1, <1>2

\* The record of uses after a use of s (Use).
Used(s) == [t \in Sessions |-> IF t = s THEN {} ELSE since[t] \cup {s}]

\* Putting an entry of s at the end, in place of the one it had.
Placed(s, x) == Append(Popped(s), x)

LEMMA PlacedIs ==
  ASSUME IsTable(table), InOrder(table, since),
         since \in [Sessions -> SUBSET Sessions],
         NEW s \in Sessions, NEW x \in Entries, x.session = s,
         NEW t, t = Placed(s, x)
  PROVE  /\ IsTable(t)
         /\ InOrder(t, Used(s))
         /\ Len(t) \in 1..(Len(table) + 1)
         /\ Has(s) => Len(t) <= Len(table)
         /\ t[Len(t)] = x
         /\ \A i \in DOMAIN t :
              \/ t[i] = x
              \/ t[i].session # s /\ \E j \in DOMAIN table : t[i] = table[j]
         /\ \A j \in DOMAIN table : table[j].session # s =>
              \E i \in DOMAIN t : t[i] = table[j]
<1> DEFINE u == Popped(s)
<1>1. /\ IsTable(u)
      /\ Len(u) <= Len(table)
      /\ Has(s) => Len(u) < Len(table)
      /\ \A i \in DOMAIN u : u[i].session # s
      /\ \A i \in DOMAIN u : \E j \in DOMAIN table : j >= i /\ u[i] = table[j]
      /\ \A j \in DOMAIN table : table[j].session # s =>
           \E i \in DOMAIN u : u[i] = table[j]
      /\ \A h, i \in DOMAIN u : h < i =>
           \E j, k \in DOMAIN table : j < k /\ u[h] = table[j] /\ u[i] = table[k]
  BY PoppedIs
<1> HIDE DEF u
<1>2. t = Append(u, x)
  BY DEF u, Placed
<1>3. /\ u \in Seq(Entries) /\ Len(u) \in Nat /\ DOMAIN u = 1..Len(u)
      /\ table \in Seq(Entries) /\ Len(table) \in Nat
  BY <1>1 DEF IsTable
<1>4. /\ t \in Seq(Entries) /\ Len(t) = Len(u) + 1 /\ DOMAIN t = 1..(Len(u) + 1)
      /\ t[Len(u) + 1] = x
      /\ \A i \in DOMAIN u : t[i] = u[i]
  BY <1>2, <1>3
<1>5. IsTable(t)
  <2> SUFFICES ASSUME NEW i \in DOMAIN t, NEW j \in DOMAIN t, t[i].session = t[j].session
               PROVE  i = j
    BY <1>4 DEF IsTable
  <2>1. CASE i \in DOMAIN u /\ j \in DOMAIN u
    BY <1>1, <1>4, <2>1 DEF IsTable
  <2>2. CASE i = Len(u) + 1 \/ j = Len(u) + 1
    BY <1>1, <1>3, <1>4, <2>2
  <2> QED
    BY <1>3, <1>4, <2>1, <2>2
<1>6. InOrder(t, Used(s))
  <2> SUFFICES ASSUME NEW i \in DOMAIN t, NEW j \in DOMAIN t, i < j
               PROVE  t[j].session \in Used(s)[t[i].session]
    BY DEF InOrder
  <2>1. i \in DOMAIN u /\ t[i] = u[i] /\ u[i] \in Entries
    BY <1>3, <1>4
  <2>2. u[i].session \in Sessions /\ u[i].session # s
    BY <1>1, <2>1 DEF Entries
  <2>3. Used(s)[t[i].session] = since[u[i].session] \cup {s}
    BY <2>1, <2>2 DEF Used
  <2>4. CASE j = Len(u) + 1
    BY <1>4, <2>3, <2>4
  <2>5. CASE j \in DOMAIN u
    <3>1. PICK k, l \in DOMAIN table : k < l /\ u[i] = table[k] /\ u[j] = table[l]
      BY <1>1, <2>1, <2>5
    <3>2. u[j].session \in since[u[i].session]
      BY <3>1 DEF InOrder
    <3> QED
      BY <1>4, <2>3, <2>5, <3>2
  <2> QED
    BY <1>3, <1>4, <2>4, <2>5
<1>7. \A i \in DOMAIN t :
        \/ t[i] = x
        \/ t[i].session # s /\ \E j \in DOMAIN table : t[i] = table[j]
  BY <1>1, <1>3, <1>4
<1>8. \A j \in DOMAIN table : table[j].session # s => \E i \in DOMAIN t : t[i] = table[j]
  <2> SUFFICES ASSUME NEW j \in DOMAIN table, table[j].session # s
               PROVE  \E i \in DOMAIN t : t[i] = table[j]
    OBVIOUS
  <2>1. PICK i \in DOMAIN u : u[i] = table[j]
    BY <1>1
  <2>2. i \in DOMAIN t /\ t[i] = table[j]
    BY <1>3, <1>4, <2>1
  <2> QED
    BY <2>2
<1> QED
  BY <1>1, <1>3, <1>4, <1>5, <1>6, <1>7, <1>8 DEF u

(***************************************************************************)
(* The bound.                                                              *)
(***************************************************************************)

\* In a table that is one over its bound, all the others have been used after
\* the first.
LEMMA Crowd ==
  ASSUME NEW t, IsTable(t), NEW snc, InOrder(t, snc),
         snc \in [Sessions -> SUBSET Sessions], Len(t) = MaxSessions + 1
  PROVE  Cardinality(snc[t[1].session]) >= MaxSessions
<1> DEFINE n == MaxSessions
           S == snc[t[1].session]
           f == [i \in 1..n |-> t[i + 1].session]
<1>1. n \in Nat /\ DOMAIN t = 1..(n + 1) /\ t \in Seq(Entries)
  BY StoreAssumption DEF IsTable
<1>2. 1 \in DOMAIN t /\ \A i \in 1..n : i + 1 \in DOMAIN t /\ 1 < i + 1
  BY <1>1
<1>3. f \in [1..n -> S]
  BY <1>2 DEF InOrder
<1>4. \A i, j \in 1..n : f[i] = f[j] => i = j
  <2> SUFFICES ASSUME NEW i \in 1..n, NEW j \in 1..n, f[i] = f[j] PROVE i = j
    OBVIOUS
  <2>1. t[i + 1].session = t[j + 1].session
    OBVIOUS
  <2>2. i + 1 = j + 1
    BY <1>2, <2>1 DEF IsTable
  <2> QED
    BY <2>2
<1>5. f \in Injection(1..n, S)
  <2> HIDE DEF f, S
  <2> QED
    BY <1>3, <1>4 DEF Injection, IsInjective
<1>6. IsFiniteSet(S)
  <2>1. t[1] \in Entries
    BY <1>1, <1>2
  <2>2. S \subseteq Sessions
    BY <2>1 DEF Entries
  <2> QED
    BY <2>2, StoreAssumption, FS_Subset
<1>7. Cardinality(1..n) <= Cardinality(S)
  <2> HIDE DEF f, S
  <2> QED
    BY <1>5, <1>6, FS_Injection
<1>8. Cardinality(1..n) = n
  <2> HIDE DEF n
  <2>1. Cardinality(1..n) = IF 1 > n THEN 0 ELSE n - 1 + 1
    BY <1>1, FS_Interval
  <2> QED
    BY <1>1, <2>1
<1> QED
  BY <1>7, <1>8

LEMMA OneOver ==
  ASSUME NEW n \in Nat, NEW k \in 1..(n + 1)
  PROVE  k <= n \/ k = n + 1
OBVIOUS

LEMMA BoundedIs ==
  ASSUME NEW t, IsTable(t), NEW snc, InOrder(t, snc),
         snc \in [Sessions -> SUBSET Sessions],
         Len(t) \in 1..(MaxSessions + 1), NEW u, u = Bounded(t)
  PROVE  /\ IsTable(u)
         /\ InOrder(u, snc)
         /\ Len(u) <= MaxSessions
         /\ \A i \in DOMAIN u : \E j \in DOMAIN t : u[i] = t[j]
         /\ \E i \in DOMAIN u : u[i] = t[Len(t)]
         /\ \A j \in DOMAIN t :
              \/ \E i \in DOMAIN u : u[i] = t[j]
              \/ Cardinality(snc[t[j].session]) >= MaxSessions
<1>1. /\ MaxSessions \in Nat /\ MaxSessions > 0
      /\ t \in Seq(Entries) /\ DOMAIN t = 1..Len(t) /\ Len(t) \in Nat
  BY StoreAssumption DEF IsTable
<1>2. CASE Len(t) <= MaxSessions
  <2>1. u = t
    BY <1>1, <1>2 DEF Bounded
  <2> QED
    BY <1>1, <1>2, <2>1
<1>3. CASE Len(t) = MaxSessions + 1
  <2>1. u = SubSeq(t, 2, Len(t))
    BY <1>1, <1>3 DEF Bounded
  <2>2. /\ u \in Seq(Entries) /\ Len(u) = MaxSessions /\ DOMAIN u = 1..MaxSessions
        /\ \A i \in 1..MaxSessions : u[i] = t[i + 1] /\ i + 1 \in DOMAIN t
    BY <1>1, <1>3, <2>1
  <2>3. IsTable(u)
    <3> SUFFICES ASSUME NEW i \in DOMAIN u, NEW j \in DOMAIN u, u[i].session = u[j].session
                 PROVE  i = j
      BY <2>2 DEF IsTable
    <3>1. i + 1 = j + 1
      BY <2>2 DEF IsTable
    <3> QED
      BY <2>2, <3>1
  <2>4. InOrder(u, snc)
    <3> SUFFICES ASSUME NEW i \in DOMAIN u, NEW j \in DOMAIN u, i < j
                 PROVE  u[j].session \in snc[u[i].session]
      BY DEF InOrder
    <3>1. i + 1 < j + 1
      BY <2>2
    <3> QED
      BY <2>2, <3>1 DEF InOrder
  <2>5. \A j \in DOMAIN t : j = 1 \/ \E i \in DOMAIN u : u[i] = t[j]
    <3> SUFFICES ASSUME NEW j \in DOMAIN t, j # 1 PROVE \E i \in DOMAIN u : u[i] = t[j]
      OBVIOUS
    <3>1. j - 1 \in DOMAIN u /\ u[j - 1] = t[j]
      BY <1>1, <1>3, <2>2
    <3> QED
      BY <3>1
  <2>6. Cardinality(snc[t[1].session]) >= MaxSessions
    BY <1>3, Crowd
  <2>7. Len(t) \in DOMAIN t /\ Len(t) # 1
    BY <1>1, <1>3
  <2>8. \A i \in DOMAIN u : \E j \in DOMAIN t : u[i] = t[j]
    BY <2>2
  <2>9. \E i \in DOMAIN u : u[i] = t[Len(t)]
    BY <2>5, <2>7
  <2>10. Len(u) <= MaxSessions
    BY <1>1, <2>2
  <2> QED
    BY <2>3, <2>4, <2>5, <2>6, <2>8, <2>9, <2>10
<1>4. Len(t) <= MaxSessions \/ Len(t) = MaxSessions + 1
  BY <1>1, OneOver
<1> QED
  BY <1>2, <1>3, <1>4

(***************************************************************************)
(* The inductive invariant.                                                *)
(***************************************************************************)
Listed(t, s) == \E i \in DOMAIN t : t[i].session = s

\* In memory: a session whose last write is still valid is only missing if the
\* bound had to make room for others.
MissingIsCrowdedOut ==
  kind = "memory" =>
    \A s \in Sessions :
      written[s].value # NoValue /\ clock <= written[s].at + Ttl /\ ~Listed(table, s)
        => Cardinality(since[s]) >= MaxSessions

\* In Redis: what was written is there until it expires, unless its lifetime
\* is no whole second, when nothing ever is.
WrittenIsThere ==
  kind = "redis" =>
    /\ Lifetime = 0 => table = <<>>
    /\ Lifetime > 0 =>
         \A s \in Sessions : written[s].value # NoValue => Listed(table, s)

TypeInv ==
  /\ kind \in {"memory", "redis"}
  /\ clock \in Nat
  /\ IsTable(table)
  /\ written \in Records
  /\ \A s \in Sessions : written[s].at <= clock
  /\ since \in [Sessions -> SUBSET Sessions]

IInv ==
  /\ TypeInv
  /\ WithinBound
  /\ Agrees(table, written, Lifetime)
  /\ InOrder(table, since)
  /\ MissingIsCrowdedOut
  /\ WrittenIsThere

LEMMA HasIsListed == \A s \in Sessions : Has(s) <=> Listed(table, s)
BY DEF Has, Positions, Listed

\* Using another session never shrinks the record of uses.
LEMMA UsedGrows ==
  ASSUME since \in [Sessions -> SUBSET Sessions], NEW s \in Sessions,
         NEW t \in Sessions, t # s, Cardinality(since[t]) >= MaxSessions
  PROVE  Cardinality(Used(s)[t]) >= MaxSessions
<1>1. Used(s)[t] = since[t] \cup {s}
  BY DEF Used
<1>2. since[t] \subseteq Sessions /\ Used(s)[t] \subseteq Sessions
  BY <1>1
<1>3. IsFiniteSet(Used(s)[t]) /\ since[t] \in SUBSET Used(s)[t]
  BY <1>1, <1>2, StoreAssumption, FS_Subset
<1>4. Cardinality(since[t]) <= Cardinality(Used(s)[t])
  BY <1>3, FS_Subset
<1>5. Cardinality(since[t]) \in Nat /\ Cardinality(Used(s)[t]) \in Nat
  BY <1>3, FS_Subset, FS_CardinalityType
<1> QED
  BY <1>4, <1>5, StoreAssumption

LEMMA InitIInv == Init => IInv
<1> SUFFICES ASSUME Init PROVE IInv
  OBVIOUS
<1>1. /\ kind \in {"memory", "redis"} /\ clock = 0 /\ table = <<>>
      /\ written = [s \in Sessions |-> Unwritten]
      /\ since = [s \in Sessions |-> {}]
  BY StoreAssumption DEF Init
<1>2. IsTable(table) /\ DOMAIN table = {} /\ Len(table) = 0
  BY <1>1 DEF IsTable
<1>3. written \in Records /\ \A s \in Sessions : written[s] = Unwritten
  BY <1>1 DEF Records, Unwritten
<1>4. TypeInv
  BY <1>1, <1>2, <1>3 DEF TypeInv, Unwritten
<1>5. WithinBound
  BY <1>2, StoreAssumption DEF WithinBound
<1> QED
  BY <1>2, <1>3, <1>4, <1>5
  DEF IInv, Agrees, InOrder, MissingIsCrowdedOut, WrittenIsThere, Unwritten

\* The entry that a put makes.
Fresh(s, v) == [session |-> s, value |-> v, expires |-> clock + Lifetime]

LEMMA PutIInv ==
  ASSUME IInv, NEW s \in Sessions, NEW v \in Values, Put(s, v)
  PROVE  IInv'
<1> DEFINE x == Fresh(s, v)
           t == Placed(s, x)
<1>1. /\ kind \in {"memory", "redis"} /\ clock \in Nat /\ Lifetime \in Nat
      /\ IsTable(table) /\ written \in Records
      /\ since \in [Sessions -> SUBSET Sessions]
      /\ InOrder(table, since) /\ Agrees(table, written, Lifetime)
  BY LifetimeType DEF IInv, TypeInv
<1>2. x \in Entries /\ x.session = s /\ x.value = v /\ x.expires = clock + Lifetime
  BY <1>1 DEF Fresh, Entries
<1>3. /\ kind' = kind /\ clock' = clock
      /\ written' = [written EXCEPT ![s] = [value |-> v, at |-> clock]]
      /\ since' = Used(s)
      /\ \/ kind = "memory" /\ table' = Bounded(t)
         \/ kind = "redis" /\ Lifetime > 0 /\ table' = t
         \/ kind = "redis" /\ Lifetime = 0 /\ table' = table
  BY DEF Put, Use, Used, Fresh, Placed
<1> HIDE DEF x
<1>4. /\ IsTable(t)
      /\ InOrder(t, Used(s))
      /\ Len(t) \in 1..(Len(table) + 1)
      /\ t[Len(t)] = x
      /\ \A i \in DOMAIN t :
           \/ t[i] = x
           \/ t[i].session # s /\ \E j \in DOMAIN table : t[i] = table[j]
      /\ \A j \in DOMAIN table : table[j].session # s =>
           \E i \in DOMAIN t : t[i] = table[j]
  BY <1>1, <1>2, PlacedIs
<1> HIDE DEF t
<1>5. /\ written' \in Records /\ written'[s] = [value |-> v, at |-> clock]
      /\ \A r \in Sessions : r # s => written'[r] = written[r]
  BY <1>1, <1>3 DEF Records
<1>6. Used(s) \in [Sessions -> SUBSET Sessions]
  BY <1>1 DEF Used
<1>7. Lifetime' = Lifetime
  BY <1>3 DEF Lifetime
<1>8. ASSUME NEW r \in Sessions PROVE written'[r].at <= clock'
  BY <1>1, <1>3, <1>5 DEF IInv, TypeInv
<1>9. Agrees(t, written', Lifetime)
  <2> SUFFICES ASSUME NEW i \in DOMAIN t
               PROVE  /\ t[i].value = written'[t[i].session].value
                      /\ t[i].expires = written'[t[i].session].at + Lifetime
    BY DEF Agrees
  <2>1. CASE t[i] = x
    BY <1>2, <1>5, <2>1
  <2>2. CASE t[i].session # s /\ \E j \in DOMAIN table : t[i] = table[j]
    <3>1. PICK j \in DOMAIN table : t[i] = table[j]
      BY <2>2
    <3>2. table[j] \in Entries
      BY <1>1 DEF IsTable
    <3>3. written'[t[i].session] = written[table[j].session]
      BY <1>5, <2>2, <3>1, <3>2 DEF Entries
    <3> QED
      BY <1>1, <3>1, <3>3 DEF Agrees
  <2> QED
    BY <1>4, <2>1, <2>2
<1>10. CASE kind = "memory" /\ table' = Bounded(t)
  <2> DEFINE u == Bounded(t)
  <2>1. Len(t) \in 1..(MaxSessions + 1)
    <3>1. Len(table) <= MaxSessions /\ Len(table) \in Nat
      BY <1>1, <1>10 DEF IInv, WithinBound, IsTable
    <3> QED
      BY <1>4, <3>1, StoreAssumption
  <2>2. /\ IsTable(u)
        /\ InOrder(u, Used(s))
        /\ Len(u) <= MaxSessions
        /\ \A i \in DOMAIN u : \E j \in DOMAIN t : u[i] = t[j]
        /\ \E i \in DOMAIN u : u[i] = t[Len(t)]
        /\ \A j \in DOMAIN t :
             \/ \E i \in DOMAIN u : u[i] = t[j]
             \/ Cardinality(Used(s)[t[j].session]) >= MaxSessions
    BY <1>4, <1>6, <2>1, BoundedIs
  <2> HIDE DEF u
  <2>3. table' = u
    BY <1>10 DEF u
  <2>4. Agrees(u, written', Lifetime)
    BY <1>9, <2>2 DEF Agrees
  <2>5. ASSUME NEW r \in Sessions, written'[r].value # NoValue,
               clock' <= written'[r].at + Ttl, ~Listed(u, r)
        PROVE  Cardinality(Used(s)[r]) >= MaxSessions
    <3>1. r # s
      BY <1>2, <1>4, <2>2, <2>5 DEF Listed
    <3>2. CASE ~Listed(table, r)
      <4>1. Cardinality(since[r]) >= MaxSessions
        BY <1>3, <1>5, <1>10, <2>5, <3>1, <3>2 DEF IInv, MissingIsCrowdedOut
      <4> QED
        BY <1>1, <3>1, <4>1, UsedGrows
    <3>3. CASE Listed(table, r)
      <4>1. PICK j \in DOMAIN t : t[j].session = r
        BY <1>4, <3>1, <3>3 DEF Listed
      <4> QED
        BY <2>2, <2>5, <4>1 DEF Listed
    <3> QED
      BY <3>2, <3>3
  <2>6. TypeInv' /\ WithinBound'
    BY <1>1, <1>3, <1>5, <1>6, <1>8, <2>2, <2>3 DEF TypeInv, WithinBound
  <2>7. MissingIsCrowdedOut'
    BY <1>3, <2>3, <2>5 DEF MissingIsCrowdedOut
  <2>8. WrittenIsThere'
    BY <1>3, <1>10 DEF WrittenIsThere
  <2>9. Agrees(table, written, Lifetime)' /\ InOrder(table, since)'
    BY <1>3, <1>7, <2>2, <2>3, <2>4
  <2> QED
    BY <2>6, <2>7, <2>8, <2>9 DEF IInv
<1>11. CASE kind = "redis" /\ Lifetime > 0 /\ table' = t
  <2>1. ASSUME NEW r \in Sessions, written'[r].value # NoValue PROVE Listed(t, r)
    <3>1. CASE r = s
      BY <1>1, <1>2, <1>4, <3>1 DEF Listed, IsTable
    <3>2. CASE r # s
      <4>1. Listed(table, r)
        BY <1>5, <1>11, <2>1, <3>2 DEF IInv, WrittenIsThere
      <4> QED
        BY <1>4, <3>2, <4>1 DEF Listed
    <3> QED
      BY <3>1, <3>2
  <2>2. TypeInv' /\ WithinBound'
    BY <1>1, <1>3, <1>4, <1>5, <1>6, <1>8, <1>11 DEF TypeInv, WithinBound
  <2>3. MissingIsCrowdedOut' /\ WrittenIsThere'
    BY <1>3, <1>7, <1>11, <2>1 DEF MissingIsCrowdedOut, WrittenIsThere
  <2>4. Agrees(table, written, Lifetime)' /\ InOrder(table, since)'
    BY <1>3, <1>4, <1>7, <1>9, <1>11
  <2> QED
    BY <2>2, <2>3, <2>4 DEF IInv
<1>12. CASE kind = "redis" /\ Lifetime = 0 /\ table' = table
  <2>1. table = <<>> /\ DOMAIN table = {} /\ table' = <<>> /\ DOMAIN table' = {}
    BY <1>12 DEF IInv, WrittenIsThere
  <2>2. TypeInv' /\ WithinBound'
    BY <1>1, <1>3, <1>5, <1>6, <1>8, <1>12 DEF TypeInv, WithinBound
  <2>3. MissingIsCrowdedOut' /\ WrittenIsThere'
    BY <1>3, <1>7, <1>12, <2>1 DEF MissingIsCrowdedOut, WrittenIsThere
  <2>4. Agrees(table, written, Lifetime)' /\ InOrder(table, since)'
    BY <2>1 DEF Agrees, InOrder
  <2> QED
    BY <2>2, <2>3, <2>4 DEF IInv
<1> QED
  BY <1>3, <1>10, <1>11, <1>12

LEMMA GetIInv ==
  ASSUME IInv, NEW s \in Sessions, Get(s)
  PROVE  IInv'
<1>1. /\ kind = "memory" /\ clock \in Nat /\ Lifetime = Ttl
      /\ IsTable(table) /\ written \in Records
      /\ since \in [Sessions -> SUBSET Sessions]
      /\ InOrder(table, since) /\ Agrees(table, written, Lifetime)
      /\ Len(table) <= MaxSessions
      /\ Has(s)
  BY LifetimeType DEF IInv, TypeInv, Get, WithinBound
<1>2. kind' = kind /\ clock' = clock /\ written' = written /\ Lifetime' = Lifetime
  BY DEF Get, Lifetime
<1>3. PICK p \in DOMAIN table : table[p].session = s /\ EntryOf(s) = table[p]
  BY <1>1 DEF Has, Positions, EntryOf
<1>4. CASE Expired(EntryOf(s)) /\ table' = Popped(s) /\ since' = since
  <2> DEFINE u == Popped(s)
  <2>1. /\ IsTable(u)
        /\ Len(u) <= Len(table)
        /\ \A i \in DOMAIN u : \E j \in DOMAIN table : j >= i /\ u[i] = table[j]
        /\ \A j \in DOMAIN table : table[j].session # s =>
             \E i \in DOMAIN u : u[i] = table[j]
        /\ \A h, i \in DOMAIN u : h < i =>
             \E j, k \in DOMAIN table : j < k /\ u[h] = table[j] /\ u[i] = table[k]
    BY <1>1, PoppedIs
  <2> HIDE DEF u
  <2>2. table' = u
    BY <1>4 DEF u
  <2>3. Agrees(u, written, Lifetime) /\ InOrder(u, since)
    BY <1>1, <2>1 DEF Agrees, InOrder
  <2>4. clock > written[s].at + Ttl
    BY <1>1, <1>3, <1>4 DEF Agrees, Expired
  <2>5. ASSUME NEW r \in Sessions, written[r].value # NoValue,
               clock <= written[r].at + Ttl, ~Listed(u, r)
        PROVE  Cardinality(since[r]) >= MaxSessions
    <3>1. written[s].at \in Nat
      BY <1>1 DEF Records
    <3>2. r # s
      BY <1>1, <2>4, <2>5, <3>1, StoreAssumption
    <3>3. ~Listed(table, r)
      BY <2>1, <2>5, <3>2 DEF Listed
    <3> QED
      BY <1>1, <2>5, <3>3 DEF IInv, MissingIsCrowdedOut
  <2>6. TypeInv'
    BY <1>2, <1>4, <2>1, <2>2 DEF IInv, TypeInv
  <2>7. WithinBound'
    BY <1>1, <2>1, <2>2, StoreAssumption DEF WithinBound, IsTable
  <2>8. MissingIsCrowdedOut' /\ WrittenIsThere'
    BY <1>1, <1>2, <1>4, <2>2, <2>5 DEF MissingIsCrowdedOut, WrittenIsThere
  <2> QED
    BY <1>2, <1>4, <2>2, <2>3, <2>6, <2>7, <2>8 DEF IInv
<1>5. CASE table' = Append(Popped(s), EntryOf(s)) /\ since' = Used(s)
  <2> DEFINE x == table[p]
             t == Placed(s, x)
  <2>1. x \in Entries /\ x.session = s
    BY <1>1, <1>3 DEF IsTable
  <2>2. table' = t
    BY <1>3, <1>5 DEF Placed
  <2> HIDE DEF x
  <2>3. /\ IsTable(t)
        /\ InOrder(t, Used(s))
        /\ Len(t) <= Len(table)
        /\ Len(t) \in 1..(Len(table) + 1)
        /\ t[Len(t)] = x
        /\ \A i \in DOMAIN t :
             \/ t[i] = x
             \/ t[i].session # s /\ \E j \in DOMAIN table : t[i] = table[j]
        /\ \A j \in DOMAIN table : table[j].session # s =>
             \E i \in DOMAIN t : t[i] = table[j]
    BY <1>1, <2>1, PlacedIs
  <2> HIDE DEF t
  <2>4. Agrees(t, written, Lifetime)
    BY <1>1, <2>3 DEF Agrees, x
  <2>5. ASSUME NEW r \in Sessions, written[r].value # NoValue,
               clock <= written[r].at + Ttl, ~Listed(t, r)
        PROVE  Cardinality(Used(s)[r]) >= MaxSessions
    <3>1. Len(t) \in DOMAIN t
      BY <2>3 DEF IsTable
    <3>2. r # s
      BY <2>1, <2>3, <2>5, <3>1 DEF Listed
    <3>3. ~Listed(table, r)
      BY <2>3, <2>5, <3>2 DEF Listed
    <3>4. Cardinality(since[r]) >= MaxSessions
      BY <1>1, <2>5, <3>3 DEF IInv, MissingIsCrowdedOut
    <3> QED
      BY <1>1, <3>2, <3>4, UsedGrows
  <2>6. Used(s) \in [Sessions -> SUBSET Sessions]
    BY <1>1 DEF Used
  <2>7. TypeInv'
    BY <1>2, <1>5, <2>2, <2>3, <2>6 DEF IInv, TypeInv
  <2>8. WithinBound'
    BY <1>1, <2>2, <2>3, StoreAssumption DEF WithinBound, IsTable
  <2>9. MissingIsCrowdedOut' /\ WrittenIsThere'
    BY <1>1, <1>2, <1>5, <2>2, <2>5 DEF MissingIsCrowdedOut, WrittenIsThere
  <2> QED
    BY <1>2, <1>5, <2>2, <2>3, <2>4, <2>7, <2>8, <2>9 DEF IInv
<1> QED
  BY <1>4, <1>5 DEF Get, Use, Used

LEMMA NextIInv == IInv /\ [Next]_vars => IInv'
<1> SUFFICES ASSUME IInv, [Next]_vars PROVE IInv'
  OBVIOUS
<1>1. CASE \E s \in Sessions : Get(s)
  BY <1>1, GetIInv
<1>2. CASE \E s \in Sessions, v \in Values : Put(s, v)
  BY <1>2, PutIInv
<1>3. CASE Restart
  <2>1. /\ table' = <<>> /\ kind' = kind /\ clock' = clock
        /\ written' = [s \in Sessions |-> Unwritten]
        /\ since' = [s \in Sessions |-> {}]
    BY <1>3 DEF Restart
  <2>2. IsTable(<<>>) /\ Len(<<>>) = 0
    BY DEF IsTable
  <2>3. written' \in Records
    BY <2>1 DEF Records, Unwritten
  <2>4. TypeInv'
    BY <2>1, <2>2, <2>3 DEF IInv, TypeInv, Unwritten
  <2>5. WithinBound'
    BY <2>1, <2>2, StoreAssumption DEF WithinBound
  <2>6. Agrees(table, written, Lifetime)' /\ InOrder(table, since)'
    BY <2>1 DEF Agrees, InOrder
  <2>7. MissingIsCrowdedOut' /\ WrittenIsThere'
    BY <2>1 DEF MissingIsCrowdedOut, WrittenIsThere, Unwritten
  <2> QED
    BY <2>4, <2>5, <2>6, <2>7 DEF IInv
<1>4. CASE Tick
  <2>1. /\ table' = table /\ kind' = kind /\ clock' = clock + 1
        /\ written' = written /\ since' = since /\ Lifetime' = Lifetime
    BY <1>4 DEF Tick, Lifetime
  <2>2. clock \in Nat /\ written \in Records
    BY DEF IInv, TypeInv
  <2>3. \A s \in Sessions : written[s].at \in Nat
    BY <2>2 DEF Records
  <2>4. TypeInv'
    BY <2>1, <2>2, <2>3 DEF IInv, TypeInv
  <2>5. MissingIsCrowdedOut'
    <3>1. \A s \in Sessions : clock + 1 <= written[s].at + Ttl => clock <= written[s].at + Ttl
      BY <2>2, <2>3, StoreAssumption
    <3> QED
      BY <2>1, <3>1 DEF IInv, MissingIsCrowdedOut
  <2> QED
    BY <2>1, <2>4, <2>5 DEF IInv, WithinBound, WrittenIsThere
<1>5. CASE UNCHANGED vars
  <2>1. Lifetime' = Lifetime
    BY <1>5 DEF vars, Lifetime
  <2> QED
    BY <1>5, <2>1 DEF vars, IInv, TypeInv, WithinBound, MissingIsCrowdedOut, WrittenIsThere
<1> QED
  BY <1>1, <1>2, <1>3, <1>4, <1>5 DEF Next

LEMMA Invariant == Spec => []IInv
BY InitIInv, NextIInv, PTL DEF Spec

(***************************************************************************)
(* The theorems about answers.                                             *)
(***************************************************************************)

\* What a get finds in a table.
LEMMA KnownIs ==
  ASSUME IInv, NEW s \in Sessions
  PROVE  /\ Known(s) # NoValue =>
              \E i \in DOMAIN table : /\ table[i].session = s
                                      /\ ~Expired(table[i])
                                      /\ Known(s) = table[i].value
         /\ \A i \in DOMAIN table :
              table[i].session = s /\ ~Expired(table[i]) => Known(s) = table[i].value
         /\ Listed(table, s) =>
              \E i \in DOMAIN table : table[i].session = s /\ EntryOf(s) = table[i]
<1>1. ASSUME Has(s)
      PROVE  \E i \in DOMAIN table : table[i].session = s /\ EntryOf(s) = table[i]
  BY <1>1 DEF Has, Positions, EntryOf
<1>2. \A i, j \in DOMAIN table : table[i].session = table[j].session => i = j
  BY DEF IInv, TypeInv, IsTable
<1> QED
  BY <1>1, <1>2, HasIsListed DEF Known, Listed

\* The table is a dict, and the history is well formed.
THEOREM StoreTypes == Spec => []StoreTypeOK
<1>1. IInv => StoreTypeOK
  BY DEF IInv, TypeInv, IsTable, Records, StoreTypeOK
<1> QED
  BY <1>1, Invariant, PTL

\* The in-memory store never holds more than max_sessions.
THEOREM MemoryIsBounded == Spec => []WithinBound
<1>1. IInv => WithinBound
  BY DEF IInv
<1> QED
  BY <1>1, Invariant, PTL

\* What a store answers was written last, within the lifetime it was given.
THEOREM AnswersAreFresh == Spec => []AnswersAreLastWrites
<1>1. IInv => AnswersAreLastWrites
  <2> SUFFICES ASSUME IInv, NEW s \in Sessions, Known(s) # NoValue
               PROVE  Known(s) = written[s].value /\ clock - written[s].at <= Ttl
    BY DEF AnswersAreLastWrites
  <2>1. PICK i \in DOMAIN table : /\ table[i].session = s
                                  /\ ~Expired(table[i])
                                  /\ Known(s) = table[i].value
    BY KnownIs
  <2>2. table[i].value = written[s].value /\ table[i].expires = written[s].at + Lifetime
    BY <2>1 DEF IInv, Agrees
  <2>3. /\ clock \in Nat /\ written[s].at \in Nat
        /\ Lifetime \in Nat /\ Lifetime <= Ttl /\ Ttl \in Nat
    BY LifetimeType, StoreAssumption DEF IInv, TypeInv, Records
  <2>4. clock <= table[i].expires
    BY <2>1, <2>2, <2>3 DEF Expired
  <2> QED
    BY <2>1, <2>2, <2>3, <2>4
<1> QED
  BY <1>1, Invariant, PTL

\* Nothing is forgotten early by a store whose lifetime is a second at least:
\* Redis truncates a shorter one to nothing.
THEOREM RecentIsRemembered ==
  ASSUME Ttl >= TicksPerSecond
  PROVE  Spec => []RemembersRecent
<1>1. IInv => RemembersRecent
  <2> SUFFICES ASSUME IInv, NEW s \in Sessions, written[s].value # NoValue,
                      clock - written[s].at <= KeptFor,
                      kind = "memory" => Cardinality(since[s]) < MaxSessions
               PROVE  Known(s) = written[s].value
    BY DEF RemembersRecent
  <2>1. /\ clock \in Nat /\ written[s].at \in Nat /\ kind \in {"memory", "redis"}
        /\ Lifetime \in Nat /\ Ttl \in Nat /\ TicksPerSecond \in Nat /\ TicksPerSecond > 0
        /\ kind = "memory" => Lifetime = Ttl
        /\ kind = "redis" => Lifetime > Ttl - TicksPerSecond
    BY LifetimeType, StoreAssumption DEF IInv, TypeInv, Records
  <2>2. Listed(table, s)
    <3>1. CASE kind = "memory"
      <4>1. clock <= written[s].at + Ttl
        BY <2>1, <3>1 DEF KeptFor
      <4>2. Cardinality(since[s]) \in Nat
        BY StoreAssumption, FS_Subset, FS_CardinalityType DEF IInv, TypeInv
      <4> QED
        BY <3>1, <4>1, <4>2, StoreAssumption DEF IInv, MissingIsCrowdedOut
    <3>2. CASE kind = "redis"
      <4>1. Lifetime > 0
        BY <2>1, <3>2
      <4> QED
        BY <3>2, <4>1 DEF IInv, WrittenIsThere
    <3> QED
      BY <2>1, <3>1, <3>2
  <2>3. PICK i \in DOMAIN table : table[i].session = s
    BY <2>2 DEF Listed
  <2>4. table[i].value = written[s].value /\ table[i].expires = written[s].at + Lifetime
    BY <2>3 DEF IInv, Agrees
  <2>5. ~Expired(table[i])
    BY <2>1, <2>4 DEF Expired, KeptFor
  <2> QED
    BY <2>3, <2>4, <2>5, KnownIs
<1> QED
  BY <1>1, Invariant, PTL

(***************************************************************************)
(* Refinement.                                                             *)
(***************************************************************************)

\* If the next table has nothing new for a session, the next answer for it is
\* the present one or none.
LEMMA AnswerStands ==
  ASSUME IInv, NEW r \in Sessions, kind' = kind, clock' \in Nat, clock' >= clock,
         table' \in Seq(Entries),
         \A i \in DOMAIN table' : table'[i].session = r =>
           \E j \in DOMAIN table : table'[i] = table[j]
  PROVE  Known(r)' \in {Known(r), NoValue}
<1> SUFFICES ASSUME Known(r)' # NoValue PROVE Known(r)' = Known(r)
  OBVIOUS
<1> DEFINE gone(e, now) == IF kind = "memory" THEN now > e.expires ELSE now >= e.expires
<1>1. PICK i \in DOMAIN table' : /\ table'[i].session = r
                                 /\ ~gone(table'[i], clock')
                                 /\ Known(r)' = table'[i].value
  <2>1. Has(r)' /\ Known(r)' = EntryOf(r)'.value /\ ~gone(EntryOf(r)', clock')
    BY DEF Known, Expired
  <2>2. PICK i \in DOMAIN table' : table'[i].session = r /\ EntryOf(r)' = table'[i]
    BY <2>1 DEF Has, Positions, EntryOf
  <2> QED
    BY <2>1, <2>2
<1>2. PICK j \in DOMAIN table : table'[i] = table[j]
  BY <1>1
<1>3. table[j] \in Entries /\ clock \in Nat
  BY DEF IInv, TypeInv, IsTable
<1>4. ~Expired(table[j])
  BY <1>1, <1>2, <1>3 DEF Expired, Entries
<1> QED
  BY <1>1, <1>2, <1>4, KnownIs

Answers == [s \in Sessions |-> Known(s)]
Written == [s \in Sessions |-> written[s].value]

\* Forgetting what is no longer answered.
LEMMA ForgettingIs ==
  ASSUME NEW old, NEW new \in [Sessions -> Values \cup {NoValue}],
         \A r \in Sessions : new[r] \in {old[r], NoValue}
  PROVE  \E gone \in SUBSET Sessions : new = Map!Forgetting(old, gone)
<1> DEFINE gone == {r \in Sessions : new[r] = NoValue}
<1>1. new = [s \in Sessions |-> IF s \in gone THEN NoValue ELSE old[s]]
  OBVIOUS
<1>2. new = Map!Forgetting(old, gone)
  BY <1>1 DEF Map!Forgetting
<1>3. gone \in SUBSET Sessions
  OBVIOUS
<1> QED
  BY <1>2, <1>3

AnswersOK == Answers \in [Sessions -> Values \cup {NoValue}]

LEMMA KnownType ==
  ASSUME IInv
  PROVE  AnswersOK
<1> SUFFICES ASSUME NEW s \in Sessions, Known(s) # NoValue PROVE Known(s) \in Values
  BY DEF Answers, AnswersOK
<1>1. PICK i \in DOMAIN table : Known(s) = table[i].value
  BY KnownIs
<1>2. table \in Seq(Entries)
  BY DEF IInv, TypeInv, IsTable
<1>3. table[i] \in Entries
  BY <1>2
<1> QED
  BY <1>1, <1>3 DEF Entries

LEMMA PutIsWrite ==
  ASSUME IInv, IInv', AnswersOK',
         NEW s \in Sessions, NEW v \in Values, Put(s, v)
  PROVE  Map!Write(s, v)
<1>1. /\ kind' = kind /\ clock' = clock /\ clock \in Nat
      /\ written' = [written EXCEPT ![s] = [value |-> v, at |-> clock]]
      /\ written \in Records /\ IsTable(table) /\ table' \in Seq(Entries)
  BY DEF Put, IInv, TypeInv, IsTable
<1>2. Written' = [Written EXCEPT ![s] = v]
  BY <1>1 DEF Written, Records
<1>3. ASSUME NEW r \in Sessions, r # s, NEW i \in DOMAIN table', table'[i].session = r
      PROVE  \E j \in DOMAIN table : table'[i] = table[j]
  <2> DEFINE t == Placed(s, Fresh(s, v))
  <2>1. /\ IsTable(table) /\ InOrder(table, since)
        /\ since \in [Sessions -> SUBSET Sessions]
        /\ Fresh(s, v) \in Entries /\ Fresh(s, v).session = s
    BY LifetimeType DEF IInv, TypeInv, Fresh, Entries
  <2>2. /\ IsTable(t) /\ InOrder(t, Used(s)) /\ Len(t) \in 1..(Len(table) + 1)
        /\ \A k \in DOMAIN t :
             \/ t[k] = Fresh(s, v)
             \/ t[k].session # s /\ \E j \in DOMAIN table : t[k] = table[j]
    BY <2>1, PlacedIs
  <2>3. \/ kind = "memory" /\ table' = Bounded(t)
        \/ table' = t
        \/ table' = table
    BY DEF Put, Placed, Fresh
  <2> HIDE DEF t
  <2>4. CASE kind = "memory" /\ table' = Bounded(t)
    <3>1. Len(t) \in 1..(MaxSessions + 1)
      <4>1. Len(table) <= MaxSessions /\ Len(table) \in Nat
        BY <1>1, <2>4 DEF IInv, WithinBound, IsTable
      <4> QED
        BY <2>2, <4>1, StoreAssumption
    <3>2. Used(s) \in [Sessions -> SUBSET Sessions]
      BY <2>1 DEF Used
    <3> DEFINE u == Bounded(t)
    <3>3. \A k \in DOMAIN u : \E j \in DOMAIN t : u[k] = t[j]
      BY <2>2, <3>1, <3>2, BoundedIs
    <3> HIDE DEF u
    <3>4. table' = u
      BY <2>4 DEF u
    <3>5. PICK k \in DOMAIN t : table'[i] = t[k]
      BY <1>3, <3>3, <3>4
    <3> QED
      BY <1>3, <2>1, <2>2, <3>5
  <2>5. CASE table' = t
    BY <1>3, <2>1, <2>2, <2>5
  <2>6. CASE table' = table
    BY <1>3, <2>6
  <2> QED
    BY <2>3, <2>4, <2>5, <2>6
<1>4. ASSUME NEW r \in Sessions, r # s PROVE Answers'[r] \in {Answers[r], NoValue}
  BY <1>1, <1>3, <1>4, AnswerStands DEF Answers
<1>5. Answers'[s] \in {v, NoValue}
  <2>1. \A i \in DOMAIN table' : table'[i].session = s => table'[i].value = v
    <3>1. Agrees(table', written', Lifetime')
      BY DEF IInv
    <3> QED
      BY <1>1, <3>1 DEF Agrees, Records
  <2>2. ASSUME Known(s)' # NoValue PROVE Known(s)' = v
    <3>1. Has(s)' /\ Known(s)' = EntryOf(s)'.value
      BY <2>2 DEF Known
    <3>2. PICK i \in DOMAIN table' : table'[i].session = s /\ EntryOf(s)' = table'[i]
      BY <3>1 DEF Has, Positions, EntryOf
    <3> QED
      BY <2>1, <3>1, <3>2
  <2> QED
    BY <2>2 DEF Answers
<1> DEFINE old == [Answers EXCEPT ![s] = v]
<1>6. \A r \in Sessions : Answers'[r] \in {old[r], NoValue}
  BY <1>4, <1>5 DEF Answers
<1>7. \E gone \in SUBSET Sessions : Answers' = Map!Forgetting(old, gone)
  <2> HIDE DEF old
  <2> QED
    BY <1>6, ForgettingIs DEF AnswersOK
<1> QED
  BY <1>2, <1>7 DEF Map!Write, Answers, Written

\* Either store is a map that answers with the last write or with nothing, and
\* that never comes back to what it has forgotten.
THEOREM StoreImplementsMap == Spec => ImplementsMap
<1>1. Init => Map!Init
  <2> SUFFICES ASSUME Init PROVE Map!Init
    OBVIOUS
  <2>1. DOMAIN table = {} /\ written = [s \in Sessions |-> Unwritten]
    BY DEF Init
  <2>2. \A s \in Sessions : Known(s) = NoValue
    BY <2>1 DEF Known, Has, Positions
  <2> QED
    BY <2>1, <2>2 DEF Map!Init, Unwritten
<1>2. IInv => AnswersOK
  BY KnownType
<1>3. IInv /\ IInv' /\ AnswersOK' /\ [Next]_vars => [Map!Next]_<<Answers, Written>>
  <2> SUFFICES ASSUME IInv, IInv', [Next]_vars, AnswersOK'
               PROVE  [Map!Next]_<<Answers, Written>>
    OBVIOUS
  <2>1. CASE \E s \in Sessions, v \in Values : Put(s, v)
    BY <2>1, PutIsWrite DEF Map!Next
  <2>2. ASSUME Written' = Written,
               \A r \in Sessions : Answers'[r] \in {Answers[r], NoValue}
        PROVE  Map!Next
    <3>1. \E gone \in SUBSET Sessions : Answers' = Map!Forgetting(Answers, gone)
      BY <2>2, ForgettingIs DEF AnswersOK
    <3> QED
      BY <2>2, <3>1 DEF Map!Next, Map!Forget, Answers, Written
  <2>3. CASE \E s \in Sessions : Get(s)
    <3>1. PICK s \in Sessions : Get(s)
      BY <2>3
    <3>2. /\ kind' = kind /\ clock' = clock /\ clock \in Nat /\ written' = written
          /\ IsTable(table) /\ table' \in Seq(Entries) /\ Has(s)
          /\ InOrder(table, since) /\ since \in [Sessions -> SUBSET Sessions]
      BY <3>1 DEF Get, IInv, TypeInv, IsTable
    <3>3. PICK p \in DOMAIN table : table[p].session = s /\ EntryOf(s) = table[p]
      BY <3>2 DEF Has, Positions, EntryOf
    <3>4. table[p] \in Entries
      BY <3>2 DEF IsTable
    <3>5. table' = Popped(s) \/ table' = Placed(s, table[p])
      BY <3>1, <3>3 DEF Get, Placed
    <3>6. \A i \in DOMAIN table' : \E j \in DOMAIN table : table'[i] = table[j]
      <4> DEFINE u == Popped(s)
                 t == Placed(s, table[p])
      <4>1. \A i \in DOMAIN u : \E j \in DOMAIN table : j >= i /\ u[i] = table[j]
        BY <3>2, PoppedIs
      <4> DEFINE x == table[p]
      <4>2. x \in Entries /\ x.session = s
        BY <3>3, <3>4
      <4> HIDE DEF x
      <4>3. \A i \in DOMAIN Placed(s, x) :
              \/ Placed(s, x)[i] = x
              \/ Placed(s, x)[i].session # s /\
                 \E j \in DOMAIN table : Placed(s, x)[i] = table[j]
        BY <3>2, <4>2, PlacedIs
      <4>4. table' = u \/ table' = Placed(s, x)
        BY <3>5 DEF x
      <4>5. x = table[p]
        BY DEF x
      <4> HIDE DEF u
      <4> QED
        BY <4>1, <4>3, <4>4, <4>5
    <3>7. \A r \in Sessions : Answers'[r] \in {Answers[r], NoValue}
      BY <3>2, <3>6, AnswerStands DEF Answers
    <3>8. Written' = Written
      BY <3>2 DEF Written
    <3> QED
      BY <2>2, <3>7, <3>8
  <2>4. CASE Restart
    <3>1. DOMAIN table' = {} /\ written' = [s \in Sessions |-> Unwritten]
      BY <2>4 DEF Restart
    <3>2. \A r \in Sessions : Known(r)' = NoValue
      BY <3>1 DEF Known, Has, Positions
    <3>3. Written' = [s \in Sessions |-> NoValue]
      BY <3>1 DEF Written, Unwritten
    <3> QED
      BY <3>2, <3>3 DEF Map!Next, Map!Clear, Answers, Written
  <2>5. CASE Tick
    <3>1. /\ kind' = kind /\ clock' = clock + 1 /\ clock \in Nat
          /\ written' = written /\ table' = table /\ table \in Seq(Entries)
      BY <2>5 DEF Tick, IInv, TypeInv, IsTable
    <3>2. clock' \in Nat /\ clock' >= clock
      BY <3>1
    <3>3. \A r \in Sessions : Answers'[r] \in {Answers[r], NoValue}
      BY <3>1, <3>2, AnswerStands DEF Answers
    <3>4. Written' = Written
      BY <3>1 DEF Written
    <3> QED
      BY <2>2, <3>3, <3>4
  <2>6. CASE UNCHANGED vars
    <3>1. Answers' = Answers
      BY <2>6 DEF vars, Answers, Known, Has, Positions, EntryOf, Expired
    <3>2. Written' = Written
      BY <2>6 DEF vars, Written
    <3> QED
      BY <3>1, <3>2
  <2> QED
    BY <2>1, <2>3, <2>4, <2>5, <2>6 DEF Next
<1>4. Spec => [][Map!Next]_<<Answers, Written>>
  BY <1>2, <1>3, Invariant, PTL DEF Spec
<1>5. Spec => Map!Init
  BY <1>1, PTL DEF Spec
<1> QED
  BY <1>4, <1>5, PTL DEF ImplementsMap, Map!Spec, Answers, Written
=============================================================================
