------------------------- MODULE ReplicaCacheProofs -------------------------
(***************************************************************************)
(* Proofs about ReplicaCache for any sessions, capacities, thresholds and  *)
(* either policy.                                                          *)
(*                                                                         *)
(* The budgets are not inductive by themselves: that DRAM stays within its *)
(* own rests on the capacity loop parking nothing there, which holds       *)
(* because every entry in HBM was placed by its own prediction             *)
(* (TierMatchesPrediction) and a prediction does not change with time.     *)
(***************************************************************************)
EXTENDS ReplicaCache, FiniteSetTheorems, TLAPS

Tier == [Sessions -> Entries]

(***************************************************************************)
(* Counting tokens.                                                        *)
(***************************************************************************)

\* A tier occupies finitely many token slots, so its size is a number.
LEMMA SlotsFinite ==
  ASSUME NEW tier
  PROVE  IsFiniteSet(TokenSlots(tier)) /\ TokensIn(tier) \in Nat
<1>1. IsFiniteSet(Sessions) /\ MaxEntryTokens \in Nat
  BY ReplicaAssumption
<1>2. IsFiniteSet(1..MaxEntryTokens)
  BY <1>1, FS_Interval
<1>3. IsFiniteSet(Sessions \X (1..MaxEntryTokens))
  BY <1>1, <1>2, FS_Product
<1>4. IsFiniteSet(TokenSlots(tier))
  BY <1>3, FS_Subset DEF TokenSlots
<1> QED
  BY <1>4, FS_CardinalityType DEF TokensIn

\* Removing sessions from a tier never makes it larger.
LEMMA WithoutShrinks ==
  ASSUME NEW tier, NEW gone
  PROVE  TokensIn(Without(tier, gone)) <= TokensIn(tier)
<1>1. TokenSlots(Without(tier, gone)) \subseteq TokenSlots(tier)
  BY DEF TokenSlots, Without, Absent
<1> QED
  BY <1>1, SlotsFinite, FS_Subset DEF TokensIn

\* Adding one session to a tier adds at most its tokens: what the room test of
\* _demote relies on.
LEMMA WithOneMore ==
  ASSUME NEW d \in Tier, NEW g \in Tier, NEW s \in Sessions
  PROVE  TokensIn(With(d, {s}, g)) <= TokensIn(d) + g[s].tokens
<1> DEFINE k == g[s].tokens
<1> DEFINE own == {s} \X (1..k)
<1>1. k \in Nat
  BY ReplicaAssumption DEF Tier, Entries
<1>2. IsFiniteSet(1..k) /\ Cardinality(1..k) = k
  <2> HIDE DEF k
  <2>1. 1 \in Int /\ k \in Int
    BY <1>1
  <2>2. IsFiniteSet(1..k) /\ Cardinality(1..k) = IF 1 > k THEN 0 ELSE k - 1 + 1
    BY ONLY <2>1, FS_Interval, Zenon
  <2> QED
    BY <1>1, <2>2
<1>3. IsFiniteSet({s}) /\ Cardinality({s}) = 1
  BY FS_Singleton
<1>4. IsFiniteSet(own) /\ Cardinality(own) = k
  <2> HIDE DEF k
  <2> QED
    BY <1>1, <1>2, <1>3, FS_Product
<1>5. TokenSlots(With(d, {s}, g)) \subseteq TokenSlots(d) \cup own
  BY <1>1 DEF TokenSlots, With
<1>6. /\ IsFiniteSet(TokenSlots(d) \cup own)
      /\ Cardinality(TokenSlots(d) \cup own) <= TokensIn(d) + g[s].tokens
  <2>1. IsFiniteSet(TokenSlots(d)) /\ TokensIn(d) \in Nat
    BY SlotsFinite
  <2>2. /\ IsFiniteSet(TokenSlots(d) \cup own)
        /\ IsFiniteSet(TokenSlots(d) \cap own)
        /\ Cardinality(TokenSlots(d) \cup own) =
             Cardinality(TokenSlots(d)) + Cardinality(own)
               - Cardinality(TokenSlots(d) \cap own)
    BY <1>4, <2>1, FS_Union, FS_Intersection
  <2>3. Cardinality(TokenSlots(d) \cap own) \in Nat
    BY <2>2, FS_CardinalityType
  <2> QED
    BY <1>1, <1>4, <2>1, <2>2, <2>3 DEF TokensIn
<1>7. Cardinality(TokenSlots(With(d, {s}, g))) <= Cardinality(TokenSlots(d) \cup own)
  BY <1>5, <1>6, FS_Subset
<1>8. /\ TokensIn(With(d, {s}, g)) \in Nat
      /\ TokensIn(d) \in Nat
      /\ Cardinality(TokenSlots(d) \cup own) \in Nat
  BY <1>6, SlotsFinite, FS_CardinalityType
<1> HIDE DEF own
<1> QED
  BY <1>1, <1>6, <1>7, <1>8 DEF TokensIn

(***************************************************************************)
(* The inductive invariant.                                                *)
(***************************************************************************)
IInv ==
  /\ TypeOK
  /\ OneTier
  /\ GpuWithinBudget
  /\ DramWithinBudget
  /\ TierMatchesPrediction

LEMMA WithoutIsTier ==
  ASSUME NEW t \in Tier, NEW gone
  PROVE  /\ Without(t, gone) \in Tier
         /\ Held(Without(t, gone)) = Held(t) \ gone
         /\ \A s \in Held(t) \ gone : Without(t, gone)[s] = t[s]
BY ReplicaAssumption DEF Tier, Entries, Without, Absent, Held

LEMMA WithoutNone ==
  ASSUME NEW t \in Tier
  PROVE  Without(t, {}) = t
BY DEF Tier, Without

LEMMA WithNone ==
  ASSUME NEW t \in Tier, NEW from
  PROVE  With(t, {}, from) = t
BY DEF Tier, With

\* Nothing is trimmed from a tier that is within its capacity.
LEMMA NoTrim ==
  ASSUME NEW t \in Tier, NEW capacity \in Nat, TokensIn(t) <= capacity,
         NEW order, NEW m \in Nat, IsShortestPrefix(t, capacity, order, m)
  PROVE  m = 0
<1>1. First(order, 0) = {}
  BY DEF First
<1>2. TokensIn(Without(t, First(order, 0))) = TokensIn(t)
  BY <1>1, WithoutNone
<1>3. CASE m > 0
  <2>1. 0 \in 0..(m - 1)
    BY <1>3
  <2>2. TokensIn(Without(t, First(order, 0))) > capacity
    BY <2>1 DEF IsShortestPrefix
  <2> QED
    BY <1>2, <2>2, SlotsFinite
<1> QED
  BY <1>3

\* The capacity loop, started on tiers whose entries are where their
\* predictions put them: it empties HBM to its budget and leaves DRAM alone.
LEMMA EnforceCapacityPreserves ==
  ASSUME NEW g \in Tier, NEW d \in Tier, NEW now, NEW e, NEW o,
         \A s \in Held(g) : OnRelease(g[s]) = "pin_gpu",
         TokensIn(d) <= DramCacheTokens,
         EnforceCapacity(g, d, now, e, o)
  PROVE  /\ TokensIn(gpu') <= GpuCacheTokens
         /\ \E gone \in SUBSET Held(g) : gpu' = Without(g, gone)
         /\ dram' = d
         /\ TokensIn(g) <= GpuCacheTokens => gpu' = g
<1>1. CASE TokensIn(g) <= GpuCacheTokens /\ gpu' = g /\ dram' = d
  BY <1>1, WithoutNone
<1>2. CASE /\ TokensIn(g) > GpuCacheTokens
           /\ \E order \in VictimOrders(g, now), n \in 0..Cardinality(Held(g)) :
             /\ IsShortestPrefix(g, GpuCacheTokens, order, n)
             /\ gpu' = Without(g, First(order, n))
             /\ \E parked \in ParkedVictims(g, d, order, n) :
                  LET filled == With(d, parked, g)
                  IN  \E touched \in TouchOrders(filled),
                         m \in 0..Cardinality(Held(filled)) :
                        /\ IsShortestPrefix(filled, DramCacheTokens, touched, m)
                        /\ dram' = Without(filled, First(touched, m))
  <2>1. PICK order \in VictimOrders(g, now), n \in 0..Cardinality(Held(g)) :
             /\ IsShortestPrefix(g, GpuCacheTokens, order, n)
             /\ gpu' = Without(g, First(order, n))
             /\ \E parked \in ParkedVictims(g, d, order, n) :
                  LET filled == With(d, parked, g)
                  IN  \E touched \in TouchOrders(filled),
                         m \in 0..Cardinality(Held(filled)) :
                        /\ IsShortestPrefix(filled, DramCacheTokens, touched, m)
                        /\ dram' = Without(filled, First(touched, m))
    BY <1>2
  <2>2. TokensIn(gpu') <= GpuCacheTokens
    BY <2>1 DEF IsShortestPrefix
  <2>3. IsFiniteSet(Held(g)) /\ Cardinality(Held(g)) \in Nat
    BY ReplicaAssumption, FS_Subset, FS_CardinalityType DEF Held
  <2>4. order \in [1..Cardinality(Held(g)) -> Held(g)]
    BY <2>1 DEF VictimOrders, Orders
  <2>5. First(order, n) \subseteq Held(g)
    BY <2>3, <2>4 DEF First
  <2>6. \A parked \in ParkedVictims(g, d, order, n) : parked = {}
    BY <2>4, <2>5 DEF ParkedVictims, First
  <2>7. With(d, {}, g) = d
    BY WithNone
  <2>8. PICK touched \in TouchOrders(d), m \in 0..Cardinality(Held(d)) :
             /\ IsShortestPrefix(d, DramCacheTokens, touched, m)
             /\ dram' = Without(d, First(touched, m))
    BY <2>1, <2>6, <2>7
  <2>9. m = 0
    <3>1. IsFiniteSet(Held(d)) /\ Cardinality(Held(d)) \in Nat
      BY ReplicaAssumption, FS_Subset, FS_CardinalityType DEF Held
    <3> QED
      BY <2>8, <3>1, NoTrim, ReplicaAssumption
  <2>10. dram' = d
    <3>1. First(touched, 0) = {}
      BY DEF First
    <3> QED
      BY <2>8, <2>9, <3>1, WithoutNone
  <2> QED
    BY <1>2, <2>1, <2>2, <2>5, <2>10, SlotsFinite, ReplicaAssumption
<1> QED
  BY <1>1, <1>2 DEF EnforceCapacity

(***************************************************************************)
(* Replica.store.  Placed holds of the tiers after the entry of s went     *)
(* where on_release sends it, before the capacity loop.                    *)
(***************************************************************************)
Placed(g, d, s) ==
  /\ g \in Tier /\ d \in Tier
  /\ Held(g) \cap Held(d) = {}
  /\ \A x \in Held(g) : OnRelease(g[x]) = "pin_gpu"
  /\ \A x \in Held(d) : OnRelease(d[x]) = "offload_dram"
  /\ TokensIn(d) <= DramCacheTokens
  /\ s \in Held(d) => TokensIn(g) <= GpuCacheTokens
  /\ \A x \in Sessions \ {s} : g[x] = gpu[x] /\ d[x] = dram[x]

\* What HBM holds of the sessions that compete for it after a call.
Contending(s, entry) ==
  [gpu EXCEPT ![s] = IF OnRelease(entry) = "pin_gpu" THEN entry ELSE Absent]

\* What store has counted before the capacity loop, by where the entry went.
Counted(s, entry, d, e, o) ==
  \/ OnRelease(entry) = "pin_gpu" /\ Held(d) = Held(dram) \ {s} /\ e = 0 /\ o = 0
  \/ OnRelease(entry) # "pin_gpu" /\ Held(d) = Held(dram) \ {s} /\ e = 1 /\ o = 0
  \/ OnRelease(entry) # "pin_gpu" /\ Held(d) = Held(dram) \cup {s} /\ e = 0 /\ o = 1

LEMMA SettlePlaces ==
  ASSUME IInv, NEW s \in Sessions, NEW entry \in Entries, entry.tokens > 0,
         Store(s, entry)
  PROVE  \E d, e, o :
           /\ Placed(Contending(s, entry), d, s)
           /\ Counted(s, entry, d, e, o)
           /\ OnRelease(entry) # "pin_gpu" =>
                TokensIn(Contending(s, entry)) <= GpuCacheTokens
           /\ EnforceCapacity(Contending(s, entry), d, entry.touch, e, o)
<1> DEFINE g == [gpu EXCEPT ![s] = entry]
           d == Without(dram, {s})
<1>1. /\ gpu \in Tier /\ dram \in Tier
      /\ Held(gpu) \cap Held(dram) = {}
      /\ \A x \in Held(gpu) : OnRelease(gpu[x]) = "pin_gpu"
      /\ \A x \in Held(dram) : OnRelease(dram[x]) = "offload_dram"
      /\ TokensIn(dram) <= DramCacheTokens
  BY DEF IInv, TypeOK, OneTier, TierMatchesPrediction, DramWithinBudget, Tier
<1>2. /\ g \in Tier /\ g[s] = entry
      /\ Held(g) = Held(gpu) \cup {s}
      /\ \A x \in Sessions \ {s} : g[x] = gpu[x]
  BY <1>1 DEF Tier, Held
<1>3. /\ d \in Tier /\ Held(d) = Held(dram) \ {s}
      /\ d[s] = Absent
      /\ \A x \in Sessions \ {s} : d[x] = dram[x]
  BY <1>1, WithoutIsTier DEF Without, Tier
<1>4. TokensIn(d) <= DramCacheTokens
  BY <1>1, WithoutShrinks, SlotsFinite, ReplicaAssumption
<1>5. Settle(g, d, s)
  BY DEF Store
<1>6. /\ Without(g, {s}) \in Tier
      /\ Held(Without(g, {s})) = Held(gpu) \ {s}
      /\ \A x \in Sessions \ {s} : Without(g, {s})[x] = gpu[x]
      /\ TokensIn(Without(g, {s})) <= GpuCacheTokens
  <2>1. Without(g, {s}) = Without(gpu, {s})
    BY <1>1 DEF Without, Tier
  <2>2. TokensIn(Without(gpu, {s})) <= GpuCacheTokens
    BY WithoutShrinks, SlotsFinite, ReplicaAssumption DEF IInv, GpuWithinBudget
  <2> QED
    BY <1>2, <2>1, <2>2, WithoutIsTier DEF Without
<1>11. OnRelease(entry) = "pin_gpu" => Contending(s, entry) = g
  BY DEF Contending
<1>12. OnRelease(entry) # "pin_gpu" => Contending(s, entry) = Without(g, {s})
  BY <1>1 DEF Contending, Without, Tier
<1> HIDE DEF g, d
<1>7. CASE OnRelease(g[s]) = "pin_gpu" /\ EnforceCapacity(g, d, g[s].touch, 0, 0)
  <2>1. Placed(g, d, s)
    BY <1>1, <1>2, <1>3, <1>4, <1>7 DEF Placed, Held
  <2>2. Counted(s, entry, d, 0, 0)
    BY <1>2, <1>3, <1>7 DEF Counted
  <2> QED
    BY <1>2, <1>11, <1>7, <2>1, <2>2
<1>8. Placed(Without(g, {s}), d, s)
  BY <1>1, <1>2, <1>3, <1>4, <1>6 DEF Placed, Held
<1>9. CASE /\ OnRelease(g[s]) # "pin_gpu"
           /\ EnforceCapacity(Without(g, {s}), d, g[s].touch, 1, 0)
  <2>1. Counted(s, entry, d, 1, 0)
    BY <1>2, <1>3, <1>9 DEF Counted
  <2> QED
    BY <1>2, <1>6, <1>12, <1>8, <1>9, <2>1
<1>10. CASE /\ OnRelease(g[s]) = "offload_dram"
            /\ HasRoom(d, g[s])
            /\ EnforceCapacity(Without(g, {s}), With(d, {s}, g), g[s].touch, 0, 1)
  <2>1. /\ With(d, {s}, g) \in Tier
        /\ Held(With(d, {s}, g)) = Held(dram) \cup {s}
        /\ \A x \in Sessions \ {s} : With(d, {s}, g)[x] = dram[x]
        /\ With(d, {s}, g)[s] = g[s]
    BY <1>1, <1>2, <1>3 DEF With, Tier, Held
  <2>2. TokensIn(With(d, {s}, g)) <= DramCacheTokens
    <3>1. TokensIn(With(d, {s}, g)) <= TokensIn(d) + g[s].tokens
      BY <1>2, <1>3, WithOneMore
    <3>2. g[s].tokens \in Nat
      BY <1>2, ReplicaAssumption DEF Entries
    <3> QED
      BY <1>10, <3>1, <3>2, SlotsFinite, ReplicaAssumption DEF HasRoom
  <2>3. Placed(Without(g, {s}), With(d, {s}, g), s)
    BY <1>1, <1>6, <1>10, <2>1, <2>2 DEF Placed, Held
  <2>4. Counted(s, entry, With(d, {s}, g), 0, 1)
    BY <1>2, <1>10, <2>1 DEF Counted
  <2> QED
    BY <1>2, <1>6, <1>10, <1>12, <2>3, <2>4
<1> QED
  BY <1>5, <1>7, <1>9, <1>10 DEF Settle

\* What one call of store does, in the words of the invariant and of the
\* contract.
LEMMA StoreEffect ==
  ASSUME IInv, NEW s \in Sessions, NEW entry \in Entries, entry.tokens > 0,
         Store(s, entry)
  PROVE  /\ IInv'
         /\ \A x \in Sessions \ {s} : dram'[x] = dram[x]
         /\ \A x \in Sessions \ {s} : gpu'[x] \in {gpu[x], Absent}
         /\ s \in Held(dram') => \A x \in Sessions \ {s} : gpu'[x] = gpu[x]
<1>1. PICK g, d, now, e, o : Placed(g, d, s) /\ EnforceCapacity(g, d, now, e, o)
  BY SettlePlaces
<1>2. /\ g \in Tier /\ d \in Tier
      /\ Held(g) \cap Held(d) = {}
      /\ \A x \in Held(g) : OnRelease(g[x]) = "pin_gpu"
      /\ \A x \in Held(d) : OnRelease(d[x]) = "offload_dram"
      /\ TokensIn(d) <= DramCacheTokens
      /\ s \in Held(d) => TokensIn(g) <= GpuCacheTokens
      /\ \A x \in Sessions \ {s} : g[x] = gpu[x] /\ d[x] = dram[x]
  BY <1>1 DEF Placed
<1>3. /\ TokensIn(gpu') <= GpuCacheTokens
      /\ \E gone \in SUBSET Held(g) : gpu' = Without(g, gone)
      /\ dram' = d
      /\ TokensIn(g) <= GpuCacheTokens => gpu' = g
  BY <1>1, <1>2, EnforceCapacityPreserves
<1>4. PICK gone \in SUBSET Held(g) : gpu' = Without(g, gone)
  BY <1>3
<1>5. /\ gpu' \in Tier
      /\ Held(gpu') = Held(g) \ gone
      /\ \A x \in Held(gpu') : gpu'[x] = g[x]
      /\ \A x \in Sessions : gpu'[x] \in {g[x], Absent}
  <2> DEFINE w == Without(g, gone)
  <2>1. w \in Tier /\ Held(w) = Held(g) \ gone
    BY <1>2, WithoutIsTier
  <2>2. \A x \in Sessions : w[x] \in {g[x], Absent}
    BY DEF Without
  <2>3. \A x \in Held(w) : w[x] = g[x]
    BY <1>2, <2>1, WithoutIsTier
  <2> HIDE DEF w
  <2>4. gpu' = w
    BY <1>4 DEF w
  <2> QED
    BY <2>1, <2>2, <2>3, <2>4
<1>6. TypeOK'
  BY <1>2, <1>3, <1>5 DEF TypeOK, Tier
<1>7. OneTier'
  BY <1>2, <1>3, <1>5 DEF OneTier
<1>8. GpuWithinBudget'
  BY <1>3 DEF GpuWithinBudget
<1>9. DramWithinBudget'
  BY <1>2, <1>3 DEF DramWithinBudget
<1>10. TierMatchesPrediction'
  BY <1>2, <1>3, <1>5 DEF TierMatchesPrediction
<1> QED
  BY <1>2, <1>3, <1>5, <1>6, <1>7, <1>8, <1>9, <1>10 DEF IInv

(***************************************************************************)
(* The theorems.                                                           *)
(***************************************************************************)
LEMMA ServeIsStore ==
  ASSUME NEW s \in Sessions, NEW tokens \in 1..MaxEntryTokens,
         NEW arrival \in Arrivals, NEW elapsed \in Latencies, NEW gap \in Gaps,
         Serve(s, tokens, arrival, elapsed, gap)
  PROVE  \E entry \in Entries :
           entry.tokens > 0 /\ Store(s, entry) /\ call'.session = s
<1> DEFINE entry == [tokens |-> tokens, touch |-> arrival + elapsed, ret |-> arrival + gap]
<1>1. entry \in Entries /\ entry.tokens > 0
  BY ReplicaAssumption DEF Entries
<1>2. Store(s, entry) /\ call'.session = s
  BY DEF Serve
<1> HIDE DEF entry
<1> QED
  BY <1>1, <1>2

LEMMA InitIInv == Init => IInv
<1> SUFFICES ASSUME Init PROVE IInv
  OBVIOUS
<1> DEFINE empty == [s \in Sessions |-> Absent]
<1>1. gpu = empty /\ dram = empty
  BY DEF Init
<1>2. empty \in Tier /\ Held(empty) = {}
  BY ReplicaAssumption DEF Tier, Entries, Absent, Held
<1>3. TokensIn(empty) = 0
  <2>1. TokenSlots(empty) = {}
    BY ReplicaAssumption DEF TokenSlots, Absent
  <2> QED
    BY <2>1, FS_EmptySet DEF TokensIn
<1> HIDE DEF empty
<1> QED
  BY <1>1, <1>2, <1>3, ReplicaAssumption
  DEF IInv, TypeOK, OneTier, GpuWithinBudget, DramWithinBudget, TierMatchesPrediction, Tier

LEMMA NextIInv == IInv /\ [Next]_vars => IInv'
<1> SUFFICES ASSUME IInv, [Next]_vars PROVE IInv'
  OBVIOUS
<1>1. CASE Next
  <2>1. PICK s \in Sessions, tokens \in 1..MaxEntryTokens,
             arrival \in Arrivals, elapsed \in Latencies, gap \in Gaps :
               Serve(s, tokens, arrival, elapsed, gap)
    BY <1>1 DEF Next
  <2> QED
    BY <2>1, ServeIsStore, StoreEffect
<1>2. CASE UNCHANGED vars
  BY <1>2 DEF vars, IInv, TypeOK, OneTier, GpuWithinBudget, DramWithinBudget,
              TierMatchesPrediction
<1> QED
  BY <1>1, <1>2

\* Whatever calls of store a replica gets, with any predictions and in any
\* order of completion, it is within both budgets between them, charges no
\* prefix twice, and holds every prefix in the tier its prediction calls for.
THEOREM CacheInvariant == Spec => []IInv
<1>1. Init => IInv
  BY InitIInv
<1>2. IInv /\ [Next]_vars => IInv'
  BY NextIInv
<1> QED
  BY <1>1, <1>2, PTL DEF Spec

\* A prefix is never in both tiers: whatever branch of _demote a call takes, the
\* copy it replaces is gone.
THEOREM NoPrefixTwice == Spec => []OneTier
<1>1. IInv => OneTier
  BY DEF IInv
<1> QED
  BY <1>1, CacheInvariant, PTL

\* The GPU side of it: HBM is never over-committed between calls.
THEOREM HbmBudget == Spec => []GpuWithinBudget
<1>1. IInv => GpuWithinBudget
  BY DEF IInv
<1> QED
  BY <1>1, CacheInvariant, PTL

\* The DRAM side: _trim_dram never has anything to do.
THEOREM DramBudget == Spec => []DramWithinBudget
<1>1. IInv => DramWithinBudget
  BY DEF IInv
<1> QED
  BY <1>1, CacheInvariant, PTL

\* Entries never drift from the tier their prediction calls for.
THEOREM PlacementIsStable == Spec => []TierMatchesPrediction
<1>1. IInv => TierMatchesPrediction
  BY DEF IInv
<1> QED
  BY <1>1, CacheInvariant, PTL

\* A parked prefix is safe from every other session.
THEOREM ParkedIsSafe == Spec => ParkedUntilOwnCall
<1>1. IInv /\ [Next]_vars =>
        [\A s \in Held(dram) \ {call'.session} : dram'[s] = dram[s]]_vars
  <2> SUFFICES ASSUME IInv, Next
               PROVE  \A s \in Held(dram) \ {call'.session} : dram'[s] = dram[s]
    OBVIOUS
  <2>1. PICK s \in Sessions, tokens \in 1..MaxEntryTokens,
             arrival \in Arrivals, elapsed \in Latencies, gap \in Gaps :
               Serve(s, tokens, arrival, elapsed, gap)
    BY DEF Next
  <2>2. call'.session = s /\ \A x \in Sessions \ {s} : dram'[x] = dram[x]
    BY <2>1, ServeIsStore, StoreEffect
  <2> QED
    BY <2>2 DEF Held
<1> QED
  BY <1>1, CacheInvariant, PTL DEF Spec, ParkedUntilOwnCall

(***************************************************************************)
(* Refinement.                                                             *)
(***************************************************************************)
TierOf == [s \in Sessions |-> Lookup(s)]

\* The detailed cache implements the contract the router and the backends
\* rely on, for either policy and any capacities.
THEOREM CacheImplementsContract == Spec => ImplementsContract
<1>1. Init => Contract!Init
  BY DEF Init, Contract!Init, Lookup, Held, Absent
<1>2. IInv /\ [Next]_vars => [Contract!Next]_TierOf
  <2> SUFFICES ASSUME IInv, [Next]_vars PROVE [Contract!Next]_TierOf
    OBVIOUS
  <2>1. CASE Next
    <3>1. PICK s \in Sessions, tokens \in 1..MaxEntryTokens,
               arrival \in Arrivals, elapsed \in Latencies, gap \in Gaps :
                 Serve(s, tokens, arrival, elapsed, gap)
      BY <2>1 DEF Next
    <3>2. \A x \in Sessions \ {s} : /\ dram'[x] = dram[x]
                                    /\ gpu'[x] \in {gpu[x], Absent}
      BY <3>1, ServeIsStore, StoreEffect
    <3>3. s \in Held(dram') => \A x \in Sessions \ {s} : gpu'[x] = gpu[x]
      BY <3>1, ServeIsStore, StoreEffect
    <3>4. Held(gpu') \cap Held(dram') = {} /\ Held(gpu) \cap Held(dram) = {}
      BY <3>1, ServeIsStore, StoreEffect DEF IInv, OneTier
    <3> DEFINE place == TierOf'[s]
               lost == {x \in Sessions \ {s} : TierOf[x] = "gpu" /\ TierOf'[x] # "gpu"}
    <3>5. \A x \in Sessions \ {s} : TierOf'[x] = IF x \in lost THEN "miss" ELSE TierOf[x]
      BY <3>2, <3>4 DEF TierOf, Lookup, Held, Absent
    <3>6. place = "dram" => lost = {}
      BY <3>3 DEF TierOf, Lookup, Held
    <3>7. place \in Contract!Tiers
      BY DEF TierOf, Lookup, Contract!Tiers
    <3>8. TierOf' = [x \in Sessions |->
                       IF x = s THEN place ELSE IF x \in lost THEN "miss" ELSE TierOf[x]]
      BY <3>5 DEF TierOf
    <3>9. Contract!Serve(s, place, lost)
      BY <3>6, <3>8 DEF Contract!Serve, TierOf
    <3>10. lost \in SUBSET Sessions
      OBVIOUS
    <3> QED
      BY <3>7, <3>9, <3>10 DEF Contract!Next
  <2>2. CASE UNCHANGED vars
    BY <2>2 DEF vars, TierOf, Lookup, Held
  <2> QED
    BY <2>1, <2>2
<1> QED
  BY <1>1, <1>2, CacheInvariant, PTL DEF Spec, ImplementsContract, Contract!Spec, TierOf

(***************************************************************************)
(* What the capacity loop gives up: the least urgent sessions, no more of  *)
(* them than needed, each of them counted.                                 *)
(*                                                                         *)
(* An order of the victims lists every session in HBM exactly once, so a   *)
(* session that is kept comes after all that go; and since the loop parks  *)
(* nothing, what goes is lost and counted as such.                         *)
(***************************************************************************)
LEMMA HeldFinite ==
  ASSUME NEW t
  PROVE  IsFiniteSet(Held(t)) /\ Cardinality(Held(t)) \in Nat
BY ReplicaAssumption, FS_Subset, FS_CardinalityType DEF Held

\* An order of a tier lists each of its sessions once.
LEMMA OrderListsAll ==
  ASSUME NEW g, NEW now, NEW order \in VictimOrders(g, now)
  PROVE  /\ order \in [1..Cardinality(Held(g)) -> Held(g)]
         /\ \A i, j \in 1..Cardinality(Held(g)) : i < j =>
              /\ order[i] # order[j]
              /\ ~EvictsBefore(g[order[j]], g[order[i]], now)
         /\ \A s \in Held(g) : \E i \in 1..Cardinality(Held(g)) : order[i] = s
<1> DEFINE n == Cardinality(Held(g))
<1>1. n \in Nat /\ IsFiniteSet(Held(g))
  BY HeldFinite
<1>2. /\ order \in [1..n -> Held(g)]
      /\ \A i, j \in 1..n : i < j =>
           order[i] # order[j] /\ ~EvictsBefore(g[order[j]], g[order[i]], now)
  BY DEF VictimOrders, Orders
<1>3. order \in Injection(1..n, Held(g))
  BY <1>1, <1>2 DEF Injection, IsInjective
<1>4. Cardinality(1..n) = n
  <2> HIDE DEF n
  <2>1. Cardinality(1..n) = IF 1 > n THEN 0 ELSE n - 1 + 1
    BY <1>1, FS_Interval
  <2> QED
    BY <1>1, <2>1
<1>5. order \in Surjection(1..n, Held(g))
  BY <1>1, <1>3, <1>4, FS_Injection
<1> QED
  BY <1>2, <1>5 DEF Surjection

\* The first n of an order are n.
LEMMA FirstCounts ==
  ASSUME NEW g, NEW now, NEW order \in VictimOrders(g, now),
         NEW n \in 0..Cardinality(Held(g))
  PROVE  Cardinality(First(order, n)) = n
<1>1. Cardinality(Held(g)) \in Nat
  BY HeldFinite
<1>2. n \in Nat /\ 1..n \subseteq 1..Cardinality(Held(g))
  BY <1>1
<1> DEFINE f == [i \in 1..n |-> order[i]]
<1>3. \A i, j \in 1..n : order[i] = order[j] => i = j
  BY <1>1, <1>2, OrderListsAll
<1>4. f \in Bijection(1..n, First(order, n))
  BY <1>3 DEF Bijection, Injection, Surjection, IsInjective, First
<1>5. ExistsBijection(1..n, First(order, n))
  BY <1>4 DEF ExistsBijection
<1> QED
  BY <1>2, <1>5, FS_CountingElements

\* What goes when the capacity loop runs on tiers whose entries are where their
\* predictions put them.
NotBefore(g, gone, v, now) == {u \in gone : ~EvictsBefore(g[u], g[v], now)}
Gone(g, gone, now) ==
  /\ gone \subseteq Held(g)
  /\ \A v \in gone, k \in Held(g) \ gone : ~EvictsBefore(g[k], g[v], now)
  /\ \A v \in gone :
       TokensIn(With(Without(g, gone), NotBefore(g, gone, v, now), g)) > GpuCacheTokens

\* A tier without less is no smaller.
LEMMA SmallerTier ==
  ASSUME NEW t, NEW u,
         \A s \in Sessions : t[s] = u[s] \/ t[s] = Absent
  PROVE  TokensIn(t) <= TokensIn(u)
<1>1. TokenSlots(t) \subseteq TokenSlots(u)
  BY DEF TokenSlots, Absent
<1> QED
  BY <1>1, SlotsFinite, FS_Subset DEF TokensIn

LEMMA LoopIsExact ==
  ASSUME NEW g \in Tier, NEW d \in Tier, NEW now, NEW e \in Nat, NEW o \in Nat,
         \A s \in Held(g) : OnRelease(g[s]) = "pin_gpu",
         TokensIn(d) <= DramCacheTokens,
         EnforceCapacity(g, d, now, e, o)
  PROVE  \E gone : /\ Gone(g, gone, now)
                   /\ gpu' = Without(g, gone)
                   /\ added' = [evictions |-> e + Cardinality(gone), offloads |-> o]
<1>1. CASE /\ TokensIn(g) <= GpuCacheTokens
           /\ gpu' = g
           /\ added' = [evictions |-> e, offloads |-> o]
  <2>1. gpu' = Without(g, {})
    BY <1>1, WithoutNone
  <2>2. Cardinality({}) = 0
    BY FS_EmptySet
  <2>3. Gone(g, {}, now)
    BY DEF Gone
  <2> QED
    BY <1>1, <2>1, <2>2, <2>3
<1>2. CASE \E order \in VictimOrders(g, now), n \in 0..Cardinality(Held(g)) :
             /\ IsShortestPrefix(g, GpuCacheTokens, order, n)
             /\ gpu' = Without(g, First(order, n))
             /\ \E parked \in ParkedVictims(g, d, order, n) :
                  LET filled == With(d, parked, g)
                  IN  \E touched \in TouchOrders(filled),
                         m \in 0..Cardinality(Held(filled)) :
                        /\ IsShortestPrefix(filled, DramCacheTokens, touched, m)
                        /\ dram' = Without(filled, First(touched, m))
                        /\ added' = [evictions |-> e + n - Cardinality(parked) + m,
                                     offloads |-> o + Cardinality(parked)]
  <2>1. PICK order \in VictimOrders(g, now), n \in 0..Cardinality(Held(g)) :
             /\ IsShortestPrefix(g, GpuCacheTokens, order, n)
             /\ gpu' = Without(g, First(order, n))
             /\ \E parked \in ParkedVictims(g, d, order, n) :
                  LET filled == With(d, parked, g)
                  IN  \E touched \in TouchOrders(filled),
                         m \in 0..Cardinality(Held(filled)) :
                        /\ IsShortestPrefix(filled, DramCacheTokens, touched, m)
                        /\ dram' = Without(filled, First(touched, m))
                        /\ added' = [evictions |-> e + n - Cardinality(parked) + m,
                                     offloads |-> o + Cardinality(parked)]
    BY <1>2
  <2> DEFINE gone == First(order, n)
             all == 1..Cardinality(Held(g))
  <2>2. /\ order \in [all -> Held(g)]
        /\ \A i, j \in all : i < j =>
             order[i] # order[j] /\ ~EvictsBefore(g[order[j]], g[order[i]], now)
        /\ \A s \in Held(g) : \E i \in all : order[i] = s
    BY OrderListsAll
  <2>3. n \in Nat /\ 1..n \subseteq all /\ all \subseteq Nat
    BY HeldFinite
  <2>4. gone \subseteq Held(g)
    BY <2>2, <2>3 DEF First
  <2>5. \A v \in gone, k \in Held(g) \ gone : ~EvictsBefore(g[k], g[v], now)
    <3> SUFFICES ASSUME NEW v \in gone, NEW k \in Held(g) \ gone
                 PROVE  ~EvictsBefore(g[k], g[v], now)
      OBVIOUS
    <3>1. PICK i \in 1..n : order[i] = v
      BY DEF First
    <3>2. PICK j \in all : order[j] = k
      BY <2>2
    <3>3. j \notin 1..n
      BY <3>2 DEF First
    <3>4. i < j /\ i \in all
      BY <2>3, <3>3
    <3> QED
      BY <2>2, <3>1, <3>2, <3>4
  <2>6. ASSUME NEW v \in gone
        PROVE  TokensIn(With(Without(g, gone), NotBefore(g, gone, v, now), g)) > GpuCacheTokens
    <3> DEFINE back == With(Without(g, gone), NotBefore(g, gone, v, now), g)
    <3>1. PICK i \in 1..n : order[i] = v
      BY DEF First
    <3>2. i - 1 \in 0..(n - 1)
      BY <2>3
    <3>3. TokensIn(Without(g, First(order, i - 1))) > GpuCacheTokens
      BY <2>1, <3>2 DEF IsShortestPrefix
    <3>4. ASSUME NEW u \in gone, u \notin First(order, i - 1)
          PROVE  ~EvictsBefore(g[u], g[v], now)
      <4>1. PICK j \in 1..n : order[j] = u
        BY DEF First
      <4>2. j = i \/ i < j
        BY <2>3, <3>4, <4>1 DEF First
      <4>3. CASE j = i
        <5>1. u = v /\ g[v] \in Entries
          BY <2>4, <3>1, <4>1, <4>3 DEF Tier, Held
        <5> QED
          BY <5>1 DEF EvictsBefore, Entries
      <4> QED
        BY <2>2, <2>3, <3>1, <4>1, <4>2, <4>3
    <3>5. \A x \in Sessions :
            \/ Without(g, First(order, i - 1))[x] = back[x]
            \/ Without(g, First(order, i - 1))[x] = Absent
      BY <3>4 DEF With, Without, NotBefore
    <3>6. TokensIn(Without(g, First(order, i - 1))) <= TokensIn(back)
      <4> HIDE DEF back
      <4> QED
        BY <3>5, SmallerTier
    <3>7. /\ TokensIn(Without(g, First(order, i - 1))) \in Nat /\ TokensIn(back) \in Nat
          /\ GpuCacheTokens \in Nat
      BY SlotsFinite, ReplicaAssumption
    <3> QED
      BY <3>3, <3>6, <3>7
  <2>7. \A parked \in ParkedVictims(g, d, order, n) : parked = {}
    <3>1. \A i \in 1..n : OnRelease(g[order[i]]) = "pin_gpu"
      BY <2>2, <2>3
    <3>2. \A parked \in ParkedVictims(g, d, order, n) :
            /\ \A x \in parked : \E i \in 1..n : x = order[i]
            /\ \A i \in 1..n : order[i] \in parked => OnRelease(g[order[i]]) = "offload_dram"
      BY DEF ParkedVictims, First
    <3> QED
      BY <3>1, <3>2
  <2>8. With(d, {}, g) = d
    BY WithNone
  <2>9. PICK touched \in TouchOrders(d), m \in 0..Cardinality(Held(d)) :
           /\ IsShortestPrefix(d, DramCacheTokens, touched, m)
           /\ added' = [evictions |-> e + n - Cardinality({}) + m,
                        offloads |-> o + Cardinality({})]
    BY <2>1, <2>7, <2>8
  <2>10. m = 0
    <3>1. m \in Nat
      BY HeldFinite
    <3> QED
      BY <2>9, <3>1, NoTrim, ReplicaAssumption
  <2>11. Cardinality(gone) = n /\ Cardinality({}) = 0
    BY FirstCounts, FS_EmptySet
  <2>12. added' = [evictions |-> e + Cardinality(gone), offloads |-> o]
    BY <2>3, <2>9, <2>10, <2>11
  <2>13. Gone(g, gone, now)
    BY <2>4, <2>5, <2>6 DEF Gone
  <2> QED
    BY <2>1, <2>12, <2>13
<1> QED
  BY <1>1, <1>2 DEF EnforceCapacity

(***************************************************************************)
(* One call of store.                                                      *)
(***************************************************************************)
Resident == Held(gpu) \cup Held(dram)

\* What a call of store evicts, and what it counts.
LEMMA StoreIsExact ==
  ASSUME IInv, NEW s \in Sessions, NEW entry \in Entries, entry.tokens > 0,
         Store(s, entry)
  PROVE  /\ \E gone : /\ Gone(Contending(s, entry), gone, entry.touch)
                      /\ gpu' = Without(Contending(s, entry), gone)
         /\ Contending(s, entry) \in Tier
         /\ added'.evictions = Cardinality((Resident \cup {s}) \ Resident')
         /\ added'.offloads = Cardinality(Held(dram') \ (Held(dram) \ {s}))
<1> DEFINE c == Contending(s, entry)
<1>1. PICK d, e, o :
        /\ Placed(c, d, s)
        /\ Counted(s, entry, d, e, o)
        /\ OnRelease(entry) # "pin_gpu" => TokensIn(c) <= GpuCacheTokens
        /\ EnforceCapacity(c, d, entry.touch, e, o)
  BY SettlePlaces
<1>2. /\ c \in Tier /\ d \in Tier
      /\ \A x \in Held(c) : OnRelease(c[x]) = "pin_gpu"
      /\ TokensIn(d) <= DramCacheTokens
  BY <1>1 DEF Placed
<1>3. e \in Nat /\ o \in Nat
  BY <1>1 DEF Counted
<1>4. /\ OnRelease(entry) = "pin_gpu" => Held(c) = Held(gpu) \cup {s}
      /\ OnRelease(entry) # "pin_gpu" => Held(c) = Held(gpu) \ {s}
      /\ Held(gpu) \cap Held(dram) = {}
      /\ Held(gpu) \subseteq Sessions /\ Held(dram) \subseteq Sessions
  <2>1. gpu \in [Sessions -> Entries]
    BY DEF IInv, TypeOK
  <2> QED
    BY <2>1 DEF Contending, Held, Absent, IInv, OneTier
<1> HIDE DEF c
<1>5. PICK gone : /\ Gone(c, gone, entry.touch)
                  /\ gpu' = Without(c, gone)
                  /\ added' = [evictions |-> e + Cardinality(gone), offloads |-> o]
  BY <1>1, <1>2, <1>3, LoopIsExact
<1>6. /\ dram' = d
      /\ TokensIn(c) <= GpuCacheTokens => gpu' = c
  BY <1>1, <1>2, EnforceCapacityPreserves
<1>7. gone \subseteq Held(c) /\ Held(gpu') = Held(c) \ gone
  <2>1. Held(Without(c, gone)) = Held(c) \ gone
    BY <1>2, WithoutIsTier
  <2> QED
    BY <1>5, <2>1 DEF Gone
<1>8. Held(dram') = Held(d)
  BY <1>6
<1>9. Cardinality({}) = 0 /\ Cardinality({s}) = 1
  BY FS_EmptySet, FS_Singleton
<1> DEFINE lost == (Resident \cup {s}) \ (Held(gpu') \cup Held(dram'))
           moved == Held(dram') \ (Held(dram) \ {s})
<1>10. added'.evictions = Cardinality(lost) /\ added'.offloads = Cardinality(moved)
  <2>1. CASE OnRelease(entry) = "pin_gpu"
    <3>1. Held(d) = Held(dram) \ {s} /\ e = 0 /\ o = 0
      BY <1>1, <2>1 DEF Counted
    <3>2. lost = gone /\ moved = {}
      BY <1>4, <1>7, <1>8, <2>1, <3>1 DEF Resident
    <3>3. Cardinality(gone) \in Nat
      BY <1>7, HeldFinite, FS_Subset, FS_CardinalityType
    <3> HIDE DEF lost, moved
    <3> QED
      BY <1>5, <1>9, <3>1, <3>2, <3>3
  <2>2. CASE OnRelease(entry) # "pin_gpu"
    <3>1. gone = {}
      <4>1. Held(gpu') = Held(c)
        BY <1>1, <1>6, <2>2
      <4> QED
        BY <1>7, <4>1
    <3>2. CASE Held(d) = Held(dram) \ {s} /\ e = 1 /\ o = 0
      <4>1. lost = {s} /\ moved = {}
        BY <1>4, <1>7, <1>8, <2>2, <3>1, <3>2 DEF Resident
      <4> QED
        BY <1>5, <1>9, <3>1, <3>2, <4>1
    <3>3. CASE Held(d) = Held(dram) \cup {s} /\ e = 0 /\ o = 1
      <4>1. lost = {} /\ moved = {s}
        BY <1>4, <1>7, <1>8, <2>2, <3>1, <3>3 DEF Resident
      <4> QED
        BY <1>5, <1>9, <3>1, <3>3, <4>1
    <3> QED
      BY <1>1, <2>2, <3>2, <3>3 DEF Counted
  <2> QED
    BY <2>1, <2>2
<1>11. Resident' = Held(gpu') \cup Held(dram')
  BY DEF Resident
<1> QED
  BY <1>2, <1>5, <1>10, <1>11 DEF c

LEMMA ServeIsExact ==
  ASSUME IInv, Next
  PROVE  /\ \E gone : /\ Gone(Contenders, gone, call'.entry.touch)
                      /\ gpu' = Without(Contenders, gone)
         /\ Contenders \in Tier
         /\ added'.evictions = Cardinality((Resident \cup {call'.session}) \ Resident')
         /\ added'.offloads = Cardinality(Held(dram') \ (Held(dram) \ {call'.session}))
<1>1. PICK s \in Sessions, tokens \in 1..MaxEntryTokens,
           arrival \in Arrivals, elapsed \in Latencies, gap \in Gaps :
             Serve(s, tokens, arrival, elapsed, gap)
  BY DEF Next
<1> DEFINE entry == [tokens |-> tokens, touch |-> arrival + elapsed, ret |-> arrival + gap]
<1>2. entry \in Entries /\ entry.tokens > 0
  BY ReplicaAssumption DEF Entries
<1>3. Store(s, entry) /\ call'.session = s /\ call'.entry = entry
  BY <1>1 DEF Serve
<1> HIDE DEF entry
<1>4. Contenders = Contending(s, entry)
  BY <1>3 DEF Contenders, Contending
<1> QED
  BY <1>2, <1>3, <1>4, StoreIsExact

(***************************************************************************)
(* The theorems.                                                           *)
(***************************************************************************)

\* What pressure takes from HBM is what the policy would give up first, under
\* the baseline as under the adaptive policy, dead sessions and ties included.
THEOREM LeastUrgentGoFirst == Spec => EvictsLeastUrgent
<1>1. ASSUME IInv, Next, NEW victim \in Victims, NEW other \in Held(gpu')
      PROVE  LET now == call'.entry.touch
                 abandoned(e) == e.touch + DeadSession < now
                 lost == Contenders[victim]
                 kept == gpu'[other]
             IN  /\ Policy = "lru" => lost.touch <= kept.touch
                 /\ Policy = "adaptive" /\ abandoned(kept) => abandoned(lost)
                 /\ Policy = "adaptive" /\ ~abandoned(lost) => lost.ret >= kept.ret
  <2>1. Contenders \in Tier
    BY <1>1, ServeIsExact
  <2>2. PICK gone : /\ Gone(Contenders, gone, call'.entry.touch)
                    /\ gpu' = Without(Contenders, gone)
    BY <1>1, ServeIsExact
  <2>3. /\ Held(Without(Contenders, gone)) = Held(Contenders) \ gone
        /\ \A x \in Held(Contenders) \ gone : Without(Contenders, gone)[x] = Contenders[x]
    BY <2>1, WithoutIsTier
  <2>4. victim \in gone /\ other \in Held(Contenders) \ gone
    BY <1>1, <2>2, <2>3 DEF Victims
  <2>5. gpu'[other] = Contenders[other]
    BY <2>2, <2>3, <2>4
  <2>6. ~EvictsBefore(gpu'[other], Contenders[victim], call'.entry.touch)
    BY <2>2, <2>4, <2>5 DEF Gone
  <2>7. gpu'[other] \in Entries /\ Contenders[victim] \in Entries
    BY <2>1, <2>2, <2>4, <2>5 DEF Gone, Tier, Held
  <2>8. call'.entry.touch \in Nat
    <3>1. PICK s \in Sessions, tokens \in 1..MaxEntryTokens,
               arrival \in Arrivals, elapsed \in Latencies, gap \in Gaps :
                 Serve(s, tokens, arrival, elapsed, gap)
      BY <1>1 DEF Next
    <3>2. call'.entry.touch = arrival + elapsed
      BY <3>1 DEF Serve
    <3> QED
      BY <3>2, ReplicaAssumption
  <2> DEFINE lost == Contenders[victim]
             kept == gpu'[other]
             now == call'.entry.touch
  <2>9. /\ lost.touch \in Nat /\ lost.ret \in Nat
        /\ kept.touch \in Nat /\ kept.ret \in Nat
    BY <2>7 DEF Entries
  <2>10. DeadSession \in Nat /\ now \in Nat
    BY <2>8, PolicyAssumption
  <2> HIDE DEF lost, kept, now
  <2>11. ~EvictsBefore(kept, lost, now)
    BY <2>6 DEF lost, kept, now
  <2>12. /\ Policy = "lru" => lost.touch <= kept.touch
         /\ Policy = "adaptive" /\ kept.touch + DeadSession < now =>
              lost.touch + DeadSession < now
         /\ Policy = "adaptive" /\ ~(lost.touch + DeadSession < now) => lost.ret >= kept.ret
    BY <2>9, <2>10, <2>11 DEF EvictsBefore, IsDead
  <2> QED
    BY <2>12 DEF lost, kept, now
<1>2. IInv /\ [Next]_vars =>
        [LET now == call'.entry.touch
             abandoned(e) == e.touch + DeadSession < now
         IN  \A victim \in Victims, other \in Held(gpu') :
               LET lost == Contenders[victim]
                   kept == gpu'[other]
               IN  /\ Policy = "lru" => lost.touch <= kept.touch
                   /\ Policy = "adaptive" /\ abandoned(kept) => abandoned(lost)
                   /\ Policy = "adaptive" /\ ~abandoned(lost) => lost.ret >= kept.ret]_vars
  BY <1>1
<1> QED
  BY <1>2, CacheInvariant, PTL DEF Spec, EvictsLeastUrgent

\* The loop stops as soon as the replica is within its budget: it gives up no
\* session that it could have kept beside those that were to go after it.
THEOREM NoneGoesInVain == Spec => EvictsOnlyUnderPressure
<1>1. ASSUME IInv, Next, NEW v \in Victims
      PROVE  LET notBefore ==
                   {u \in Victims :
                      ~EvictsBefore(Contenders[u], Contenders[v], call'.entry.touch)}
             IN  TokensIn(With(gpu', notBefore, Contenders)) > GpuCacheTokens
  <2>1. Contenders \in Tier
    BY <1>1, ServeIsExact
  <2>2. PICK gone : /\ Gone(Contenders, gone, call'.entry.touch)
                    /\ gpu' = Without(Contenders, gone)
    BY <1>1, ServeIsExact
  <2>3. Held(Without(Contenders, gone)) = Held(Contenders) \ gone
    BY <2>1, WithoutIsTier
  <2>4. Victims = gone
    BY <2>2, <2>3 DEF Victims, Gone
  <2>5. TokensIn(With(gpu', NotBefore(Contenders, gone, v, call'.entry.touch), Contenders))
          > GpuCacheTokens
    BY <1>1, <2>2, <2>4 DEF Gone
  <2> QED
    BY <2>4, <2>5 DEF NotBefore
<1>2. IInv /\ [Next]_vars =>
        [\A v \in Victims :
           LET notBefore ==
                 {u \in Victims :
                    ~EvictsBefore(Contenders[u], Contenders[v], call'.entry.touch)}
           IN  TokensIn(With(gpu', notBefore, Contenders)) > GpuCacheTokens]_vars
  BY <1>1
<1> QED
  BY <1>2, CacheInvariant, PTL DEF Spec, EvictsOnlyUnderPressure

\* The statistics that the benchmark compares are exact: every prefix that a
\* call loses is counted once, every one it parks is too, and nothing else is.
THEOREM CountingIsExact == Spec => LossesAreCounted
<1>1. IInv /\ [Next]_vars =>
        [LET s == call'.session
             resident == Held(gpu') \cup Held(dram')
         IN  /\ added'.evictions =
                  Cardinality((Held(gpu) \cup Held(dram) \cup {s}) \ resident)
             /\ added'.offloads =
                  Cardinality(Held(dram') \ (Held(dram) \ {s}))]_vars
  <2> SUFFICES ASSUME IInv, Next
               PROVE  /\ added'.evictions =
                           Cardinality((Held(gpu) \cup Held(dram) \cup {call'.session})
                                          \ (Held(gpu') \cup Held(dram')))
                      /\ added'.offloads =
                           Cardinality(Held(dram') \ (Held(dram) \ {call'.session}))
    OBVIOUS
  <2> QED
    BY ServeIsExact DEF Resident
<1> QED
  BY <1>1, CacheInvariant, PTL DEF Spec, LossesAreCounted

(***************************************************************************)
(* What a call leaves behind.                                              *)
(***************************************************************************)

\* After a call the replica holds no session but those it held before and the
\* one that was served: what Gateway's Complete assumes of the cache when it
\* leaves open which of them stay.
FoundWasServed == [][Resident' \subseteq Resident \cup {call'.session}]_vars

\* Nothing that a call of store does makes Replica.lookup find a session whose
\* copy was gone before.
THEOREM OnlyServedAreFound == Spec => FoundWasServed
<1>1. IInv /\ [Next]_vars => [Resident' \subseteq Resident \cup {call'.session}]_vars
  <2> SUFFICES ASSUME IInv, Next
               PROVE  Held(gpu') \cup Held(dram') \subseteq Resident \cup {call'.session}
    BY DEF Resident
  <2>1. PICK s \in Sessions, tokens \in 1..MaxEntryTokens,
             arrival \in Arrivals, elapsed \in Latencies, gap \in Gaps :
               Serve(s, tokens, arrival, elapsed, gap)
    BY DEF Next
  <2>2. /\ call'.session = s
        /\ \A x \in Sessions \ {s} : dram'[x] = dram[x] /\ gpu'[x] \in {gpu[x], Absent}
    BY <2>1, ServeIsStore, StoreEffect
  <2> QED
    BY <2>2 DEF Resident, Held, Absent
<1> QED
  BY <1>1, CacheInvariant, PTL DEF Spec, FoundWasServed

\* Under the LRU baseline host DRAM stays empty, whatever the gaps: LruPolicy
\* pins every entry and its victims are not parked either (on_release).
THEOREM BaselineParksNothing ==
  ASSUME Policy = "lru"
  PROVE  Spec => [](Held(dram) = {})
<1>1. IInv => Held(dram) = {}
  <2> SUFFICES ASSUME IInv, NEW s \in Held(dram) PROVE FALSE
    OBVIOUS
  <2>1. OnRelease(dram[s]) = "offload_dram"
    BY DEF IInv, TierMatchesPrediction
  <2> QED
    BY <2>1 DEF OnRelease
<1> QED
  BY <1>1, CacheInvariant, PTL

\* What is true of the pin threshold: a session predicted to stay away for
\* longer than the threshold and `slack' together does not stay in HBM.
LeavesHbmAfter(slack) ==
  [][call'.gap > PinThreshold + slack => call'.session \notin Held(gpu')]_vars

\* The served session stays in HBM only with its new entry, and only if that
\* entry calls for it.
LEMMA ServedStaysPinned ==
  ASSUME IInv, NEW s \in Sessions, NEW tokens \in 1..MaxEntryTokens,
         NEW arrival \in Arrivals, NEW elapsed \in Latencies, NEW gap \in Gaps,
         Serve(s, tokens, arrival, elapsed, gap), s \in Held(gpu'), Policy = "adaptive"
  PROVE  gap <= PinThreshold + elapsed
<1> DEFINE entry == [tokens |-> tokens, touch |-> arrival + elapsed, ret |-> arrival + gap]
<1>1. /\ arrival \in Nat /\ elapsed \in Nat /\ gap \in Nat /\ PinThreshold \in Nat
  BY ReplicaAssumption, PolicyAssumption
<1>2. call'.session = s /\ call'.entry = entry
  BY DEF Serve
<1>3. OnRelease(entry) = "pin_gpu"
  <2>1. PICK gone : gpu' = Without(Contenders, gone)
    <3>1. Next
      BY DEF Next
    <3> QED
      BY <3>1, ServeIsExact
  <2>2. gpu \in [Sessions -> Entries]
    BY DEF IInv, TypeOK
  <2>3. gpu'[s] \in {Contenders[s], Absent}
    BY <2>1 DEF Without
  <2>4. OnRelease(entry) # "pin_gpu" => Contenders[s] = Absent
    BY <1>2, <2>2 DEF Contenders
  <2> QED
    BY <2>3, <2>4 DEF Held, Absent
<1>4. entry.touch = arrival + elapsed /\ entry.ret = arrival + gap
  OBVIOUS
<1> HIDE DEF entry
<1>5. PredictedIdle(entry) <= PinThreshold
  BY <1>3 DEF OnRelease
<1> QED
  BY <1>1, <1>4, <1>5 DEF PredictedIdle

\* The gap is counted from the request's arrival and the idle time from its
\* completion, so the threshold is missed by the latency of the call and by no
\* more: with latencies of at most m the README's rule holds m late, and if
\* calls took no time it would hold as it is written (LongGapLeavesHbm, m = 0).
THEOREM LongGapsLeaveHbm ==
  ASSUME Policy = "adaptive", NEW m \in Nat, \A l \in Latencies : l <= m
  PROVE  Spec => LeavesHbmAfter(m)
<1>1. IInv /\ [Next]_vars =>
        [call'.gap > PinThreshold + m => call'.session \notin Held(gpu')]_vars
  <2> SUFFICES ASSUME IInv, Next, call'.session \in Held(gpu')
               PROVE  ~(call'.gap > PinThreshold + m)
    OBVIOUS
  <2>1. PICK s \in Sessions, tokens \in 1..MaxEntryTokens,
             arrival \in Arrivals, elapsed \in Latencies, gap \in Gaps :
               Serve(s, tokens, arrival, elapsed, gap)
    BY DEF Next
  <2>2. call'.session = s /\ call'.gap = gap
    BY <2>1 DEF Serve
  <2>3. gap <= PinThreshold + elapsed
    BY <2>1, <2>2, ServedStaysPinned
  <2>4. gap \in Nat /\ elapsed \in Nat /\ PinThreshold \in Nat /\ elapsed <= m
    BY ReplicaAssumption, PolicyAssumption
  <2> QED
    BY <2>2, <2>3, <2>4
<1> QED
  BY <1>1, CacheInvariant, PTL DEF Spec, LeavesHbmAfter

\* The README's rule as it is written, for calls that take no time.
THEOREM PromptCallsLeaveHbm ==
  ASSUME Policy = "adaptive", Latencies \subseteq {0}
  PROVE  Spec => LongGapLeavesHbm
<1>1. PinThreshold + 0 = PinThreshold
  BY PolicyAssumption
<1>2. Spec => LeavesHbmAfter(0)
  BY LongGapsLeaveHbm
<1>3. [call'.gap > PinThreshold + 0 => call'.session \notin Held(gpu')]_vars
        => [call'.gap > PinThreshold => call'.session \notin Held(gpu')]_vars
  BY <1>1
<1> QED
  BY <1>2, <1>3, PTL DEF LeavesHbmAfter, LongGapLeavesHbm
=============================================================================
