----------------------------- MODULE SessionStore -----------------------------
(***************************************************************************)
(* The two session stores of agentserve/state.py: InMemorySessionStore, an *)
(* LRU dict whose entries expire, and RedisSessionStore, whose writes may  *)
(* fail and whose lifetime is counted in whole seconds.  Homes and         *)
(* last-seen times are kept in two tables by the same code; this is one.   *)
(*                                                                         *)
(* Neither store awaits, so each operation is one atomic step.  A table is *)
(* an OrderedDict: a sequence of entries, the least recently used first.   *)
(* Time is a clock whose unit is a fraction of a second.                   *)
(***************************************************************************)
EXTENDS Integers, Sequences, FiniteSets

CONSTANTS
  Sessions, Values,  \* keys and what is kept for them
  NoValue,           \* Python's None
  MaxSessions,       \* InMemorySessionStore.max_sessions
  Ttl,               \* ttl_s, in units of the clock
  TicksPerSecond,    \* the units of the clock in one second
  Kinds,             \* the stores build_session_store may return
  MaxTime            \* bound: the end of the clock

ASSUME StoreAssumption ==
  /\ IsFiniteSet(Sessions)
  /\ NoValue \notin Values
  /\ MaxSessions \in Nat \ {0}        \* load_settings refuses zero
  /\ Ttl \in Nat \ {0}
  /\ TicksPerSecond \in Nat \ {0}
  /\ Kinds \subseteq {"memory", "redis"}
  /\ MaxTime \in Nat

VARIABLES
  kind,     \* which store this deployment uses
  clock,    \* time.time()
  table,    \* the entries
  written,  \* history: the last write for each session that met no fault
  since     \* history: the sessions used since each session's own last use
vars == <<kind, clock, table, written, since>>

Entries == [session : Sessions, value : Values, expires : Nat]
Unwritten == [value |-> NoValue, at |-> 0]

Positions(s) == {i \in DOMAIN table : table[i].session = s}
Has(s) == Positions(s) # {}
EntryOf(s) == table[CHOOSE i \in Positions(s) : TRUE]

\* Mutant: the old entry of the session stays.
PoppedNever(s) == table

\* dict.pop: the table without the entry of s.
Popped(s) ==
  IF Has(s)
  THEN LET i == CHOOSE i \in Positions(s) : TRUE
       IN  SubSeq(table, 1, i - 1) \o SubSeq(table, i + 1, Len(table))
  ELSE table

\* Mutants: the table is not bounded; the newest entry is given up.
BoundedNever(t) == t
BoundedNewest(t) == IF Len(t) > MaxSessions THEN SubSeq(t, 1, MaxSessions) ELSE t

\* popitem(last=False) until the table is within its bound.
Bounded(t) ==
  IF Len(t) > MaxSessions THEN SubSeq(t, Len(t) - MaxSessions + 1, Len(t)) ELSE t

\* The lifetime of an entry; redis-py takes whole seconds.
Lifetime ==
  IF kind = "memory" THEN Ttl ELSE (Ttl \div TicksPerSecond) * TicksPerSecond

\* Mutants: nothing expires; an entry is expired at one moment only.
ExpiredNever(e) == FALSE
ExpiredExactly(e) == clock = e.expires

\* The in-memory entry outlives its last moment, Redis' does not.
Expired(e) == IF kind = "memory" THEN clock > e.expires ELSE clock >= e.expires

\* What a get answers if nothing fails.
Known(s) == IF Has(s) /\ ~Expired(EntryOf(s)) THEN EntryOf(s).value ELSE NoValue

Use(s) == since' = [t \in Sessions |-> IF t = s THEN {} ELSE since[t] \cup {s}]

\* get_home, get_last_seen of the in-memory store: an expired entry is popped,
\* a live one becomes the most recently used; its lifetime is not renewed.  A
\* miss, and any get of Redis, changes nothing.
Get(s) ==
  /\ kind = "memory" /\ Has(s)
  /\ \/ /\ Expired(EntryOf(s))
        /\ table' = Popped(s)
        /\ UNCHANGED since
     \/ /\ ~Expired(EntryOf(s))
        /\ table' = Append(Popped(s), EntryOf(s))
        /\ Use(s)
  /\ UNCHANGED <<kind, clock, written>>

\* set_home, set_last_seen.  Redis refuses a lifetime of zero seconds; that
\* error is swallowed like any other.  A write that meets a fault changes
\* nothing at all.
Put(s, v) ==
  LET placed == Append(Popped(s), [session |-> s, value |-> v, expires |-> clock + Lifetime])
  IN  /\ \/ kind = "memory" /\ table' = Bounded(placed)
         \/ kind = "redis" /\ Lifetime > 0 /\ table' = placed
         \/ kind = "redis" /\ Lifetime = 0 /\ UNCHANGED table
      /\ written' = [written EXCEPT ![s] = [value |-> v, at |-> clock]]
      /\ Use(s)
      /\ UNCHANGED <<kind, clock>>

\* The process restarts, or Redis comes back empty.
Restart ==
  /\ table' = <<>>
  /\ written' = [s \in Sessions |-> Unwritten]
  /\ since' = [s \in Sessions |-> {}]
  /\ UNCHANGED <<kind, clock>>

Tick ==
  /\ clock < MaxTime
  /\ clock' = clock + 1
  /\ UNCHANGED <<kind, table, written, since>>

Init ==
  /\ kind \in Kinds
  /\ clock = 0
  /\ table = <<>>
  /\ written = [s \in Sessions |-> Unwritten]
  /\ since = [s \in Sessions |-> {}]

Next ==
  \/ \E s \in Sessions : Get(s) \/ \E v \in Values : Put(s, v)
  \/ Restart
  \/ Tick

Spec == Init /\ [][Next]_vars

(***************************************************************************)
(* Properties                                                              *)
(***************************************************************************)

\* A long-running gateway does not leak: between calls the in-memory table is
\* within max_sessions (InMemorySessionStore._put).
WithinBound == kind = "memory" => Len(table) <= MaxSessions

\* A table is a dict, one entry per session, and a bounded one in memory.
StoreTypeOK ==
  /\ table \in Seq(Entries)
  /\ \A i, j \in DOMAIN table : table[i].session = table[j].session => i = j
  /\ WithinBound
  /\ written \in [Sessions -> [value : Values \cup {NoValue}, at : Nat]]
  /\ since \in [Sessions -> SUBSET Sessions]

\* An answer is the last write that reached the store, and no older than the
\* TTL: reading an entry does not keep it alive (_get).
AnswersAreLastWrites ==
  \A s \in Sessions :
    Known(s) # NoValue =>
      /\ Known(s) = written[s].value
      /\ clock - written[s].at <= Ttl

\* What must be remembered is: a write that met no fault is answered for the
\* TTL, less one second for Redis, and in memory as long as fewer than
\* max_sessions other sessions have been used since its own last use.
KeptFor ==
  IF kind = "memory" THEN Ttl
  ELSE IF Ttl > TicksPerSecond THEN Ttl - TicksPerSecond ELSE 0

RemembersRecent ==
  \A s \in Sessions :
    /\ written[s].value # NoValue
    /\ clock - written[s].at <= KeptFor
    /\ kind = "memory" => Cardinality(since[s]) < MaxSessions
    => Known(s) = written[s].value

Map == INSTANCE SessionMap WITH
  known <- [s \in Sessions |-> Known(s)],
  latest <- [s \in Sessions |-> written[s].value]

\* Both stores are the map that module Gateway assumes.
ImplementsMap == Map!Spec
=============================================================================
