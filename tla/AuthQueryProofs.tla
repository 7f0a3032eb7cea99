-------------------------- MODULE AuthQueryProofs --------------------------
(***************************************************************************)
(* Proofs about module AuthQuery, for any number of lookups and users, any *)
(* ttls and any cache size.                                                *)
(***************************************************************************)
EXTENDS AuthQuery, FiniteSetTheorems, TLAPS

\* What evict_if_needed leaves is a cache whose entries were there before.
LEMMA EvictionOnlyRemoves ==
  ASSUME NEW n, NEW u \in Users
  PROVE  Evicted(n)[u] \in {entries[u], NoEntry} \/ Evicted(n) = entries
BY DEF Evicted, Retained

\* A hit was stamped at most one ttl before the lookup began.
LEMMA HitIsYoung ==
  ASSUME NEW n \in Nat, NEW at \in Nat, NEW d \in Nat, Age(n, at) <= d
  PROVE  at >= n - d
BY DEF Age

\* When only the history moves on, what was fresh stays fresh.
LEMMA HistoryGrows ==
  ASSUME FreshInv, TypeOK', HistoryCurrent',
         UNCHANGED <<entries, pc, user, now, row, answer>>,
         \A w \in Users, s \in Rows : last_true'[w][s] >= last_true[w][s]
  PROVE  FreshInv'
<1> USE AuthQueryConstants DEF FreshInv, Cacheable, Rows
<1>1. \A w \in Users, s \in Rows : last_true'[w][s] \in Int /\ last_true[w][s] \in Int
  BY DEF TypeOK
<1>2. RowsTrueSinceBegin'
  BY <1>1 DEF TypeOK, RowsTrueSinceBegin
<1>3. EntriesTrueSinceStamp'
  <2> SUFFICES ASSUME NEW u \in Users, entries[u] # NoEntry
               PROVE  last_true'[u][entries[u].value] >= entries[u].at
    BY DEF EntriesTrueSinceStamp
  <2>1. entries[u].value \in Rows /\ entries[u].at \in Int
    BY DEF TypeOK
  <2> QED
    BY <1>1, <2>1 DEF EntriesTrueSinceStamp
<1>4. AnswersFresh'
  <2> SUFFICES ASSUME NEW t \in Lookups, answer[t] \in Cacheable
               PROVE  last_true'[user[t]][answer[t]] >= now[t] - Ttl(answer[t])
    BY DEF AnswersFresh, Ttl
  <2>1. user[t] \in Users /\ now[t] \in Int /\ Ttl(answer[t]) \in Int
    BY DEF TypeOK, Ttl
  <2> QED
    BY <1>1, <2>1 DEF AnswersFresh
<1> QED BY <1>2, <1>3, <1>4

\* The inductive invariant: cache entries, rows under way and answers were all
\* true when their stamps say, so that get's ttl test bounds how old an answer
\* is (auth_query.rs lookup, cache.rs get, insert_positive, insert_negative).
THEOREM FreshInvariant == Spec => []FreshInv
<1> USE AuthQueryConstants DEF Cacheable, Rows
<1>1. Init => FreshInv
  <2> SUFFICES ASSUME Init PROVE FreshInv
    OBVIOUS
  <2>1. TypeOK
    <3>1. last_true \in [Users -> [Rows -> -1 .. MaxTime]]
      BY DEF Init
    <3>2. outdated \in [Users -> SUBSET Rows]
      BY DEF Init
    <3>3. clock \in 0 .. MaxTime /\ alters \in 0 .. MaxAlters /\ now \in [Lookups -> 0 .. MaxTime]
      BY DEF Init
    <3>4. /\ entries \in [Users -> {NoEntry} \cup [value : Cacheable, at : 0 .. MaxTime]]
          /\ row \in [Lookups -> Rows \cup {NoAnswer}]
          /\ answer \in [Lookups -> Cacheable \cup {Unavailable, NoAnswer}]
      BY DEF Init
    <3> QED
      BY <3>1, <3>2, <3>3, <3>4 DEF Init, TypeOK
  <2>2. HistoryCurrent
    BY DEF Init, HistoryCurrent
  <2>3. RowsTrueSinceBegin /\ EntriesTrueSinceStamp /\ AnswersFresh
    BY DEF Init, RowsTrueSinceBegin, EntriesTrueSinceStamp, AnswersFresh
  <2> QED
    BY <2>1, <2>2, <2>3 DEF FreshInv
<1>2. FreshInv /\ [Next]_vars => FreshInv'
  <2> SUFFICES ASSUME FreshInv, [Next]_vars PROVE FreshInv'
    OBVIOUS
  <2> USE DEF FreshInv
  <2>1. CASE UNCHANGED vars
    BY <2>1 DEF vars, dbVars, clientVars, localVars, TypeOK, HistoryCurrent,
                RowsTrueSinceBegin, EntriesTrueSinceStamp, AnswersFresh
  <2>2. ASSUME NEW t \in Lookups, NEW u \in Users, Begin(t, u) PROVE FreshInv'
    <3> USE <2>2 DEF Begin, Goto, dbVars, clientVars
    <3>1. TypeOK'
      BY DEF TypeOK
    <3>2. HistoryCurrent' /\ RowsTrueSinceBegin'
      BY DEF TypeOK, HistoryCurrent, RowsTrueSinceBegin
    <3>3. EntriesTrueSinceStamp' /\ AnswersFresh'
      BY DEF TypeOK, EntriesTrueSinceStamp, AnswersFresh
    <3> QED BY <3>1, <3>2, <3>3
  <2>3. ASSUME NEW t \in Lookups, CacheHit(t) PROVE FreshInv'
    <3> USE <2>3 DEF CacheHit, Return, Goto, dbVars, clientVars
    <3> DEFINE e == entries[user[t]]
    <3>1. /\ e \in [value : Cacheable, at : 0 .. MaxTime]
          /\ Age(now[t], e.at) <= Ttl(e.value)
          /\ last_true[user[t]][e.value] >= e.at
      BY DEF Hit, TypeOK, EntriesTrueSinceStamp
    <3>2. e.value \in Cacheable /\ e.at \in Nat /\ now[t] \in Nat /\ Ttl(e.value) \in Nat
      BY <3>1 DEF TypeOK, Ttl
    <3>3. e.at >= now[t] - Ttl(e.value)
      BY <3>1, <3>2, HitIsYoung
    <3>4. last_true[user[t]][e.value] \in Int
      BY <3>2 DEF TypeOK
    <3>5. last_true[user[t]][e.value] >= now[t] - Ttl(e.value)
      BY <3>1, <3>2, <3>3, <3>4
    <3>6. TypeOK'
      BY <3>2 DEF TypeOK
    <3>7. AnswersFresh'
      <4> SUFFICES ASSUME NEW v \in Lookups, answer'[v] \in Cacheable
                   PROVE  last_true'[user'[v]][answer'[v]] >= now'[v] - Ttl(answer'[v])
        BY DEF AnswersFresh, Ttl
      <4>1. CASE v = t
        BY <4>1, <3>5 DEF TypeOK
      <4>2. CASE v # t
        BY <4>2 DEF TypeOK, AnswersFresh
      <4> QED BY <4>1, <4>2
    <3>8. HistoryCurrent' /\ RowsTrueSinceBegin' /\ EntriesTrueSinceStamp'
      BY DEF TypeOK, HistoryCurrent, RowsTrueSinceBegin, EntriesTrueSinceStamp
    <3> QED BY <3>6, <3>7, <3>8
  <2>4. ASSUME NEW t \in Lookups, CacheMiss(t) PROVE FreshInv'
    <3> USE <2>4 DEF CacheMiss, Goto, dbVars, clientVars, localVars
    <3>1. TypeOK'
      BY DEF TypeOK
    <3>2. HistoryCurrent' /\ RowsTrueSinceBegin' /\ EntriesTrueSinceStamp' /\ AnswersFresh'
      BY DEF TypeOK, HistoryCurrent, RowsTrueSinceBegin, EntriesTrueSinceStamp, AnswersFresh
    <3> QED BY <3>1, <3>2
  <2>5. ASSUME NEW t \in Lookups, EnsureConnected(t) \/ Connected(t) PROVE FreshInv'
    <3> USE <2>5 DEF EnsureConnected, Connected, Goto, dbVars, localVars
    <3>1. TypeOK'
      BY DEF TypeOK
    <3>2. HistoryCurrent' /\ RowsTrueSinceBegin' /\ EntriesTrueSinceStamp' /\ AnswersFresh'
      BY DEF TypeOK, HistoryCurrent, RowsTrueSinceBegin, EntriesTrueSinceStamp, AnswersFresh
    <3> QED BY <3>1, <3>2
  <2>6. ASSUME NEW t \in Lookups,
               ConnectFailed(t) \/ LockClient(t) \/ QueryFailed(t) \/ Abandon(t)
        PROVE  FreshInv'
    <3> USE <2>6 DEF ConnectFailed, LockClient, QueryFailed, Abandon, Return, Goto,
                     dbVars, clientVars
    <3>1. TypeOK'
      BY DEF TypeOK
    <3>2. HistoryCurrent' /\ RowsTrueSinceBegin' /\ EntriesTrueSinceStamp'
      BY DEF TypeOK, HistoryCurrent, RowsTrueSinceBegin, EntriesTrueSinceStamp
    <3>3. AnswersFresh'
      BY DEF TypeOK, AnswersFresh
    <3> QED BY <3>1, <3>2, <3>3
  <2>7. ASSUME NEW t \in Lookups, Answered(t) PROVE FreshInv'
    <3> USE <2>7 DEF Answered, Goto, dbVars
    <3>1. TypeOK'
      BY DEF TypeOK
    <3>2. RowsTrueSinceBegin'
      BY DEF TypeOK, HistoryCurrent, RowsTrueSinceBegin
    <3>3. HistoryCurrent' /\ EntriesTrueSinceStamp' /\ AnswersFresh'
      BY DEF TypeOK, HistoryCurrent, EntriesTrueSinceStamp, AnswersFresh
    <3> QED BY <3>1, <3>2, <3>3
  <2>8. ASSUME NEW t \in Lookups, Store(t) PROVE FreshInv'
    <3> USE <2>8 DEF Store, Return, Goto, dbVars, clientVars, Parses, Stamp
    <3>1. CASE row[t] = Unusable
      <4>1. TypeOK'
        BY <3>1 DEF TypeOK
      <4>2. HistoryCurrent' /\ EntriesTrueSinceStamp'
        BY <3>1 DEF TypeOK, HistoryCurrent, EntriesTrueSinceStamp
      <4>3. RowsTrueSinceBegin'
        BY <3>1 DEF TypeOK, RowsTrueSinceBegin
      <4>4. AnswersFresh'
        BY <3>1 DEF TypeOK, AnswersFresh
      <4> QED BY <4>1, <4>2, <4>3, <4>4
    <3>2. CASE row[t] # Unusable
      <4>1. row[t] \in Cacheable /\ last_true[user[t]][row[t]] >= now[t]
        BY <3>2 DEF RowsTrueSinceBegin
      <4> DEFINE kept == Evicted(now[t])
                 new == [value |-> row[t], at |-> now[t]]
      <4>2. entries' = [kept EXCEPT ![user[t]] = new]
        BY <3>2
      <4>3. kept \in [Users -> {NoEntry} \cup [value : Cacheable, at : 0 .. MaxTime]]
        BY DEF Evicted, Retained, TypeOK
      <4>4. \A u \in Users : kept[u] \in {entries[u], NoEntry}
        BY EvictionOnlyRemoves
      <4>5. TypeOK'
        BY <3>2, <4>1, <4>2, <4>3 DEF TypeOK
      <4> HIDE DEF kept
      <4>6. EntriesTrueSinceStamp'
        <5> SUFFICES ASSUME NEW u \in Users, entries'[u] # NoEntry
                     PROVE  last_true'[u][entries'[u].value] >= entries'[u].at
          BY DEF EntriesTrueSinceStamp
        <5>1. CASE u = user[t]
          BY <5>1, <4>1, <4>2, <4>3 DEF TypeOK
        <5>2. CASE u # user[t]
          BY <5>2, <4>2, <4>3, <4>4 DEF TypeOK, EntriesTrueSinceStamp
        <5> QED BY <5>1, <5>2
      <4>7. AnswersFresh'
        <5> SUFFICES ASSUME NEW v \in Lookups, answer'[v] \in Cacheable
                     PROVE  last_true'[user'[v]][answer'[v]] >= now'[v] - Ttl(answer'[v])
          BY DEF AnswersFresh, Ttl
        <5>1. CASE v = t
          <6>1. answer'[v] = row[t] /\ user'[v] = user[t] /\ now'[v] = now[t]
            BY <5>1, <3>2 DEF TypeOK
          <6>2. Ttl(row[t]) \in Nat /\ now[t] \in Nat /\ last_true[user[t]][row[t]] \in Int
            BY <4>1 DEF TypeOK, Ttl
          <6> QED BY <6>1, <6>2, <4>1
        <5>2. CASE v # t
          BY <5>2, <3>2 DEF TypeOK, AnswersFresh
        <5> QED BY <5>1, <5>2
      <4>8. HistoryCurrent'
        BY <3>2 DEF HistoryCurrent
      <4>9. RowsTrueSinceBegin'
        BY <3>2 DEF TypeOK, RowsTrueSinceBegin
      <4> QED BY <4>5, <4>6, <4>7, <4>8, <4>9
    <3> QED BY <3>1, <3>2
  <2>9. ASSUME NEW u \in Users, Forget(u) PROVE FreshInv'
    <3> USE <2>9 DEF Forget, dbVars, clientVars, localVars
    <3>1. TypeOK'
      BY DEF TypeOK
    <3>2. HistoryCurrent' /\ RowsTrueSinceBegin' /\ EntriesTrueSinceStamp' /\ AnswersFresh'
      BY DEF TypeOK, HistoryCurrent, RowsTrueSinceBegin, EntriesTrueSinceStamp, AnswersFresh
    <3> QED BY <3>1, <3>2
  <2>10. ASSUME NEW u \in Users, NEW r \in Rows, Alter(u, r) PROVE FreshInv'
    <3> USE <2>10 DEF Alter, clientVars, localVars
    <3>1. TypeOK'
      <4>1. last_true' \in [Users -> [Rows -> -1 .. MaxTime]]
        <5>1. last_true[u] \in [Rows -> -1 .. MaxTime]
          BY DEF TypeOK
        <5>2. MaxTime \in Nat /\ clock \in 0 .. MaxTime
          BY DEF TypeOK
        <5>3. clock \in -1 .. MaxTime
          BY <5>2
        <5>4. [last_true[u] EXCEPT ![r] = clock] \in [Rows -> -1 .. MaxTime]
          BY <5>1, <5>3
        <5> QED
          BY <5>4 DEF TypeOK
      <4>2. outdated' \in [Users -> SUBSET Rows] /\ role' \in [Users -> Rows]
            /\ alters' \in 0 .. MaxAlters
        BY DEF TypeOK
      <4> QED
        BY <4>1, <4>2 DEF TypeOK
    <3>2. \A w \in Users, s \in Rows :
            last_true'[w][s] = IF w = u /\ s = r THEN clock ELSE last_true[w][s]
      BY DEF TypeOK
    <3>3. HistoryCurrent'
      BY <3>2 DEF TypeOK, HistoryCurrent
    <3>4. \A w \in Users, s \in Rows : last_true'[w][s] >= last_true[w][s]
      BY <3>2 DEF TypeOK, HistoryCurrent
    <3> QED BY <3>1, <3>3, <3>4, HistoryGrows
  <2>11. CASE Tick
    <3> USE <2>11 DEF Tick, clientVars, localVars
    <3>1. TypeOK'
      BY DEF TypeOK
    <3>2. \A w \in Users, s \in Rows :
            last_true'[w][s] = IF s = role[w] THEN clock + 1 ELSE last_true[w][s]
      BY DEF TypeOK
    <3>3. HistoryCurrent'
      BY <3>2 DEF TypeOK, HistoryCurrent
    <3>4. \A w \in Users, s \in Rows : last_true'[w][s] >= last_true[w][s]
      BY <3>2 DEF TypeOK, HistoryCurrent
    <3> QED BY <3>1, <3>3, <3>4, HistoryGrows
  <2> QED
    BY <2>1, <2>2, <2>3, <2>4, <2>5, <2>6, <2>7, <2>8, <2>9, <2>10, <2>11
    DEF Next, LookupStep
<1> QED
  BY <1>1, <1>2, PTL DEF Spec

\* Every lookup is at a point of lookup() with a user, a row and an answer of
\* the right kind, and clocks, stamps and the mutex holder stay in range, for
\* any number of lookups and users (auth_query.rs lookup, cache.rs).
THEOREM TypeCorrect == Spec => []TypeOK
<1>1. FreshInv => TypeOK
  BY DEF FreshInv
<1> QED
  BY <1>1, FreshInvariant, PTL

\* What a lookup answers was the database's row at most one ttl before the
\* lookup began, for any number of concurrent lookups (auth_query.rs lookup).
THEOREM AnswersAreFresh == Spec => []AnswersFresh
<1>1. FreshInv => AnswersFresh
  BY DEF FreshInv
<1> QED
  BY <1>1, FreshInvariant, PTL
-----------------------------------------------------------------------------
(* The size of the cache. *)

\* A cache with fewer users in it is no larger.
LEMMA FewerEntries ==
  ASSUME NEW S \in SUBSET Users, NEW T \in SUBSET Users, S \subseteq T
  PROVE  /\ Cardinality(S) \in Nat /\ Cardinality(T) \in Nat
         /\ Cardinality(S) <= Cardinality(T)
BY AuthQueryConstants, FS_Subset, FS_CardinalityType

\* evict_if_needed makes room for one more entry.
LEMMA EvictionMakesRoom ==
  ASSUME NEW n
  PROVE  Cardinality(Present(Evicted(n))) < Capacity
<1> USE AuthQueryConstants
<1>1. Capacity \in Nat /\ Capacity > 0
  BY DEF Capacity
<1>2. Present([u \in Users |-> NoEntry]) = {}
  BY DEF Present
<1>3. Cardinality({}) = 0
  BY FS_EmptySet
<1> QED
  BY <1>1, <1>2, <1>3 DEF Evicted

\* The cache never holds more than max_entries users (cache.rs
\* evict_if_needed), for every size of the cache and set of users.
THEOREM CacheStaysBounded == Spec => []CacheBounded
<1> USE AuthQueryConstants
<1>1. Init => CacheBounded
  <2>1. Capacity \in Nat
    BY DEF Capacity
  <2>2. Init => Present(entries) = {}
    BY DEF Init, Present
  <2> QED
    BY <2>1, <2>2, FS_EmptySet DEF CacheBounded
<1>2. FreshInv /\ CacheBounded /\ [Next]_vars => CacheBounded'
  <2> SUFFICES ASSUME FreshInv, CacheBounded, [Next]_vars PROVE CacheBounded'
    OBVIOUS
  <2>1. Capacity \in Nat /\ Capacity' = Capacity
    BY DEF Capacity
  <2>2. ASSUME Present(entries') \subseteq Present(entries) PROVE CacheBounded'
    <3>1. /\ Cardinality(Present(entries')) \in Nat /\ Cardinality(Present(entries)) \in Nat
          /\ Cardinality(Present(entries')) <= Cardinality(Present(entries))
      BY <2>2, FewerEntries DEF Present
    <3> QED
      BY <2>1, <3>1 DEF CacheBounded, Present
  <2>3. ASSUME UNCHANGED entries PROVE CacheBounded'
    BY <2>2, <2>3
  <2>4. ASSUME NEW u \in Users, entries' = [entries EXCEPT ![u] = NoEntry] PROVE CacheBounded'
    BY <2>2, <2>4 DEF Present, FreshInv, TypeOK
  <2>5. ASSUME NEW t \in Lookups, Store(t) PROVE CacheBounded'
    <3>1. CASE Parses(row[t])
      <4> DEFINE kept == Present(Evicted(now[t]))
      <4>1. Present(entries') \subseteq kept \cup {user[t]}
        <5>1. DOMAIN Evicted(now[t]) = Users
          BY DEF Evicted, Retained, FreshInv, TypeOK
        <5>2. \A w \in Users \ {user[t]} : entries'[w] = Evicted(now[t])[w]
          BY <2>5, <3>1, <5>1 DEF Store
        <5> QED
          BY <5>2 DEF Present
      <4>2. user[t] \in Users /\ kept \in SUBSET Users
        BY DEF FreshInv, TypeOK, Present
      <4>3. Cardinality(kept) < Capacity
        BY EvictionMakesRoom
      <4> HIDE DEF kept
      <4>4. IsFiniteSet(kept) /\ Cardinality(kept) \in Nat
        BY <4>2, FS_Subset, FS_CardinalityType
      <4>5. Cardinality(kept \cup {user[t]}) <= Cardinality(kept) + 1
        <5>1. CASE user[t] \in kept
          <6>1. kept \cup {user[t]} = kept
            BY <5>1
          <6> QED BY <4>4, <6>1
        <5>2. CASE user[t] \notin kept
          <6>1. Cardinality(kept \cup {user[t]}) = Cardinality(kept) + 1
            BY <4>4, <5>2, FS_AddElement
          <6> QED BY <4>4, <6>1
        <5> QED BY <5>1, <5>2
      <4>6. Present(entries') \in SUBSET Users /\ kept \cup {user[t]} \in SUBSET Users
        BY <4>2 DEF Present
      <4>7. /\ Cardinality(Present(entries')) <= Cardinality(kept \cup {user[t]})
            /\ Cardinality(Present(entries')) \in Nat
            /\ Cardinality(kept \cup {user[t]}) \in Nat
        BY <4>1, <4>6, FewerEntries
      <4>8. Cardinality(Present(entries')) <= Capacity
        BY <2>1, <4>3, <4>4, <4>5, <4>7
      <4> QED
        BY <2>1, <4>8 DEF CacheBounded, Present
    <3>2. CASE ~Parses(row[t])
      BY <2>3, <2>5, <3>2 DEF Store
    <3> QED BY <3>1, <3>2
  <2>6. CASE UNCHANGED vars
    BY <2>3, <2>6 DEF vars
  <2>7. ASSUME NEW t \in Lookups, NEW u \in Users,
               \/ Begin(t, u) \/ CacheHit(t) \/ EnsureConnected(t) \/ Connected(t) \/ ConnectFailed(t)
               \/ LockClient(t) \/ Answered(t) \/ QueryFailed(t) \/ Abandon(t)
        PROVE  CacheBounded'
    BY <2>3, <2>7 DEF Begin, CacheHit, EnsureConnected, LockClient, Connected,
                      ConnectFailed, Answered, QueryFailed, Abandon
  <2>8. ASSUME NEW t \in Lookups, CacheMiss(t) PROVE CacheBounded'
    BY <2>4, <2>8 DEF CacheMiss, FreshInv, TypeOK
  <2>9. ASSUME NEW u \in Users, Forget(u) \/ \E r \in Rows : Alter(u, r) PROVE CacheBounded'
    BY <2>3, <2>4, <2>9 DEF Forget, Alter
  <2>10. CASE Tick
    BY <2>3, <2>10 DEF Tick
  <2>11. \A t \in Lookups : user[t] \in Users
    BY DEF FreshInv, TypeOK
  <2> QED
    BY <2>5, <2>6, <2>7, <2>8, <2>9, <2>10, <2>11 DEF Next, LookupStep
<1> QED
  BY <1>1, <1>2, FreshInvariant, PTL DEF Spec
-----------------------------------------------------------------------------
(* The client mutex. *)

\* The client mutex is held exactly by a lookup that is connecting or querying
\* (auth_query.rs ensure_connected, query_backend), for any number of lookups.
THEOREM MutexIsSafe == Spec => []MutexHeldToWork
<1> USE AuthQueryConstants DEF MutexHeldToWork
<1>1. Init => MutexHeldToWork
  BY DEF Init
<1>2. FreshInv /\ MutexHeldToWork /\ [Next]_vars => MutexHeldToWork'
  <2> SUFFICES ASSUME FreshInv, MutexHeldToWork, [Next]_vars PROVE MutexHeldToWork'
    OBVIOUS
  <2>1. pc \in [Lookups -> {"ended", "cache", "connect", "connecting", "query",
                            "querying", "store"}]
    BY DEF FreshInv, TypeOK
  <2>2. CASE UNCHANGED <<pc, holder>>
    BY <2>2
  <2>3. ASSUME NEW t \in Lookups, NEW u \in Users, Begin(t, u) PROVE MutexHeldToWork'
    BY <2>1, <2>3 DEF Begin, Goto, clientVars
  <2>4. ASSUME NEW t \in Lookups, CacheHit(t) \/ CacheMiss(t) \/ Store(t) PROVE MutexHeldToWork'
    BY <2>1, <2>4 DEF CacheHit, CacheMiss, Store, Return, Goto, clientVars
  <2>5. ASSUME NEW t \in Lookups, EnsureConnected(t) \/ LockClient(t) PROVE MutexHeldToWork'
    BY <2>1, <2>5 DEF EnsureConnected, LockClient, Return, Goto
  <2>6. ASSUME NEW t \in Lookups,
               Connected(t) \/ ConnectFailed(t) \/ Answered(t) \/ QueryFailed(t)
        PROVE  MutexHeldToWork'
    BY <2>1, <2>6 DEF Connected, ConnectFailed, Answered, QueryFailed, Return, Goto
  <2>7. ASSUME NEW t \in Lookups, Abandon(t) PROVE MutexHeldToWork'
    BY <2>1, <2>7 DEF Abandon, Return, Goto
  <2>8. ASSUME NEW u \in Users, Forget(u) \/ \E r \in Rows : Alter(u, r)
        PROVE  MutexHeldToWork'
    BY <2>2, <2>8 DEF Forget, Alter, clientVars
  <2>9. CASE UNCHANGED vars \/ Tick
    BY <2>2, <2>9 DEF vars, Tick, clientVars
  <2> QED
    BY <2>3, <2>4, <2>5, <2>6, <2>7, <2>8, <2>9 DEF Next, LookupStep
<1> QED
  BY <1>1, <1>2, FreshInvariant, PTL DEF Spec
=============================================================================
