------------------------------ MODULE AuthQuery ------------------------------
(***************************************************************************)
(* The auth_query credential source (auth/credentials/auth_query.rs) and   *)
(* its LookupCache (auth/credentials/cache.rs): lookups of many connection *)
(* tasks, one shared lookup connection behind an async mutex, roles that   *)
(* are altered in the database, and the control plane's forget.            *)
(*                                                                         *)
(* The cache mutex is never held across an await, so each use of the cache *)
(* is one action; the client mutex is held across connect and query and is *)
(* the variable `holder`.  Time is a clock that ticks between actions.     *)
(***************************************************************************)
EXTENDS Integers, FiniteSets

CONSTANTS
  Lookups,      \* calls of lookup that can be under way at once
  Users,
  Secrets,      \* SCRAM secrets a role can have
  Unusable,     \* a secret Verifier::from_pg_secret rejects
  Absent,       \* no row, or a row whose password is NULL
  Unavailable,  \* ProviderError::Unavailable
  NoAnswer, NoEntry, Nobody,
  PositiveTtl, NegativeTtl,
  MaxEntries,   \* max_entries as configured; zero counts as one
  MaxTime,      \* bound: clock ticks in one behaviour
  MaxAlters     \* bound: role changes in one behaviour

Cacheable == Secrets \cup {Absent}
Rows == Cacheable \cup {Unusable}

ASSUME AuthQueryConstants ==
  /\ IsFiniteSet(Users)
  /\ Nobody \notin Lookups
  /\ Absent \notin Secrets /\ Unusable \notin Cacheable
  /\ {Unavailable, NoAnswer} \cap Rows = {}
  /\ NoEntry \notin [value : Cacheable, at : Nat]
  /\ {PositiveTtl, NegativeTtl, MaxEntries, MaxTime, MaxAlters} \subseteq Nat

VARIABLES
  clock,     \* Instant::now()
  role,      \* what the lookup query would return for each user
  alters,    \* role changes so far (bounds the model)
  entries,   \* LookupCache.entries, NoEntry for an absent key
  client,    \* AuthQuerySource.client is Some
  holder,    \* who holds the client mutex
  pc, user, now, row, answer,   \* the lookup's locals and its result
  last_true, \* history: when a row was last what the database had, -1 if never
  outdated   \* history: rows a forget has made obsolete

dbVars == <<role, alters, last_true>>
clientVars == <<client, holder>>
localVars == <<user, now, row>>
vars == <<clock, dbVars, entries, clientVars, pc, localVars, answer, outdated>>

Init ==
  /\ clock = 0
  /\ role \in [Users -> Rows]
  /\ alters = 0
  /\ entries = [u \in Users |-> NoEntry]
  /\ client = FALSE
  /\ holder = Nobody
  /\ pc = [t \in Lookups |-> "ended"]
  /\ user \in [Lookups -> Users]
  /\ now = [t \in Lookups |-> 0]
  /\ row = [t \in Lookups |-> NoAnswer]
  /\ answer = [t \in Lookups |-> NoAnswer]
  /\ last_true = [u \in Users |-> [r \in Rows |-> IF r = role[u] THEN 0 ELSE -1]]
  /\ outdated = [u \in Users |-> {}]
-----------------------------------------------------------------------------
(* LookupCache. *)

\* saturating_duration_since
Age(n, at) == IF n > at THEN n - at ELSE 0

Ttl(r) == IF r = Absent THEN NegativeTtl ELSE PositiveTtl

Present(cache) == {u \in Users : cache[u] # NoEntry}

\* with_capacity keeps at least one slot.
Capacity == IF MaxEntries = 0 THEN 1 ELSE MaxEntries

\* get returns Some.
Hit(u, n) == entries[u] # NoEntry /\ Age(n, entries[u].at) <= Ttl(entries[u].value)

\* What retain keeps; an entry at exactly its ttl goes.
Retained(n) ==
  [u \in Users |->
     IF entries[u] # NoEntry /\ Age(n, entries[u].at) < Ttl(entries[u].value)
     THEN entries[u] ELSE NoEntry]

\* Variant for mutation: a cache full of live entries is not shed.
EvictedButLive(n) ==
  IF Cardinality(Present(entries)) < Capacity THEN entries ELSE Retained(n)

\* evict_if_needed
Evicted(n) ==
  IF Cardinality(Present(entries)) < Capacity THEN entries
  ELSE IF Cardinality(Present(Retained(n))) < Capacity THEN Retained(n)
  ELSE [u \in Users |-> NoEntry]

\* Variant for mutation: the entry is stamped when it is inserted.
StampOnInsertion(t) == clock

\* The instant that lookup took before it looked into the cache.
Stamp(t) == now[t]
-----------------------------------------------------------------------------
(* AuthQuerySource::lookup. *)

Goto(t, step) == pc' = [pc EXCEPT ![t] = step]

\* lookup returns, or is dropped by its caller's deadline.
Return(t, result) ==
  /\ answer' = [answer EXCEPT ![t] = result]
  /\ row' = [row EXCEPT ![t] = NoAnswer]
  /\ Goto(t, "ended")

Begin(t, u) ==
  /\ pc[t] = "ended"
  /\ user' = [user EXCEPT ![t] = u]
  /\ now' = [now EXCEPT ![t] = clock]
  /\ answer' = [answer EXCEPT ![t] = NoAnswer]
  /\ Goto(t, "cache")
  /\ UNCHANGED <<clock, dbVars, entries, clientVars, row, outdated>>

CacheHit(t) ==
  /\ pc[t] = "cache"
  /\ Hit(user[t], now[t])
  /\ Return(t, entries[user[t]].value)
  /\ UNCHANGED <<clock, dbVars, entries, clientVars, user, now, outdated>>

\* get removes an entry it finds expired.
CacheMiss(t) ==
  /\ pc[t] = "cache"
  /\ ~Hit(user[t], now[t])
  /\ entries' = [entries EXCEPT ![user[t]] = NoEntry]
  /\ Goto(t, "connect")
  /\ UNCHANGED <<clock, dbVars, clientVars, localVars, answer, outdated>>

\* Variant for mutation: the guard of ensure_connected is still held when
\* query_backend locks the client again.
EnsureConnectedHolding(t) ==
  /\ pc[t] = "connect"
  /\ holder = Nobody
  /\ holder' = t
  /\ Goto(t, IF client THEN "query" ELSE "connecting")
  /\ UNCHANGED <<clock, dbVars, entries, client, localVars, answer, outdated>>

\* ensure_connected takes the client mutex; it keeps it only to connect.
EnsureConnected(t) ==
  /\ pc[t] = "connect"
  /\ holder = Nobody
  /\ holder' = IF client THEN Nobody ELSE t
  /\ Goto(t, IF client THEN "query" ELSE "connecting")
  /\ UNCHANGED <<clock, dbVars, entries, client, localVars, answer, outdated>>

Connected(t) ==
  /\ pc[t] = "connecting"
  /\ client' = TRUE
  /\ holder' = Nobody
  /\ Goto(t, "query")
  /\ UNCHANGED <<clock, dbVars, entries, localVars, answer, outdated>>

ConnectFailed(t) ==
  /\ pc[t] = "connecting"
  /\ holder' = Nobody
  /\ Return(t, Unavailable)
  /\ UNCHANGED <<clock, dbVars, entries, client, user, now, outdated>>

\* query_backend locks the client again; another lookup may have dropped it.
LockClient(t) ==
  /\ pc[t] = "query"
  /\ holder = Nobody
  /\ IF client
     THEN holder' = t /\ Goto(t, "querying") /\ UNCHANGED <<answer, row>>
     ELSE Return(t, Unavailable) /\ UNCHANGED holder
  /\ UNCHANGED <<clock, dbVars, entries, client, user, now, outdated>>

\* The database evaluates the query; the row arrives and the mutex is freed.
Answered(t) ==
  /\ pc[t] = "querying"
  /\ row' = [row EXCEPT ![t] = role[user[t]]]
  /\ holder' = Nobody
  /\ Goto(t, "store")
  /\ UNCHANGED <<clock, dbVars, entries, client, user, now, answer, outdated>>

\* The broken client is dropped so that the next lookup reconnects.
QueryFailed(t) ==
  /\ pc[t] = "querying"
  /\ client' = FALSE
  /\ holder' = Nobody
  /\ Return(t, Unavailable)
  /\ UNCHANGED <<clock, dbVars, entries, user, now, outdated>>

\* Variant for mutation: the row is cached before it is parsed.
ParsesAnything(r) == TRUE

\* Verifier::from_pg_secret accepts the row, or there is nothing to parse.
Parses(r) == r # Unusable

\* A row that can be cached is, over whatever the cache has by now.
Store(t) ==
  /\ pc[t] = "store"
  /\ IF Parses(row[t])
     THEN /\ Return(t, row[t])
          /\ entries' = [Evicted(now[t]) EXCEPT
                           ![user[t]] = [value |-> row[t], at |-> Stamp(t)]]
     ELSE Return(t, Unavailable) /\ UNCHANGED entries
  /\ UNCHANGED <<clock, dbVars, clientVars, user, now, outdated>>

\* The authentication deadline drops the lookup at an await (each step begins
\* with one): its mutex guard goes with it, the client stays as it is.
Abandon(t) ==
  /\ pc[t] # "ended"
  /\ holder' = IF holder = t THEN Nobody ELSE holder
  /\ Return(t, NoAnswer)
  /\ UNCHANGED <<clock, dbVars, entries, client, user, now, outdated>>
-----------------------------------------------------------------------------
(* The control plane, the database and time. *)

\* AuthQuerySource::forget
Forget(u) ==
  /\ entries' = [entries EXCEPT ![u] = NoEntry]
  /\ outdated' = [outdated EXCEPT ![u] = Rows \ {role[u]}]
  /\ UNCHANGED <<clock, dbVars, clientVars, pc, localVars, answer>>

\* Environment: ALTER ROLE, CREATE ROLE, DROP ROLE.
Alter(u, r) ==
  /\ alters < MaxAlters
  /\ alters' = alters + 1
  /\ r # role[u]
  /\ role' = [role EXCEPT ![u] = r]
  /\ last_true' = [last_true EXCEPT ![u][r] = clock]
  /\ outdated' = [outdated EXCEPT ![u] = @ \ {r}]
  /\ UNCHANGED <<clock, entries, clientVars, pc, localVars, answer>>

\* Environment: time passes.
Tick ==
  /\ clock < MaxTime
  /\ clock' = clock + 1
  /\ last_true' = [u \in Users |-> [last_true[u] EXCEPT ![role[u]] = clock']]
  /\ UNCHANGED <<role, alters, entries, clientVars, pc, localVars, answer, outdated>>
-----------------------------------------------------------------------------
LookupStep(t) ==
  \/ CacheHit(t) \/ CacheMiss(t)
  \/ EnsureConnected(t) \/ Connected(t) \/ ConnectFailed(t)
  \/ LockClient(t) \/ Answered(t) \/ QueryFailed(t)
  \/ Store(t) \/ Abandon(t)

Next ==
  \/ \E t \in Lookups :
       \/ \E u \in Users : Begin(t, u)
       \/ LookupStep(t)
  \/ \E u \in Users : Forget(u) \/ \E r \in Rows : Alter(u, r)
  \/ Tick

Spec == Init /\ [][Next]_vars
-----------------------------------------------------------------------------
(* Properties. *)

TypeOK ==
  /\ clock \in 0 .. MaxTime
  /\ role \in [Users -> Rows]
  /\ alters \in 0 .. MaxAlters
  /\ entries \in [Users -> {NoEntry} \cup [value : Cacheable, at : 0 .. MaxTime]]
  /\ client \in BOOLEAN
  /\ holder \in Lookups \cup {Nobody}
  /\ pc \in [Lookups -> {"ended", "cache", "connect", "connecting", "query",
                         "querying", "store"}]
  /\ user \in [Lookups -> Users]
  /\ now \in [Lookups -> 0 .. MaxTime]
  /\ row \in [Lookups -> Rows \cup {NoAnswer}]
  /\ answer \in [Lookups -> Cacheable \cup {Unavailable, NoAnswer}]
  /\ last_true \in [Users -> [Rows -> -1 .. MaxTime]]
  /\ outdated \in [Users -> SUBSET Rows]

\* The cache never holds more than max_entries users, whatever mixture of
\* live, expired and overwritten entries it meets (cache.rs evict_if_needed).
CacheBounded == Cardinality(Present(entries)) <= Capacity

\* What a lookup answers was what the database had at some moment after the
\* lookup began, or at most one ttl before it: queries that take long, answers
\* stored out of order and evictions do not stretch an entry's life (lookup in
\* auth_query.rs, get and insert in cache.rs).
AnswersFresh ==
  \A t \in Lookups : answer[t] \in Cacheable
    => last_true[user[t]][answer[t]] >= now[t] - Ttl(answer[t])

\* "Forget one user's cached entry, for the control plane's 'forget user' call
\* after an out-of-band ALTER ROLE" (auth_query.rs forget): after the call the
\* cache does not serve what the role was before.
ForgetSticks ==
  \A u \in Users : entries[u] # NoEntry => entries[u].value \notin outdated[u]

\* The client mutex is only held by a lookup that is connecting or querying:
\* a lookup never waits for itself between ensure_connected and query_backend,
\* and one dropped by its deadline or failed at any step leaves the mutex free
\* for the others (auth_query.rs ensure_connected, query_backend).
MutexHeldToWork ==
  \A t \in Lookups : holder = t <=> pc[t] \in {"connecting", "querying"}

(***************************************************************************)
(* The strengthening that makes AnswersFresh inductive: a cache entry was  *)
(* true at its stamp or later, a row on its way to the cache was true after *)
(* its lookup began, and the history follows the database.                  *)
(***************************************************************************)
EntriesTrueSinceStamp ==
  \A u \in Users : entries[u] # NoEntry
    => last_true[u][entries[u].value] >= entries[u].at

RowsTrueSinceBegin ==
  \A t \in Lookups : pc[t] = "store"
    => row[t] \in Rows /\ last_true[user[t]][row[t]] >= now[t]

HistoryCurrent ==
  /\ \A u \in Users : last_true[u][role[u]] = clock
  /\ \A u \in Users, r \in Rows : last_true[u][r] <= clock
  /\ \A t \in Lookups : now[t] <= clock

FreshInv ==
  /\ TypeOK
  /\ HistoryCurrent
  /\ RowsTrueSinceBegin
  /\ EntriesTrueSinceStamp
  /\ AnswersFresh
=============================================================================
