------------------------------ MODULE Sessions ------------------------------
(***************************************************************************)
(* The shared state of the proxy and the connection tasks that race on it: *)
(* the accept loop (server.rs), the connection permits (conn_registry.rs), *)
(* the session registry with its drop guards (backend/registry.rs), and    *)
(* the skeleton of one task's life (Conn::handle in conn.rs).              *)
(*                                                                         *)
(* A task is one spawned connection.  Every action is one critical section *)
(* or one stretch of code between two awaits; what happens on the wire     *)
(* inside the startup dialogue is module Startup.  Both registry maps are  *)
(* total functions here, NoLink standing for an absent entry.              *)
(*                                                                         *)
(* A backend link is an Arc<Backend>: it is open exactly while somebody    *)
(* refers to it (a Conn, a cancel handler, or a registry map).             *)
(***************************************************************************)
EXTENDS Integers, FiniteSets

CONSTANTS
  Tasks,       \* connection tasks; a task slot is reused after it ends
  Keys,        \* proxy cancel keys SessionKeySecret::new can mint
  NoKey,       \* session_key_secret = None
  Links,       \* backend server processes a link can be opened to
  NoLink,      \* backend = None, absent map entry
  Keyless,     \* processes that send no BackendKeyData during startup
  MaxConns,    \* limits.max_connections
  IdSpace,     \* 2^32 in the program: next_id is an AtomicI32 and wraps
  MaxAccepts   \* bound: connections accepted in one behaviour

ASSUME SessionConstants ==
  /\ IsFiniteSet(Tasks)
  /\ NoKey \notin Keys
  /\ NoLink \notin Links
  /\ Keyless \subseteq Links
  /\ MaxConns \in Nat
  /\ IdSpace \in Nat \ {0, 1}
  /\ MaxAccepts \in Nat

VARIABLES
  next_id,             \* ServerState.next_id
  accepted,            \* how many connections were accepted (bounds the model)
  live,                \* conn_registry Inner.live
  conn_backend,        \* registry Inner.conn_backend
  key_secret_backend,  \* registry Inner.key_secret_backend
  pc,                  \* where the task is in Conn::handle
  conn_id,             \* Conn.conn_id
  backend,             \* Conn.backend, or the local Arc before it is stored
  session_key,         \* Conn.session_key_secret; set together with session_guard
  cancel_key,          \* the SessionKeySecret handle_cancel_request was given
  cancel_target        \* the Arc handle_cancel_request holds across its await

registryVars == <<conn_backend, key_secret_backend>>
cancelVars == <<cancel_key, cancel_target>>
taskVars == <<pc, conn_id, backend, session_key, cancelVars>>
vars == <<next_id, accepted, live, registryVars, taskVars>>

Ids == 0 .. IdSpace - 1

\* Inside Conn::handle with `_permit` alive.
HoldsPermit ==
  {"startup", "linking", "linked", "announcing", "cancelling",
   "expiring", "blocked", "returning"}

\* Variant for mutation: the deadline does not cover the cancel handler.
AwaitingButCancel == {"startup", "linking", "announcing"}

\* The awaits that tokio::time::timeout can abandon.
Awaiting == {"startup", "linking", "announcing", "cancelling"}

Phases == HoldsPermit \cup {"idle", "spawned", "refusing", "dropping"}

InRegistry(l) ==
  \/ \E i \in Ids : conn_backend[i] = l
  \/ \E k \in Keys : key_secret_backend[k] = l

\* Variant for mutation: the cancel handler copies the backend's key out of
\* the registry instead of holding the Arc.
HeldButCancel(l) == InRegistry(l) \/ \E t \in Tasks : backend[t] = l

\* Some Arc<Backend> of this link exists, so the link is open.
Held(l) ==
  \/ InRegistry(l)
  \/ \E t \in Tasks : backend[t] = l \/ cancel_target[t] = l

\* Variant for mutation: `>` for `>=` in try_acquire.
HasRoomOffByOne == live <= MaxConns

\* try_acquire does not return None.
HasRoom == live < MaxConns

\* Variant for mutation: register without its contains_key check.
KeyFreeUnchecked(k) == TRUE

\* register does not return Err.
KeyFree(k) == key_secret_backend[k] = NoLink

\* Variant for mutation: the secret half of the key is not compared, so the
\* key of another session is found.
LookupByKeyAny(k) ==
  IF \E j \in Keys : key_secret_backend[j] # NoLink
  THEN key_secret_backend[CHOOSE j \in Keys : key_secret_backend[j] # NoLink]
  ELSE NoLink

\* lookup_by_key: the Arc registered under this very key, or none.
LookupByKey(k) == key_secret_backend[k]

\* Variant for mutation: the identifier does not wrap.
NextIdUnwrapped(n) == n + 1

\* AtomicI32::fetch_add wraps around.
NextId(n) == (n + 1) % IdSpace

Goto(t, phase) == pc' = [pc EXCEPT ![t] = phase]

Init ==
  /\ next_id = 1
  /\ accepted = 0
  /\ live = 0
  /\ conn_backend = [i \in Ids |-> NoLink]
  /\ key_secret_backend = [k \in Keys |-> NoLink]
  /\ pc = [t \in Tasks |-> "idle"]
  /\ conn_id = [t \in Tasks |-> 0]
  /\ backend = [t \in Tasks |-> NoLink]
  /\ session_key = [t \in Tasks |-> NoKey]
  /\ cancel_key = [t \in Tasks |-> NoKey]
  /\ cancel_target = [t \in Tasks |-> NoLink]
-----------------------------------------------------------------------------
(* The accept loop. *)

\* serve: accept, take the next id (fetch_add wraps), spawn the task.
Accept(t) ==
  /\ pc[t] = "idle"
  /\ accepted < MaxAccepts
  /\ accepted' = accepted + 1
  /\ conn_id' = [conn_id EXCEPT ![t] = next_id]
  /\ next_id' = NextId(next_id)
  /\ Goto(t, "spawned")
  /\ UNCHANGED <<live, registryVars, backend, session_key, cancelVars>>
-----------------------------------------------------------------------------
(* Conn::handle: the permit. *)

\* try_acquire succeeds: the counter is taken under the write lock.
Admit(t) ==
  /\ pc[t] = "spawned"
  /\ HasRoom
  /\ live' = live + 1
  /\ Goto(t, "startup")
  /\ UNCHANGED <<next_id, accepted, registryVars, conn_id, backend,
                 session_key, cancelVars>>

\* try_acquire returns None; 53300 is written without a permit.
Refuse(t) ==
  /\ pc[t] = "spawned"
  /\ ~HasRoom
  /\ Goto(t, "refusing")
  /\ UNCHANGED <<next_id, accepted, live, registryVars, conn_id, backend,
                 session_key, cancelVars>>

\* The refusal is written, or the write fails: handle returns either way.
SendRefusal(t) ==
  /\ pc[t] = "refusing"
  /\ Goto(t, "dropping")
  /\ UNCHANGED <<next_id, accepted, live, registryVars, conn_id, backend,
                 session_key, cancelVars>>
-----------------------------------------------------------------------------
(* The startup driver, under the authentication deadline. *)

\* EOF, a malformed or refused packet, a rejected login: nothing was opened.
FailStartup(t) ==
  /\ pc[t] = "startup"
  /\ Goto(t, "returning")
  /\ UNCHANGED <<next_id, accepted, live, registryVars, conn_id, backend,
                 session_key, cancelVars>>

\* handle_cancel_request: lookup_by_key clones the Arc under the lock, and
\* the handler keeps it, with the key it was given, across
\* send_cancel_request.
CancelRequest(t, k) ==
  /\ pc[t] = "startup"
  /\ LookupByKey(k) \in Links \ Keyless
  /\ cancel_key' = [cancel_key EXCEPT ![t] = k]
  /\ cancel_target' = [cancel_target EXCEPT ![t] = LookupByKey(k)]
  /\ Goto(t, "cancelling")
  /\ UNCHANGED <<next_id, accepted, live, registryVars, conn_id, backend,
                 session_key>>

\* The key is unknown or stale, or its backend announced no key of its own.
CancelIgnored(t, k) ==
  /\ pc[t] = "startup"
  /\ LookupByKey(k) \notin Links \ Keyless
  /\ Goto(t, "returning")
  /\ UNCHANGED <<next_id, accepted, live, registryVars, conn_id, backend,
                 session_key, cancelVars>>

\* send_cancel_request ends, well or badly; the Arc is dropped.
SendCancel(t) ==
  /\ pc[t] = "cancelling"
  /\ cancel_key' = [cancel_key EXCEPT ![t] = NoKey]
  /\ cancel_target' = [cancel_target EXCEPT ![t] = NoLink]
  /\ Goto(t, "returning")
  /\ UNCHANGED <<next_id, accepted, live, registryVars, conn_id, backend,
                 session_key>>

\* The login succeeded and the second lookup found a verifier.
Authenticated(t) ==
  /\ pc[t] = "startup"
  /\ Goto(t, "linking")
  /\ UNCHANGED <<next_id, accepted, live, registryVars, conn_id, backend,
                 session_key, cancelVars>>

\* Backend::new succeeds with a server process nobody is connected to.
LinkUp(t, l) ==
  /\ pc[t] = "linking"
  /\ ~Held(l)
  /\ backend' = [backend EXCEPT ![t] = l]
  /\ Goto(t, "linked")
  /\ UNCHANGED <<next_id, accepted, live, registryVars, conn_id,
                 session_key, cancelVars>>

LinkFail(t) ==
  /\ pc[t] = "linking"
  /\ Goto(t, "returning")
  /\ UNCHANGED <<next_id, accepted, live, registryVars, conn_id, backend,
                 session_key, cancelVars>>

\* Registry::register accepts a candidate: the id entry is overwritten
\* whatever it held, the key entry was checked to be absent.
Register(t, k) ==
  /\ pc[t] = "linked"
  /\ KeyFree(k)
  /\ conn_backend' = [conn_backend EXCEPT ![conn_id[t]] = backend[t]]
  /\ key_secret_backend' = [key_secret_backend EXCEPT ![k] = backend[t]]
  /\ session_key' = [session_key EXCEPT ![t] = k]
  /\ Goto(t, "announcing")
  /\ UNCHANGED <<next_id, accepted, live, conn_id, backend, cancelVars>>

\* All 64 candidates were keys of live sessions; the link is dropped.
RegisterExhausted(t) ==
  /\ pc[t] = "linked"
  /\ \E k \in Keys : ~KeyFree(k)
  /\ backend' = [backend EXCEPT ![t] = NoLink]
  /\ Goto(t, "returning")
  /\ UNCHANGED <<next_id, accepted, live, registryVars, conn_id,
                 session_key, cancelVars>>

\* Notifications, BackendKeyData and ReadyForQuery are written (or a write
\* fails).  There is no relay yet, so handle returns with the session open.
Announce(t) ==
  /\ pc[t] = "announcing"
  /\ Goto(t, "returning")
  /\ UNCHANGED <<next_id, accepted, live, registryVars, conn_id, backend,
                 session_key, cancelVars>>

\* The deadline drops the startup future and its locals, the cancel handler's
\* Arc among them; the Conn keeps what it has stored.  The 57014 that follows
\* has no deadline of its own.  It waits for the client only when the client's
\* buffers may be full, and what fills them is the announcement, the only part
\* of the dialogue whose length the backend decides.
Expire(t) ==
  /\ pc[t] \in Awaiting
  /\ cancel_key' = [cancel_key EXCEPT ![t] = NoKey]
  /\ cancel_target' = [cancel_target EXCEPT ![t] = NoLink]
  /\ Goto(t, IF pc[t] = "announcing" THEN "blocked" ELSE "expiring")
  /\ UNCHANGED <<next_id, accepted, live, registryVars, conn_id, backend,
                 session_key>>

\* 57014 is written, or its write fails: there is room for it.
SendExpired(t) ==
  /\ pc[t] = "expiring"
  /\ Goto(t, "returning")
  /\ UNCHANGED <<next_id, accepted, live, registryVars, conn_id, backend,
                 session_key, cancelVars>>

\* 57014 is written behind the announcement, or its write fails: the client
\* has read what was before it, or is gone.
SendExpiredLate(t) ==
  /\ pc[t] = "blocked"
  /\ Goto(t, "returning")
  /\ UNCHANGED <<next_id, accepted, live, registryVars, conn_id, backend,
                 session_key, cancelVars>>
-----------------------------------------------------------------------------
(* The end of the task. *)

\* handle returns and `_permit` is dropped, while the Conn still exists.
ReleasePermit(t) ==
  /\ pc[t] = "returning"
  /\ live' = IF live = 0 THEN 0 ELSE live - 1
  /\ Goto(t, "dropping")
  /\ UNCHANGED <<next_id, accepted, registryVars, conn_id, backend,
                 session_key, cancelVars>>

\* Variant for mutation: the guard forgets the key and only drops the id.
DropGuardIdOnly(t) ==
  /\ conn_backend' = [conn_backend EXCEPT ![conn_id[t]] = NoLink]
  /\ UNCHANGED key_secret_backend

\* SessionGuard::drop: the key is removed only if the id was still there.
DropGuard(t) ==
  /\ conn_backend' = [conn_backend EXCEPT ![conn_id[t]] = NoLink]
  /\ key_secret_backend' =
       IF conn_backend[conn_id[t]] = NoLink THEN key_secret_backend
       ELSE [key_secret_backend EXCEPT ![session_key[t]] = NoLink]

\* The spawned block ends: the Conn's fields are dropped in order, the
\* backend Arc first and the guard last.
DropConn(t) ==
  /\ pc[t] = "dropping"
  /\ backend' = [backend EXCEPT ![t] = NoLink]
  /\ IF session_key[t] = NoKey THEN UNCHANGED registryVars ELSE DropGuard(t)
  /\ session_key' = [session_key EXCEPT ![t] = NoKey]
  /\ Goto(t, "idle")
  /\ UNCHANGED <<next_id, accepted, live, conn_id, cancelVars>>
-----------------------------------------------------------------------------
\* Steps the runtime takes by itself: no client and no backend is waited for
\* beyond the timers (the two error writes here go to a client that has room
\* for them, see the README).
RuntimeStep(t) ==
  \/ Admit(t) \/ Refuse(t) \/ SendRefusal(t)
  \/ (\E k \in Keys : Register(t, k)) \/ RegisterExhausted(t)
  \/ Expire(t) \/ SendExpired(t)
  \/ ReleasePermit(t) \/ DropConn(t)

\* Steps that need the client or the backend to do something.
PeerStep(t) ==
  \/ Accept(t) \/ FailStartup(t) \/ Authenticated(t)
  \/ \E k \in Keys : CancelRequest(t, k) \/ CancelIgnored(t, k)
  \/ SendCancel(t)
  \/ (\E l \in Links : LinkUp(t, l)) \/ LinkFail(t)
  \/ Announce(t) \/ SendExpiredLate(t)

Next == \E t \in Tasks : RuntimeStep(t) \/ PeerStep(t)

Spec == Init /\ [][Next]_vars

FairSpec == Spec /\ \A t \in Tasks : WF_vars(RuntimeStep(t))
-----------------------------------------------------------------------------
(* Properties. *)

TypeOK ==
  /\ next_id \in Ids
  /\ accepted \in 0 .. MaxAccepts
  /\ live \in Nat
  /\ conn_backend \in [Ids -> Links \cup {NoLink}]
  /\ key_secret_backend \in [Keys -> Links \cup {NoLink}]
  /\ pc \in [Tasks -> Phases]
  /\ conn_id \in [Tasks -> Ids]
  /\ backend \in [Tasks -> Links \cup {NoLink}]
  /\ session_key \in [Tasks -> Keys \cup {NoKey}]
  /\ cancel_key \in [Tasks -> Keys \cup {NoKey}]
  /\ cancel_target \in [Tasks -> Links \cup {NoLink}]

PermitHolders == {t \in Tasks : pc[t] \in HoldsPermit}

\* The permit counter is exactly the number of tasks inside handle, on every
\* path out of it (refusal, fault, rejection, deadline, success), and never
\* exceeds max_connections (conn_registry.rs try_acquire and ConnPermit::drop).
PermitsBalanced ==
  /\ live = Cardinality(PermitHolders)
  /\ live <= MaxConns

Sessioned(t) == session_key[t] # NoKey

\* The cancel key "exists exactly as long as the session does" (conn.rs,
\* Conn.session_guard): a key is in the registry if and only if some task's
\* guard holds it.
CancelKeyExact ==
  \A k \in Keys :
    key_secret_backend[k] # NoLink <=> \E t \in Tasks : session_key[t] = k

\* Both maps follow the sessions (registry.rs register and SessionGuard::drop):
\* cancel keys are exact, an id entry belongs to a task that holds a guard for
\* it, and a guard's two entries lead to that task's own backend.
KeyLivesWithSession ==
  /\ CancelKeyExact
  /\ \A i \in Ids : conn_backend[i] # NoLink
       => \E t \in Tasks : Sessioned(t) /\ conn_id[t] = i
  /\ \A t \in Tasks : Sessioned(t)
       => /\ key_secret_backend[session_key[t]] = backend[t]
          /\ conn_backend[conn_id[t]] = backend[t]

Dropping == {t \in Tasks : pc[t] = "dropping"}

\* Backend links are bounded: one for every permit and one for every
\* connection whose permit is already given back but whose Conn is not dropped
\* yet (server.rs drops the Conn after handle has dropped `_permit`, so the
\* backend may see more than max_connections links, but no more than that).
LinksBounded ==
  Cardinality({l \in Links : Held(l)}) <= live + Cardinality(Dropping)

\* Every accepted connection ends: refused, finished, failed or timed out, its
\* permit, its key and its link are given back, however long its client, a
\* backend or a cancel target waits (the deadline around
\* drive_startup_until_ready), with one exception: a client that lets its own
\* announcement fill its buffers and then never reads and never hangs up keeps
\* the task in the write of 57014, which no deadline covers (conn.rs handle).
TaskEnds ==
  \A t \in Tasks : pc[t] # "idle" ~> pc[t] = "idle" \/ [](pc[t] = "blocked")

SessionOf(t) ==
  [key |-> session_key[t],
   link |-> IF Sessioned(t) THEN backend[t] ELSE NoLink]

(***************************************************************************)
(* The strengthening that makes KeyLivesWithSession inductive as long as   *)
(* identifiers do not wrap.                                                *)
(***************************************************************************)
NoWrap == MaxAccepts + 1 < IdSpace

\* Live tasks have different ids, all of them below the next one.
IdsDistinct ==
  /\ next_id = accepted + 1
  /\ \A t \in Tasks : pc[t] # "idle" => conn_id[t] < next_id
  /\ \A t, u \in Tasks :
       t # u /\ pc[t] # "idle" /\ pc[u] # "idle" => conn_id[t] # conn_id[u]

\* What a task may hold in each phase.
HoldingsMatchPhase ==
  \A t \in Tasks :
    /\ backend[t] # NoLink <=> pc[t] = "linked" \/ Sessioned(t)
    /\ Sessioned(t) => pc[t] \in {"announcing", "blocked", "returning", "dropping"}
    /\ pc[t] = "announcing" => Sessioned(t)
    /\ cancel_target[t] # NoLink <=> pc[t] = "cancelling"
    /\ cancel_key[t] # NoKey <=> pc[t] = "cancelling"

\* Keys and links are not shared; a link that is not registered yet is
\* nobody's cancel target.
HoldingsExclusive ==
  /\ \A t, u \in Tasks :
       t # u => /\ Sessioned(t) => session_key[t] # session_key[u]
                /\ backend[t] # NoLink => backend[t] # backend[u]
  /\ \A t, u \in Tasks : pc[t] = "linked" => cancel_target[u] # backend[t]

RegistryInv ==
  /\ TypeOK
  /\ IdsDistinct
  /\ HoldingsMatchPhase
  /\ HoldingsExclusive
  /\ KeyLivesWithSession

Promise == INSTANCE SessionKeys WITH
  Clients <- Tasks,
  session <- [t \in Tasks |-> SessionOf(t)],
  asked <- cancel_key,
  forwarding <- cancel_target

\* The tasks, the registry and the guards implement the promise of module
\* SessionKeys: own key, own link, and a cancel that is forwarded to the link
\* of the session holding the key it names at the lookup, and to no other.
ImplementsPromise == Promise!Spec
=============================================================================
