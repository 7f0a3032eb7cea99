# A TLA+ model of the wirechaos proxy

wirechaos is a PostgreSQL wire proxy. This directory holds TLA+ modules translated
from its source, the TLC configurations that check them on small instances, and
TLAPS proofs of the central properties for every instance. `PROJECT.json` lists the
components, the runs, the source lines behind each definition, the findings and the
hazards. Paths below are relative to `crates/wirechaos-core/src/proxy/`.

## The system

| Part | State | Operations | Interaction |
|---|---|---|---|
| Accept loop (`server.rs`) | `next_id` | accept, spawn | one task per connection, sharing the state below |
| Permits (`conn_registry.rs`) | `live` | `try_acquire`, drop of a permit | taken at the start of `Conn::handle`, dropped when it returns |
| Session registry (`backend/registry.rs`) | id -> backend, key -> backend | `register`, `lookup_by_key`, drop of a guard | written by a session, read by cancel connections |
| Connection (`conn.rs`) | read and write half, `ssl_done`, `gss_done`, backend, key, guard | one handler per startup packet | client, credential store, backend, registry; all under one deadline |
| SASL dialogue (`auth/handler.rs`, `auth/scram/handler.rs`) | SCRAM state | two rounds | client, credential store |
| SCRAM server (`auth/scram/scram_authenticator.rs`) | mechanism, gs2 header, nonces, state | `handle_client_first`, `handle_client_final` | driven by the SASL dialogue |
| Credential store (`auth/credentials/store.rs`) | snapshot, last error, metrics | lookup, reload | read by every login, replaced by reload |
| auth_query source (`auth_query.rs`, `cache.rs`) | cache, lookup client | lookup, forget | two async mutexes, a database |
| Backend link (`backend/pg_client.rs`, `scram_client.rs`, `mod.rs`) | stream, certificate hash, key, notifications, SCRAM client | connect (TCP, TLS, startup loop, SCRAM), cancel | opened by a session with the credentials of its login, used by cancels |
| Buffer pool (`buffer_pool.rs`) | buckets of buffers | get, return | every message of a client or a backend is read into a rented buffer |
| Startup parameters (`conn.rs`, `startup_config_parse_util.rs`) | `params`, user, database, replication mode | decode, merge the options, send on | client packet in, backend packet out |
| Credential file parsing, configuration, command line | none | | |

What is hard here: tasks race on the registry and the permits; futures are dropped by
a deadline in the middle of what they do; a cancel uses a backend after it has left
the lock; credentials change between two reads; messages to the client depend on
which stream the halves wrap at that moment; reloads and cache updates are not
critical sections; a backend may send any message at any time; buffers carry the bytes
of whoever had them before.

What makes each part correct:

* permits: the counter is the number of connections inside `handle` and stays within the limit;
* registry: a cancel key exists exactly as long as its session and leads to that session's backend and to no other;
* connection: it ends, it gives everything back, a failure is reported once, TLS is not undone, the key is announced after it is registered;
* store: only validated maps are served; a reload leaves the store with the file it read, and the reports in agreement with it;
* SCRAM server: who gets in has answered this login's challenge, with the same mechanism and certificate, once;
* backend link: its TLS and channel-binding policies hold whatever the backend answers, its proof fits the challenge, a link that comes up has verified the backend, and connecting ends;
* buffer pool: a buffer has one owner, no peer reaches the panic, no parser sees bytes of another message;
* startup parameters: the user that logs in is the user the backend is asked for;
* auth_query: an answer is never older than its ttl, the cache is bounded, the client mutex is not left behind.

## Modules

| Module | Models | Checked by | Proved in |
|---|---|---|---|
| `SessionKeys` | the promise: a session owns a key and a link, a cancel that names a key is forwarded to the session that held this key when it was looked up, and a link with a cancel under way is not given to another session | | |
| `ConnLife` | the life of one connection: admission, login or cancel, link, session, deadline, return | | |
| `Sessions` | accept loop, permits, registry, guards, the skeleton of `Conn::handle` | `sessions` | `SessionsProofs` |
| `Startup` | one connection's dialogue, await by await | `startup*` | `StartupProofs` |
| `StartupParams` | parameters and options of a startup packet, from the client's packet to the one for the backend | `params` | `StartupParamsProofs` |
| `BackendLink` | the second lookup, `PgClient::connect`, the startup loop, `ScramClient` | `link` | `BackendLinkProofs` |
| `ScramExchange` | several `ScramAuthenticator`s and their clients on an untrusted network | `scram*` | `ScramExchangeProofs` |
| `BufferPool` | the buckets, and the reads that rent from them | `pool` | `BufferPoolProofs` |
| `AuthQuery` | lookup cache, shared client, forget, time | `auth_query*` | `AuthQueryProofs` |
| `CredentialReload` | reload of the file-backed store by several callers | `reload` | `CredentialReloadProofs` |
| `MC...` | small constants for TLC | | |

The modules meet at these seams. `Sessions` has the shared state of all connections and sees one connection
as a task; `Startup` is one such connection in detail, where a login is accepted or not and a link
opens or not, and both are proved to lead the life `ConnLife` describes; `ScramExchange` is what decides the first, `BackendLink` the second. `BackendLink` begins where
a login has captured a ClientKey, with the lookup `Startup` calls `SecondLookup`. `StartupParams` is what `Startup` calls a
well-formed startup packet, and `BufferPool` what every read of `Startup` and `BackendLink`
does underneath.

**Sessions.** A task is a spawned connection; a slot is used again after it ends. An
action is one critical section or one stretch of code between two awaits. The two
registry maps are total functions with `NoLink` for an absent entry. A backend link is
an `Arc<Backend>`: `Held` says whether anybody refers to it, and a new link is opened to
a server process only when nobody does (PostgreSQL does not reuse a process that is
still connected). `ReleasePermit` and `DropConn` are separate because `_permit` is a
local of `handle` and the `Conn` outlives it; `DropConn` drops the backend and then the
guard, as the fields are declared. There is no relay in the code yet: after
ReadyForQuery `handle` returns, so a session lasts from `Register` to `DropConn`, which
is long enough for every race on the registry. A cancel remembers the key it was sent (`cancel_key`) besides the link
`LookupByKey` gave it; the promise compares the two. A task whose deadline passes while it announces the session is `blocked`:
what is left of the announcement may fill the socket buffer, and the 57014 behind it is written when the client reads (`SendExpiredLate`), if it ever does.

`IdSpace` stands for 2^32: `Ids` wrap, and the run keeps them apart (see "Known deviations").

**Startup.** A packet is a class (`RefusalCode` gives the refused ones and their
SQLSTATE), a message its kind and the transport it was written to. A `ConnectionError` goes
through `Fail` and `Report`, a rejected login through `Reject`, an `Internal` error closes
silently. `transport` is `empty` while a TLS handshake is awaited. `ReadPacket` may find a
second packet already in the BufReader. Writes before the announcement are a few dozen
bytes into an empty socket buffer and do not block; the replayed notifications may
fill it (`stalled`), and one that is larger than the BufWriter may be cut (`torn`). The
user's answer in the store changes at most `MaxReloads` times. `required_tls` is a public field
that `Conn::new` sets to false, so both values are initial. `cancelled` records that a CancelRequest was read, well formed or not.

**StartupParams.** A text is a sequence of lexemes: a backslash, a separator, an equals sign, `-c`, `--`, or a
word. The tokenizer and the parser are recursive functions from a position to the locals of their loop there (`SplitStates`,
`ParseStates`), one step being the loop's body. The reference
definitions look at the text as a whole: a position is escaped when an odd number of backslashes ends before it, a token is a maximal
stretch between separators that are not escaped, and which token a position belongs to, and where in it, is a count of the positions before it.

**BackendLink.** A SCRAM secret is a password under a salt, and two secrets may share either; a key is what it was derived from. A
challenge shows its salt and iteration count, which is all `SaltError` compares; the password of the role behind it (`pw`) is seen by nobody. A proof
records the challenge and the keys that went into it, so "the proof is right" is an equation. The backend is
an environment that may send any message of `BackendMessages` whenever the previous one is consumed. Store and role
can be rotated (`MaxChanges`) at the points where it matters: before the second lookup, and before a challenge.
`ReadStep` is one message in the loop or in the SCRAM exchange; timers, a lost connection and the
deadline of the caller can end any wait. `cert` is forgotten at the startup message: nobody looks at
it again.

**ScramExchange.** Symbolic cryptography: a proof is a key and an auth message. A nonce is the name of who drew it.
`wire` is everything ever sent, and every message of it can be delivered to every login
any number of times; a client may read another login's offer, and its TLS may end at another certificate than the login's. `StrayFirsts` are
client-firsts one attribute away from a good one. A refused client-first ends the login here: the authenticator itself would stay `Started` and take another one, but its only driver,
`handle_authentication`, writes the error and closes. Clients come in three kinds, by the name under which they know the bound mechanism.

**BufferPool.** Memory is modelled byte by byte, a byte being who wrote it. A task nests reads (the startup packet is held while the messages of
the login are read), may be dropped in the middle of one, and then gives its buffers back one by one. `ceiling` is what
`Vec::with_capacity` may round up to.

**AuthQuery.** The cache mutex is never held across an await, so each use of the cache is
one action. `holder` is the client mutex, held across connect and query. `last_true` and
`outdated` are history variables: when a row was last what the database had, and which
rows a forget has made obsolete. `Abandon` is the deadline of the caller.

**CredentialReload.** One action per access to shared state: read and parse the file,
load the previous generation, store the snapshot, clear or record the error, set the gauge. Nothing in the repository calls `reload` yet but its
tests; `ReloadHandle` is cloneable and meant for SIGHUP and an API, and `reload_file` takes no lock, so any number of reloaders may be under way. `reloaded` is history (whether
the present file was read by a reload that succeeded), and so are `alone` and `settled`: whether the reload under way has run by itself
from its beginning, and how the last one that did ended. The lookup and reload counters are left out: nothing reads them.

Definitions called "Variant for mutation" are wrong versions of the definition that
follows them; a property is kept only if such a change makes TLC refute it.

## Runs

| Run | Question | Result |
|---|---|---|
| `sessions` | permits, registry, links and the promise under three racing tasks, cancels routed by their key; does every task end but one whose client blocks the 57014 | holds |
| `startup` | reporting, announcement order, TLS promotion, mechanism offer, deadline and the dead end of a cancel, with TLS required or not; does a dialogue end if the client reads again | holds |
| `startup_held` | and if it never does | violated |
| `startup_cancel` | is a cancel connection never answered | violated |
| `params` | tokenizer and parser against their definitions; one user and database from packet to backend; replication only by its own parameter | holds |
| `link` | TLS and binding policy, which proofs are right, mutual authentication, announcements, and does connecting end | holds |
| `scram` | agreement, replay, downgrade, honest clients | holds |
| `scram_plus` | is a downgrade only reported where there was one | violated |
| `pool` | panic, ownership and bounds, stale bytes, stock | holds |
| `auth_query` | freshness of answers, size of the cache, who holds the client mutex | holds |
| `auth_query_forget` | does a forget stick | violated |
| `reload` | two reloaders in any interleaving: does a reload that runs alone put map, error and gauge right, after whatever came before | holds |

A violated run states what a comment or a test of the repository says; the finding in
`PROJECT.json` quotes it.

**Known deviations.** The modules contain more behaviour than a passing run may claim; where a stronger
statement is false, the property says what does hold:

* `next_id` wraps after 2^32 accepts; a session that outlives a whole round shares its id with a new one, and the first to end removes the
  other's entry (`Sessions` with `IdSpace` 2 shows it). `KeyLivesWithSession` is checked and proved without a wrap.
* A deadline during the TLS handshake writes nothing: both halves are empty (`DeadlineAnswered`).
* A notice larger than the BufWriter may be cut by the deadline, and the 57014 then follows half a message. `DeadlineAnswered` states only that it comes last.
* A cancel connection is answered when its packet is malformed or its forwarding outlives the deadline (`startup_cancel`); `CancelDeadEnd` says what does hold: nothing else is written and nothing begins.
* Of two overlapping reloads the one that read the file before an edit may store last and put the older users back, although `reload` is to "re-read the backing file and atomically replace the snapshot";
  both may use one generation, although a snapshot is "one immutable generation" of the map, and the gauge can lag. The run has these behaviours; `UndisturbedServed` and `UndisturbedReported` say that the next reload that runs alone puts map, error and gauge right.
* `required_tls` without an acceptor lets a client through after an 'N', although "a plaintext startup must be rejected when TLS is required" (`tests/startup.rs:281`); `OfferFitsTransport` is about a proxy with an acceptor.
* `channel_binding = require` is to "fail when the backend cannot be bound" (`config.rs:83`) and governs SCRAM only: a backend that asks for no password, for a cleartext or for an MD5 one brings the link up unbound. `BindingPolicy` is about proofs.
* When the store changes between the two lookups of a login and the new salt matches the role's, a proof that mixes the old ClientKey with the new StoredKey is sent, although "a mismatch is reported ... *before* a wrong proof
  can be sent" (`scram_client.rs:32-34`). `ProofFits` says that, for a role with the store's password, this is the only wrong proof.
* A role with the store's salt and another password is sent a wrong proof, which no client could avoid and the backend refuses (`wrong_backend_secret...` in `tests/backend_auth.rs`); `ProofFits` is about roles with the store's password.
* A task whose client never reads its announcement does not end (`startup_held`); `TaskEnds` makes exactly this exception.
* `handle_client_final` ignores attributes after the proof, which its comment calls malformed; the model treats such a message as the well-formed one before it.
* Settings in `options` override the packet's own parameters, `user` included; `OneIdentity` says that login and backend then agree on the overriding one. An explicit empty database is sent on as
  empty, which the backend takes for the user's.

**Bounds.** Three tasks and `max_connections` 2 let one task wait, one hold and one
release; two keys force collisions, three processes (one without a key) let every task
have a link. Three accepts are enough for a session to begin while another is cancelled and a
third has ended; that slots are reused for longer is left to the proofs. `IdSpace` is above
`MaxAccepts`, so that identifiers do not repeat. One change of the store is enough to fall between any
two reads of a dialogue. In `auth_query` the clock runs to 2 with ttls 1 and 0 and one alteration:
an entry can be fresh, at its limit and past it, and an answer can be stored one tick after it
was read. `MaxEntries` 0 is the boundary the code raises to 1, so two users compete for a
slot. `reload` has two reloaders, four edits and four reloads: enough for two reloads to race, leave the store, the error or the gauge wrong, and be followed by one that runs alone.

In `link` the store has one of two passwords under one salt and the role one password under one of two salts, so that their secrets agree, share a salt, share a password or share nothing; there are one rotation on either side
(enough to separate the two lookups, or lookup and challenge), two notifications (the least that can be reordered) and two keys; every mode is an initial state. `scram` has two logins, two clients and two
certificates: the least with a replay, a misdirected offer and a foreign certificate. `pool` has buckets of 2 and 4 bytes
under a maximum of 5, so that lengths fall below, on, between and above the buckets; a task holds at most two
buffers (three in the code, where the read of a backend message nests in a login; the third adds no path), and `MaxBufs` is never reached. `MaxCeiling` equals
`PreAlloc`, which is what `Vec::with_capacity` gives for elements of this size; a larger ceiling only keeps more.
`params` enumerates every options string of up to five lexemes over eight and strings of up to four whole pieces, in eleven packet layouts.

**Deadlock** checking is off everywhere: a connection that has closed has nothing left to
do, and the bounds stop the environment.

**Fairness.** `sessions`, `startup`, `startup_held` and `link` assume weak fairness of the steps the runtime
takes by itself: tokio schedules a ready task and fires a timer. In `Sessions` that
includes writing the refusal and a timeout message that interrupts anything but the announcement: the few bytes written before fit the empty
buffer of the socket, so these writes do not wait for the client. The timeout message behind an interrupted announcement may wait for ever, so
`SendExpiredLate` is the client's step and has no fairness. `Startup` has the same case in detail: `startup` adds
the assumption that a client that stopped reading reads again, `startup_held` does not. In `link` only the second lookup, which answers from memory or under the
caller's deadline, and the timers are fair. Nothing is assumed of clients, databases or backends; a backend that never stops sending is one of the behaviours of `LinkEnds`.

## Proofs

`SessionsProofs`, for any finite set of tasks and any keys, links and limits:

* `TypeCorrect`: types, the wrapping identifier included.
* `PermitsCorrect`: `PermitsBalanced`. Inductive with the types; each action either keeps the
  set of permit holders or adds or removes one task, which is a lemma about cardinality.
* `RegistryInvariant`, `KeysCorrect`: `KeyLivesWithSession` under `NoWrap`. It is not inductive
  by itself: a guard's drop removes an id entry, so ids of live tasks must differ
  (`IdsDistinct`, from `next_id = accepted + 1`, which needs `NoWrap`); it removes the key its
  task holds, so keys must not be shared (`HoldingsExclusive`); and whether a
  task has a backend or a guard must follow from its phase (`HoldingsMatchPhase`).
* `PromiseKept`: with that invariant every step of `Sessions` is a step of `SessionKeys` or
  leaves its variables alone. `SessionKeys!Forward` takes the key the cancel names and needs the session that has it: the entry `LookupByKey` finds is the link of the
  open session with this key (`KeyLivesWithSession`), and a task that forwards still carries both (`HoldingsMatchPhase`).
* `TasksAreLives`: every task implements `ConnLife`, over any number of reuses of its slot and without `NoWrap`. A step of another task changes neither
  phase nor session of this one; a task gets a guard in `Register` only and is rid of it when its slot is free (`GuardsInv`).

`NoWrap` is a hypothesis of the theorems that name it, never of the model.

`AuthQueryProofs`, for any lookups, ttls and cache size, and any finite set of users:

* `FreshInvariant`, `AnswersAreFresh`: an answer comes from a query made after the lookup began or from an
  entry, so the invariant says the same of rows under way (`RowsTrueSinceBegin`) and of
  entries (`EntriesTrueSinceStamp`); it holds because an entry carries the instant taken
  before the query.
* `MutexIsSafe`: `MutexHeldToWork`, inductive with the types.
* `CacheStaysBounded`: eviction leaves room for one entry and an insertion adds at most one.

`CredentialReloadProofs`, for any finite set of reloaders and any maps, edits and bounds:

* `TypeCorrect`: generations are bounded because those served and those
  about to be served are together no more than the reloads begun, which is a count of the reloads under way.
* `UndisturbedInvariant`, `UndisturbedServedCorrect`, `UndisturbedReportedCorrect`: for any number of reloaders in any interleaving, with no hypothesis on how they are called. The properties speak of the store after
  a reload that ran alone, so the invariant says what such a reload has done at each of its steps (`AloneInv`: no other is under way, the generation it loaded is the served one, its text is
  the file unless that was edited, the error is cleared once it is past that step) and that nothing disturbs the result until the next one begins (`SettledInv`).

`BackendLinkProofs`, for any passwords, salts, keys and number of messages and rotations:

* `TlsInvariant`, `TlsPolicyCorrect`: the policy speaks of a stream; `NegotiationInv` adds what the awaits before it have already excluded.
* `LinkInvariant` and from it `ProofsFit`, `BindingCorrect`, `BackendAuthenticated`, `AnnouncementsCorrect`. A backend may begin a second exchange
  after the first, so "the last proof was verified" must hold whenever the loop is entered
  (`VerifiedInv`); the mechanism of an exchange is remembered from its selection to its proof (`MechanismInv`);
  what the backend sent differs from what the client keeps by the unread message at most (`AnnouncedInv`).

`ScramExchangeProofs`, for any number of logins, clients and certificates:

* `ScramInvariant`: `wire` only grows and everything on it can come back at any time, so the invariant says that every message is the one its sender's
  state determines (a client sends one client-first and one client-final, a login one challenge), what a client chose it chose by the
  offer it read, and a login that has sent a challenge holds the header, mechanism and nonce of one client-first.
* `AgreementCorrect`, `ReplayImpossible`, `DowngradeImpossible`, `HonestLoginAccepted`: a proof that passes carries the auth message of
  this login, which contains both nonces; only the client named by the one can have made it, and its state
  says with which header and certificate.

`StartupProofs`, for every configuration, any verifiers and any number of store changes:

* `PathInvariant`, `NoCarryOverCorrect`: where the dialogue stands decides what the halves wrap (`UpgradeInv`), whether a session is registered (`SessionInv`) and
  how it may end (`EndsInv`).
* `WireInvariant` and from it `TypeCorrect`, `FailureReportedCorrect`, `KeyBeforeReadyCorrect`, `TlsSticksCorrect`, `OfferCorrect`, `DeadlineCorrect`: nothing is written after an
  ErrorResponse (`NoErrorYet`), how much of the announcement is out follows from the phase (`AnnouncedInv`), and an `S` is out only after `ssl_done` (`AcceptedInv`). Every action
  either writes nothing (`QuietKeeps`), one message (`SendKeeps`) or the two of a successful login, so the ordering argument is made three times and not once per action.
* `CancelDeadEndCorrect`: the action property, from `EndsInv`: after a cancel, well formed or not, only the phases that forward, report and close are left, and in them only the two errors are written.

* `DialogueIsLife`: the dialogue implements `ConnLife` (`LifePhase` maps the awaits to its phases). Every step is one of its actions or changes neither phase nor session; that a session is
  registered at most once needs `NoSessionYet`: there is none before the link is up.

`StartupParamsProofs`, for every packet and every options string:

* `ParamsInvariant`, `IdentityCorrect`, `ReplicationCorrect`: whatever the options parse to; the lemmas are about merging and removing entries of the parameter map.
* `SplitCorrect`: `split_option_tokens` yields the tokens of the escaping rule, and no empty one. `SplitInv` relates the locals of the loop after each lexeme to the reference: the flag is
  the parity of the run of backslashes that ends there, the closed tokens and the open one together lay out every kept position where the count puts it.
* `ParseCorrect`: `parse_options` succeeds exactly on well-formed tokens and then holds for each name the last setting of it (`ParseInv`, over the tokens).
* `AcceptedInvariant`, `SettingsCorrect`: `SettingsMatch`. Once a packet is accepted, the parameters are its own merged with what the two theorems above say of the options.

The library's induction theorems cannot be instantiated here, so the two loops are proved by `LoopInduction`: a set of positions that contains 0 and with every position the next contains them all, since
otherwise the complement has a least element (`LeastExists`, from the well-foundedness of the naturals), which the step excludes.

`BufferPoolProofs`, for any tasks, bucket sizes and lengths:

* `PoolInvariant` and from it `NoPanicCorrect`, `OwnersCorrect`, `OwnBytesCorrect`, `StockCorrect`. Buckets and rentals are both families of stacks; `Count` is the number of positions in a family
  that hold an element of a set, and a push or a pop changes it by one or not at all (`CountPush`). Every step moves one buffer, so the
  invariant says that the two counts of a buffer add up to one exactly if it is allocated (`PlacesCounted`); that a buffer has its bucket's size wherever it is; that the
  first `got` bytes of a rental are its task's (a write to one buffer leaves the others alone because it has one owner); and that stock and rentals
  of a bucket together do not fall below `PreAlloc` (`BucketsKept`).
* `NoPanic` is part of it: a length that passes a reader's check has a bucket because the check compares with the largest bucket; in a pool without
  buckets no task holds a startup packet, and an empty startup packet is refused before it gets there (`ServableFits`).

`LinksCorrect` (in `SessionsProofs`): `LinksBounded`. The registry keeps no link by itself: a link that is held is kept by the task
that opened it or by a cancel that is forwarding to it, and a task keeps at most one; so there is a map from the tasks with a permit or in `DropConn` onto the held links.

**Assumptions.** The named ones on constants, evaluated by TLC in every run: special values are not ordinary ones, bounds
are natural numbers, sets that are counted are finite (`ReloadConstants`, `PoolConstants`), the stray sender and the empty nonce are no clients (`ScramConstants`), texts are sequences of lexemes (`ParamsConstants`), and the bound on allocations leaves room for
those `new()` makes (`PoolFits`). `MaxBufs` is a bound of the model, not of the code: `Get` does not allocate beyond it, and the theorems hold for every value of it. The only hypothesis beyond that is `NoWrap`,
stated in the theorems that need it.

**Only model-checked.** Liveness (`TaskEnds`, `SlotReleased`, `LinkEnds`), which is out of the prover's reach. Every other property of a passing run is proved.
`ConnLife` is the other way round: both refinements are theorems and not runs.

## Not modelled

Credential-file parsing (`file.rs`, `secret.rs`) and the validation of the `auth_query` settings turn a document into
values without keeping state; the verifiers and limits they yield are inputs of the models. Configuration is
modelled as far as the code branches on it (TLS modes, channel binding, `required_tls`, sizes), its
deserialisation is not. Cryptography is symbolic, so hash and HMAC computations, base64 and the derivation of `verifier.rs` do
not appear. Certificate loading happens once before the accept loop. Logging and the command line have no
state. `accept` errors are retried and change nothing. The relay is a `todo` in the code.
