---------------------------- MODULE BackendLink ----------------------------
(***************************************************************************)
(* The link a session opens to the database: the second credential lookup  *)
(* (conn.rs), PgClient::connect with its TLS negotiation, its startup loop *)
(* and its SCRAM exchange (backend/), against a backend that may send any  *)
(* message at any time, while credentials are rotated on both sides.       *)
(*                                                                         *)
(* A SCRAM secret is a password under a salt; two secrets may share either *)
(* of them.  A key is what it was derived from; a proof is right when both *)
(* keys that go into it are those the backend has for the challenge it     *)
(* answers.  An action is the code from one await to the next.             *)
(***************************************************************************)
EXTENDS Naturals, Sequences

CONSTANTS
  Passwords, Salts,
  Secrets,      \* SCRAM secrets of the credential store: a password under a salt
  RoleSecrets,  \* SCRAM secrets of the database role
  NoVerifier,   \* the store does not know the user
  BackendKeys,  \* values of BackendKeyData
  MaxChanges,   \* bound: rotations of a credential during one connect
  MaxNotes      \* bound: notifications the backend sends

TlsModes == {"disable", "prefer", "require", "verify_full"}
BindingModes == {"disable", "prefer", "require"}
NoKey == "none"

ASSUME BackendLinkConstants ==
  /\ Secrets \cup RoleSecrets \subseteq [pw : Passwords, salt : Salts]
  /\ NoKey \notin BackendKeys
  /\ {MaxChanges, MaxNotes} \subseteq Nat

\* ScramVerifier as the store holds it: `plain` when the password is known too.
Verifiers == [secret : Secrets, plain : BOOLEAN]

VARIABLES
  conf,           \* backend.tls: mode and channel_binding
  store,          \* the user's verifier in the credential store
  role,           \* the secret the database has for the role
  changes,        \* rotations so far (bounds the model)
  captured,       \* the ClientKey captured from the client's own login
  verifier,       \* the verifier whose material is in PgConfig
  pc,             \* the await connect is at
  reply,          \* the backend's answer to SSLRequest
  transport,      \* what the TimeoutStream wraps
  cert,           \* how far the backend's certificate can be trusted, until startup
  cert_hash,      \* peer_cert_hash is Some
  client,         \* PgClient, with what its last ScramClient did
  backend,        \* the backend's end: the message under way, and what it announced
  failure         \* the PgError connect ended with

credentialVars == <<store, role, changes, captured, verifier>>
tlsVars == <<reply, transport, cert, cert_hash>>
vars == <<conf, credentialVars, pc, tlsVars, client, backend, failure>>

\* Keys: what they were derived from.
KeyOf(secret) == [pw |-> secret.pw, salt |-> secret.salt, iter |-> "own"]
DerivedKey(pw, challenge) == [pw |-> pw, salt |-> challenge.salt, iter |-> challenge.iter]

\* What the backend has under the salt and iterations of its challenge.
ChallengeKey(challenge) == DerivedKey(challenge.pw, challenge)

Msg(kind, arg) == [kind |-> kind, arg |-> arg]
Empty == Msg("empty", "none")
NoProof == [sent |-> FALSE]
NoFailure == "none"
Ended == {"up", "failed", "dropped"}

\* Before the first message: nothing received, nothing sent.
NoClient == [notifications |-> <<>>, key |-> NoKey, mechanism |-> "none",
             proof |-> NoProof, verified |-> FALSE]
Silent == [inbox |-> Empty, notes |-> <<>>, key |-> NoKey]
proof == client.proof
inbox == backend.inbox

Init ==
  /\ conf \in [mode : TlsModes, binding : BindingModes]
  /\ store \in Verifiers
  /\ role \in RoleSecrets
  /\ changes = 0
  /\ captured = KeyOf(store.secret)
  /\ verifier = NoVerifier
  /\ pc = "relookup"
  /\ reply = "not_requested" /\ transport = "none" /\ cert = "none" /\ cert_hash = FALSE
  /\ client = NoClient
  /\ backend = Silent
  /\ failure = NoFailure

\* An error drops the PgClient and with it the connection.
Fail(error) ==
  /\ failure' = error
  /\ pc' = "failed"
  /\ client' = NoClient
  /\ backend' = Silent
-----------------------------------------------------------------------------
(* Credentials, TCP and TLS. *)

\* The verifier is looked up again; its material goes into PgConfig together
\* with the ClientKey the first one's login captured.
SecondLookup ==
  /\ pc = "relookup"
  /\ IF store = NoVerifier
     THEN Fail("InvalidState") /\ UNCHANGED verifier
     ELSE verifier' = store /\ pc' = "tcp" /\ UNCHANGED <<client, backend, failure>>
  /\ UNCHANGED <<conf, store, role, changes, captured, tlsVars>>

\* The next await of connect.
Proceed(await) ==
  /\ pc' = await
  /\ UNCHANGED <<client, backend, failure>>

\* TcpStream::connect; with mode disable no SSLRequest is written.
TcpConnected ==
  /\ pc = "tcp"
  /\ IF conf.mode = "disable"
     THEN transport' = "plain" /\ Proceed("startup")
     ELSE Proceed("ssl_reply") /\ UNCHANGED transport
  /\ UNCHANGED <<conf, credentialVars, reply, cert, cert_hash>>

\* Variant for mutation: require falls back to a plain stream as prefer does.
SslReplyFallback(answer) ==
  /\ pc = "ssl_reply"
  /\ reply' = answer
  /\ CASE answer = "yes" -> Proceed("tls") /\ UNCHANGED transport
       [] answer = "no" /\ conf.mode # "verify_full" ->
            transport' = "plain" /\ Proceed("startup")
       [] OTHER -> Fail("Tls") /\ UNCHANGED transport
  /\ UNCHANGED <<conf, credentialVars, cert, cert_hash>>

\* try_tls: one byte answers SSLRequest; anything but 'S' is a no.
SslReply(answer) ==
  /\ pc = "ssl_reply"
  /\ reply' = answer
  /\ CASE answer = "yes" -> Proceed("tls") /\ UNCHANGED transport
       [] answer = "no" /\ conf.mode = "prefer" ->
            transport' = "plain" /\ Proceed("startup")
       [] OTHER -> Fail("Tls") /\ UNCHANGED transport
  /\ UNCHANGED <<conf, credentialVars, cert, cert_hash>>

\* The server name does not parse, or load_root_store finds no roots (which
\* only the modes that check the chain load).
TlsSetupFailed ==
  /\ pc = "tls"
  /\ Fail("Tls")
  /\ UNCHANGED <<conf, credentialVars, tlsVars>>

\* build_tls_config: what each mode makes of a certificate.
Accepts(trust) ==
  CASE conf.mode = "prefer"  -> TRUE
    [] conf.mode = "require" -> trust \in {"chain", "chain_and_host"}
    [] OTHER                 -> trust = "chain_and_host"

\* TlsConnector::connect; a refused certificate is an I/O error.  The leaf's
\* hash is kept when its signature algorithm defines one.
TlsHandshake(trust, hashed) ==
  /\ pc = "tls"
  /\ IF Accepts(trust)
     THEN /\ transport' = "tls" /\ cert' = trust /\ cert_hash' = hashed
          /\ Proceed("startup")
     ELSE Fail("Io") /\ UNCHANGED <<transport, cert, cert_hash>>
  /\ UNCHANGED <<conf, credentialVars, reply>>

\* write_startup_message.  Nobody looks at the certificate again.
WriteStartup ==
  /\ pc = "startup"
  /\ Proceed("loop")
  /\ cert' = "none"
  /\ UNCHANGED <<conf, credentialVars, reply, transport, cert_hash>>
-----------------------------------------------------------------------------
(* handle_startup_handshake: one message at a time. *)

\* The messages that end the loop with an error, and the error.  `malformed`
\* is a frame length, an authentication body, an MD5 salt, a ParameterStatus, a
\* BackendKeyData or a ReadyForQuery of the wrong shape, or an unknown tag.
LoopRefusal ==
  [malformed |-> "Protocol", challenge |-> "Protocol", bad_challenge |-> "Protocol",
   final |-> "Protocol", unsupported |-> "UnsupportedAuth", error |-> "Backend"]

\* A message of this kind is there to be read.
Arrived(await, kind) == pc = await /\ inbox.kind = kind

\* read_message_header and read_message_body have taken it; the task goes on.
Consume(await) ==
  /\ backend' = [backend EXCEPT !.inbox = Empty]
  /\ pc' = await
  /\ UNCHANGED failure

linkFrame == <<conf, credentialVars, tlsVars>>

LoopRefused ==
  /\ \E kind \in DOMAIN LoopRefusal : Arrived("loop", kind) /\ Fail(LoopRefusal[kind])
  /\ UNCHANGED linkFrame

\* AuthenticationOk is consumed: the client has had its own.
AuthenticationOk ==
  /\ Arrived("loop", "ok")
  /\ Consume("loop")
  /\ UNCHANGED <<linkFrame, client>>

\* handle_cleartext, handle_md5: only a known password can be sent.
PasswordRequest ==
  /\ Arrived("loop", "cleartext") \/ Arrived("loop", "md5")
  /\ IF verifier.plain THEN Consume("loop") /\ UNCHANGED client
     ELSE Fail("UnsupportedAuth")
  /\ UNCHANGED linkFrame

\* Variant for mutation: the message is pushed twice.
NotificationTwice ==
  /\ Arrived("loop", "param") \/ Arrived("loop", "notice")
  /\ client' = [client EXCEPT !.notifications = @ \o <<inbox.kind, inbox.kind>>]
  /\ Consume("loop")
  /\ UNCHANGED linkFrame

\* ParameterStatus and NoticeResponse are kept for the client.
Notification ==
  /\ Arrived("loop", "param") \/ Arrived("loop", "notice")
  /\ client' = [client EXCEPT !.notifications = Append(@, inbox.kind)]
  /\ Consume("loop")
  /\ UNCHANGED linkFrame

\* BackendKeyData: a later key replaces an earlier one.
KeyData ==
  /\ Arrived("loop", "key")
  /\ client' = [client EXCEPT !.key = inbox.arg]
  /\ Consume("loop")
  /\ UNCHANGED linkFrame

\* ReadyForQuery ends the loop whatever went before; Backend::new succeeds.
ReadyForQuery ==
  /\ Arrived("loop", "ready")
  /\ Consume("up")
  /\ UNCHANGED <<linkFrame, client>>

\* Variant for mutation: `require` falls back to the unbound mechanism.
SelectMechanismLax(mode, available, offered) ==
  IF mode # "disable" /\ available /\ "plus" \in offered THEN "plus"
  ELSE IF "scram" \in offered THEN "scram" ELSE "UnsupportedAuth"

\* select_mechanism: the mechanism, or the error.
SelectMechanism(mode, available, offered) ==
  CASE mode # "disable" /\ available /\ "plus" \in offered -> "plus"
    [] mode = "require"                                    -> "ChannelBindingRequired"
    [] mode # "require" /\ "scram" \in offered             -> "scram"
    [] OTHER                                               -> "UnsupportedAuth"

\* AuthenticationSASL, handle_sasl up to its first await.
SaslOffer ==
  /\ Arrived("loop", "sasl")
  /\ LET chosen == IF inbox.arg = {} THEN "UnsupportedAuth"
                   ELSE SelectMechanism(conf.binding, cert_hash, inbox.arg)
     IN IF chosen \in {"scram", "plus"}
        THEN client' = [client EXCEPT !.mechanism = chosen] /\ Consume("sasl_first")
        ELSE Fail(chosen)
  /\ UNCHANGED linkFrame
-----------------------------------------------------------------------------
(* ScramClient. *)

\* Variant for mutation: a notice in the middle of the exchange is skipped.
SaslUnexpectedSkipsNotice(expected) ==
  /\ inbox.kind \notin expected \cup {"empty"}
  /\ CASE inbox.kind = "error"  -> Fail("Backend")
       [] inbox.kind = "notice" -> Consume(pc) /\ UNCHANGED client
       [] OTHER                 -> Fail("Protocol")
  /\ UNCHANGED linkFrame

\* read_authentication_data: ErrorResponse, or the one expected sub-code.
SaslUnexpected(expected) ==
  /\ inbox.kind \notin expected \cup {"empty"}
  /\ Fail(IF inbox.kind = "error" THEN "Backend" ELSE "Protocol")
  /\ UNCHANGED linkFrame

\* Variant for mutation: the salt is not compared.
SaltErrorNever(challenge) == IF challenge.iter # "own" THEN "Auth" ELSE NoFailure

\* A captured ClientKey is good for the stored salt and iterations only.  The
\* password behind the challenge cannot be compared: it is not in it.
SaltError(challenge) ==
  CASE challenge.salt # verifier.secret.salt -> "SaltMismatch"
    [] challenge.iter # "own"                -> "Auth"
    [] OTHER                                 -> NoFailure

\* client_final_message: with a password the keys are derived from the
\* challenge, otherwise the captured and stored ones are used.
ProofFor(challenge) ==
  LET derived == DerivedKey(verifier.secret.pw, challenge)
      stored  == KeyOf(verifier.secret)
  IN [sent       |-> TRUE,
      challenge  |-> challenge,
      client_key |-> IF verifier.plain THEN derived ELSE captured,
      stored_key |-> IF verifier.plain THEN derived ELSE stored,
      server_key |-> IF verifier.plain THEN derived ELSE stored,
      plus       |-> client.mechanism = "plus"]

\* server-first: missing or undecodable attributes and a nonce that does not
\* extend ours are Auth errors, or Protocol for bytes that are not UTF-8.
ServerFirst ==
  /\ \/ Arrived("sasl_first", "bad_challenge") /\ Fail(inbox.arg)
     \/ /\ Arrived("sasl_first", "challenge")
        /\ IF ~verifier.plain /\ SaltError(inbox.arg) # NoFailure
           THEN Fail(SaltError(inbox.arg))
           ELSE /\ client' = [client EXCEPT !.proof = ProofFor(inbox.arg)]
                /\ Consume("sasl_final")
  /\ UNCHANGED linkFrame

\* Variant for mutation: a server-final without v= passes unverified.
SignatureAcceptedLenient(arg) ==
  \/ arg = "missing"
  \/ arg = "right" /\ proof.server_key = ChallengeKey(proof.challenge)

\* verify_server_final: `right` is a signature with the key of the challenge;
\* e=, a missing v= and any other signature are errors.  ServerKey is always
\* there: the verifier has one, and a password derives one.
SignatureAccepted(arg) ==
  arg = "right" /\ proof.server_key = ChallengeKey(proof.challenge)

ServerFinal ==
  /\ Arrived("sasl_final", "final")
  /\ IF SignatureAccepted(inbox.arg)
     THEN client' = [client EXCEPT !.verified = TRUE] /\ Consume("loop")
     ELSE Fail("Auth")
  /\ UNCHANGED linkFrame
-----------------------------------------------------------------------------
(* Timers, lost connections and the environment. *)

Waiting == {"tcp", "ssl_reply", "tls", "startup", "loop", "sasl_first", "sasl_final"}
Handshaking == {"loop", "sasl_first", "sasl_final"}

\* connect_timeout: for the TCP connect, the SSLRequest and the handshake.
ConnectTimeout ==
  /\ pc \in {"tcp", "ssl_reply", "tls"}
  /\ Fail(IF pc = "tcp" THEN "ConnectTimeout" ELSE "TlsTimeout")
  /\ UNCHANGED linkFrame

\* Variant for mutation: only the reads are bounded, not the handshake.
ReadTimeoutOnly ==
  /\ pc \in Handshaking \cup {"startup"}
  /\ inbox = Empty
  /\ Fail("StartupTimeout")
  /\ UNCHANGED linkFrame

\* startup_timeout bounds the whole handshake.  TimeoutStream gives every read
\* and write the same time, that of the startup message before the handshake
\* too, with the same error.
StartupTimeout ==
  /\ pc \in Handshaking \cup {"startup"}
  /\ Fail("StartupTimeout")
  /\ UNCHANGED linkFrame

\* The connection is refused, reset or closed under a read or a write.
LinkLost ==
  /\ pc \in Waiting
  /\ Fail("Io")
  /\ UNCHANGED linkFrame

\* The authentication deadline of the connection drops the future.
Abandon ==
  /\ pc \in Waiting \cup {"relookup"}
  /\ pc' = "dropped"
  /\ client' = NoClient /\ backend' = Silent
  /\ UNCHANGED <<linkFrame, failure>>

\* What the backend may send.  The salt is that of the role as it is then; the
\* role's password is not on the wire, it is what the backend's keys come from.
BackendMessages ==
  {Msg(kind, "none") : kind \in {"malformed", "unsupported", "error", "ok", "cleartext",
                                 "md5", "param", "notice", "ready"}}
  \cup {Msg("sasl", offered) : offered \in SUBSET {"scram", "plus"}}
  \cup {Msg("key", key) : key \in BackendKeys}
  \cup {Msg("final", arg) : arg \in {"right", "wrong", "missing", "error"}}
  \cup {Msg("bad_challenge", arg) : arg \in {"Auth", "Protocol"}}
  \cup {Msg("challenge", [salt |-> role.salt, iter |-> iter, pw |-> role.pw]) :
          iter \in {"own", "other"}}

BackendSends ==
  /\ pc \in Handshaking
  /\ inbox = Empty
  /\ \E m \in BackendMessages :
       LET note == m.kind \in {"param", "notice"}
       IN /\ note => Len(backend.notes) < MaxNotes
          /\ backend' = [inbox |-> m,
                         notes |-> IF note THEN Append(backend.notes, m.kind) ELSE backend.notes,
                         key   |-> IF m.kind = "key" THEN m.arg ELSE backend.key]
  /\ UNCHANGED <<linkFrame, pc, client, failure>>

rotateFrame == <<conf, captured, verifier, pc, tlsVars, client, backend, failure>>

\* A reload or an expired cache entry; later ones are not seen by this link.
RotateStore ==
  /\ pc = "relookup"
  /\ changes < MaxChanges
  /\ changes' = changes + 1
  /\ store' \in (Verifiers \cup {NoVerifier}) \ {store}
  /\ UNCHANGED <<rotateFrame, role>>

\* ALTER ROLE in the database.
RotateRole ==
  /\ pc \in {"relookup", "loop"}
  /\ changes < MaxChanges
  /\ changes' = changes + 1
  /\ role' \in RoleSecrets \ {role}
  /\ UNCHANGED <<rotateFrame, store>>
-----------------------------------------------------------------------------
ReadStep ==
  \/ LoopRefused \/ AuthenticationOk \/ PasswordRequest \/ Notification \/ KeyData
  \/ ReadyForQuery \/ SaslOffer \/ ServerFirst \/ ServerFinal
  \/ pc = "sasl_first" /\ SaslUnexpected({"challenge", "bad_challenge"})
  \/ pc = "sasl_final" /\ SaslUnexpected({"final"})

Next ==
  \/ SecondLookup \/ TcpConnected
  \/ \E answer \in {"yes", "no"} : SslReply(answer)
  \/ TlsSetupFailed
  \/ \E trust \in {"untrusted", "chain", "chain_and_host"}, hashed \in BOOLEAN :
       TlsHandshake(trust, hashed)
  \/ WriteStartup \/ ReadStep
  \/ ConnectTimeout \/ StartupTimeout \/ LinkLost \/ Abandon
  \/ BackendSends \/ RotateStore \/ RotateRole

Spec == Init /\ [][Next]_vars

\* The store answers and the timers fire; nothing is assumed of the backend.
FairSpec ==
  /\ Spec
  /\ WF_vars(SecondLookup) /\ WF_vars(ConnectTimeout) /\ WF_vars(StartupTimeout)
-----------------------------------------------------------------------------
(* Properties. *)

\* decide_tls: the policy table of the design, which the connecting code does
\* not call.
DecideTls(mode, answer) ==
  CASE mode = "disable" /\ answer = "not_requested"       -> "plaintext"
    [] mode = "prefer" /\ answer \in {"not_requested", "no"} -> "plaintext"
    [] mode \in {"prefer", "require"} /\ answer = "yes"    -> "tls"
    [] mode = "verify_full" /\ answer = "yes"              -> "tls_verify_host"
    [] OTHER                                               -> "fail"

\* try_tls follows the policy table decide_tls on every path: from the startup
\* message on the stream is what the table says for the configured mode and
\* the backend's answer, and the certificate it starts with is as good as the
\* mode demands (pg_client.rs try_tls, build_tls_config; backend/mod.rs
\* decide_tls).
TlsPolicyKept ==
  /\ transport # "none" =>
       /\ transport = IF DecideTls(conf.mode, reply) = "plaintext" THEN "plain" ELSE "tls"
       /\ DecideTls(conf.mode, reply) # "fail"
  /\ pc = "startup" =>
       /\ DecideTls(conf.mode, reply) = "tls_verify_host" => cert = "chain_and_host"
       /\ conf.mode = "require" => cert \in {"chain", "chain_and_host"}

ProofRight == {proof.client_key, proof.stored_key} = {ChallengeKey(proof.challenge)}

\* The role has the password the credential store has for it.
SamePassword == proof.challenge.pw = verifier.secret.pw

\* "This only works when the backend's salt and iteration count match"
\* (scram_client.rs): for a role that has the password of the credential store,
\* neither another salt nor another iteration count makes a proof wrong, and a
\* proof that the backend must refuse is sent exactly if the store changed
\* between the two lookups of the login.  That the role has another password no
\* client can see before it sends its proof.
ProofFits ==
  proof.sent /\ SamePassword =>
    /\ verifier.plain \/ captured = KeyOf(verifier.secret) => ProofRight
    /\ ~verifier.plain /\ captured # KeyOf(verifier.secret) => ~ProofRight

\* channel_binding decides what a proof is bound to: `disable` never binds,
\* `require` never sends an unbound proof, and a bound proof is bound to the
\* certificate of a TLS link (config.rs ChannelBindingMode, select_mechanism).
BindingPolicy ==
  proof.sent =>
    /\ proof.plus => transport = "tls" /\ cert_hash /\ conf.binding # "disable"
    /\ conf.binding = "require" => proof.plus

\* A link that came up after a SCRAM exchange has seen the backend's signature
\* verified with the key of that exchange, however often the backend restarted
\* it (pg_client.rs handle_sasl, scram_client.rs verify_server_final).
MutualAuthentication ==
  pc = "up" /\ proof.sent =>
    client.verified /\ proof.server_key = ChallengeKey(proof.challenge)

\* Nothing the backend announced before ReadyForQuery is lost or reordered,
\* also around a SASL exchange, and the key kept for cancels is the last one
\* sent (pg_client.rs handle_startup_handshake, read_authentication_data).
AnnouncementsKept ==
  pc = "up" => client.notifications = backend.notes /\ client.key = backend.key

\* Backend::new comes to an end on its own timers, even against a backend that
\* never stops sending valid messages (pg_client.rs connect).
LinkEnds == <>(pc \in Ended)
=============================================================================
