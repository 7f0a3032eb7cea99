------------------------------ MODULE Startup ------------------------------
(***************************************************************************)
(* One connection's startup dialogue: the driver in conn.rs, the TLS       *)
(* promotion, the SASL exchange (auth/handler.rs, auth/scram/handler.rs),  *)
(* the second credential lookup, the backend link and the announcement,    *)
(* all under the authentication deadline, with the credential store        *)
(* changing underneath.                                                    *)
(*                                                                         *)
(* A packet is its class, a message its kind or, for an ErrorResponse, its *)
(* SQLSTATE.  An action is the code from one await to the next; the small  *)
(* writes before the announcement go into an empty socket buffer and are   *)
(* not separate awaits.                                                    *)
(***************************************************************************)
EXTENDS Naturals, Sequences

CONSTANTS
  FrontendTls,   \* a TLS acceptor is configured
  CertHash,      \* its certificate has a tls-server-end-point hash
  Verifiers,     \* the verifiers the store may hold for the user, over time
  NoVerifier,    \* the store does not know the user
  Dummy,         \* the verifier invented for an unknown user
  MaxReloads     \* bound: changes of the store during one dialogue

ASSUME StartupConstants ==
  /\ {FrontendTls, CertHash} \subseteq BOOLEAN
  /\ Verifiers # {} /\ NoVerifier \notin Verifiers
  /\ Dummy \notin Verifiers \cup {NoVerifier}
  /\ MaxReloads \in Nat

VARIABLES
  pc,             \* the await the handler is at
  required_tls,   \* Conn.required_tls, a public field; Conn::new sets it to FALSE
  transport,      \* what buffer_reader and buffer_writer wrap
  ssl_done, gss_done,
  buffered,       \* a packet already in the BufReader, and how it arrived
  store,          \* the user's verifier in the credential store
  reloads,        \* how often the store changed (bounds the model)
  verifier,       \* the verifier ScramAuthenticator was created with
  link_verifier,  \* the verifier whose material PgConfig got
  registered,     \* the session is in the registry
  out,            \* what was written to the client, with the transport used
  failure,        \* SQLSTATE of the error the handler ended with
  stalled,        \* the socket buffer is full and the client is not reading
  torn,           \* the last message was cut in the middle by the stall
  expired,        \* the authentication deadline has passed
  gone,           \* the client closed the connection
  cancelled       \* the client sent a CancelRequest, well formed or not

authVars == <<store, reloads, verifier, link_verifier>>
peerVars == <<stalled, torn, gone>>
vars == <<pc, required_tls, transport, ssl_done, gss_done, buffered, authVars, registered, out,
          failure, peerVars, expired, cancelled>>

Nothing == [packet |-> "none", over |-> "none"]
NoFailure == "none"

\* Packets the driver refuses, with the SQLSTATE it reports (error.rs).
RefusalCode ==
  [bad_length |-> "08P01", too_big |-> "08P01", empty |-> "08P01",
   no_code |-> "08P01", bad_cancel |-> "08P01", other_version |-> "0A000",
   bad_layout |-> "08P01", bad_options |-> "08P01", no_user |-> "28000",
   bad_replication |-> "08P01"]

Packets == DOMAIN RefusalCode \cup {"ssl", "gss", "cancel", "startup", "not_utf8"}

\* The classes that carry protocol version 3.0.
Version3 == {"startup", "bad_layout", "bad_options", "no_user", "bad_replication", "not_utf8"}

ErrorCodes == {"08P01", "0A000", "28000", "28P01", "08006", "57014", "backend"}
Messages ==
  ErrorCodes \cup {"S", "N", "sasl", "sasl_plus", "sasl_continue", "sasl_final",
                   "auth_ok", "notice", "K", "Z"}

Send(m) == out' = Append(out, [msg |-> m, over |-> transport])
SendBoth(m, n) ==
  out' = out \o <<[msg |-> m, over |-> transport], [msg |-> n, over |-> transport]>>

Init ==
  /\ pc = "packet"
  /\ required_tls \in BOOLEAN
  /\ transport = "plain"
  /\ ssl_done = FALSE /\ gss_done = FALSE
  /\ buffered = Nothing
  /\ store \in Verifiers \cup {NoVerifier}
  /\ reloads = 0
  /\ verifier = NoVerifier /\ link_verifier = NoVerifier
  /\ registered = FALSE
  /\ out = <<>>
  /\ failure = NoFailure
  /\ stalled = FALSE /\ torn = FALSE
  /\ expired = FALSE /\ gone = FALSE /\ cancelled = FALSE
-----------------------------------------------------------------------------
(* Reading startup packets. *)

\* read_startup_packet: the BufReader may pull a second packet off the socket.
ReadPacket(p) ==
  /\ pc = "packet"
  /\ \/ /\ buffered = Nothing
        /\ buffered' \in {Nothing} \cup [packet : Packets, over : {transport}]
     \/ /\ buffered # Nothing
        /\ p = buffered.packet
        /\ buffered' = Nothing

\* A ConnectionError leaves the handler; the driver reports it.
Fail(code) ==
  /\ failure' = code
  /\ pc' = "report"

\* Variant for mutation: the guard is dropped.
RefusedForTlsNever(p) == FALSE

\* required_tls is checked before the 3.0 packet is parsed.
RefusedForTls(p) == p \in Version3 /\ required_tls /\ ~ssl_done

RefusePacket(p) ==
  /\ p \in DOMAIN RefusalCode
  /\ ReadPacket(p)
  /\ Fail(IF RefusedForTls(p) THEN "08P01" ELSE RefusalCode[p])
  /\ cancelled' = (cancelled \/ p = "bad_cancel")
  /\ UNCHANGED <<required_tls, transport, ssl_done, gss_done, authVars, registered, out,
                 peerVars, expired>>

\* A parameter that is not UTF-8 is an Internal error: no message.
UndecodablePacket ==
  /\ ReadPacket("not_utf8")
  /\ IF RefusedForTls("not_utf8") THEN Fail("08P01")
     ELSE pc' = "closed" /\ UNCHANGED failure
  /\ UNCHANGED <<required_tls, transport, ssl_done, gss_done, authVars, registered, out,
                 peerVars, expired, cancelled>>

\* handle_ssl_request.  `ssl_done` is set before the answer is written.
SslRequest ==
  /\ ReadPacket("ssl")
  /\ IF ssl_done
     THEN Fail("08P01") /\ UNCHANGED <<ssl_done, out>>
     ELSE /\ ssl_done' = TRUE
          /\ Send(IF FrontendTls THEN "S" ELSE "N")
          /\ pc' = IF FrontendTls THEN "promote" ELSE "packet"
          /\ UNCHANGED failure
  /\ UNCHANGED <<required_tls, transport, gss_done, authVars, registered, peerVars, expired, cancelled>>

\* Variant for mutation: the halves are replaced after the handshake.
PromoteLate ==
  /\ pc = "promote"
  /\ buffered' = Nothing
  /\ pc' = "handshake"
  /\ UNCHANGED <<required_tls, transport, ssl_done, gss_done, authVars, registered, out, failure,
                 peerVars, expired, cancelled>>

\* Variant for mutation: the BufReader survives with what it has buffered.
PromoteKeepsBuffer ==
  /\ pc = "promote"
  /\ transport' = "empty"
  /\ pc' = "handshake"
  /\ UNCHANGED <<required_tls, ssl_done, gss_done, buffered, authVars, registered, out, failure,
                 peerVars, expired, cancelled>>

\* promote_to_tls up to its await: both halves are taken out, the BufReader is
\* thrown away with whatever it had buffered.
Promote ==
  /\ pc = "promote"
  /\ transport' = "empty"
  /\ buffered' = Nothing
  /\ pc' = "handshake"
  /\ UNCHANGED <<required_tls, ssl_done, gss_done, authVars, registered, out, failure,
                 peerVars, expired, cancelled>>

TlsAccepted ==
  /\ pc = "handshake"
  /\ transport' = "tls"
  /\ pc' = "packet"
  /\ UNCHANGED <<required_tls, ssl_done, gss_done, buffered, authVars, registered, out, failure,
                 peerVars, expired, cancelled>>

\* The handshake fails: Internal, and there is nothing left to write to.
TlsFailed ==
  /\ pc = "handshake"
  /\ pc' = "closed"
  /\ UNCHANGED <<required_tls, transport, ssl_done, gss_done, buffered, authVars, registered, out,
                 failure, peerVars, expired, cancelled>>

\* handle_gssnc_request.
GssRequest ==
  /\ ReadPacket("gss")
  /\ IF gss_done
     THEN Fail("08P01") /\ UNCHANGED <<gss_done, out>>
     ELSE /\ gss_done' = TRUE
          /\ Send("N")
          /\ UNCHANGED <<pc, failure>>
  /\ UNCHANGED <<required_tls, transport, ssl_done, authVars, registered, peerVars, expired, cancelled>>

\* Variant for mutation: after an unknown key the driver goes on reading.
CancelRequestContinued ==
  /\ ReadPacket("cancel")
  /\ cancelled' = TRUE
  /\ pc' \in {"cancel", "packet"}
  /\ UNCHANGED <<required_tls, transport, ssl_done, gss_done, authVars, registered, out, failure,
                 peerVars, expired>>

\* handle_cancel_request: known keys are forwarded, unknown ones ignored.
CancelRequest ==
  /\ ReadPacket("cancel")
  /\ cancelled' = TRUE
  /\ pc' \in {"cancel", "closed"}
  /\ UNCHANGED <<required_tls, transport, ssl_done, gss_done, authVars, registered, out, failure,
                 peerVars, expired>>

\* send_cancel_request returned; its errors are only logged.
CancelForwarded ==
  /\ pc = "cancel"
  /\ pc' = "closed"
  /\ UNCHANGED <<required_tls, transport, ssl_done, gss_done, buffered, authVars, registered, out,
                 failure, peerVars, expired, cancelled>>

\* A well-formed 3.0 packet with a user.
StartupPacket ==
  /\ ReadPacket("startup")
  /\ IF RefusedForTls("startup") THEN Fail("08P01")
     ELSE pc' = "lookup" /\ UNCHANGED failure
  /\ UNCHANGED <<required_tls, transport, ssl_done, gss_done, authVars, registered, out,
                 peerVars, expired, cancelled>>
-----------------------------------------------------------------------------
(* Authentication. *)

dialogueVars == <<required_tls, transport, ssl_done, gss_done, registered, peerVars, expired, cancelled>>

\* Variant for mutation: the rejection also surfaces as an error, and the
\* driver reports it again.
RejectTwice(code) ==
  /\ Send(code)
  /\ failure' = code
  /\ pc' = "report"

\* handle_authentication writes the ErrorResponse and asks for a close.
Reject(code) ==
  /\ Send(code)
  /\ failure' = code
  /\ pc' = "closed"

\* Variant for mutation: channel binding is offered whenever TLS is configured.
OffersPlusWheneverConfigured == FrontendTls /\ CertHash

\* cert_hash in handle_scram_auth, and ScramAuthenticator::mechanisms.
OffersPlus == ssl_done /\ FrontendTls /\ CertHash

\* First lookup; an unknown user continues with a dummy verifier.
Lookup ==
  /\ pc = "lookup"
  /\ verifier' = IF store = NoVerifier THEN Dummy ELSE store
  /\ Send(IF OffersPlus THEN "sasl_plus" ELSE "sasl")
  /\ pc' = "initial"
  /\ UNCHANGED <<dialogueVars, buffered, store, reloads, link_verifier, failure>>

LookupFault ==
  /\ pc = "lookup"
  /\ Reject("08006")
  /\ UNCHANGED <<dialogueVars, buffered, authVars>>

\* SASLInitialResponse accepted by handle_client_first.  What the BufReader
\* had beyond the startup packet was this response.
ClientFirst ==
  /\ pc = "initial"
  /\ Send("sasl_continue")
  /\ buffered' = Nothing
  /\ pc' = "final"
  /\ UNCHANGED <<dialogueVars, authVars, failure>>

\* SASLResponse with a valid proof; a dummy verifier accepts none.
ClientFinal ==
  /\ pc = "final"
  /\ verifier # Dummy
  /\ SendBoth("sasl_final", "auth_ok")
  /\ pc' = "relookup"
  /\ UNCHANGED <<dialogueVars, buffered, authVars, failure>>

\* Wrong message type, mechanism, attribute, channel binding or proof.
SaslRejected ==
  /\ pc \in {"initial", "final"}
  /\ \E code \in {"08P01", "28P01"} : Reject(code)
  /\ UNCHANGED <<dialogueVars, buffered, authVars>>

\* A bad length or string in a SASL message is mapped to an Internal error.
SaslSilent ==
  /\ pc \in {"initial", "final"}
  /\ pc' = "closed"
  /\ UNCHANGED <<dialogueVars, buffered, authVars, out, failure>>
-----------------------------------------------------------------------------
(* The backend link and the announcement. *)

\* Variant for mutation: an unknown user gets a dummy verifier here as well.
SecondLookupDummy ==
  /\ pc = "relookup"
  /\ link_verifier' = IF store = NoVerifier THEN Dummy ELSE store
  /\ pc' = "linking"
  /\ UNCHANGED <<dialogueVars, buffered, store, reloads, verifier, out, failure>>

\* The second lookup: its result, not the first one's, goes into PgConfig.
SecondLookup ==
  /\ pc = "relookup"
  /\ IF store = NoVerifier
     THEN Fail("08P01") /\ UNCHANGED link_verifier
     ELSE link_verifier' = store /\ pc' = "linking" /\ UNCHANGED failure
  /\ UNCHANGED <<dialogueVars, buffered, store, reloads, verifier, out>>

\* A store fault or a bad backend address is Internal here.
SecondLookupFault ==
  /\ pc = "relookup"
  /\ pc' = "closed"
  /\ UNCHANGED <<dialogueVars, buffered, authVars, out, failure>>

\* Backend::new fails, or none of the 64 session keys was free.
LinkFailed ==
  /\ pc = "linking"
  /\ \E code \in {"28P01", "08P01", "08006", "backend"} : Fail(code)
  /\ UNCHANGED <<dialogueVars, buffered, authVars, out>>

\* Backend::new succeeds and the session is registered; no await in between.
LinkRegistered ==
  /\ pc = "linking"
  /\ registered' = TRUE
  /\ pc' = "notify"
  /\ UNCHANGED <<required_tls, transport, ssl_done, gss_done, buffered, authVars, out, failure,
                 peerVars, expired, cancelled>>

announceVars == <<required_tls, transport, ssl_done, gss_done, buffered, authVars, registered,
                  failure, gone, expired, cancelled>>

\* Variant for mutation: send_key_secret is forgotten.
NotifyThenReady ==
  /\ pc = "notify"
  /\ pc' = "ready"
  /\ UNCHANGED <<out, stalled, torn, announceVars>>

\* send_startup_notifications: each write may leave its flush pending; a body
\* larger than the BufWriter is written through and may be cut in the middle.
SendNotifications ==
  /\ pc = "notify"
  /\ \/ UNCHANGED <<out, stalled, torn>>    \* the backend sent none
     \/ /\ Send("notice")
        /\ stalled' \in BOOLEAN
        /\ torn' \in {FALSE, stalled'}
  /\ pc' = "key"
  /\ UNCHANGED announceVars

\* Only the replayed notifications can fill the socket buffer.
MayStall == \E i \in DOMAIN out : out[i].msg = "notice"

SendKey ==
  /\ pc = "key"
  /\ ~stalled
  /\ Send("K")
  /\ stalled' \in {FALSE, MayStall}
  /\ pc' = "ready"
  /\ UNCHANGED <<torn, announceVars>>

SendReady ==
  /\ pc = "ready"
  /\ ~stalled
  /\ Send("Z")
  /\ stalled' \in {FALSE, MayStall}
  /\ pc' = "flush"
  /\ UNCHANGED <<torn, announceVars>>

\* The last flush is done; handle returns (the relay is not written yet).
Ready ==
  /\ pc = "flush"
  /\ ~stalled
  /\ pc' = "closed"
  /\ UNCHANGED <<out, stalled, torn, announceVars>>
-----------------------------------------------------------------------------
(* Ends. *)

\* drive_startup_until_ready writes the one ErrorResponse.
Report ==
  /\ pc = "report"
  /\ Send(failure)
  /\ pc' = "closed"
  /\ UNCHANGED <<dialogueVars, buffered, authVars, failure>>

\* Variant for mutation: the deadline does not cover the TLS handshake.
SuspendedButHandshake ==
  \/ pc \in {"packet", "cancel", "lookup", "initial", "final", "relookup", "linking"}
  \/ pc \in {"key", "ready", "flush"} /\ stalled

\* Where tokio::time::timeout can find the dialogue suspended.
Suspended ==
  \/ pc \in {"packet", "handshake", "cancel", "lookup", "initial", "final",
             "relookup", "linking"}
  \/ pc \in {"key", "ready", "flush"} /\ stalled

Expire ==
  /\ Suspended
  /\ expired' = TRUE
  /\ pc' = "expiring"
  /\ UNCHANGED <<required_tls, transport, ssl_done, gss_done, buffered, authVars, registered, out,
                 failure, peerVars, cancelled>>

\* Variant for mutation: the deadline closes the connection without a word.
SendExpiredNothing ==
  /\ pc = "expiring"
  /\ pc' = "closed"
  /\ UNCHANGED <<dialogueVars, buffered, authVars, out, failure>>

\* 57014 goes to whatever the writer wraps now: to nothing while a TLS
\* handshake was under way.  This write has no deadline of its own.
SendExpired ==
  /\ pc = "expiring"
  /\ ~stalled
  /\ IF transport = "empty" THEN UNCHANGED out ELSE Send("57014")
  /\ pc' = "closed"
  /\ UNCHANGED <<dialogueVars, buffered, authVars, failure>>

\* Environment: the client goes away where the proxy reads or writes.
ClientGone ==
  /\ pc \in {"packet", "initial", "final", "key", "ready", "flush", "report", "expiring"}
  /\ gone' = TRUE
  /\ pc' = "closed"
  /\ UNCHANGED <<required_tls, transport, ssl_done, gss_done, buffered, authVars, registered, out,
                 failure, stalled, torn, expired, cancelled>>

\* Environment: the client reads again.  The rest of a cut message follows only
\* if the future that was writing it still exists.
ClientReads ==
  /\ pc # "closed"
  /\ stalled
  /\ stalled' = FALSE
  /\ torn' = (torn /\ expired)
  /\ UNCHANGED <<required_tls, pc, transport, ssl_done, gss_done, buffered, authVars, registered, out,
                 failure, gone, expired, cancelled>>

\* Environment: the store's answer for this user changes.
Reload ==
  /\ pc # "closed"
  /\ reloads < MaxReloads
  /\ reloads' = reloads + 1
  /\ store' \in (Verifiers \cup {NoVerifier}) \ {store}
  /\ UNCHANGED <<dialogueVars, pc, buffered, verifier, link_verifier, out, failure>>
-----------------------------------------------------------------------------
\* What the proxy does without waiting for anybody.
ProxyStep ==
  \/ Promote \/ SendNotifications \/ SendKey \/ SendReady \/ Ready
  \/ Report \/ Expire \/ SendExpired

\* What needs the client, the store or the backend.
PeerStep ==
  \/ \E p \in Packets : RefusePacket(p)
  \/ UndecodablePacket \/ SslRequest \/ GssRequest \/ CancelRequest \/ StartupPacket
  \/ TlsAccepted \/ TlsFailed \/ CancelForwarded
  \/ Lookup \/ LookupFault \/ ClientFirst \/ ClientFinal \/ SaslRejected \/ SaslSilent
  \/ SecondLookup \/ SecondLookupFault \/ LinkFailed \/ LinkRegistered
  \/ ClientGone \/ ClientReads \/ Reload

Next == ProxyStep \/ PeerStep

Spec == Init /\ [][Next]_vars

\* The runtime schedules the task and its timer.
FairSpec == Spec /\ WF_vars(ProxyStep)

\* In addition, a client that stops reading does not do so for ever.
ReadingSpec == FairSpec /\ WF_vars(ClientReads)
-----------------------------------------------------------------------------
(* Properties. *)

Transports == {"plain", "empty", "tls"}

TypeOK ==
  /\ pc \in {"packet", "promote", "handshake", "cancel", "lookup", "initial", "final",
             "relookup", "linking", "notify", "key", "ready", "flush", "report",
             "expiring", "closed"}
  /\ transport \in Transports
  /\ {required_tls, ssl_done, gss_done, registered, stalled, torn, expired, gone, cancelled}
       \subseteq BOOLEAN
  /\ buffered \in {Nothing} \cup [packet : Packets, over : Transports]
  /\ store \in Verifiers \cup {NoVerifier}
  /\ reloads \in 0 .. MaxReloads
  /\ verifier \in Verifiers \cup {NoVerifier, Dummy}
  /\ link_verifier \in Verifiers \cup {NoVerifier}
  /\ \A i \in DOMAIN out : out[i] \in [msg : Messages, over : Transports]
  /\ failure \in ErrorCodes \cup {NoFailure}

Sent(m) == {i \in DOMAIN out : out[i].msg = m}

\* "The driver owns the single ErrorResponse for a startup failure, then
\* closes" (conn.rs drive_startup_until_ready), and a rejected login has
\* already written its own: an ErrorResponse is the last thing on the wire,
\* and a failure that has a SQLSTATE reaches a client that is still there.
FailureReportedOnce ==
  /\ \A i \in DOMAIN out : out[i].msg \in ErrorCodes => i = Len(out)
  /\ pc = "closed" /\ failure # NoFailure /\ ~gone
       => out # <<>> /\ out[Len(out)].msg = failure

\* ReadyForQuery comes after BackendKeyData, BackendKeyData after
\* AuthenticationOk, and a key on the wire belongs to a registered session
\* (conn.rs handle_startup_packet from register to send_ready_signal).
KeyBeforeReady ==
  /\ \A j \in Sent("Z") : \E i \in Sent("K") : i < j
  /\ \A j \in Sent("K") : registered /\ \E i \in Sent("auth_ok") : i < j

\* Nothing the client sent in the clear is interpreted as if it had come
\* through TLS (conn.rs promote_to_tls discards the BufReader).
NoCarryOver == transport = "tls" => buffered.over \in {"none", "tls"}

\* After the 'S' that accepts TLS nothing is written in the clear, not even a
\* timeout during the handshake (conn.rs promote_to_tls, handle).
TlsSticks ==
  \A i \in Sent("S") : \A j \in DOMAIN out : j > i => out[j].over = "tls"

\* "-PLUS may only be offered when the client actually upgraded to TLS"
\* (auth/scram/handler.rs handle_scram_auth), and with TLS required and
\* available no login starts in the clear (conn.rs handle_startup;
\* tests/startup.rs startup_is_rejected_when_tls_is_required).
OfferFitsTransport ==
  /\ \A i \in Sent("sasl_plus") : out[i].over = "tls"
  /\ required_tls /\ FrontendTls => \A i \in Sent("sasl") : out[i].over = "tls"

\* "A client that connects and stalls is closed with 57014"
\* (tests/startup_phase.rs): when the deadline has passed and the client is
\* still there, a 57014 ends the stream, wherever in the dialogue it was,
\* except during a TLS handshake, when there is nothing to write it to
\* (conn.rs handle, promote_to_tls).
DeadlineAnswered ==
  pc = "closed" /\ expired /\ ~gone =>
    IF transport = "empty" THEN Sent("57014") = {}
    ELSE out # <<>> /\ out[Len(out)].msg = "57014"

\* "... before it can hold a slot indefinitely" (tests/startup_phase.rs): the
\* dialogue always ends, and with it handle and its permit.
SlotReleased == <>(pc = "closed")

\* What the code makes of "a cancel connection is a dead end" (conn.rs
\* handle_startup, handle_cancel_request): after a CancelRequest, well formed or
\* not, no encryption is negotiated, no login starts and no session is
\* registered, whatever else the client has sent; and what may still be written
\* is the 08P01 of the malformed packet or the 57014 of a deadline that passes
\* while the cancel is being forwarded.
CancelDeadEnd ==
  [][cancelled =>
       /\ UNCHANGED <<ssl_done, gss_done, transport, verifier, link_verifier, registered>>
       /\ \/ out' = out
          \/ \E e \in {"08P01", "57014"}, o \in {"plain", "tls"} :
               /\ e = IF expired THEN "57014" ELSE failure
               /\ out' = Append(out, [msg |-> e, over |-> o])]_vars

\* "A cancel connection is a dead end: no auth, no response" (conn.rs
\* handle_startup), "Nothing is written to the client's cancel connection"
\* (backend/mod.rs send_cancel_request): a client that sent a CancelRequest has
\* been sent nothing but the answers to its requests for encryption.
CancelSilent == cancelled => \A i \in DOMAIN out : out[i].msg \in {"S", "N"}
=============================================================================
