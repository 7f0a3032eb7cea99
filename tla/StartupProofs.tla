--------------------------- MODULE StartupProofs ---------------------------
(***************************************************************************)
(* Theorems about Startup, for every configuration, any verifiers and any  *)
(* number of changes of the store during the dialogue.                     *)
(***************************************************************************)
EXTENDS Startup, TLAPS

Phases ==
  {"packet", "promote", "handshake", "cancel", "lookup", "initial", "final", "relookup",
   "linking", "notify", "key", "ready", "flush", "report", "expiring", "closed"}

\* TypeOK in parts; what is on the wire comes later.
FlagsTyped ==
  {required_tls, ssl_done, gss_done, registered, stalled, torn, expired, gone, cancelled}
    \subseteq BOOLEAN

StateTyped ==
  /\ pc \in Phases
  /\ transport \in Transports
  /\ buffered \in {Nothing} \cup [packet : Packets, over : Transports]
  /\ store \in Verifiers \cup {NoVerifier}
  /\ reloads \in 0 .. MaxReloads
  /\ verifier \in Verifiers \cup {NoVerifier, Dummy}
  /\ link_verifier \in Verifiers \cup {NoVerifier}
  /\ failure \in ErrorCodes \cup {NoFailure}

\* A read takes a packet from the BufReader or the socket, and what stays
\* behind came over the present transport.
LEMMA PacketRead ==
  ASSUME StateTyped, NEW p \in Packets, ReadPacket(p)
  PROVE  /\ pc = "packet"
         /\ buffered' = Nothing \/ buffered' \in [packet : Packets, over : {transport}]
         /\ buffered' \in {Nothing} \cup [packet : Packets, over : Transports]
BY DEF StateTyped, ReadPacket

\* The classes of packets are what the driver tells apart.
LEMMA RefusalsTyped ==
  /\ DOMAIN RefusalCode \subseteq Packets
  /\ \A p \in DOMAIN RefusalCode : RefusalCode[p] \in ErrorCodes
  /\ {"ssl", "gss", "cancel", "startup", "not_utf8"} \subseteq Packets
BY DEF RefusalCode, Packets, ErrorCodes

\* Every await leaves the driver in one of its phases, with a packet, a
\* transport, verifiers and an error code of the right kind.
LEMMA StateTypedKept ==
  ASSUME StateTyped, [Next]_vars PROVE StateTyped'
<1> USE StartupConstants DEF StateTyped, ErrorCodes, NoFailure, Phases
<1>1. CASE UNCHANGED vars
  BY <1>1 DEF vars, authVars
<1>2. ASSUME NEW p \in Packets, RefusePacket(p) PROVE StateTyped'
  <2>1. buffered' \in {Nothing} \cup [packet : Packets, over : Transports]
    BY <1>2, PacketRead DEF RefusePacket
  <2>2. (IF RefusedForTls(p) THEN "08P01" ELSE RefusalCode[p]) \in ErrorCodes
    BY <1>2, RefusalsTyped DEF RefusePacket
  <2> QED
    BY <1>2, <2>1, <2>2 DEF RefusePacket, Fail, authVars
<1>3. CASE UndecodablePacket
  <2>1. buffered' \in {Nothing} \cup [packet : Packets, over : Transports]
    BY <1>3, PacketRead, RefusalsTyped DEF UndecodablePacket
  <2> QED
    BY <1>3, <2>1 DEF UndecodablePacket, Fail, authVars
<1>4. CASE SslRequest
  <2>1. buffered' \in {Nothing} \cup [packet : Packets, over : Transports]
    BY <1>4, PacketRead, RefusalsTyped DEF SslRequest
  <2> QED
    BY <1>4, <2>1 DEF SslRequest, Fail, authVars
<1>5. CASE GssRequest
  <2>1. buffered' \in {Nothing} \cup [packet : Packets, over : Transports]
    BY <1>5, PacketRead, RefusalsTyped DEF GssRequest
  <2> QED
    BY <1>5, <2>1 DEF GssRequest, Fail, authVars
<1>6. CASE CancelRequest
  <2>1. buffered' \in {Nothing} \cup [packet : Packets, over : Transports]
    BY <1>6, PacketRead, RefusalsTyped DEF CancelRequest
  <2> QED
    BY <1>6, <2>1 DEF CancelRequest, authVars
<1>7. CASE StartupPacket
  <2>1. buffered' \in {Nothing} \cup [packet : Packets, over : Transports]
    BY <1>7, PacketRead, RefusalsTyped DEF StartupPacket
  <2> QED
    BY <1>7, <2>1 DEF StartupPacket, Fail, authVars
<1>8. CASE Promote \/ TlsAccepted \/ TlsFailed \/ CancelForwarded \/ Expire \/ ClientGone \/ ClientReads
  BY <1>8 DEF Promote, TlsAccepted, TlsFailed, CancelForwarded, Expire, ClientGone, ClientReads,
              authVars, Transports
<1>9. CASE Lookup \/ LookupFault \/ ClientFirst \/ ClientFinal \/ SaslSilent
  BY <1>9 DEF Lookup, LookupFault, ClientFirst, ClientFinal, SaslSilent, Reject,
              authVars, dialogueVars
<1>10. CASE SaslRejected
  BY <1>10 DEF SaslRejected, Reject, authVars, dialogueVars
<1>11. CASE SecondLookup \/ SecondLookupFault \/ LinkFailed \/ LinkRegistered
  BY <1>11 DEF SecondLookup, SecondLookupFault, LinkFailed, LinkRegistered, Fail,
              authVars, dialogueVars
<1>12. CASE SendNotifications \/ SendKey \/ SendReady \/ Ready
  BY <1>12 DEF SendNotifications, SendKey, SendReady, Ready, announceVars, authVars
<1>13. CASE Report \/ SendExpired
  BY <1>13 DEF Report, SendExpired, authVars, dialogueVars
<1>14. CASE Reload
  BY <1>14 DEF Reload, dialogueVars
<1> QED
  BY <1>1, <1>2, <1>3, <1>4, <1>5, <1>6, <1>7, <1>8, <1>9, <1>10, <1>11, <1>12, <1>13, <1>14
     DEF Next, ProxyStep, PeerStep

\* The flags of Conn and of the client stay truth values.
LEMMA FlagsTypedKept ==
  ASSUME FlagsTyped, [Next]_vars PROVE FlagsTyped'
<1> USE DEF FlagsTyped
<1>1. CASE UNCHANGED vars
  BY <1>1 DEF vars, peerVars
<1>2. CASE \/ \E p \in Packets : RefusePacket(p)
           \/ UndecodablePacket \/ SslRequest \/ GssRequest \/ CancelRequest \/ StartupPacket
  BY <1>2 DEF RefusePacket, UndecodablePacket, SslRequest, GssRequest, CancelRequest,
              StartupPacket, peerVars
<1>3. CASE Promote \/ TlsAccepted \/ TlsFailed \/ CancelForwarded \/ Expire \/ ClientGone \/ ClientReads
  BY <1>3 DEF Promote, TlsAccepted, TlsFailed, CancelForwarded, Expire, ClientGone, ClientReads,
              peerVars
<1>4. CASE \/ Lookup \/ LookupFault \/ ClientFirst \/ ClientFinal \/ SaslSilent \/ SaslRejected
           \/ SecondLookup \/ SecondLookupFault \/ LinkFailed \/ Report \/ SendExpired \/ Reload
  BY <1>4 DEF Lookup, LookupFault, ClientFirst, ClientFinal, SaslSilent, SaslRejected,
              SecondLookup, SecondLookupFault, LinkFailed, Report, SendExpired, Reload,
              dialogueVars, peerVars
<1>5. CASE LinkRegistered \/ SendNotifications \/ SendKey \/ SendReady \/ Ready
  BY <1>5 DEF LinkRegistered, SendNotifications, SendKey, SendReady, Ready, MayStall,
              announceVars, peerVars
<1> QED
  BY <1>1, <1>2, <1>3, <1>4, <1>5 DEF Next, ProxyStep, PeerStep
-----------------------------------------------------------------------------
(* Where the dialogue stands. *)

AfterAuth == {"relookup", "linking", "notify", "key", "ready", "flush"}
Announcing == {"notify", "key", "ready", "flush"}

\* A failure has left the handler, and a deadline ends the dialogue.
EndsInv ==
  /\ failure # NoFailure => pc \in {"report", "closed"}
  /\ pc = "report" => failure # NoFailure
  /\ expired => pc \in {"expiring", "closed"}
  /\ pc = "expiring" => expired
  /\ cancelled => pc \in {"cancel", "expiring", "report", "closed"}
  /\ cancelled /\ pc = "report" => failure = "08P01"

\* A session is announced only once it is registered.
SessionInv == pc \in Announcing => registered

\* The halves are empty only between promote_to_tls and the end of the
\* handshake, and once TLS was accepted they are never plain again.
UpgradeInv ==
  /\ pc \in {"promote", "handshake"} => ssl_done /\ FrontendTls
  /\ pc = "handshake" => transport = "empty" /\ buffered = Nothing
  /\ transport = "empty" => pc \in {"handshake", "expiring", "closed"}
  /\ ssl_done /\ FrontendTls /\ pc # "promote" => transport # "plain"
  /\ pc = "lookup" /\ required_tls => ssl_done

PathInv ==
  /\ StateTyped /\ FlagsTyped
  /\ EndsInv /\ SessionInv /\ UpgradeInv /\ NoCarryOver

\* Only a failure leads to the report, only the deadline to its message, and a
\* cancel to no login.
LEMMA EndsKept ==
  ASSUME EndsInv, FlagsTyped, [Next]_vars PROVE EndsInv'
<1> USE DEF EndsInv, NoFailure
<1>1. CASE UNCHANGED vars
  BY <1>1 DEF vars
<1>2. ASSUME NEW p \in Packets, RefusePacket(p) PROVE EndsInv'
  <2>1. pc = "packet" /\ pc' = "report" /\ failure' # NoFailure /\ UNCHANGED expired
    BY <1>2, RefusalsTyped DEF RefusePacket, ReadPacket, Fail, ErrorCodes
  <2>2. cancelled' => failure' = "08P01"
    <3>1. ~cancelled
      BY <2>1
    <3>2. CASE p # "bad_cancel"
      BY <1>2, <3>1, <3>2 DEF RefusePacket
    <3>3. CASE p = "bad_cancel"
      BY <1>2, <3>3 DEF RefusePacket, Fail, RefusalCode, RefusedForTls
    <3> QED BY <3>2, <3>3
  <2> QED BY <2>1, <2>2
<1>3. CASE UndecodablePacket \/ SslRequest \/ GssRequest \/ CancelRequest \/ StartupPacket
  BY <1>3 DEF UndecodablePacket, SslRequest, GssRequest, CancelRequest, StartupPacket,
              ReadPacket, Fail
<1>4. CASE Promote \/ TlsAccepted \/ TlsFailed \/ CancelForwarded \/ Expire \/ ClientGone \/ ClientReads
  BY <1>4 DEF Promote, TlsAccepted, TlsFailed, CancelForwarded, Expire, Suspended, ClientGone,
              ClientReads
<1>5. CASE \/ Lookup \/ LookupFault \/ ClientFirst \/ ClientFinal \/ SaslSilent \/ SaslRejected
  BY <1>5 DEF Lookup, LookupFault, ClientFirst, ClientFinal, SaslSilent, SaslRejected, Reject,
              dialogueVars
<1>7. CASE \/ SecondLookup \/ SecondLookupFault \/ LinkFailed \/ Report \/ SendExpired \/ Reload
  BY <1>7 DEF SecondLookup, SecondLookupFault, LinkFailed, Fail, Report, SendExpired, Reload,
              dialogueVars
<1>6. CASE LinkRegistered \/ SendNotifications \/ SendKey \/ SendReady \/ Ready
  <2>1. CASE LinkRegistered \/ Ready
    BY <2>1 DEF LinkRegistered, Ready, announceVars
  <2>2. CASE SendNotifications \/ SendKey \/ SendReady
    <3>1. pc \in Announcing /\ pc' \in Announcing /\ UNCHANGED announceVars
      BY <2>2 DEF SendNotifications, SendKey, SendReady, Announcing
    <3> QED
      BY <3>1 DEF Announcing, announceVars
  <2> QED BY <1>6, <2>1, <2>2
<1> QED
  BY <1>1, <1>2, <1>3, <1>4, <1>5, <1>6, <1>7 DEF Next, ProxyStep, PeerStep

\* The announcement is under way only for a session that is registered.
LEMMA SessionKept ==
  ASSUME SessionInv, FlagsTyped, [Next]_vars PROVE SessionInv'
<1> USE DEF SessionInv, Announcing
<1>1. CASE UNCHANGED vars
  BY <1>1 DEF vars
<1>2. CASE \/ \E p \in Packets : RefusePacket(p)
           \/ UndecodablePacket \/ SslRequest \/ GssRequest \/ CancelRequest \/ StartupPacket
  BY <1>2 DEF RefusePacket, UndecodablePacket, SslRequest, GssRequest, CancelRequest,
              StartupPacket, ReadPacket, Fail
<1>3. CASE Promote \/ TlsAccepted \/ TlsFailed \/ CancelForwarded \/ Expire \/ ClientGone \/ ClientReads
  BY <1>3 DEF Promote, TlsAccepted, TlsFailed, CancelForwarded, Expire, ClientGone, ClientReads
<1>4. CASE \/ Lookup \/ LookupFault \/ ClientFirst \/ ClientFinal \/ SaslSilent \/ SaslRejected
           \/ SecondLookup \/ SecondLookupFault \/ LinkFailed \/ Report \/ SendExpired \/ Reload
  BY <1>4 DEF Lookup, LookupFault, ClientFirst, ClientFinal, SaslSilent, SaslRejected, Reject,
              SecondLookup, SecondLookupFault, LinkFailed, Fail, Report, SendExpired, Reload,
              dialogueVars
<1>5. CASE LinkRegistered \/ SendNotifications \/ SendKey \/ SendReady \/ Ready
  BY <1>5 DEF LinkRegistered, SendNotifications, SendKey, SendReady, Ready, announceVars
<1> QED
  BY <1>1, <1>2, <1>3, <1>4, <1>5 DEF Next, ProxyStep, PeerStep

\* The halves are empty or in the clear where promote_to_tls left them so, and
\* no packet of the old stream is left when the new one is in place.
LEMMA UpgradeKept ==
  ASSUME UpgradeInv, NoCarryOver, StateTyped, FlagsTyped, [Next]_vars
  PROVE  UpgradeInv' /\ NoCarryOver'
<1> USE DEF UpgradeInv, NoCarryOver
<1>1. CASE UNCHANGED vars
  BY <1>1 DEF vars
<1>r. ASSUME NEW p \in Packets, ReadPacket(p), transport' = transport PROVE NoCarryOver'
  <2>1. buffered' = Nothing \/ buffered' \in [packet : Packets, over : {transport}]
    BY <1>r, PacketRead
  <2> QED BY <1>r, <2>1 DEF Nothing
<1>2. ASSUME NEW p \in Packets, RefusePacket(p) PROVE UpgradeInv' /\ NoCarryOver'
  BY <1>2, <1>r DEF RefusePacket, ReadPacket, Fail
<1>3. CASE UndecodablePacket \/ GssRequest \/ CancelRequest
  <2>1. NoCarryOver'
    BY <1>3, <1>r, RefusalsTyped DEF UndecodablePacket, GssRequest, CancelRequest
  <2> QED
    BY <1>3, <2>1 DEF UndecodablePacket, GssRequest, CancelRequest, ReadPacket, Fail
<1>4. CASE SslRequest
  <2>1. NoCarryOver'
    BY <1>4, <1>r, RefusalsTyped DEF SslRequest
  <2> QED
    BY <1>4, <2>1 DEF SslRequest, ReadPacket, Fail
<1>5. CASE StartupPacket
  <2>1. NoCarryOver'
    BY <1>5, <1>r, RefusalsTyped DEF StartupPacket
  <2> QED
    BY <1>5, <2>1 DEF StartupPacket, RefusedForTls, Version3, ReadPacket, Fail
<1>6. CASE Promote \/ TlsAccepted
  BY <1>6 DEF Promote, TlsAccepted, Nothing
<1>7. CASE TlsFailed \/ CancelForwarded \/ Expire \/ ClientGone \/ ClientReads
  BY <1>7 DEF TlsFailed, CancelForwarded, Expire, Suspended, ClientGone, ClientReads
<1>8. CASE \/ Lookup \/ LookupFault \/ ClientFirst \/ ClientFinal \/ SaslSilent \/ SaslRejected
           \/ SecondLookup \/ SecondLookupFault \/ LinkFailed \/ Report \/ SendExpired \/ Reload
  BY <1>8 DEF Lookup, LookupFault, ClientFirst, ClientFinal, SaslSilent, SaslRejected, Reject,
              SecondLookup, SecondLookupFault, LinkFailed, Fail, Report, SendExpired, Reload,
              dialogueVars, Nothing
<1>9. CASE LinkRegistered \/ SendNotifications \/ SendKey \/ SendReady \/ Ready
  <2>1. CASE LinkRegistered \/ Ready
    BY <2>1 DEF LinkRegistered, Ready, announceVars
  <2>2. CASE SendNotifications \/ SendKey \/ SendReady
    <3>1. pc \in Announcing /\ pc' \in Announcing /\ UNCHANGED announceVars
      BY <2>2 DEF SendNotifications, SendKey, SendReady, Announcing
    <3> QED
      BY <3>1 DEF Announcing, announceVars
  <2> QED BY <1>9, <2>1, <2>2
<1> QED
  BY <1>1, <1>2, <1>3, <1>4, <1>5, <1>6, <1>7, <1>8, <1>9 DEF Next, ProxyStep, PeerStep

\* Where the dialogue stands decides the transport, the session and the end.
THEOREM PathInvariant == Spec => []PathInv
<1>1. Init => PathInv
  <2> SUFFICES ASSUME Init PROVE PathInv
    OBVIOUS
  <2>1. StateTyped
    BY StartupConstants DEF Init, StateTyped, Phases, Transports
  <2>2. FlagsTyped
    BY DEF Init, FlagsTyped
  <2> QED
    BY <2>1, <2>2 DEF Init, PathInv, EndsInv, SessionInv, Announcing, UpgradeInv, NoCarryOver
<1>2. PathInv /\ [Next]_vars => PathInv'
  BY StateTypedKept, FlagsTypedKept, EndsKept, SessionKept, UpgradeKept DEF PathInv
<1> QED
  BY <1>1, <1>2, PTL DEF Spec

\* Nothing the client sent in the clear is read as if it had come through TLS
\* (conn.rs promote_to_tls).
THEOREM NoCarryOverCorrect == Spec => []NoCarryOver
  BY PathInvariant, PTL DEF PathInv
-----------------------------------------------------------------------------
(* What is on the wire. *)

Frames == [msg : Messages, over : Transports]

\* Nothing follows an ErrorResponse: it is written on the way to closed.
NoErrorYet == pc # "closed" => \A i \in DOMAIN out : out[i].msg \notin ErrorCodes

\* How far the announcement has come.
AnnouncedInv ==
  /\ pc \in AfterAuth => Sent("auth_ok") # {}
  /\ pc \in {"ready", "flush"} => Sent("K") # {}

\* An 'S' was the answer to the one SSLRequest.
AcceptedInv == Sent("S") # {} => ssl_done /\ FrontendTls

WireInv ==
  /\ out \in Seq(Frames)
  /\ NoErrorYet /\ FailureReportedOnce /\ DeadlineAnswered
  /\ AnnouncedInv /\ KeyBeforeReady
  /\ AcceptedInv /\ TlsSticks /\ OfferFitsTransport

\* Writing one message: the ones before stay where they are.
LEMMA Sending ==
  ASSUME out \in Seq(Frames), NEW f \in Frames, out' = Append(out, f)
  PROVE  /\ out' \in Seq(Frames)
         /\ Len(out) \in Nat /\ Len(out') = Len(out) + 1
         /\ DOMAIN out = 1 .. Len(out) /\ DOMAIN out' = 1 .. Len(out) + 1
         /\ \A i \in 1 .. Len(out) : out'[i] = out[i]
         /\ out'[Len(out) + 1] = f
         /\ out' # <<>>
OBVIOUS

\* A step that writes nothing.
LEMMA QuietKeeps ==
  ASSUME WireInv, PathInv, out' = out, required_tls' = required_tls,
         ssl_done => ssl_done', registered => registered', pc # "closed",
         pc' \in AfterAuth => pc \in AfterAuth,
         pc' \in {"ready", "flush"} => pc \in {"ready", "flush"},
         pc' = "closed" /\ ~gone' => failure' = NoFailure /\ (expired' => transport' = "empty")
  PROVE  WireInv'
<1> USE DEF WireInv
<1>1. \A m : Sent(m)' = Sent(m)
  BY DEF Sent
<1>2. NoErrorYet' /\ FailureReportedOnce'
  BY DEF NoErrorYet, FailureReportedOnce
<1>3. DeadlineAnswered'
  <2>1. Sent("57014") = {}
    BY DEF NoErrorYet, Sent, ErrorCodes
  <2> QED BY <1>1, <2>1 DEF DeadlineAnswered
<1>4. AnnouncedInv' /\ KeyBeforeReady'
  BY <1>1 DEF AnnouncedInv, KeyBeforeReady
<1>5. AcceptedInv' /\ TlsSticks' /\ OfferFitsTransport'
  BY <1>1 DEF AcceptedInv, TlsSticks, OfferFitsTransport
<1> QED BY <1>2, <1>3, <1>4, <1>5

\* A step that writes the message m.
LEMMA SendKeeps ==
  ASSUME WireInv, PathInv, NEW m \in Messages, Send(m), required_tls' = required_tls,
         ssl_done => ssl_done', registered => registered', pc # "closed",
         pc' = "closed" <=> m \in ErrorCodes,
         pc' = "closed" => /\ failure' \in {NoFailure, m}
                           /\ expired' => m = "57014" /\ transport' # "empty",
         pc' \in AfterAuth => pc \in AfterAuth,
         pc' \in {"ready", "flush"} => pc \in {"ready", "flush"} \/ m = "K",
         m = "K" => registered /\ pc \in AfterAuth,
         m = "Z" => pc \in {"ready", "flush"},
         m = "S" => ~ssl_done /\ ssl_done' /\ FrontendTls,
         m # "S" /\ ssl_done /\ FrontendTls => transport = "tls",
         m = "sasl_plus" => transport = "tls",
         m = "sasl" /\ required_tls /\ FrontendTls => transport = "tls"
  PROVE  WireInv'
<1> USE DEF WireInv
<1> DEFINE f == [msg |-> m, over |-> transport]
           n == Len(out)
<1>1. f \in Frames /\ f.msg = m /\ f.over = transport
  BY DEF Frames, PathInv, StateTyped
<1>2. out' = Append(out, f)
  BY DEF Send
<1> HIDE DEF f
<1>3. /\ out' \in Seq(Frames)
      /\ n \in Nat /\ Len(out') = n + 1
      /\ DOMAIN out = 1 .. n /\ DOMAIN out' = 1 .. n + 1
      /\ \A i \in 1 .. n : out'[i] = out[i]
      /\ out'[n + 1] = f
      /\ out' # <<>>
  BY <1>1, <1>2, Sending
<1> HIDE DEF n
<1>4. \A x : Sent(x)' = IF x = m THEN Sent(x) \cup {n + 1} ELSE Sent(x)
  BY <1>1, <1>3 DEF Sent
<1>5. \A x : Sent(x) \subseteq 1 .. n
  BY <1>3 DEF Sent
<1>6. NoErrorYet'
  BY <1>1, <1>3 DEF NoErrorYet
<1>7. FailureReportedOnce'
  BY <1>1, <1>3 DEF NoErrorYet, FailureReportedOnce
<1>8. DeadlineAnswered'
  BY <1>1, <1>3 DEF DeadlineAnswered
<1>9. AnnouncedInv'
  BY <1>4 DEF AnnouncedInv
<1>10. KeyBeforeReady'
  <2>1. ASSUME NEW j \in Sent("Z")' PROVE \E i \in Sent("K")' : i < j
    <3>1. CASE j \in Sent("Z")
      BY <1>4, <3>1 DEF KeyBeforeReady
    <3>2. CASE j = n + 1 /\ m = "Z"
      <4>1. PICK i \in Sent("K") : TRUE
        BY <3>2 DEF AnnouncedInv
      <4> QED BY <1>3, <1>4, <1>5, <3>2, <4>1
    <3> QED BY <1>4, <2>1, <3>1, <3>2
  <2>2. ASSUME NEW j \in Sent("K")' PROVE registered' /\ \E i \in Sent("auth_ok")' : i < j
    <3>1. CASE j \in Sent("K")
      BY <1>4, <3>1 DEF KeyBeforeReady
    <3>2. CASE j = n + 1 /\ m = "K"
      <4>1. PICK i \in Sent("auth_ok") : TRUE
        BY <3>2 DEF AnnouncedInv
      <4> QED BY <1>3, <1>4, <1>5, <3>2, <4>1
    <3> QED BY <1>4, <2>2, <3>1, <3>2
  <2> QED BY <2>1, <2>2 DEF KeyBeforeReady
<1>11. AcceptedInv'
  BY <1>4 DEF AcceptedInv
<1>12. TlsSticks'
  <2> SUFFICES ASSUME NEW i \in Sent("S")', NEW j \in DOMAIN out', j > i
               PROVE  out'[j].over = "tls"
    BY DEF TlsSticks
  <2>1. CASE j = n + 1
    <3>1. i \in Sent("S")
      BY <1>3, <1>4, <2>1
    <3>2. ssl_done /\ FrontendTls
      BY <3>1 DEF AcceptedInv
    <3> QED BY <1>1, <1>3, <2>1, <3>2
  <2>2. CASE j \in 1 .. n
    <3>1. i \in Sent("S")
      BY <1>3, <1>4, <2>2
    <3> QED BY <1>3, <2>2, <3>1 DEF TlsSticks
  <2> QED BY <1>3, <2>1, <2>2
<1>13. OfferFitsTransport'
  BY <1>1, <1>3, <1>4, <1>5 DEF OfferFitsTransport
<1> QED
  BY <1>3, <1>6, <1>7, <1>8, <1>9, <1>10, <1>11, <1>12, <1>13

\* SASLFinal and AuthenticationOk go out together.
LEMMA ClientFinalSends ==
  ASSUME WireInv, PathInv, ClientFinal PROVE WireInv'
<1> USE DEF WireInv
<1> DEFINE f == [msg |-> "sasl_final", over |-> transport]
           g == [msg |-> "auth_ok", over |-> transport]
           n == Len(out)
<1>1. /\ f \in Frames /\ f.msg = "sasl_final" /\ f.over = transport
      /\ g \in Frames /\ g.msg = "auth_ok" /\ g.over = transport
  BY DEF Frames, PathInv, StateTyped, Messages
<1>2. out' = out \o <<f, g>>
  BY DEF ClientFinal, SendBoth
<1>3. /\ pc = "final" /\ pc' = "relookup"
      /\ UNCHANGED <<required_tls, ssl_done, registered, failure, expired, transport>>
  BY DEF ClientFinal, dialogueVars
<1> HIDE DEF f, g
<1>4. /\ out' \in Seq(Frames)
      /\ n \in Nat /\ Len(out') = n + 2
      /\ DOMAIN out = 1 .. n /\ DOMAIN out' = 1 .. n + 2
      /\ \A i \in 1 .. n : out'[i] = out[i]
      /\ out'[n + 1] = f /\ out'[n + 2] = g
  <2>1. <<f, g>> \in Seq(Frames) /\ Len(<<f, g>>) = 2
    BY <1>1
  <2> QED
    BY <1>2, <2>1
<1> HIDE DEF n
<1>5. /\ \A x : x \notin {"sasl_final", "auth_ok"} => Sent(x)' = Sent(x)
      /\ n + 2 \in Sent("auth_ok")'
      /\ Sent("auth_ok") \subseteq Sent("auth_ok")'
  BY <1>1, <1>4 DEF Sent
<1>6. NoErrorYet' /\ FailureReportedOnce' /\ DeadlineAnswered'
  <2>1. NoErrorYet'
    BY <1>1, <1>3, <1>4 DEF NoErrorYet, ErrorCodes
  <2>2. FailureReportedOnce' /\ DeadlineAnswered'
    BY <1>3, <2>1 DEF NoErrorYet, FailureReportedOnce, DeadlineAnswered
  <2> QED BY <2>1, <2>2
<1>7. AnnouncedInv' /\ KeyBeforeReady' /\ AcceptedInv'
  BY <1>3, <1>5 DEF AnnouncedInv, KeyBeforeReady, AcceptedInv
<1>8. TlsSticks'
  <2> SUFFICES ASSUME NEW i \in Sent("S")', NEW j \in DOMAIN out', j > i
               PROVE  out'[j].over = "tls"
    BY DEF TlsSticks
  <2>1. i \in Sent("S")
    BY <1>5
  <2>2. transport = "tls"
    BY <1>3, <2>1 DEF AcceptedInv, PathInv, UpgradeInv, StateTyped, Transports
  <2>3. CASE j \in 1 .. n
    BY <1>4, <2>1, <2>3 DEF TlsSticks
  <2>4. CASE j \in {n + 1, n + 2}
    BY <1>1, <1>4, <2>2, <2>4
  <2> QED BY <1>4, <2>3, <2>4
<1>9. OfferFitsTransport'
  <2>1. \A i \in Sent("sasl") \cup Sent("sasl_plus") : out'[i] = out[i]
    BY <1>4 DEF Sent
  <2> QED
    BY <1>3, <1>5, <2>1 DEF OfferFitsTransport
<1> QED
  BY <1>4, <1>6, <1>7, <1>8, <1>9

\* The inductive invariant of the wire: what may still be written, at every
\* await, and over which transport.
THEOREM WireInvariant == Spec => []WireInv
<1>1. Init => WireInv
  <2> SUFFICES ASSUME Init PROVE WireInv
    OBVIOUS
  <2>1. out = <<>> /\ DOMAIN out = {} /\ out \in Seq(Frames)
    BY DEF Init
  <2>2. \A m : Sent(m) = {}
    BY <2>1 DEF Sent
  <2> QED
    BY <2>1, <2>2 DEF Init, WireInv, NoErrorYet, FailureReportedOnce, DeadlineAnswered,
         AnnouncedInv, AfterAuth, KeyBeforeReady, AcceptedInv, TlsSticks, OfferFitsTransport
<1>2. WireInv /\ PathInv /\ PathInv' /\ [Next]_vars => WireInv'
  <2> SUFFICES ASSUME WireInv, PathInv, PathInv', [Next]_vars PROVE WireInv'
    OBVIOUS
  <2>p. /\ EndsInv /\ SessionInv /\ UpgradeInv /\ StateTyped
        /\ EndsInv' /\ StateTyped'
    BY DEF PathInv
  <2>1. CASE UNCHANGED vars
    <3>1. \A m : Sent(m)' = Sent(m)
      BY <2>1 DEF vars, Sent
    <3> QED
      BY <2>1, <3>1 DEF vars, peerVars, WireInv, NoErrorYet, FailureReportedOnce, DeadlineAnswered,
           AnnouncedInv, KeyBeforeReady, AcceptedInv, TlsSticks, OfferFitsTransport
  <2>2. ASSUME NEW p \in Packets, RefusePacket(p) PROVE WireInv'
    BY <2>2, QuietKeeps DEF RefusePacket, ReadPacket, Fail, AfterAuth
  <2>3. CASE UndecodablePacket \/ StartupPacket
    BY <2>p, <2>3, QuietKeeps DEF UndecodablePacket, StartupPacket, ReadPacket, Fail, AfterAuth, EndsInv
  <2>4. CASE CancelRequest
    BY <2>p, <2>4, QuietKeeps DEF CancelRequest, ReadPacket, AfterAuth, EndsInv
  <2>5. CASE SslRequest
    <3>1. CASE ssl_done
      BY <2>5, <3>1, QuietKeeps DEF SslRequest, ReadPacket, Fail, AfterAuth
    <3>2. CASE ~ssl_done
      <4>1. /\ pc = "packet" /\ pc' \in {"promote", "packet"} /\ ssl_done'
            /\ UNCHANGED <<required_tls, registered>>
            /\ \/ Send("S") /\ FrontendTls
               \/ Send("N")
        BY <2>5, <3>2 DEF SslRequest, ReadPacket
      <4>2. CASE Send("S") /\ FrontendTls
        BY <3>2, <4>1, <4>2, SendKeeps DEF AfterAuth, Messages, ErrorCodes
      <4>3. CASE Send("N")
        BY <3>2, <4>1, <4>3, SendKeeps DEF AfterAuth, Messages, ErrorCodes
      <4> QED BY <4>1, <4>2, <4>3
    <3> QED BY <3>1, <3>2
  <2>t. pc \in Phases \ {"promote", "handshake", "expiring", "closed"} /\ ssl_done /\ FrontendTls
          => transport = "tls"
    BY <2>p DEF UpgradeInv, StateTyped, Transports
  <2>6. CASE GssRequest
    <3>1. CASE gss_done
      BY <2>6, <3>1, QuietKeeps DEF GssRequest, ReadPacket, Fail, AfterAuth
    <3>2. CASE ~gss_done
      <4>1. /\ pc = "packet" /\ pc' = "packet" /\ Send("N")
            /\ UNCHANGED <<required_tls, ssl_done, registered>>
        BY <2>6, <3>2 DEF GssRequest, ReadPacket
      <4> QED
        BY <2>t, <4>1, SendKeeps DEF AfterAuth, Messages, ErrorCodes, Phases
    <3> QED BY <3>1, <3>2
  <2>7. CASE Promote \/ TlsAccepted \/ CancelForwarded \/ TlsFailed
    BY <2>p, <2>7, QuietKeeps DEF Promote, TlsAccepted, CancelForwarded, TlsFailed, AfterAuth, EndsInv
  <2>8. CASE Lookup
    <3>1. /\ pc = "lookup" /\ pc' = "initial"
          /\ UNCHANGED <<required_tls, ssl_done, registered>>
          /\ \/ Send("sasl_plus") /\ OffersPlus
             \/ Send("sasl")
      BY <2>8 DEF Lookup, dialogueVars
    <3>2. CASE Send("sasl_plus") /\ OffersPlus
      BY <2>t, <3>1, <3>2, SendKeeps DEF AfterAuth, Messages, ErrorCodes, Phases, OffersPlus
    <3>3. CASE Send("sasl")
      BY <2>p, <2>t, <3>1, <3>3, SendKeeps DEF AfterAuth, Messages, ErrorCodes, Phases, UpgradeInv
    <3> QED BY <3>1, <3>2, <3>3
  <2>9. ASSUME NEW code \in ErrorCodes, pc \in {"lookup", "initial", "final"}, Reject(code),
               UNCHANGED dialogueVars
        PROVE  WireInv'
    <3>1. /\ pc' = "closed" /\ Send(code) /\ failure' = code
          /\ UNCHANGED <<required_tls, ssl_done, registered, expired>>
      BY <2>9 DEF Reject, dialogueVars
    <3>2. ~expired' /\ code \notin {"S", "N", "K", "Z", "sasl", "sasl_plus"} /\ code \in Messages
      BY <2>9, <2>p, <3>1 DEF EndsInv, ErrorCodes, Messages
    <3> QED
      BY <2>9, <2>t, <3>1, <3>2, SendKeeps DEF AfterAuth, Phases
  <2>10. CASE LookupFault \/ SaslRejected
    BY <2>9, <2>10 DEF LookupFault, SaslRejected, ErrorCodes
  <2>11. CASE ClientFirst
    <3>1. /\ pc = "initial" /\ pc' = "final" /\ Send("sasl_continue")
          /\ UNCHANGED <<required_tls, ssl_done, registered>>
      BY <2>11 DEF ClientFirst, dialogueVars
    <3> QED
      BY <2>t, <3>1, SendKeeps DEF AfterAuth, Messages, ErrorCodes, Phases
  <2>12. CASE ClientFinal
    BY <2>12, ClientFinalSends
  <2>13. CASE SaslSilent \/ SecondLookup \/ SecondLookupFault \/ LinkFailed
    BY <2>p, <2>13, QuietKeeps DEF SaslSilent, SecondLookup, SecondLookupFault, LinkFailed, Fail,
         AfterAuth, dialogueVars, EndsInv
  <2>14. CASE LinkRegistered
    BY <2>14, QuietKeeps DEF LinkRegistered, AfterAuth
  <2>15. CASE SendNotifications
    <3>1. /\ pc = "notify" /\ pc' = "key"
          /\ UNCHANGED <<required_tls, ssl_done, registered>>
          /\ out' = out \/ Send("notice")
      BY <2>15 DEF SendNotifications, announceVars
    <3>2. CASE out' = out
      BY <3>1, <3>2, QuietKeeps DEF AfterAuth
    <3>3. CASE Send("notice")
      BY <2>t, <3>1, <3>3, SendKeeps DEF AfterAuth, Messages, ErrorCodes, Phases
    <3> QED BY <3>1, <3>2, <3>3
  <2>16. CASE SendKey \/ SendReady
    <3>1. /\ UNCHANGED <<required_tls, ssl_done, registered>>
          /\ \/ pc = "key" /\ pc' = "ready" /\ Send("K")
             \/ pc = "ready" /\ pc' = "flush" /\ Send("Z")
      BY <2>16 DEF SendKey, SendReady, announceVars
    <3>2. registered
      BY <2>p, <3>1 DEF SessionInv, Announcing
    <3>3. CASE pc = "key" /\ pc' = "ready" /\ Send("K")
      BY <2>t, <3>1, <3>2, <3>3, SendKeeps DEF AfterAuth, Messages, ErrorCodes, Phases
    <3>4. CASE pc = "ready" /\ pc' = "flush" /\ Send("Z")
      BY <2>t, <3>1, <3>2, <3>4, SendKeeps DEF AfterAuth, Messages, ErrorCodes, Phases
    <3> QED BY <3>1, <3>3, <3>4
  <2>17. CASE Ready
    <3>1. /\ pc = "flush" /\ pc' = "closed" /\ out' = out
          /\ UNCHANGED <<required_tls, ssl_done, registered, failure, expired>>
      BY <2>17 DEF Ready, announceVars
    <3>2. failure = NoFailure /\ ~expired
      BY <2>p, <3>1 DEF EndsInv
    <3> QED
      BY <3>1, <3>2, QuietKeeps DEF AfterAuth
  <2>18. CASE Report
    <3>1. /\ pc = "report" /\ pc' = "closed" /\ Send(failure) /\ failure' = failure
          /\ UNCHANGED <<required_tls, ssl_done, registered, expired>>
      BY <2>18 DEF Report, dialogueVars
    <3>2. failure \in ErrorCodes /\ ~expired'
      BY <2>p, <3>1 DEF EndsInv, StateTyped
    <3>3. failure \notin {"S", "N", "K", "Z", "sasl", "sasl_plus"} /\ failure \in Messages
      BY <3>2 DEF ErrorCodes, Messages
    <3> QED
      BY <2>t, <3>1, <3>2, <3>3, SendKeeps DEF AfterAuth, Phases
  <2>19. CASE Expire
    BY <2>19, QuietKeeps DEF Expire, Suspended, AfterAuth
  <2>20. CASE SendExpired
    <3>1. /\ pc = "expiring" /\ pc' = "closed" /\ failure' = failure /\ transport' = transport
          /\ UNCHANGED <<required_tls, ssl_done, registered, expired>>
          /\ IF transport = "empty" THEN out' = out ELSE Send("57014")
      BY <2>20 DEF SendExpired, dialogueVars
    <3>2. failure = NoFailure
      BY <2>p, <3>1 DEF EndsInv
    <3>3. CASE transport = "empty"
      BY <3>1, <3>2, <3>3, QuietKeeps DEF AfterAuth
    <3>4. CASE transport # "empty"
      <4>1. ssl_done /\ FrontendTls => transport = "tls"
        BY <2>p, <3>1, <3>4 DEF UpgradeInv, StateTyped, Transports
      <4> QED
        BY <3>1, <3>2, <3>4, <4>1, SendKeeps DEF AfterAuth, Messages, ErrorCodes
    <3> QED BY <3>3, <3>4
  <2>21. CASE ClientGone
    BY <2>21, QuietKeeps DEF ClientGone, AfterAuth
  <2>22. CASE ClientReads \/ Reload
    BY <2>22, QuietKeeps DEF ClientReads, Reload, dialogueVars, AfterAuth
  <2> QED
    BY <2>1, <2>2, <2>3, <2>4, <2>5, <2>6, <2>7, <2>8, <2>10, <2>11, <2>12, <2>13, <2>14, <2>15,
       <2>16, <2>17, <2>18, <2>19, <2>20, <2>21, <2>22 DEF Next, ProxyStep, PeerStep
<1> QED
  BY <1>1, <1>2, PathInvariant, PTL DEF Spec

\* Every variable has the type the code gives it, at every await.
THEOREM TypeCorrect == Spec => []TypeOK
<1>1. PathInv /\ WireInv => TypeOK
  <2> SUFFICES ASSUME PathInv, WireInv PROVE TypeOK
    OBVIOUS
  <2>1. \A i \in DOMAIN out : out[i] \in [msg : Messages, over : Transports]
    <3>1. out \in Seq(Frames)
      BY DEF WireInv
    <3>2. \A i \in DOMAIN out : out[i] \in Frames
      BY <3>1
    <3> QED BY <3>2 DEF Frames
  <2>2. StateTyped /\ FlagsTyped
    BY DEF PathInv
  <2> QED
    BY <2>1, <2>2, Zenon DEF StateTyped, FlagsTyped, Phases, TypeOK
<1> QED
  BY <1>1, PathInvariant, WireInvariant, PTL

\* "The driver owns the single ErrorResponse for a startup failure, then
\* closes" (conn.rs drive_startup_until_ready).
THEOREM FailureReportedCorrect == Spec => []FailureReportedOnce
  BY WireInvariant, PTL DEF WireInv

\* ReadyForQuery follows BackendKeyData, which follows AuthenticationOk, and a
\* key on the wire belongs to a registered session (conn.rs
\* handle_startup_packet).
THEOREM KeyBeforeReadyCorrect == Spec => []KeyBeforeReady
  BY WireInvariant, PTL DEF WireInv

\* After the 'S' that accepts TLS nothing is written in the clear (conn.rs
\* promote_to_tls, handle).
THEOREM TlsSticksCorrect == Spec => []TlsSticks
  BY WireInvariant, PTL DEF WireInv

\* -PLUS is offered over TLS only, and with TLS required no login starts in the
\* clear (auth/scram/handler.rs handle_scram_auth, conn.rs handle_startup).
THEOREM OfferCorrect == Spec => []OfferFitsTransport
  BY WireInvariant, PTL DEF WireInv

\* A passed deadline is answered with 57014 wherever the dialogue was, except
\* during a TLS handshake (conn.rs handle).
THEOREM DeadlineCorrect == Spec => []DeadlineAnswered
  BY WireInvariant, PTL DEF WireInv

\* A cancel connection is a dead end (conn.rs handle_startup): after the
\* CancelRequest no step negotiates, logs in or registers, and of the steps that
\* write only the report of a malformed one and the deadline's can come.
THEOREM CancelDeadEndCorrect == Spec => CancelDeadEnd
<1> DEFINE Quiet == UNCHANGED <<ssl_done, gss_done, transport, verifier, link_verifier, registered>>
           Answer == \E e \in {"08P01", "57014"}, o \in {"plain", "tls"} :
                       /\ e = IF expired THEN "57014" ELSE failure
                       /\ out' = Append(out, [msg |-> e, over |-> o])
<1>1. PathInv /\ [Next]_vars => [cancelled => Quiet /\ (out' = out \/ Answer)]_vars
  <2> SUFFICES ASSUME PathInv, Next, cancelled PROVE Quiet /\ (out' = out \/ Answer)
    BY DEF vars
  <2>1. pc \in {"cancel", "expiring", "report", "closed"}
    BY DEF PathInv, EndsInv
  <2>2. \/ CancelForwarded \/ Expire \/ ClientGone \/ ClientReads \/ Reload
        \/ Report \/ SendExpired
    <3>1. ~ \E p \in Packets : RefusePacket(p)
      BY <2>1 DEF RefusePacket, ReadPacket
    <3>2. ~ (\/ UndecodablePacket \/ SslRequest \/ GssRequest \/ CancelRequest \/ StartupPacket
             \/ TlsAccepted \/ TlsFailed)
      BY <2>1 DEF UndecodablePacket, SslRequest, GssRequest, CancelRequest, StartupPacket,
           ReadPacket, TlsAccepted, TlsFailed
    <3>3. ~ (\/ Lookup \/ LookupFault \/ ClientFirst \/ ClientFinal \/ SaslRejected \/ SaslSilent
             \/ SecondLookup \/ SecondLookupFault \/ LinkFailed \/ LinkRegistered)
      BY <2>1 DEF Lookup, LookupFault, ClientFirst, ClientFinal, SaslRejected, SaslSilent,
           SecondLookup, SecondLookupFault, LinkFailed, LinkRegistered
    <3>4. ~ (Promote \/ SendNotifications \/ SendKey \/ SendReady \/ Ready)
      BY <2>1 DEF Promote, SendNotifications, SendKey, SendReady, Ready
    <3> QED
      BY <3>1, <3>2, <3>3, <3>4 DEF Next, ProxyStep, PeerStep
  <2>3. CASE CancelForwarded \/ Expire \/ ClientGone \/ ClientReads \/ Reload
    BY <2>3 DEF CancelForwarded, Expire, ClientGone, ClientReads, Reload, authVars, dialogueVars
  <2>4. CASE Report
    <3>1. pc = "report" /\ Send(failure) /\ Quiet
      BY <2>4 DEF Report, dialogueVars, authVars
    <3>2. failure = "08P01" /\ ~expired /\ transport \in {"plain", "tls"}
      BY <3>1 DEF PathInv, EndsInv, UpgradeInv, StateTyped, Transports
    <3> QED
      BY <3>1, <3>2 DEF Send
  <2>5. CASE SendExpired
    <3>1. pc = "expiring" /\ Quiet /\ (out' = out \/ (transport # "empty" /\ Send("57014")))
      BY <2>5 DEF SendExpired, dialogueVars, authVars
    <3>2. expired /\ (transport # "empty" => transport \in {"plain", "tls"})
      BY <3>1 DEF PathInv, EndsInv, StateTyped, Transports
    <3> QED
      BY <3>1, <3>2 DEF Send
  <2> QED
    BY <2>2, <2>3, <2>4, <2>5
<1> QED
  BY <1>1, PathInvariant, PTL DEF Spec, CancelDeadEnd
-----------------------------------------------------------------------------
(* The dialogue as the life of a connection. *)

\* Where the dialogue stands in the life of its connection.
LifePhase ==
  CASE pc \in Announcing -> "announcing"
    [] pc \in {"linking", "expiring"} -> pc
    [] pc = "cancel" -> "cancelling"
    [] pc \in {"report", "closed"} -> "returning"
    [] OTHER -> "startup"

Life == INSTANCE ConnLife WITH phase <- LifePhase, session <- registered

Beginning ==
  {"packet", "promote", "handshake", "lookup", "initial", "final", "relookup"}

\* Before the link is up there is no session.
NoSessionYet == pc \in Beginning \cup {"linking"} => registered = FALSE

\* A session is registered in one place.
LEMMA NoSessionKept ==
  ASSUME NoSessionYet, StateTyped, [Next]_vars PROVE NoSessionYet'
<1> USE DEF NoSessionYet, Beginning
<1>1. CASE UNCHANGED vars
  BY <1>1 DEF vars
<1>2. CASE \/ \E p \in Packets : RefusePacket(p)
           \/ UndecodablePacket \/ SslRequest \/ GssRequest \/ CancelRequest \/ StartupPacket
  BY <1>2 DEF RefusePacket, UndecodablePacket, SslRequest, GssRequest, CancelRequest,
              StartupPacket, ReadPacket, Fail
<1>3. CASE Promote \/ TlsAccepted \/ TlsFailed \/ CancelForwarded \/ Expire \/ ClientGone \/ ClientReads
  BY <1>3 DEF Promote, TlsAccepted, TlsFailed, CancelForwarded, Expire, ClientGone, ClientReads
<1>4. CASE \/ Lookup \/ LookupFault \/ ClientFirst \/ ClientFinal \/ SaslSilent \/ SaslRejected
           \/ SecondLookup \/ SecondLookupFault \/ LinkFailed \/ Report \/ SendExpired \/ Reload
  BY <1>4 DEF Lookup, LookupFault, ClientFirst, ClientFinal, SaslSilent, SaslRejected, Reject,
              SecondLookup, SecondLookupFault, LinkFailed, Fail, Report, SendExpired, Reload,
              dialogueVars
<1>5. CASE LinkRegistered \/ SendNotifications \/ SendKey \/ SendReady \/ Ready
  BY <1>5 DEF LinkRegistered, SendNotifications, SendKey, SendReady, Ready, announceVars
<1> QED
  BY <1>1, <1>2, <1>3, <1>4, <1>5 DEF Next, ProxyStep, PeerStep

\* What each step does to the phase and the session.
LifeStep ==
  \/ LifePhase' = LifePhase /\ registered' = registered
  \/ /\ pc \in Beginning /\ pc' \in {"linking", "cancel"}
     /\ registered' = registered
  \/ /\ pc \in Beginning \cup {"linking", "cancel", "expiring"} \cup Announcing
     /\ pc' \in {"report", "closed"}
     /\ registered' = registered
  \/ /\ pc \in Beginning \cup {"linking", "cancel"} \cup Announcing
     /\ pc' = "expiring"
     /\ registered' = registered
  \/ pc = "linking" /\ pc' = "notify" /\ registered' = TRUE

\* One action after the other.
LEMMA LifeSteps ==
  ASSUME StateTyped, [Next]_vars PROVE LifeStep
<1> USE DEF Beginning, Announcing
<1>s. ASSUME pc' = pc, registered' = registered PROVE LifeStep
  BY <1>s DEF LifeStep, LifePhase
<1>b. ASSUME pc \in Beginning, pc' \in Beginning, registered' = registered PROVE LifeStep
  <2>1. LifePhase = "startup" /\ LifePhase' = "startup"
    BY <1>b DEF LifePhase
  <2> QED
    BY <1>b, <2>1 DEF LifeStep
<1>a. ASSUME pc \in Announcing, pc' \in Announcing, registered' = registered PROVE LifeStep
  <2>1. LifePhase = "announcing" /\ LifePhase' = "announcing"
    BY <1>a DEF LifePhase
  <2> QED
    BY <1>a, <2>1 DEF LifeStep
<1>e. ASSUME pc = "report", pc' = "closed", registered' = registered PROVE LifeStep
  <2>1. LifePhase = "returning" /\ LifePhase' = "returning"
    BY <1>e DEF LifePhase
  <2> QED
    BY <1>e, <2>1 DEF LifeStep
<1>1. CASE UNCHANGED vars
  BY <1>1, <1>s DEF vars
<1>2. ASSUME NEW p \in Packets, RefusePacket(p) PROVE LifeStep
  BY <1>2 DEF RefusePacket, ReadPacket, Fail, LifeStep
<1>3. CASE UndecodablePacket \/ CancelRequest
  BY <1>3 DEF UndecodablePacket, CancelRequest, ReadPacket, Fail, LifeStep
<1>4. CASE SslRequest \/ GssRequest \/ StartupPacket
  <2>1. /\ pc \in Beginning /\ registered' = registered
        /\ pc' \in Beginning \cup {"report"}
    BY <1>4 DEF SslRequest, GssRequest, StartupPacket, ReadPacket, Fail
  <2> QED
    BY <1>b, <2>1 DEF LifeStep
<1>5. CASE Promote \/ TlsAccepted \/ Lookup \/ ClientFirst \/ ClientFinal
  BY <1>5, <1>b DEF Promote, TlsAccepted, Lookup, ClientFirst, ClientFinal, dialogueVars
<1>6. CASE TlsFailed \/ CancelForwarded \/ LookupFault \/ SaslSilent \/ SaslRejected
  BY <1>6 DEF TlsFailed, CancelForwarded, LookupFault, SaslSilent, SaslRejected, Reject,
              dialogueVars, LifeStep
<1>7. CASE SecondLookup \/ SecondLookupFault \/ LinkFailed
  BY <1>7 DEF SecondLookup, SecondLookupFault, LinkFailed, Fail, dialogueVars, LifeStep
<1>8. CASE LinkRegistered
  BY <1>8 DEF LinkRegistered, LifeStep
<1>9. CASE SendNotifications \/ SendKey \/ SendReady
  BY <1>9, <1>a DEF SendNotifications, SendKey, SendReady, announceVars
<1>10. CASE Ready \/ SendExpired
  BY <1>10 DEF Ready, SendExpired, announceVars, dialogueVars, LifeStep
<1>11. CASE Report
  BY <1>11, <1>e DEF Report, dialogueVars
<1>12. CASE Expire
  BY <1>12 DEF Expire, Suspended, LifeStep
<1>13. CASE ClientGone
  <2>1. /\ pc \in Beginning \cup {"expiring", "report"} \cup Announcing
        /\ pc' = "closed" /\ registered' = registered
    BY <1>13 DEF ClientGone
  <2> QED
    BY <1>e, <2>1 DEF LifeStep
<1>14. CASE ClientReads \/ Reload
  BY <1>14, <1>s DEF ClientReads, Reload, dialogueVars
<1> QED
  BY <1>1, <1>2, <1>3, <1>4, <1>5, <1>6, <1>7, <1>8, <1>9, <1>10, <1>11, <1>12, <1>13, <1>14
     DEF Next, ProxyStep, PeerStep

\* The dialogue is a life of module ConnLife: whatever client, store and backend
\* do, a session comes only out of a login and a link, once, a cancel connection
\* never gets one, and after the deadline the handler only returns (conn.rs
\* handle, drive_startup_until_ready).
THEOREM DialogueIsLife == Spec => Life!Spec
<1>1. Init => Life!Init /\ NoSessionYet
  BY DEF Init, Life!Init, LifePhase, Announcing, NoSessionYet
<1>2. PathInv /\ NoSessionYet /\ [Next]_vars => NoSessionYet'
  BY NoSessionKept DEF PathInv
<1>3. PathInv /\ NoSessionYet /\ [Next]_vars => [Life!Next]_(Life!lifeVars)
  <2> SUFFICES ASSUME PathInv, NoSessionYet, [Next]_vars
               PROVE  Life!Next \/ UNCHANGED Life!lifeVars
    OBVIOUS
  <2>0. LifeStep
    BY LifeSteps DEF PathInv
  <2>1. /\ pc \in Beginning => LifePhase = "startup"
        /\ pc \in Announcing => LifePhase = "announcing"
        /\ pc = "linking" => LifePhase = "linking"
        /\ pc = "expiring" => LifePhase = "expiring"
        /\ pc = "cancel" => LifePhase = "cancelling"
    BY DEF LifePhase, Beginning, Announcing
  <2>2. /\ pc' = "notify" => LifePhase' = "announcing"
        /\ pc' = "linking" => LifePhase' = "linking"
        /\ pc' = "expiring" => LifePhase' = "expiring"
        /\ pc' = "cancel" => LifePhase' = "cancelling"
        /\ pc' \in {"report", "closed"} => LifePhase' = "returning"
    BY DEF LifePhase, Announcing
  <2>3. CASE LifePhase' = LifePhase /\ registered' = registered
    BY <2>3 DEF Life!lifeVars
  <2>4. CASE pc \in Beginning /\ pc' \in {"linking", "cancel"} /\ registered' = registered
    BY <2>1, <2>2, <2>4 DEF Life!Next, Life!Proceed
  <2>5. CASE /\ pc \in Beginning \cup {"linking", "cancel", "expiring"} \cup Announcing
             /\ pc' \in {"report", "closed"}
             /\ registered' = registered
    BY <2>1, <2>2, <2>5 DEF Life!Next, Life!Return
  <2>6. CASE /\ pc \in Beginning \cup {"linking", "cancel"} \cup Announcing
             /\ pc' = "expiring"
             /\ registered' = registered
    BY <2>1, <2>2, <2>6 DEF Life!Next, Life!Expire
  <2>7. CASE pc = "linking" /\ pc' = "notify" /\ registered' = TRUE
    <3>1. registered = FALSE
      BY <2>7 DEF NoSessionYet
    <3> QED
      BY <2>1, <2>2, <2>7, <3>1 DEF Life!Next, Life!Register
  <2> QED
    BY <2>0, <2>3, <2>4, <2>5, <2>6, <2>7 DEF LifeStep
<1> QED
  BY <1>1, <1>2, <1>3, PathInvariant, PTL DEF Spec, Life!Spec
=============================================================================
