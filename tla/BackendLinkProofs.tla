------------------------- MODULE BackendLinkProofs -------------------------
(***************************************************************************)
(* Theorems about BackendLink, for any secrets, passwords, backend keys    *)
(* and any number of rotations and messages.                               *)
(***************************************************************************)
EXTENDS BackendLink, TLAPS

\* The awaits before the stream to the backend exists, and before the backend
\* can have sent anything.
BeforeStream == {"relookup", "tcp", "ssl_reply", "tls"}
BeforeLoop == BeforeStream \cup {"startup"}

\* Where the TLS negotiation stands at each await of connect.
NegotiationInv ==
  /\ conf \in [mode : TlsModes, binding : BindingModes]
  /\ pc \in {"relookup", "tcp", "ssl_reply"} => reply = "not_requested"
  /\ pc \in BeforeStream => transport = "none"
  /\ pc \in {"ssl_reply", "tls"} => conf.mode # "disable"
  /\ pc = "tls" => reply = "yes"
  /\ cert_hash \in BOOLEAN
  /\ cert_hash => transport = "tls"

TlsInv == NegotiationInv /\ TlsPolicyKept

\* Steps that leave the negotiation where it is and do not reach startup.
LEMMA NegotiationKept ==
  ASSUME TlsInv, UNCHANGED <<conf, tlsVars>>,
         pc' \in {pc, "loop", "up", "sasl_first", "sasl_final", "failed", "dropped"}
  PROVE  TlsInv'
BY DEF TlsInv, NegotiationInv, TlsPolicyKept, BeforeStream, tlsVars

\* The negotiation follows the policy table at every await of connect.
THEOREM TlsInvariant == Spec => []TlsInv
<1>1. Init => TlsInv
  BY DEF Init, TlsInv, NegotiationInv, TlsPolicyKept, BeforeStream
<1>2. TlsInv /\ [Next]_vars => TlsInv'
  <2> SUFFICES ASSUME TlsInv, [Next]_vars PROVE TlsInv'
    OBVIOUS
  <2>1. CASE UNCHANGED vars
    BY <2>1, NegotiationKept DEF vars
  <2>2. CASE SecondLookup
    BY <2>2 DEF SecondLookup, Fail, TlsInv, NegotiationInv, TlsPolicyKept, BeforeStream, tlsVars
  <2>3. CASE TcpConnected
    BY <2>3 DEF TcpConnected, Proceed, TlsInv, NegotiationInv, TlsPolicyKept, BeforeStream,
                DecideTls, TlsModes
  <2>4. ASSUME NEW answer \in {"yes", "no"}, SslReply(answer) PROVE TlsInv'
    <3> USE <2>4 DEF SslReply, TlsInv, NegotiationInv, TlsPolicyKept, BeforeStream
    <3>1. CASE answer = "yes"
      BY <3>1 DEF Proceed
    <3>2. CASE answer = "no" /\ conf.mode = "prefer"
      BY <3>2 DEF Proceed, DecideTls
    <3>3. CASE ~(answer = "yes" \/ (answer = "no" /\ conf.mode = "prefer"))
      BY <3>3 DEF Fail
    <3> QED BY <3>1, <3>2, <3>3
  <2>5. ASSUME NEW trust \in {"untrusted", "chain", "chain_and_host"},
               NEW hashed \in BOOLEAN, TlsHandshake(trust, hashed)
        PROVE  TlsInv'
    <3> USE <2>5 DEF TlsHandshake, TlsInv, NegotiationInv, TlsPolicyKept, BeforeStream
    <3>1. CASE Accepts(trust)
      BY <3>1 DEF Proceed, DecideTls, Accepts, TlsModes
    <3>2. CASE ~Accepts(trust)
      BY <3>2 DEF Fail
    <3> QED BY <3>1, <3>2
  <2>6. CASE WriteStartup
    BY <2>6 DEF WriteStartup, Proceed, TlsInv, NegotiationInv, TlsPolicyKept, BeforeStream
  <2>7. CASE TlsSetupFailed \/ ConnectTimeout \/ StartupTimeout \/ LinkLost \/ Abandon
    BY <2>7, NegotiationKept DEF TlsSetupFailed, ConnectTimeout, StartupTimeout, LinkLost,
         Abandon, Fail, linkFrame
  <2>8. CASE ReadStep
    BY <2>8, NegotiationKept
       DEF ReadStep, LoopRefused, AuthenticationOk, PasswordRequest, Notification, KeyData,
           ReadyForQuery, SaslOffer, ServerFirst, ServerFinal, SaslUnexpected,
           Consume, Fail, linkFrame
  <2>9. CASE BackendSends \/ RotateStore \/ RotateRole
    BY <2>9, NegotiationKept DEF BackendSends, RotateStore, RotateRole, linkFrame, rotateFrame
  <2> QED
    BY <2>1, <2>2, <2>3, <2>4, <2>5, <2>6, <2>7, <2>8, <2>9 DEF Next
<1> QED
  BY <1>1, <1>2, PTL DEF Spec

\* try_tls and build_tls_config realise decide_tls for every mode and answer.
THEOREM TlsPolicyCorrect == Spec => []TlsPolicyKept
  BY TlsInvariant, PTL DEF TlsInv
-----------------------------------------------------------------------------
(* The exchange with the backend. *)

\* Both ends are records with these fields, whatever is in them.
Shapes ==
  /\ client = [notifications |-> client.notifications, key |-> client.key,
               mechanism |-> client.mechanism, proof |-> client.proof,
               verified |-> client.verified]
  /\ backend = [inbox |-> backend.inbox, notes |-> backend.notes, key |-> backend.key]

\* Nothing has been exchanged before the loop, and an error or a deadline
\* leaves nothing behind.
NothingKept ==
  pc \in BeforeLoop \cup {"failed", "dropped"} => client = NoClient /\ backend = Silent

\* select_mechanism decided the exchange under way, and the mechanism it chose
\* is one the configuration and the certificate allow.
MechanismInv ==
  /\ pc \in {"sasl_first", "sasl_final"} => client.mechanism \in {"scram", "plus"}
  /\ client.mechanism = "plus" => cert_hash /\ conf.binding # "disable"
  /\ client.mechanism = "scram" => conf.binding # "require"

\* Out of an exchange, the last proof was answered by a signature that verified.
VerifiedInv ==
  pc \in {"loop", "up"} /\ proof.sent =>
    client.verified /\ proof.server_key = ChallengeKey(proof.challenge)

\* What the backend has announced is what the client keeps and, at most, the
\* announcement that lies unread in the inbox.
AnnouncedInv ==
  /\ backend.notes = IF inbox.kind \in {"param", "notice"}
                     THEN Append(client.notifications, inbox.kind)
                     ELSE client.notifications
  /\ backend.key = IF inbox.kind = "key" THEN inbox.arg ELSE client.key
  /\ pc = "up" => inbox = Empty

LinkInv ==
  /\ Shapes /\ NothingKept /\ MechanismInv /\ BindingPolicy
  /\ VerifiedInv /\ ProofFits /\ AnnouncedInv

USE DEF ProofRight, SamePassword

\* A dropped or refused connect keeps neither a proof nor an announcement.
LEMMA ResetKeeps ==
  ASSUME client' = NoClient, backend' = Silent, pc' \notin {"up", "sasl_first", "sasl_final"}
  PROVE  LinkInv'
<1>1. Shapes'
  BY DEF Shapes, NoClient, Silent
<1>2. NothingKept'
  BY DEF NothingKept
<1>3. MechanismInv'
  BY DEF MechanismInv, NoClient
<1>4. proof'.sent = FALSE
  BY DEF proof, NoClient, NoProof
<1>5. BindingPolicy' /\ VerifiedInv' /\ ProofFits'
  BY <1>4 DEF BindingPolicy, VerifiedInv, ProofFits
<1>6. AnnouncedInv'
  BY DEF AnnouncedInv, NoClient, Silent, inbox, Empty, Msg
<1> QED
  BY <1>1, <1>2, <1>3, <1>5, <1>6 DEF LinkInv

\* Reading a message that is not an announcement, and keeping nothing of it.
LEMMA ConsumeKeeps ==
  ASSUME LinkInv, pc = "loop", pc' \in {"loop", "up"}, UNCHANGED <<linkFrame, client>>,
         backend' = [backend EXCEPT !.inbox = Empty],
         inbox.kind \notin {"param", "notice", "key"}
  PROVE  LinkInv'
BY DEF LinkInv, Shapes, NothingKept, MechanismInv, BindingPolicy, VerifiedInv, ProofFits,
       AnnouncedInv, proof, inbox, Empty, Msg, linkFrame, credentialVars, tlsVars, BeforeLoop,
       BeforeStream

\* What connect keeps of the exchange agrees with what the backend sent and
\* with what the configuration allows, at every await.
THEOREM LinkInvariant == Spec => []LinkInv
<1>1. Init => LinkInv
  BY DEF Init, LinkInv, Shapes, NothingKept, MechanismInv, BindingPolicy, VerifiedInv, ProofFits,
         AnnouncedInv, NoClient, Silent, NoProof, proof, inbox, Empty, Msg
<1>2. LinkInv /\ TlsInv /\ [Next]_vars => LinkInv'
  <2> SUFFICES ASSUME LinkInv, TlsInv, [Next]_vars PROVE LinkInv'
    OBVIOUS
  <2> USE DEF LinkInv
  <2>1. CASE UNCHANGED vars
    BY <2>1 DEF vars, credentialVars, tlsVars, Shapes, NothingKept, MechanismInv, BindingPolicy,
                VerifiedInv, ProofFits, AnnouncedInv, proof, inbox
  <2>2. ASSUME pc \in BeforeStream, client' = client, backend' = backend,
               pc' \notin {"up", "sasl_first", "sasl_final"}
        PROVE  LinkInv'
    BY <2>2, ResetKeeps DEF NothingKept, BeforeLoop
  <2>3. CASE SecondLookup \/ TcpConnected
    BY <2>3, <2>2, ResetKeeps DEF SecondLookup, TcpConnected, Proceed, Fail, BeforeStream
  <2>4. ASSUME NEW answer \in {"yes", "no"}, SslReply(answer) PROVE LinkInv'
    BY <2>4, <2>2, ResetKeeps DEF SslReply, Proceed, Fail, BeforeStream
  <2>5. ASSUME NEW trust, NEW hashed, TlsHandshake(trust, hashed) PROVE LinkInv'
    BY <2>5, <2>2, ResetKeeps DEF TlsHandshake, Proceed, Fail, BeforeStream
  <2>6. CASE WriteStartup
    <3>1. client' = NoClient /\ backend' = Silent /\ pc' = "loop"
      BY <2>6 DEF WriteStartup, Proceed, NothingKept, BeforeLoop
    <3> QED BY <3>1, ResetKeeps
  <2>7. CASE TlsSetupFailed \/ ConnectTimeout \/ StartupTimeout \/ LinkLost \/ Abandon
    BY <2>7, ResetKeeps DEF TlsSetupFailed, ConnectTimeout, StartupTimeout, LinkLost,
         Abandon, Fail
  <2>8. CASE ReadStep
    <3>1. CASE LoopRefused \/ (\E expected : SaslUnexpected(expected))
      BY <3>1, ResetKeeps DEF LoopRefused, SaslUnexpected, Fail
    <3>2. CASE AuthenticationOk \/ ReadyForQuery
      BY <3>2, ConsumeKeeps DEF AuthenticationOk, ReadyForQuery, Arrived, Consume
    <3>3. CASE PasswordRequest
      BY <3>3, ConsumeKeeps, ResetKeeps DEF PasswordRequest, Arrived, Consume, Fail
    <3>4. CASE Notification
      BY <3>4 DEF Notification, Arrived, Consume, linkFrame, credentialVars, tlsVars, Shapes,
           NothingKept, MechanismInv, BindingPolicy, VerifiedInv, ProofFits, AnnouncedInv,
           proof, inbox, Empty, Msg, BeforeLoop, BeforeStream
    <3>5. CASE KeyData
      BY <3>5 DEF KeyData, Arrived, Consume, linkFrame, credentialVars, tlsVars, Shapes,
           NothingKept, MechanismInv, BindingPolicy, VerifiedInv, ProofFits, AnnouncedInv,
           proof, inbox, Empty, Msg, BeforeLoop, BeforeStream
    <3>6. CASE SaslOffer
      <4> DEFINE chosen == IF inbox.arg = {} THEN "UnsupportedAuth"
                           ELSE SelectMechanism(conf.binding, cert_hash, inbox.arg)
      <4>1. CASE chosen \notin {"scram", "plus"}
        BY <3>6, <4>1, ResetKeeps DEF SaslOffer, Fail
      <4>2. CASE chosen \in {"scram", "plus"}
        <5>1. /\ chosen = "plus" => cert_hash /\ conf.binding # "disable"
              /\ chosen = "scram" => conf.binding # "require"
          BY <4>2 DEF SelectMechanism, TlsInv, NegotiationInv
        <5>2. /\ client' = [client EXCEPT !.mechanism = chosen]
              /\ Arrived("loop", "sasl") /\ Consume("sasl_first") /\ UNCHANGED linkFrame
          BY <3>6, <4>2 DEF SaslOffer
        <5> HIDE DEF chosen
        <5> QED
          BY <4>2, <5>1, <5>2 DEF Arrived, Consume, linkFrame, credentialVars, tlsVars, Shapes,
               NothingKept, MechanismInv, BindingPolicy, VerifiedInv, ProofFits, AnnouncedInv,
               proof, inbox, Empty, Msg, BeforeLoop, BeforeStream
      <4> QED BY <4>1, <4>2
    <3>7. CASE ServerFirst
      <4>1. CASE client' = NoClient /\ backend' = Silent /\ pc' = "failed"
        BY <4>1, ResetKeeps
      <4>2. CASE /\ Arrived("sasl_first", "challenge") /\ Consume("sasl_final")
                 /\ ~verifier.plain => SaltError(inbox.arg) = NoFailure
                 /\ client' = [client EXCEPT !.proof = ProofFor(inbox.arg)]
                 /\ UNCHANGED linkFrame
        <5>1. proof' = ProofFor(inbox.arg)
          BY <4>2 DEF proof, Shapes
        <5>2. BindingPolicy'
          BY <4>2, <5>1 DEF BindingPolicy, ProofFor, MechanismInv, Arrived, linkFrame, tlsVars,
               TlsInv, NegotiationInv
        <5>3. ProofFits'
          <6>0. verifier' = verifier /\ captured' = captured
            BY <4>2 DEF linkFrame, credentialVars
          <6> SUFFICES ASSUME inbox.arg.pw = verifier.secret.pw
                       PROVE  /\ verifier.plain \/ captured = KeyOf(verifier.secret) => ProofRight'
                              /\ ~verifier.plain /\ captured # KeyOf(verifier.secret) => ~ProofRight'
            BY <5>1, <6>0 DEF ProofFits, ProofFor
          <6>1. ASSUME NEW key, key = ChallengeKey(inbox.arg),
                       proof'.client_key = key, proof'.stored_key = key
                PROVE  ProofRight'
            BY <5>1, <6>1 DEF ProofFor, ChallengeKey, DerivedKey
          <6>2. CASE verifier.plain
            <7>1. DerivedKey(verifier.secret.pw, inbox.arg) = ChallengeKey(inbox.arg)
              BY DEF ChallengeKey
            <7>2. /\ proof'.client_key = DerivedKey(verifier.secret.pw, inbox.arg)
                  /\ proof'.stored_key = DerivedKey(verifier.secret.pw, inbox.arg)
              BY <5>1, <6>2 DEF ProofFor
            <7> QED BY <6>1, <6>2, <7>1, <7>2
          <6>3. CASE ~verifier.plain
            <7>1. inbox.arg.salt = verifier.secret.salt /\ inbox.arg.iter = "own"
              BY <4>2, <6>3 DEF SaltError, NoFailure
            <7>2. KeyOf(verifier.secret) = ChallengeKey(inbox.arg)
              BY <7>1 DEF ChallengeKey, DerivedKey, KeyOf
            <7>3. proof'.client_key = captured /\ proof'.stored_key = KeyOf(verifier.secret)
              BY <5>1, <6>3 DEF ProofFor
            <7>4. captured # KeyOf(verifier.secret) => ~ProofRight'
              BY <7>3
            <7> QED BY <6>1, <6>3, <7>2, <7>3, <7>4
          <6> QED BY <6>2, <6>3
        <5>4. Shapes' /\ NothingKept' /\ MechanismInv' /\ VerifiedInv' /\ AnnouncedInv'
          BY <4>2 DEF Arrived, Consume, linkFrame, tlsVars, Shapes, NothingKept, MechanismInv,
               VerifiedInv, AnnouncedInv, inbox, Empty, Msg, BeforeLoop, BeforeStream
        <5> QED BY <5>2, <5>3, <5>4
      <4> QED
        BY <3>7, <4>1, <4>2 DEF ServerFirst, Fail
    <3>8. CASE ServerFinal
      <4>1. CASE ~SignatureAccepted(inbox.arg)
        BY <3>8, <4>1, ResetKeeps DEF ServerFinal, Fail
      <4>2. CASE SignatureAccepted(inbox.arg)
        <5>1. /\ client' = [client EXCEPT !.verified = TRUE]
              /\ Arrived("sasl_final", "final") /\ Consume("loop") /\ UNCHANGED linkFrame
          BY <3>8, <4>2 DEF ServerFinal
        <5>2. /\ client'.verified = TRUE /\ proof' = proof /\ client'.mechanism = client.mechanism
              /\ client'.notifications = client.notifications /\ client'.key = client.key
          BY <5>1 DEF Shapes, proof
        <5>3. VerifiedInv'
          BY <4>2, <5>2 DEF VerifiedInv, SignatureAccepted
        <5>4. BindingPolicy' /\ ProofFits'
          BY <5>1, <5>2 DEF linkFrame, credentialVars, tlsVars, BindingPolicy, ProofFits
        <5>5. Shapes' /\ NothingKept' /\ MechanismInv' /\ AnnouncedInv'
          BY <5>1, <5>2 DEF Arrived, Consume, linkFrame, tlsVars, Shapes, NothingKept,
               MechanismInv, AnnouncedInv, inbox, Empty, Msg, BeforeLoop, BeforeStream
        <5> QED BY <5>3, <5>4, <5>5
      <4> QED BY <4>1, <4>2
    <3> QED
      BY <2>8, <3>1, <3>2, <3>3, <3>4, <3>5, <3>6, <3>7, <3>8 DEF ReadStep
  <2>9. CASE BackendSends
    <3>1. PICK m \in BackendMessages :
            backend' = [inbox |-> m,
                        notes |-> IF m.kind \in {"param", "notice"}
                                  THEN Append(backend.notes, m.kind) ELSE backend.notes,
                        key   |-> IF m.kind = "key" THEN m.arg ELSE backend.key]
      BY <2>9 DEF BackendSends
    <3>2. inbox.kind = "empty" /\ pc \in Handshaking /\ UNCHANGED <<linkFrame, pc, client>>
      BY <2>9 DEF BackendSends, Empty, Msg
    <3> QED
      BY <3>1, <3>2 DEF linkFrame, credentialVars, tlsVars, Shapes, NothingKept, MechanismInv,
           BindingPolicy, VerifiedInv, ProofFits, AnnouncedInv, proof, inbox, Handshaking,
           BeforeLoop, BeforeStream
  <2>10. CASE RotateStore \/ RotateRole
    BY <2>10 DEF RotateStore, RotateRole, rotateFrame, tlsVars, Shapes, NothingKept,
         MechanismInv, BindingPolicy, VerifiedInv, ProofFits, AnnouncedInv, proof, inbox
  <2> QED
    BY <2>1, <2>3, <2>4, <2>5, <2>6, <2>7, <2>8, <2>9, <2>10 DEF Next
<1> QED
  BY <1>1, <1>2, TlsInvariant, PTL DEF Spec

\* For a role with the store's password a proof is the right answer to its
\* challenge exactly if it is made of a password or both lookups saw one secret:
\* another salt or iteration count is met by SaltMismatch or Auth, or by keys
\* derived anew (scram_client.rs client_final_message).
THEOREM ProofsFit == Spec => []ProofFits
  BY LinkInvariant, PTL DEF LinkInv

\* No proof is sent that channel_binding does not allow, on any path through
\* select_mechanism and however often the backend restarts the exchange.
THEOREM BindingCorrect == Spec => []BindingPolicy
  BY LinkInvariant, PTL DEF LinkInv

\* No link comes up on a proof whose answer did not verify (pg_client.rs
\* handle_sasl, scram_client.rs verify_server_final).
THEOREM BackendAuthenticated == Spec => []MutualAuthentication
<1>1. LinkInv => MutualAuthentication
  BY DEF LinkInv, VerifiedInv, MutualAuthentication
<1> QED
  BY <1>1, LinkInvariant, PTL

\* The startup loop hands on every announcement, in order, and the last key.
THEOREM AnnouncementsCorrect == Spec => []AnnouncementsKept
<1>1. LinkInv => AnnouncementsKept
  BY DEF LinkInv, AnnouncedInv, AnnouncementsKept, Empty, Msg
<1> QED
  BY <1>1, LinkInvariant, PTL
=============================================================================
