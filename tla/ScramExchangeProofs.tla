------------------------ MODULE ScramExchangeProofs ------------------------
(***************************************************************************)
(* Theorems about ScramExchange, for any number of logins, client          *)
(* exchanges and certificates, and any way of repeating and misdirecting   *)
(* messages.                                                               *)
(***************************************************************************)
EXTENDS ScramExchange, TLAPS

\* The three kinds of message, as the state of their sender determines them.
FirstOf(c) ==
  [type |-> "first", mechanism |-> client[c].mechanism, gs2 |-> client[c].gs2, nonce |-> c]

ChallengeOf(s) == [type |-> "challenge", nonce |-> server[s].nonce]

AnswerCbind(c) == CbindInput(client[c].gs2, profile[c].sees)
AnswerNonce(c) == <<c, client[c].peer>>
FinalOf(c) ==
  [type |-> "final", cbind |-> AnswerCbind(c), nonce |-> AnswerNonce(c),
   key |-> profile[c].right,
   auth |-> AuthMessage(c, AnswerNonce(c), AnswerCbind(c), AnswerNonce(c))]

\* The login has sent a challenge.
Opened(s) == server[s].state = "ClientFirstReceived" \/ server[s].judged = 1

Shapes ==
  /\ DOMAIN server = Servers /\ DOMAIN client = Clients
  /\ \A s \in Servers : DOMAIN server[s] =
       {"state", "mechanism", "gs2", "nonce", "judged", "verdict", "sender"}
  /\ \A c \in Clients : DOMAIN client[c] = {"state", "offer", "mechanism", "gs2", "peer"}

\* Everything on the wire was sent by a client or a login in the state it is in.
WireInv ==
  \A m \in wire :
    \/ \E c \in Clients : client[c].state \in {"first", "final"} /\ m = FirstOf(c)
    \/ \E s \in Servers : Opened(s) /\ m = ChallengeOf(s)
    \/ \E c \in Clients : client[c].state = "final" /\ m = FinalOf(c)

\* A client that has begun chose by the offer it read.
ClientInv ==
  \A c \in Clients :
    /\ client[c].state \in {"start", "first", "final"}
    /\ client[c].state # "start" =>
         /\ client[c].offer \in Servers
         /\ client[c].mechanism = Chosen(c, Mechanisms(client[c].offer))
         /\ client[c].gs2 = <<Flag(c, Mechanisms(client[c].offer)), NoAuthzid>>

\* The stages of a ScramAuthenticator.
StageInv ==
  \A s \in Servers :
    /\ server[s].state \in {"Started", "ClientFirstReceived", "Done"}
    /\ server[s].judged \in {0, 1}
    /\ server[s].state # "Done" =>
         server[s].judged = 0 /\ server[s].verdict = Undecided /\ server[s].sender = Stray

\* A login that sent a challenge had passed validate_params and
\* validate_gs2_flag, and holds what the client that it challenges chose.
OpenedInv ==
  \A s \in Servers : Opened(s) =>
    /\ server[s].nonce = <<PeerOf(s), s>>
    /\ server[s].mechanism \in {SCRAM_SHA_256, PLUS}
    /\ FlagVerdict(s, server[s].mechanism, server[s].gs2[1]) = "ok"
    /\ PeerOf(s) \in Clients =>
         /\ client[PeerOf(s)].state # "start"
         /\ client[PeerOf(s)].mechanism = server[s].mechanism
         /\ client[PeerOf(s)].gs2 = server[s].gs2

\* A success follows a judged client-final, and a known sender has begun.
VerdictInv ==
  \A s \in Servers :
    /\ Accepted(s) => server[s].judged = 1 /\ client[PeerOf(s)].state = "final"
    /\ server[s].sender \in Clients => client[server[s].sender].state # "start"

\* What does not change in an exchange.
SettingInv ==
  /\ dummy \in BOOLEAN
  /\ cert \in [Servers -> Certs \cup {NoCert}]
  /\ profile \in [Clients -> [kind : Kinds, right : BOOLEAN, sees : Certs \cup {NoCert}]]

ScramInv ==
  /\ SettingInv /\ Shapes /\ WireInv /\ ClientInv /\ StageInv /\ OpenedInv /\ VerdictInv
  /\ Agreement /\ HonestAccepted
-----------------------------------------------------------------------------
(* Lemmas about the verdicts. *)

\* A gs2 header and a nonce are pairs, and pairs have two parts.
LEMMA PairParts == \A a, b : <<a, b>>[1] = a /\ <<a, b>>[2] = b
OBVIOUS

\* Two gs2 headers or nonces are equal only part by part.
LEMMA PairsEqual ==
  ASSUME NEW a, NEW b, NEW c, NEW d, <<a, b>> = <<c, d>>
  PROVE  a = c /\ b = d
OBVIOUS

\* What is in an offer of mechanisms().
LEMMA OfferContains ==
  ASSUME NEW s \in Servers, NEW x
  PROVE  Contains(Mechanisms(s), x) <=>
           x = SCRAM_SHA_256 \/ (x = PLUS /\ cert[s] # NoCert)
<1>1. CASE cert[s] # NoCert
  <2>1. Mechanisms(s) = <<PLUS, SCRAM_SHA_256>>
    BY <1>1 DEF Mechanisms
  <2>2. Contains(<<PLUS, SCRAM_SHA_256>>, x) <=> x = PLUS \/ x = SCRAM_SHA_256
    BY DEF Contains
  <2> QED BY <1>1, <2>1, <2>2
<1>2. CASE cert[s] = NoCert
  <2>1. Mechanisms(s) = <<SCRAM_SHA_256>>
    BY <1>2 DEF Mechanisms
  <2>2. Contains(<<SCRAM_SHA_256>>, x) <=> x = SCRAM_SHA_256
    BY DEF Contains
  <2> QED BY <1>2, <2>1, <2>2
<1> QED BY <1>1, <1>2

\* validate_gs2_flag lets a client bind only under -PLUS, and claim that the
\* server cannot bind only where the server did not offer to.
LEMMA FlagsAllowed ==
  ASSUME NEW s \in Servers, NEW mechanism, NEW flag,
         FlagVerdict(s, mechanism, flag) = "ok"
  PROVE  \/ mechanism = PLUS /\ flag = "p"
         \/ mechanism = SCRAM_SHA_256 /\ flag = "n"
         \/ mechanism = SCRAM_SHA_256 /\ flag = "y" /\ cert[s] = NoCert
BY DEF FlagVerdict

\* handle_client_first takes the first message of a client that has read this
\* login's offer, knows its names and sees its certificate.
LEMMA HonestFirst ==
  ASSUME NEW s \in Servers, NEW c \in Clients, SettingInv, ClientInv,
         client[c].state # "start", client[c].offer = s,
         profile[c].sees = cert[s], profile[c].kind # "libpq"
  PROVE  FirstVerdict(s, FirstOf(c)) = "ok"
<1> DEFINE k == profile[c].kind
<1>1. k \in {"literal", "unbound"}
  BY DEF SettingInv, Kinds, BoundName
<1>2. /\ client[c].mechanism = Chosen(c, Mechanisms(s))
      /\ client[c].gs2 = <<Flag(c, Mechanisms(s)), NoAuthzid>>
  BY DEF ClientInv
<1>3. /\ FirstOf(c).mechanism = client[c].mechanism
      /\ FirstOf(c).gs2 = client[c].gs2 /\ FirstOf(c).nonce = c
  BY DEF FirstOf
<1>4. c # "empty"
  BY ScramConstants
<1>5. CASE cert[s] # NoCert /\ k = "literal"
  <2>1. Chosen(c, Mechanisms(s)) = PLUS
    BY <1>5, OfferContains DEF Chosen, BoundName
  <2>2. Flag(c, Mechanisms(s)) = "p"
    BY <2>1 DEF Flag, PLUS, SCRAM_SHA_256
  <2> QED
    <3>1. FlagVerdict(s, PLUS, "p") = "ok" /\ Contains(Mechanisms(s), PLUS)
      BY <1>5, OfferContains DEF FlagVerdict, PLUS, SCRAM_SHA_256
    <3>2. client[c].gs2[1] = "p" /\ client[c].gs2[2] = NoAuthzid
      <4>1. client[c].gs2 = <<"p", NoAuthzid>>
        BY <1>2, <2>2
      <4> QED BY <4>1
    <3> QED
      BY <1>2, <1>3, <1>4, <2>1, <3>1, <3>2 DEF FirstVerdict
<1>6. CASE ~(cert[s] # NoCert /\ k = "literal")
  <2>1. Chosen(c, Mechanisms(s)) = SCRAM_SHA_256
    <3>1. CASE cert[s] = NoCert
      BY <3>1 DEF Chosen
    <3>2. CASE k = "unbound"
      <4>1. ~Contains(Mechanisms(s), "none")
        BY OfferContains DEF PLUS, SCRAM_SHA_256
      <4> QED
        BY <3>2, <4>1 DEF Chosen, BoundName
    <3> QED BY <1>1, <1>6, <3>1, <3>2
  <2>2. Flag(c, Mechanisms(s)) = "n"
    BY <1>1, <1>6, <2>1 DEF Flag
  <2> QED
    <3>1. FlagVerdict(s, SCRAM_SHA_256, "n") = "ok" /\ Contains(Mechanisms(s), SCRAM_SHA_256)
      BY OfferContains DEF FlagVerdict, PLUS, SCRAM_SHA_256
    <3>2. client[c].gs2[1] = "n" /\ client[c].gs2[2] = NoAuthzid
      <4>1. client[c].gs2 = <<"n", NoAuthzid>>
        BY <1>2, <2>2
      <4> QED BY <4>1
    <3> QED
      BY <1>2, <1>3, <1>4, <2>1, <3>1, <3>2 DEF FirstVerdict
<1> QED BY <1>5, <1>6

\* handle_client_final takes a client-final only from the client it challenged,
\* with the password, over the same gs2 header and certificate.
LEMMA AcceptedFinal ==
  ASSUME NEW s \in Servers, NEW c \in Clients, OpenedInv, Opened(s),
         FinalVerdict(s, FinalOf(c)) = "ok"
  PROVE  /\ ~dummy /\ profile[c].right
         /\ PeerOf(s) = c /\ client[c].peer = s
         /\ server[s].mechanism = PLUS => profile[c].sees = cert[s]
<1>1. /\ AnswerCbind(c) = ExpectedCbind(s) /\ AnswerNonce(c) = server[s].nonce
      /\ profile[c].right /\ ~dummy
  BY DEF FinalVerdict, FinalOf
<1>2. server[s].nonce = <<PeerOf(s), s>>
  BY DEF OpenedInv
<1>3. PeerOf(s) = c /\ client[c].peer = s
  BY <1>1, <1>2 DEF AnswerNonce
<1>4. ASSUME server[s].mechanism = PLUS PROVE profile[c].sees = cert[s]
  <2>1. CbindInput(client[c].gs2, profile[c].sees) = <<<<"p", NoAuthzid>>, cert[s]>>
    BY <1>1, <1>4 DEF ExpectedCbind, AnswerCbind
  <2>2. Len(<<client[c].gs2>>) = 1 /\ Len(<<<<"p", NoAuthzid>>, cert[s]>>) = 2
    OBVIOUS
  <2>3. CbindInput(client[c].gs2, profile[c].sees) = <<client[c].gs2, profile[c].sees>>
    BY <2>1, <2>2 DEF CbindInput
  <2> QED
    <3>1. <<client[c].gs2, profile[c].sees>> = <<<<"p", NoAuthzid>>, cert[s]>>
      BY <2>1, <2>3
    <3> QED BY <3>1, PairsEqual
<1> QED BY <1>1, <1>3, <1>4

\* And it takes every such client-final.
LEMMA HonestFinal ==
  ASSUME NEW s \in Servers, NEW c \in Clients, OpenedInv, ClientInv, Opened(s),
         AnswerNonce(c) = server[s].nonce,
         ~dummy, profile[c].right, profile[c].sees = cert[s]
  PROVE  FinalVerdict(s, FinalOf(c)) = "ok"
<1>1. /\ server[s].nonce = <<PeerOf(s), s>> /\ PeerOf(s) = c
      /\ FlagVerdict(s, server[s].mechanism, server[s].gs2[1]) = "ok"
      /\ client[c].gs2 = server[s].gs2 /\ client[c].state # "start"
  BY DEF OpenedInv, AnswerNonce
<1>2. client[c].gs2 = <<client[c].gs2[1], NoAuthzid>>
  <2>1. PICK f : client[c].gs2 = <<f, NoAuthzid>>
    BY <1>1 DEF ClientInv
  <2> QED BY <2>1
<1>3. AnswerCbind(c) = ExpectedCbind(s)
  <2>1. CASE server[s].mechanism = PLUS
    <3>1. server[s].gs2[1] = "p"
      BY <1>1, <2>1, FlagsAllowed DEF PLUS, SCRAM_SHA_256
    <3> QED
      BY <1>1, <1>2, <2>1, <3>1 DEF AnswerCbind, CbindInput, ExpectedCbind
  <2>2. CASE server[s].mechanism # PLUS
    <3>1. server[s].gs2[1] # "p"
      BY <1>1, <2>2, FlagsAllowed
    <3> QED
      BY <1>1, <2>2, <3>1 DEF AnswerCbind, CbindInput, ExpectedCbind
  <2> QED BY <2>1, <2>2
<1>4. FinalOf(c).auth = AuthMessage(server[s].nonce[1], server[s].nonce, FinalOf(c).cbind, FinalOf(c).nonce)
  BY <1>1 DEF FinalOf, AnswerNonce, PeerOf
<1>5. /\ FinalOf(c).cbind = AnswerCbind(c) /\ FinalOf(c).nonce = AnswerNonce(c)
      /\ FinalOf(c).key = profile[c].right
  BY DEF FinalOf
<1> QED
  BY <1>3, <1>4, <1>5 DEF FinalVerdict
-----------------------------------------------------------------------------
(* The inductive invariant. *)

\* At the start nothing was sent and nothing is decided.
LEMMA ScramInit == Init => ScramInv
<1> SUFFICES ASSUME Init PROVE ScramInv
  OBVIOUS
<1>1. /\ \A s \in Servers : /\ server[s].state = "Started" /\ server[s].judged = 0
                            /\ server[s].verdict = Undecided /\ server[s].sender = Stray
      /\ \A c \in Clients : client[c].state = "start"
      /\ wire = {}
  BY DEF Init
<1>2. SettingInv
  BY DEF Init, SettingInv
<1>3. Shapes
  BY DEF Init, Shapes
<1>4. \A s \in Servers : ~Opened(s) /\ ~Accepted(s) /\ server[s].sender \notin Clients
  BY <1>1, ScramConstants DEF Opened, Accepted, Undecided
<1>5. WireInv /\ ClientInv /\ StageInv
  BY <1>1 DEF WireInv, ClientInv, StageInv
<1>6. OpenedInv /\ VerdictInv
  BY <1>4 DEF OpenedInv, VerdictInv
<1>7. Agreement
  BY <1>4 DEF Agreement
<1>8. HonestAccepted
  BY <1>4 DEF HonestAccepted
<1> QED
  BY <1>2, <1>3, <1>5, <1>6, <1>7, <1>8 DEF ScramInv

\* A client's step: clients that have begun keep their choices, and those that
\* have answered keep their answer; the logins do not move.
LEMMA ClientsMove ==
  ASSUME ScramInv, UNCHANGED <<dummy, cert, profile, server>>,
         Shapes', WireInv', ClientInv',
         \A c \in Clients : client[c].state # "start" =>
           /\ client'[c].state # "start"
           /\ client'[c].offer = client[c].offer
           /\ client'[c].mechanism = client[c].mechanism
           /\ client'[c].gs2 = client[c].gs2
           /\ client[c].state = "final" => client'[c] = client[c]
  PROVE  ScramInv'
<1> USE DEF ScramInv
<1>1. SettingInv' /\ StageInv'
  BY DEF SettingInv, StageInv
<1>2. /\ \A s \in Servers : Opened(s)' = Opened(s)
      /\ \A s \in Servers : PeerOf(s)' = PeerOf(s)
      /\ \A s \in Servers : Accepted(s)' = Accepted(s)
  BY DEF Opened, PeerOf, Accepted
<1>3. OpenedInv'
  BY <1>2 DEF OpenedInv, FlagVerdict
<1>4. VerdictInv'
  <2> SUFFICES ASSUME NEW s \in Servers
               PROVE  /\ Accepted(s)' => server'[s].judged = 1 /\ client'[PeerOf(s)'].state = "final"
                      /\ server'[s].sender \in Clients => client'[server'[s].sender].state # "start"
    BY DEF VerdictInv
  <2>1. Accepted(s) => PeerOf(s) \in Clients
    BY DEF Agreement
  <2> QED
    BY <1>2, <2>1 DEF VerdictInv
<1>5. Agreement'
  <2> SUFFICES ASSUME NEW s \in Servers, Accepted(s)'
               PROVE  /\ ~dummy'
                      /\ PeerOf(s)' \in Clients
                      /\ profile'[PeerOf(s)'].right
                      /\ client'[PeerOf(s)'].peer = s
                      /\ client'[PeerOf(s)'].mechanism = server'[s].mechanism
                      /\ client'[PeerOf(s)'].gs2 = server'[s].gs2
                      /\ server'[s].mechanism = PLUS => profile'[PeerOf(s)'].sees = cert'[s]
    BY DEF Agreement
  <2>1. client'[PeerOf(s)] = client[PeerOf(s)]
    BY <1>2 DEF Agreement, VerdictInv
  <2> QED
    BY <1>2, <2>1 DEF Agreement
<1>6. HonestAccepted'
  <2> SUFFICES ASSUME NEW s \in Servers, NEW c \in Clients,
                      ~dummy', profile'[c].right, profile'[c].sees = cert'[s],
                      profile'[c].kind # "libpq", client'[c].offer = s,
                      server'[s].verdict # Undecided, server'[s].sender = c
               PROVE  Accepted(s)'
    BY DEF HonestAccepted
  <2>1. client[c].state # "start"
    BY DEF VerdictInv
  <2> QED
    BY <1>2, <2>1 DEF HonestAccepted
<1> QED
  BY <1>1, <1>3, <1>4, <1>5, <1>6

\* The client's two steps.
LEMMA ClientFirstKeeps ==
  ASSUME ScramInv, NEW c \in Clients, NEW s \in Servers, ClientFirst(c, s)
  PROVE  ScramInv'
<1> DEFINE mechanism == Chosen(c, Mechanisms(s))
           gs2 == <<Flag(c, Mechanisms(s)), NoAuthzid>>
<1>1. /\ client[c].state = "start" /\ UNCHANGED <<dummy, cert, profile, server>>
      /\ client' = [client EXCEPT ![c] =
           [@ EXCEPT !.state = "first", !.offer = s, !.mechanism = mechanism, !.gs2 = gs2]]
      /\ wire' = wire \cup {[type |-> "first", mechanism |-> mechanism, gs2 |-> gs2, nonce |-> c]}
  BY DEF ClientFirst
<1>2. /\ \A d \in Clients \ {c} : client'[d] = client[d]
      /\ client'[c] = [client[c] EXCEPT !.state = "first", !.offer = s,
                                        !.mechanism = mechanism, !.gs2 = gs2]
  BY <1>1 DEF ScramInv, Shapes
<1>3. client'[c].state = "first" /\ client'[c].offer = s /\ client'[c].mechanism = mechanism
      /\ client'[c].gs2 = gs2
  BY <1>2 DEF ScramInv, Shapes
<1>4. Shapes'
  BY <1>1, <1>2, <1>3 DEF ScramInv, Shapes
<1>5. ClientInv'
  <2> SUFFICES ASSUME NEW d \in Clients
               PROVE  /\ client'[d].state \in {"start", "first", "final"}
                      /\ client'[d].state # "start" =>
                           /\ client'[d].offer \in Servers
                           /\ (client[d].mechanism = Chosen(d, Mechanisms(client[d].offer)))'
                           /\ (client[d].gs2 = <<Flag(d, Mechanisms(client[d].offer)), NoAuthzid>>)'
    BY DEF ClientInv
  <2>1. (client[c].mechanism = Chosen(c, Mechanisms(client[c].offer)))'
    BY <1>1, <1>3 DEF Chosen, Mechanisms
  <2>2. (client[c].gs2 = <<Flag(c, Mechanisms(client[c].offer)), NoAuthzid>>)'
    <3>1. Flag(c, Mechanisms(client[c].offer))' = Flag(c, Mechanisms(s))
      BY <1>1, <1>3 DEF Flag, Chosen, Mechanisms
    <3> QED BY <1>3, <3>1
  <2>3. ASSUME d # c
        PROVE  /\ Chosen(d, Mechanisms(client[d].offer))' = Chosen(d, Mechanisms(client[d].offer))
               /\ Flag(d, Mechanisms(client[d].offer))' = Flag(d, Mechanisms(client[d].offer))
    BY <1>1, <1>2, <2>3 DEF Flag, Chosen, Mechanisms
  <2>4. CASE d = c
    BY <1>3, <2>1, <2>2, <2>4
  <2>5. CASE d # c
    <3>1. client'[d] = client[d]
      BY <1>2, <2>5
    <3> QED BY <2>3, <2>5, <3>1 DEF ScramInv, ClientInv
  <2> QED BY <2>4, <2>5
<1>6. WireInv'
  <2> SUFFICES ASSUME NEW m \in wire'
               PROVE  \/ \E d \in Clients : client'[d].state \in {"first", "final"} /\ m = FirstOf(d)'
                      \/ \E t \in Servers : Opened(t)' /\ m = ChallengeOf(t)'
                      \/ \E d \in Clients : client'[d].state = "final" /\ m = FinalOf(d)'
    BY DEF WireInv
  <2>1. CASE m = [type |-> "first", mechanism |-> mechanism, gs2 |-> gs2, nonce |-> c]
    BY <1>3, <2>1 DEF FirstOf
  <2>2. ASSUME NEW d \in Clients, client[d].state # "start"
        PROVE  client'[d] = client[d] /\ FirstOf(d)' = FirstOf(d) /\ FinalOf(d)' = FinalOf(d)
    BY <1>1, <1>2, <2>2 DEF FirstOf, FinalOf, AnswerCbind, AnswerNonce
  <2>3. ASSUME NEW t \in Servers
        PROVE  Opened(t)' = Opened(t) /\ ChallengeOf(t)' = ChallengeOf(t)
    BY <1>1 DEF Opened, ChallengeOf
  <2>4. CASE m \in wire
    BY <2>2, <2>3, <2>4 DEF ScramInv, WireInv
  <2> QED BY <1>1, <2>1, <2>4
<1>7. \A d \in Clients : client[d].state # "start" => client'[d] = client[d]
  BY <1>1, <1>2
<1> QED
  BY <1>1, <1>4, <1>5, <1>6, <1>7, ClientsMove

\* A client answers a challenge: one message more, determined by its new state.
LEMMA ClientFinalKeeps ==
  ASSUME ScramInv, NEW c \in Clients, NEW m \in OfType("challenge"), ClientFinal(c, m)
  PROVE  ScramInv'
<1> DEFINE cbind == CbindInput(client[c].gs2, profile[c].sees)
           answer == [type |-> "final", cbind |-> cbind, nonce |-> m.nonce,
                      key |-> profile[c].right,
                      auth |-> AuthMessage(c, m.nonce, cbind, m.nonce)]
<1>1. /\ client[c].state = "first" /\ UNCHANGED <<dummy, cert, profile, server>>
      /\ client' = [client EXCEPT ![c].state = "final", ![c].peer = m.nonce[2]]
      /\ wire' = wire \cup {answer}
      /\ m.nonce[1] = c /\ m.type = "challenge"
  BY DEF ClientFinal
<1>2. \A d \in Clients \ {c} : client'[d] = client[d]
  BY <1>1 DEF ScramInv, Shapes
<1>3. /\ client'[c].state = "final" /\ client'[c].peer = m.nonce[2]
      /\ client'[c].offer = client[c].offer
      /\ client'[c].mechanism = client[c].mechanism /\ client'[c].gs2 = client[c].gs2
  BY <1>1 DEF ScramInv, Shapes
<1>4. Shapes'
  BY <1>1, <1>2, <1>3 DEF ScramInv, Shapes
<1>5. ClientInv'
  <2> SUFFICES ASSUME NEW d \in Clients
               PROVE  /\ client'[d].state \in {"start", "first", "final"}
                      /\ client'[d].state # "start" =>
                           /\ client'[d].offer \in Servers
                           /\ (client[d].mechanism = Chosen(d, Mechanisms(client[d].offer)))'
                           /\ (client[d].gs2 = <<Flag(d, Mechanisms(client[d].offer)), NoAuthzid>>)'
    BY DEF ClientInv
  <2>1. /\ client'[d].offer = client[d].offer /\ client'[d].gs2 = client[d].gs2
        /\ client'[d].mechanism = client[d].mechanism
        /\ client'[d].state \in {client[d].state, "final"}
        /\ client'[d].state # "start" => client[d].state # "start"
    BY <1>1, <1>2, <1>3
  <2>2. /\ Chosen(d, Mechanisms(client[d].offer))' = Chosen(d, Mechanisms(client[d].offer))
        /\ Flag(d, Mechanisms(client[d].offer))' = Flag(d, Mechanisms(client[d].offer))
    BY <1>1, <2>1 DEF Flag, Chosen, Mechanisms
  <2> QED
    BY <2>1, <2>2 DEF ScramInv, ClientInv
<1>6. WireInv'
  <2> SUFFICES ASSUME NEW x \in wire'
               PROVE  \/ \E d \in Clients : client'[d].state \in {"first", "final"} /\ x = FirstOf(d)'
                      \/ \E t \in Servers : Opened(t)' /\ x = ChallengeOf(t)'
                      \/ \E d \in Clients : client'[d].state = "final" /\ x = FinalOf(d)'
    BY DEF WireInv
  <2>1. CASE x = answer
    <3>1. PICK t \in Servers : Opened(t) /\ m = ChallengeOf(t)
      BY <1>1 DEF OfType, ScramInv, WireInv, FirstOf, FinalOf
    <3>2. m.nonce = <<PeerOf(t), t>>
      BY <3>1 DEF ScramInv, OpenedInv, ChallengeOf
    <3>3. m.nonce = <<c, m.nonce[2]>>
      BY <1>1, <3>2
    <3>4. AnswerNonce(c)' = m.nonce
      BY <1>3, <3>3 DEF AnswerNonce
    <3>5. AnswerCbind(c)' = cbind
      BY <1>1, <1>3 DEF AnswerCbind, CbindInput
    <3>6. FinalOf(c)' = answer
      BY <1>1, <3>4, <3>5 DEF FinalOf, AuthMessage
    <3> QED BY <1>3, <2>1, <3>6
  <2>2. ASSUME NEW d \in Clients PROVE FirstOf(d)' = FirstOf(d)
    BY <1>2, <1>3 DEF FirstOf
  <2>3. ASSUME NEW d \in Clients, client[d].state = "final"
        PROVE  client'[d] = client[d] /\ FinalOf(d)' = FinalOf(d)
    BY <1>1, <1>2, <2>3 DEF FinalOf, AnswerCbind, AnswerNonce
  <2>4. ASSUME NEW t \in Servers
        PROVE  Opened(t)' = Opened(t) /\ ChallengeOf(t)' = ChallengeOf(t)
    BY <1>1 DEF Opened, ChallengeOf
  <2>5. ASSUME NEW d \in Clients, client[d].state \in {"first", "final"}
        PROVE  client'[d].state \in {"first", "final"}
    BY <2>5, <1>2, <1>3
  <2>6. CASE x \in wire
    BY <2>2, <2>3, <2>4, <2>5, <2>6 DEF ScramInv, WireInv
  <2> QED BY <1>1, <2>1, <2>6
<1>7. \A d \in Clients : client[d].state # "start" =>
        /\ client'[d].state # "start"
        /\ client'[d].offer = client[d].offer
        /\ client'[d].mechanism = client[d].mechanism
        /\ client'[d].gs2 = client[d].gs2
        /\ client[d].state = "final" => client'[d] = client[d]
  BY <1>1, <1>2, <1>3
<1> QED
  BY <1>1, <1>4, <1>5, <1>6, <1>7, ClientsMove

\* A login is decided: by a client-first that does not pass, by a client-final,
\* or by one that does not parse.
LEMMA Decided ==
  ASSUME ScramInv, NEW s \in Servers, NEW v, NEW x,
         UNCHANGED <<dummy, cert, profile, client, wire>>, Shapes',
         \A t \in Servers \ {s} : server'[t] = server[t],
         server[s].state # "Done", server'[s].state = "Done", v # Undecided,
         server'[s].judged = IF server[s].state = "ClientFirstReceived" THEN 1 ELSE 0,
         server'[s].nonce = server[s].nonce, server'[s].mechanism = server[s].mechanism,
         server'[s].gs2 = server[s].gs2, server'[s].verdict = v, server'[s].sender = x,
         v = "ok" =>
           /\ Opened(s) /\ ~dummy /\ PeerOf(s) \in Clients
           /\ profile[PeerOf(s)].right
           /\ client[PeerOf(s)].peer = s /\ client[PeerOf(s)].state = "final"
           /\ server[s].mechanism = PLUS => profile[PeerOf(s)].sees = cert[s],
         x \in Clients => client[x].state # "start",
         x \in Clients /\ ~dummy /\ profile[x].right /\ profile[x].sees = cert[s]
             /\ profile[x].kind # "libpq" /\ client[x].offer = s
           => v = "ok"
  PROVE  ScramInv'
<1> USE DEF ScramInv
<1>1. /\ server[s].judged = 0
      /\ server[s].state \in {"Started", "ClientFirstReceived"}
      /\ \A t \in Servers : server'[t].nonce = server[t].nonce
      /\ \A t \in Servers : server'[t].mechanism = server[t].mechanism
      /\ \A t \in Servers : server'[t].gs2 = server[t].gs2
  BY DEF StageInv
<1>2. \A t \in Servers : Opened(t)' <=> Opened(t)
  BY <1>1 DEF Opened
<1>3. \A t \in Servers : PeerOf(t)' = PeerOf(t)
  BY <1>1 DEF PeerOf
<1>4. /\ Accepted(s)' <=> v = "ok"
      /\ \A t \in Servers \ {s} : Accepted(t)' <=> Accepted(t)
  BY DEF Accepted
<1>5. SettingInv' /\ StageInv'
  BY <1>1 DEF SettingInv, StageInv
<1>6. ClientInv'
  BY DEF ClientInv, Chosen, Flag, Mechanisms
<1>7. WireInv'
  <2> SUFFICES ASSUME NEW m \in wire'
               PROVE  \/ \E d \in Clients : client'[d].state \in {"first", "final"} /\ m = FirstOf(d)'
                      \/ \E t \in Servers : Opened(t)' /\ m = ChallengeOf(t)'
                      \/ \E d \in Clients : client'[d].state = "final" /\ m = FinalOf(d)'
    BY DEF WireInv
  <2>1. ASSUME NEW d \in Clients PROVE FirstOf(d)' = FirstOf(d) /\ FinalOf(d)' = FinalOf(d)
    BY DEF FirstOf, FinalOf, AnswerCbind, AnswerNonce
  <2>2. ASSUME NEW t \in Servers PROVE ChallengeOf(t)' = ChallengeOf(t)
    BY <1>1 DEF ChallengeOf
  <2> QED
    BY <1>2, <2>1, <2>2 DEF WireInv
<1>8. OpenedInv'
  <2> SUFFICES ASSUME NEW t \in Servers, Opened(t)'
               PROVE  /\ server'[t].nonce = <<PeerOf(t)', t>>
                      /\ server'[t].mechanism \in {SCRAM_SHA_256, PLUS}
                      /\ FlagVerdict(t, server[t].mechanism, server[t].gs2[1])' = "ok"
                      /\ PeerOf(t)' \in Clients =>
                           /\ client'[PeerOf(t)'].state # "start"
                           /\ client'[PeerOf(t)'].mechanism = server'[t].mechanism
                           /\ client'[PeerOf(t)'].gs2 = server'[t].gs2
    BY DEF OpenedInv
  <2>1. FlagVerdict(t, server[t].mechanism, server[t].gs2[1])' =
          FlagVerdict(t, server[t].mechanism, server[t].gs2[1])
    BY <1>1 DEF FlagVerdict
  <2> QED
    BY <1>1, <1>2, <1>3, <2>1 DEF OpenedInv
<1>9. VerdictInv'
  <2> SUFFICES ASSUME NEW t \in Servers
               PROVE  /\ Accepted(t)' => server'[t].judged = 1 /\ client'[PeerOf(t)'].state = "final"
                      /\ server'[t].sender \in Clients => client'[server'[t].sender].state # "start"
    BY DEF VerdictInv
  <2>1. CASE t = s
    BY <1>1, <1>3, <1>4, <2>1 DEF Opened
  <2>2. CASE t # s
    BY <1>3, <1>4, <2>2 DEF VerdictInv
  <2> QED BY <2>1, <2>2
<1>10. Agreement'
  <2> SUFFICES ASSUME NEW t \in Servers, Accepted(t)'
               PROVE  /\ ~dummy'
                      /\ PeerOf(t)' \in Clients
                      /\ profile'[PeerOf(t)'].right
                      /\ client'[PeerOf(t)'].peer = t
                      /\ client'[PeerOf(t)'].mechanism = server'[t].mechanism
                      /\ client'[PeerOf(t)'].gs2 = server'[t].gs2
                      /\ server'[t].mechanism = PLUS => profile'[PeerOf(t)'].sees = cert'[t]
    BY DEF Agreement
  <2>1. CASE t = s
    BY <1>1, <1>3, <1>4, <2>1 DEF OpenedInv
  <2>2. CASE t # s
    BY <1>3, <1>4, <2>2 DEF Agreement
  <2> QED BY <2>1, <2>2
<1>11. HonestAccepted'
  <2> SUFFICES ASSUME NEW t \in Servers, NEW c \in Clients,
                      ~dummy', profile'[c].right, profile'[c].sees = cert'[t],
                      profile'[c].kind # "libpq", client'[c].offer = t,
                      server'[t].verdict # Undecided, server'[t].sender = c
               PROVE  Accepted(t)'
    BY DEF HonestAccepted
  <2>1. CASE t = s
    BY <1>4, <2>1
  <2>2. CASE t # s
    BY <1>4, <2>2 DEF HonestAccepted
  <2> QED BY <2>1, <2>2
<1> QED
  BY <1>5, <1>6, <1>7, <1>8, <1>9, <1>10, <1>11

\* A client-first with a client's nonce is that client's own.
LEMMA FirstSender ==
  ASSUME ScramInv, NEW m \in OfType("first") \cup StrayFirsts, m.nonce \in Clients
  PROVE  m = FirstOf(m.nonce) /\ client[m.nonce].state # "start"
<1>1. \A x \in StrayFirsts : x.nonce \in {Stray, "empty"}
  BY DEF StrayFirsts, StrayFirst
<1>2. m \in wire /\ m.type = "first"
  BY <1>1, ScramConstants DEF OfType
<1>3. PICK c \in Clients : client[c].state \in {"first", "final"} /\ m = FirstOf(c)
  BY <1>2 DEF ScramInv, WireInv, ChallengeOf, FinalOf
<1>4. m.nonce = c
  BY <1>3 DEF FirstOf
<1> QED BY <1>3, <1>4

\* handle_client_first, when the message does not pass.
LEMMA RejectFirstKeeps ==
  ASSUME ScramInv, NEW s \in Servers, NEW m \in OfType("first") \cup StrayFirsts,
         HandleClientFirst(s, m), FirstVerdict(s, m) # "ok"
  PROVE  ScramInv'
<1> DEFINE v == FirstVerdict(s, m)
<1>1. /\ server[s].state = "Started" /\ UNCHANGED <<dummy, cert, profile, client, wire>>
      /\ server' = [server EXCEPT ![s] =
           [@ EXCEPT !.state = "Done", !.verdict = v, !.sender = m.nonce]]
  BY DEF HandleClientFirst
<1>2. v # Undecided
  BY DEF FirstVerdict, FlagVerdict, Undecided
<1>3. m.nonce \in Clients => client[m.nonce].state # "start" /\ m = FirstOf(m.nonce)
  BY FirstSender
<1>4. ASSUME m.nonce \in Clients, profile[m.nonce].sees = cert[s],
             profile[m.nonce].kind # "libpq", client[m.nonce].offer = s
      PROVE  v = "ok"
  BY <1>3, <1>4, HonestFirst DEF ScramInv
<1> HIDE DEF v
<1>5. /\ \A t \in Servers \ {s} : server'[t] = server[t]
      /\ server'[s].state = "Done" /\ server'[s].verdict = v /\ server'[s].sender = m.nonce
      /\ server'[s].nonce = server[s].nonce /\ server'[s].mechanism = server[s].mechanism
      /\ server'[s].gs2 = server[s].gs2 /\ server'[s].judged = server[s].judged
      /\ Shapes'
  BY <1>1 DEF ScramInv, Shapes
<1>6. server[s].judged = 0
  BY <1>1 DEF ScramInv, StageInv
<1>7. v # "ok"
  BY DEF v
<1> QED
  BY <1>1, <1>2, <1>3, <1>4, <1>5, <1>6, <1>7, Decided

\* handle_client_first, when the message passes: the challenge goes out.
LEMMA PassFirstKeeps ==
  ASSUME ScramInv, NEW s \in Servers, NEW m \in OfType("first") \cup StrayFirsts,
         HandleClientFirst(s, m), FirstVerdict(s, m) = "ok"
  PROVE  ScramInv'
<1>1. /\ server[s].state = "Started" /\ UNCHANGED <<dummy, cert, profile, client>>
      /\ server' = [server EXCEPT ![s] =
           [@ EXCEPT !.state = "ClientFirstReceived", !.mechanism = m.mechanism,
                     !.gs2 = m.gs2, !.nonce = <<m.nonce, s>>]]
      /\ wire' = wire \cup {[type |-> "challenge", nonce |-> <<m.nonce, s>>]}
  BY DEF HandleClientFirst, CombinedNonce
<1>2. FlagVerdict(s, m.mechanism, m.gs2[1]) = "ok"
  BY DEF FirstVerdict
<1>3. m.mechanism \in {SCRAM_SHA_256, PLUS}
  BY <1>2, FlagsAllowed
<1>4. /\ \A t \in Servers \ {s} : server'[t] = server[t]
      /\ server'[s].state = "ClientFirstReceived" /\ server'[s].mechanism = m.mechanism
      /\ server'[s].gs2 = m.gs2 /\ server'[s].nonce = <<m.nonce, s>>
      /\ server'[s].judged = server[s].judged /\ server'[s].verdict = server[s].verdict
      /\ server'[s].sender = server[s].sender
      /\ Shapes'
  BY <1>1 DEF ScramInv, Shapes
<1>5. server[s].judged = 0 /\ server[s].verdict = Undecided /\ server[s].sender = Stray
  BY <1>1 DEF ScramInv, StageInv
<1>6. PeerOf(s)' = m.nonce
  BY <1>4 DEF PeerOf
<1>7. \A t \in Servers : t # s =>
        /\ PeerOf(t)' = PeerOf(t)
        /\ Opened(t)' <=> Opened(t)
        /\ Accepted(t)' <=> Accepted(t)
  BY <1>4 DEF PeerOf, Opened, Accepted
<1>8. ~Opened(s) /\ Opened(s)' /\ ~Accepted(s)'
  BY <1>1, <1>4, <1>5 DEF Opened, Accepted, Undecided
<1> USE DEF ScramInv
<1>9. SettingInv' /\ StageInv' /\ ClientInv'
  <2>1. SettingInv' /\ StageInv'
    BY <1>1, <1>4, <1>5 DEF SettingInv, StageInv
  <2>2. ClientInv'
    BY <1>1 DEF ClientInv, Chosen, Flag, Mechanisms
  <2> QED BY <2>1, <2>2
<1>10. WireInv'
  <2> SUFFICES ASSUME NEW x \in wire'
               PROVE  \/ \E d \in Clients : client'[d].state \in {"first", "final"} /\ x = FirstOf(d)'
                      \/ \E t \in Servers : Opened(t)' /\ x = ChallengeOf(t)'
                      \/ \E d \in Clients : client'[d].state = "final" /\ x = FinalOf(d)'
    BY DEF WireInv
  <2>1. ASSUME NEW d \in Clients PROVE FirstOf(d)' = FirstOf(d) /\ FinalOf(d)' = FinalOf(d)
    BY <1>1 DEF FirstOf, FinalOf, AnswerCbind, AnswerNonce
  <2>2. ASSUME NEW t \in Servers, t # s PROVE ChallengeOf(t)' = ChallengeOf(t)
    BY <1>4, <2>2 DEF ChallengeOf
  <2>3. CASE x \in wire
    BY <1>1, <1>7, <1>8, <2>1, <2>2, <2>3 DEF WireInv
  <2>4. CASE x = [type |-> "challenge", nonce |-> <<m.nonce, s>>]
    BY <1>4, <1>8, <2>4 DEF ChallengeOf
  <2> QED BY <1>1, <2>3, <2>4
<1>11. OpenedInv'
  <2> SUFFICES ASSUME NEW t \in Servers, Opened(t)'
               PROVE  /\ server'[t].nonce = <<PeerOf(t)', t>>
                      /\ server'[t].mechanism \in {SCRAM_SHA_256, PLUS}
                      /\ FlagVerdict(t, server[t].mechanism, server[t].gs2[1])' = "ok"
                      /\ PeerOf(t)' \in Clients =>
                           /\ client'[PeerOf(t)'].state # "start"
                           /\ client'[PeerOf(t)'].mechanism = server'[t].mechanism
                           /\ client'[PeerOf(t)'].gs2 = server'[t].gs2
    BY DEF OpenedInv
  <2>1. CASE t = s
    <3>1. FlagVerdict(t, server[t].mechanism, server[t].gs2[1])' =
            FlagVerdict(s, m.mechanism, m.gs2[1])
      BY <1>1, <1>4, <2>1 DEF FlagVerdict
    <3>2. m.nonce \in Clients => /\ client[m.nonce].state # "start"
                                 /\ client[m.nonce].mechanism = m.mechanism
                                 /\ client[m.nonce].gs2 = m.gs2
      <4> SUFFICES ASSUME m.nonce \in Clients
                   PROVE  /\ client[m.nonce].state # "start"
                          /\ client[m.nonce].mechanism = m.mechanism
                          /\ client[m.nonce].gs2 = m.gs2
        OBVIOUS
      <4>1. m = FirstOf(m.nonce) /\ client[m.nonce].state # "start"
        BY FirstSender
      <4>2. FirstOf(m.nonce).mechanism = client[m.nonce].mechanism
            /\ FirstOf(m.nonce).gs2 = client[m.nonce].gs2
        BY DEF FirstOf
      <4> QED BY <4>1, <4>2
    <3> QED
      BY <1>1, <1>2, <1>3, <1>4, <1>6, <2>1, <3>1, <3>2
  <2>2. CASE t # s
    <3>1. FlagVerdict(t, server[t].mechanism, server[t].gs2[1])' =
            FlagVerdict(t, server[t].mechanism, server[t].gs2[1])
      BY <1>1, <1>4, <2>2 DEF FlagVerdict
    <3> QED
      BY <1>1, <1>4, <1>7, <2>2, <3>1 DEF OpenedInv
  <2> QED BY <2>1, <2>2
<1>12. VerdictInv'
  <2> SUFFICES ASSUME NEW t \in Servers
               PROVE  /\ Accepted(t)' => server'[t].judged = 1 /\ client'[PeerOf(t)'].state = "final"
                      /\ server'[t].sender \in Clients => client'[server'[t].sender].state # "start"
    BY DEF VerdictInv
  <2>1. CASE t = s
    BY <1>4, <1>5, <1>8, <2>1, ScramConstants
  <2>2. CASE t # s
    BY <1>1, <1>4, <1>7, <2>2 DEF VerdictInv
  <2> QED BY <2>1, <2>2
<1>13. Agreement'
  BY <1>1, <1>4, <1>7, <1>8 DEF Agreement
<1>14. HonestAccepted'
  <2> SUFFICES ASSUME NEW t \in Servers, NEW c \in Clients,
                      ~dummy', profile'[c].right, profile'[c].sees = cert'[t],
                      profile'[c].kind # "libpq", client'[c].offer = t,
                      server'[t].verdict # Undecided, server'[t].sender = c
               PROVE  Accepted(t)'
    BY DEF HonestAccepted
  <2>1. t # s
    BY <1>4, <1>5
  <2> QED
    BY <1>1, <1>4, <1>7, <2>1 DEF HonestAccepted
<1> QED
  BY <1>4, <1>9, <1>10, <1>11, <1>12, <1>13, <1>14

\* handle_client_final.
LEMMA ClientFinalJudged ==
  ASSUME ScramInv, NEW s \in Servers, NEW m \in OfType("final"), HandleClientFinal(s, m)
  PROVE  ScramInv'
<1> DEFINE v == FinalVerdict(s, m)
           x == SenderOf(s, m)
<1>1. /\ server[s].state = "ClientFirstReceived"
      /\ UNCHANGED <<dummy, cert, profile, client, wire>>
      /\ server' = [server EXCEPT ![s] =
           [@ EXCEPT !.state = "Done", !.judged = server[s].judged + 1, !.verdict = v, !.sender = x]]
  BY DEF HandleClientFinal, StateAfterFinal
<1>2. v # Undecided
  BY DEF FinalVerdict, Undecided
<1>3. PICK c \in Clients : client[c].state = "final" /\ m = FinalOf(c)
  BY DEF OfType, ScramInv, WireInv, FirstOf, ChallengeOf
<1>4. Opened(s)
  BY <1>1 DEF Opened
<1>5. v = "ok" =>
        /\ ~dummy /\ PeerOf(s) = c /\ profile[c].right /\ client[c].peer = s
        /\ server[s].mechanism = PLUS => profile[c].sees = cert[s]
  BY <1>3, <1>4, AcceptedFinal DEF ScramInv
<1>6. x \in Clients => x = c /\ AnswerNonce(c) = server[s].nonce
  <2>1. m.nonce = AnswerNonce(c) /\ AnswerNonce(c)[1] = c
    BY <1>3 DEF FinalOf, AnswerNonce
  <2> QED
    BY <2>1, ScramConstants DEF SenderOf
<1>7. ASSUME x \in Clients, ~dummy, profile[x].right, profile[x].sees = cert[s]
      PROVE  v = "ok"
  BY <1>3, <1>4, <1>6, <1>7, HonestFinal DEF ScramInv
<1> HIDE DEF v, x
<1>8. /\ \A t \in Servers \ {s} : server'[t] = server[t]
      /\ server'[s].state = "Done" /\ server'[s].verdict = v /\ server'[s].sender = x
      /\ server'[s].nonce = server[s].nonce /\ server'[s].mechanism = server[s].mechanism
      /\ server'[s].gs2 = server[s].gs2 /\ server'[s].judged = server[s].judged + 1
      /\ Shapes'
  BY <1>1 DEF ScramInv, Shapes
<1>9. server[s].judged = 0
  BY <1>1 DEF ScramInv, StageInv
<1>10. /\ server'[s].judged = IF server[s].state = "ClientFirstReceived" THEN 1 ELSE 0
       /\ server[s].state # "Done"
  BY <1>1, <1>8, <1>9
<1>11. x \in Clients => client[x].state # "start"
  BY <1>3, <1>6
<1> QED
  BY <1>1, <1>2, <1>3, <1>4, <1>5, <1>7, <1>8, <1>10, <1>11, Decided

\* handle_client_final, when parse_client_final fails.
LEMMA MalformedFinalKeeps ==
  ASSUME ScramInv, NEW s \in Servers, MalformedFinal(s)
  PROVE  ScramInv'
<1>1. /\ server[s].state = "ClientFirstReceived"
      /\ UNCHANGED <<dummy, cert, profile, client, wire>>
      /\ server' = [server EXCEPT ![s] =
           [@ EXCEPT !.state = "Done", !.judged = server[s].judged + 1, !.verdict = "08P01"]]
  BY DEF MalformedFinal, StateAfterFinal
<1>2. /\ \A t \in Servers \ {s} : server'[t] = server[t]
      /\ server'[s].state = "Done" /\ server'[s].verdict = "08P01"
      /\ server'[s].sender = server[s].sender
      /\ server'[s].nonce = server[s].nonce /\ server'[s].mechanism = server[s].mechanism
      /\ server'[s].gs2 = server[s].gs2 /\ server'[s].judged = server[s].judged + 1
      /\ Shapes'
  BY <1>1 DEF ScramInv, Shapes
<1>3. server[s].judged = 0 /\ server[s].sender = Stray
  BY <1>1 DEF ScramInv, StageInv
<1>4. /\ server'[s].judged = IF server[s].state = "ClientFirstReceived" THEN 1 ELSE 0
      /\ server[s].state # "Done" /\ server'[s].sender = Stray /\ Stray \notin Clients
  BY <1>1, <1>2, <1>3, ScramConstants
<1>5. "08P01" # Undecided
  BY DEF Undecided
<1> QED
  BY <1>1, <1>2, <1>4, <1>5, Decided

\* The inductive invariant: every message on the wire is determined by the
\* state of who sent it, and a login holds what the client it challenged chose.
THEOREM ScramInvariant == Spec => []ScramInv
<1>1. Init => ScramInv
  BY ScramInit
<1>2. ScramInv /\ [Next]_vars => ScramInv'
  <2> SUFFICES ASSUME ScramInv, [Next]_vars PROVE ScramInv'
    OBVIOUS
  <2>1. CASE UNCHANGED vars
    <3>1. WireInv'
      BY <2>1 DEF vars, ScramInv, WireInv, FirstOf, ChallengeOf, FinalOf, AnswerCbind, AnswerNonce,
                  Opened
    <3>2. ClientInv'
      BY <2>1 DEF vars, ScramInv, ClientInv, Chosen, Flag, Mechanisms
    <3>3. Shapes'
      BY <2>1 DEF vars, ScramInv, Shapes
    <3> QED
      BY <2>1, <3>1, <3>2, <3>3, ClientsMove DEF vars
  <2> QED
    BY <2>1, ClientFirstKeeps, ClientFinalKeeps, RejectFirstKeeps, PassFirstKeeps,
       ClientFinalJudged, MalformedFinalKeeps DEF Next
<1> QED
  BY <1>1, <1>2, PTL DEF Spec

\* A success is an agreement with a client that has the password, about this
\* login, its mechanism and its certificate (handle_client_final).
THEOREM AgreementCorrect == Spec => []Agreement
  BY ScramInvariant, PTL DEF ScramInv

\* One exchange of a client opens one login, and a login judges one client-final.
THEOREM ReplayImpossible == Spec => []NoReplay
<1>1. ScramInv => NoReplay
  BY DEF ScramInv, Agreement, StageInv, NoReplay
<1> QED
  BY <1>1, ScramInvariant, PTL

\* A client that can bind does not get in unbound where -PLUS was offered
\* (validate_gs2_flag_for_scram).
THEOREM DowngradeImpossible == Spec => []NoDowngrade
<1>1. ScramInv => NoDowngrade
  <2> SUFFICES ASSUME ScramInv, NEW s \in Servers, Accepted(s), cert[s] # NoCert,
                      profile[PeerOf(s)].sees # NoCert, profile[PeerOf(s)].kind # "unbound",
                      server[s].mechanism # PLUS
               PROVE  FALSE
    BY DEF NoDowngrade
  <2> DEFINE c == PeerOf(s)
  <2>1. /\ c \in Clients /\ client[c].mechanism = server[s].mechanism
        /\ client[c].gs2 = server[s].gs2 /\ client[c].state = "final" /\ Opened(s)
    BY DEF ScramInv, Agreement, VerdictInv, Opened
  <2>2. FlagVerdict(s, server[s].mechanism, server[s].gs2[1]) = "ok"
    BY <2>1 DEF ScramInv, OpenedInv
  <2>3. server[s].mechanism = SCRAM_SHA_256 /\ server[s].gs2[1] = "n"
    BY <2>2, FlagsAllowed
  <2>4. /\ Chosen(c, Mechanisms(client[c].offer)) = SCRAM_SHA_256
        /\ client[c].gs2 = <<Flag(c, Mechanisms(client[c].offer)), NoAuthzid>>
    BY <2>1, <2>3 DEF ScramInv, ClientInv
  <2>5. Flag(c, Mechanisms(client[c].offer)) = "y"
    BY <2>4 DEF Flag
  <2>6. client[c].gs2[1] = "y"
    BY <2>4, <2>5
  <2> QED
    BY <2>1, <2>3, <2>6
<1> QED
  BY <1>1, ScramInvariant, PTL

\* A known user who follows this login's own offer is never rejected
\* (handle_client_first, handle_client_final).
THEOREM HonestLoginAccepted == Spec => []HonestAccepted
  BY ScramInvariant, PTL DEF ScramInv
=============================================================================
