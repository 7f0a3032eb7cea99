--------------------------- MODULE ScramExchange ---------------------------
(***************************************************************************)
(* The SCRAM server (auth/scram/scram_authenticator.rs) in several logins  *)
(* of one user at a time, with the clients at the other end.  The network  *)
(* is not trusted with anything: an offer, a challenge or a client message *)
(* may reach another login than the one it was meant for, any number of    *)
(* times, and a client's TLS may end at another certificate.               *)
(*                                                                         *)
(* Cryptography is symbolic: a proof is the key and the auth message it    *)
(* was made over.  A client's nonce is its name, a server's nonce the name *)
(* of its login: both are drawn at random for one exchange.                *)
(***************************************************************************)
EXTENDS Naturals, Sequences, SequencesExt

CONSTANTS
  Servers,   \* ScramAuthenticators, one per login
  Clients,   \* client exchanges
  Certs,     \* certificates with a tls-server-end-point hash
  NoCert     \* no TLS, or no hash

Stray == "stray"        \* the nonce of no client
Undecided == "none"
NoAuthzid == ""         \* the second part of a gs2 header, as clients send it

ASSUME ScramConstants ==
  /\ NoCert \notin Certs
  /\ Stray \notin Clients /\ "empty" \notin Clients

VARIABLES
  dummy,     \* the user is unknown and the verifier invented
  cert,      \* cert_hash of each login
  profile,   \* each client: what it supports, whether it has the password, what it sees
  server,    \* the ScramAuthenticators
  client,    \* the client exchanges
  wire       \* what has been sent: offers, client messages, challenges

vars == <<dummy, cert, profile, server, client, wire>>

SCRAM_SHA_256 == "SCRAM-SHA-256"
PLUS == "-PLUS"

\* The name under which each kind of client knows the bound mechanism: libpq,
\* and parse_sasl_mechanisms of this repository, by its registered name; the
\* clients of the unit tests by the constant; some not at all.
BoundName == [libpq |-> "SCRAM-SHA-256-PLUS", literal |-> PLUS, unbound |-> "none"]
Kinds == DOMAIN BoundName

Init ==
  /\ dummy \in BOOLEAN
  /\ cert \in [Servers -> Certs \cup {NoCert}]
  /\ profile \in [Clients -> [kind : Kinds, right : BOOLEAN, sees : Certs \cup {NoCert}]]
  /\ server = [s \in Servers |->
       [state |-> "Started", mechanism |-> "none", gs2 |-> <<>>, nonce |-> <<>>,
        judged |-> 0, verdict |-> Undecided, sender |-> Stray]]
  /\ client = [c \in Clients |-> [state |-> "start", offer |-> "none", mechanism |-> "none",
                                  gs2 |-> <<>>, peer |-> "none"]]
  /\ wire = {}
-----------------------------------------------------------------------------
(* The client, as far as the server relies on it. *)

\* mechanisms(): what a login offers, in this order.
Mechanisms(s) == IF cert[s] # NoCert THEN <<PLUS, SCRAM_SHA_256>> ELSE <<SCRAM_SHA_256>>

\* A client takes the first mechanism it supports; the gs2 flag says whether
\* it binds (p), could have (y) or cannot (n).
Chosen(c, offer) ==
  IF profile[c].sees # NoCert /\ Contains(offer, BoundName[profile[c].kind])
  THEN BoundName[profile[c].kind] ELSE SCRAM_SHA_256

Flag(c, offer) ==
  CASE Chosen(c, offer) # SCRAM_SHA_256                               -> "p"
    [] profile[c].kind # "unbound" /\ profile[c].sees # NoCert
         /\ Chosen(c, offer) = SCRAM_SHA_256                          -> "y"
    [] OTHER                                                          -> "n"

ClientFirst(c, s) ==
  /\ client[c].state = "start"
  /\ LET mechanism == Chosen(c, Mechanisms(s))
         gs2       == <<Flag(c, Mechanisms(s)), NoAuthzid>>
     IN /\ client' = [client EXCEPT ![c] =
              [@ EXCEPT !.state = "first", !.offer = s, !.mechanism = mechanism, !.gs2 = gs2]]
        /\ wire' = wire \cup {[type |-> "first", mechanism |-> mechanism, gs2 |-> gs2,
                               nonce |-> c]}
  /\ UNCHANGED <<dummy, cert, profile, server>>

\* cbind-input: the gs2 header, and the certificate when the client binds.
CbindInput(gs2, seen) == IF gs2[1] = "p" THEN <<gs2, seen>> ELSE <<gs2>>

\* The auth message: client-first-bare, server-first, client-final without proof.
AuthMessage(bare, challenge, cbind, nonce) ==
  [bare |-> bare, challenge |-> challenge, cbind |-> cbind, nonce |-> nonce]

\* A challenge that extends the client's nonce is answered once.
ClientFinal(c, challenge) ==
  /\ client[c].state = "first"
  /\ challenge.type = "challenge" /\ challenge.nonce[1] = c
  /\ LET cbind == CbindInput(client[c].gs2, profile[c].sees)
     IN wire' = wire \cup
          {[type |-> "final", cbind |-> cbind, nonce |-> challenge.nonce, key |-> profile[c].right,
            auth |-> AuthMessage(c, challenge.nonce, cbind, challenge.nonce)]}
  /\ client' = [client EXCEPT ![c].state = "final", ![c].peer = challenge.nonce[2]]
  /\ UNCHANGED <<dummy, cert, profile, server>>
-----------------------------------------------------------------------------
(* handle_client_first. *)

\* Variant for mutation: `y` is always taken.
FlagVerdictAnyY(s, mechanism, flag) ==
  CASE mechanism = SCRAM_SHA_256 /\ flag \in {"n", "y"} -> "ok"
    [] mechanism = PLUS /\ flag = "p"                   -> "ok"
    [] OTHER                                            -> "08P01"

\* validate_gs2_flag: `y` is a downgrade when we have offered -PLUS.
FlagVerdict(s, mechanism, flag) ==
  CASE mechanism = SCRAM_SHA_256 /\ flag = "n"                     -> "ok"
    [] mechanism = SCRAM_SHA_256 /\ flag = "y" /\ cert[s] = NoCert -> "ok"
    [] mechanism = PLUS /\ flag = "p"                              -> "ok"
    [] OTHER                                                       -> "08P01"

\* validate_params, validate_gs2_flag, validate_authzid_part ("a=" passes) and
\* the client nonce.
FirstVerdict(s, m) ==
  IF /\ Contains(Mechanisms(s), m.mechanism)
     /\ m.gs2[2] \in {NoAuthzid, "a="}
     /\ m.nonce # "empty"
  THEN FlagVerdict(s, m.mechanism, m.gs2[1]) ELSE "08P01"

\* Client-firsts that no client of the model sends: each is one attribute away
\* from one that would do.
StrayFirst(mechanism, flag, authzid, nonce) ==
  [type |-> "first", mechanism |-> mechanism, gs2 |-> <<flag, authzid>>, nonce |-> nonce]

StrayFirsts ==
  {StrayFirst("other", "n", NoAuthzid, Stray), StrayFirst(PLUS, "n", NoAuthzid, Stray),
   StrayFirst(SCRAM_SHA_256, "n", NoAuthzid, "empty")}
  \cup {StrayFirst(SCRAM_SHA_256, flag, NoAuthzid, Stray) : flag \in {"p", "p_other", "junk"}}
  \cup {StrayFirst(SCRAM_SHA_256, "n", authzid, Stray) : authzid \in {"a=", "a=name", "junk"}}

\* Variant for mutation: the server nonce is the same for every login.
CombinedNonceFixed(client_nonce, s) == <<client_nonce, "fixed">>

\* The client's nonce extended by a fresh one.
CombinedNonce(client_nonce, s) == <<client_nonce, s>>

\* On a refusal the authenticator itself stays Started and could be given another
\* client-first.  Done is the driver's doing: handle_authentication writes the
\* error and closes, so this login gets no further message.
HandleClientFirst(s, m) ==
  /\ server[s].state = "Started"
  /\ IF FirstVerdict(s, m) = "ok"
     THEN LET nonce == CombinedNonce(m.nonce, s)
          IN /\ server' = [server EXCEPT ![s] =
                  [@ EXCEPT !.state = "ClientFirstReceived", !.mechanism = m.mechanism,
                            !.gs2 = m.gs2, !.nonce = nonce]]
             /\ wire' = wire \cup {[type |-> "challenge", nonce |-> nonce]}
     ELSE /\ server' = [server EXCEPT ![s] =
               [@ EXCEPT !.state = "Done", !.verdict = FirstVerdict(s, m), !.sender = m.nonce]]
          /\ UNCHANGED wire
  /\ UNCHANGED <<dummy, cert, profile, client>>
-----------------------------------------------------------------------------
(* handle_client_final. *)

\* Variant for mutation: the gs2 header is expected without the certificate.
ExpectedCbindHeaderOnly(s) == <<server[s].gs2>>

\* expected_cbind: on -PLUS the header is the fixed one without an authzid.
ExpectedCbind(s) ==
  IF server[s].mechanism = PLUS THEN <<<<"p", NoAuthzid>>, cert[s]>> ELSE <<server[s].gs2>>

\* Variant for mutation: the c= attribute is not compared.
FinalVerdictAnyCbind(s, m) ==
  IF m.nonce # server[s].nonce THEN "08P01"
  ELSE IF \/ ~m.key
          \/ m.auth # AuthMessage(server[s].nonce[1], server[s].nonce, m.cbind, m.nonce)
          \/ dummy
  THEN "28P01" ELSE "ok"

\* The order of the checks: binding, nonce, proof, dummy.  The proof is
\* checked over our own record of the exchange.
FinalVerdict(s, m) ==
  CASE m.cbind # ExpectedCbind(s)  -> IF server[s].mechanism = PLUS THEN "28P01" ELSE "08P01"
    [] m.cbind = ExpectedCbind(s) /\ m.nonce # server[s].nonce -> "08P01"
    [] OTHER ->
         IF /\ m.key
            /\ m.auth = AuthMessage(server[s].nonce[1], server[s].nonce, m.cbind, m.nonce)
            /\ ~dummy
         THEN "ok" ELSE "28P01"

\* Variant for mutation: only a success ends the exchange.
DoneAfterSuccess(verdict) == IF verdict = "ok" THEN "Done" ELSE "ClientFirstReceived"

\* The state is Done before anything is looked at.
StateAfterFinal(verdict) == "Done"

\* History: the client whose answer to our challenge this is.
SenderOf(s, m) == IF m.nonce = server[s].nonce THEN m.nonce[1] ELSE Stray

\* One client-final is judged per exchange.
HandleClientFinal(s, m) ==
  /\ server[s].state = "ClientFirstReceived"
  /\ server' = [server EXCEPT ![s] =
       [@ EXCEPT !.state = StateAfterFinal(FinalVerdict(s, m)), !.judged = server[s].judged + 1,
                 !.verdict = FinalVerdict(s, m), !.sender = SenderOf(s, m)]]
  /\ UNCHANGED <<dummy, cert, profile, client, wire>>

\* A client-final with an attribute missing or given twice, a proof that does
\* not decode or has another length.
MalformedFinal(s) ==
  /\ server[s].state = "ClientFirstReceived"
  /\ server' = [server EXCEPT ![s] =
       [@ EXCEPT !.state = StateAfterFinal("08P01"), !.judged = server[s].judged + 1,
                 !.verdict = "08P01"]]
  /\ UNCHANGED <<dummy, cert, profile, client, wire>>

OfType(type) == {m \in wire : m.type = type}

Next ==
  \/ \E c \in Clients, s \in Servers : ClientFirst(c, s)
  \/ \E c \in Clients : \E m \in OfType("challenge") : ClientFinal(c, m)
  \/ \E s \in Servers : \E m \in OfType("first") \cup StrayFirsts : HandleClientFirst(s, m)
  \/ \E s \in Servers : \E m \in OfType("final") : HandleClientFinal(s, m)
  \/ \E s \in Servers : MalformedFinal(s)

Spec == Init /\ [][Next]_vars
-----------------------------------------------------------------------------
(* Properties. *)

Accepted(s) == server[s].verdict = "ok"
PeerOf(s) == server[s].nonce[1]

\* A login that succeeds has a client at the other end that has the password,
\* answered the challenge of this very login, chose the same mechanism and
\* flag, and, when it bound, saw this server's certificate; an unknown user
\* never gets in (scram_authenticator.rs handle_client_final).
Agreement ==
  \A s \in Servers : Accepted(s) =>
    /\ ~dummy
    /\ PeerOf(s) \in Clients
    /\ LET c == PeerOf(s)
       IN /\ profile[c].right
          /\ client[c].peer = s
          /\ client[c].mechanism = server[s].mechanism
          /\ client[c].gs2 = server[s].gs2
          /\ server[s].mechanism = PLUS => profile[c].sees = cert[s]

\* However messages are repeated, one exchange of a client opens one login, and
\* a login judges one client-final (handle_client_first draws a nonce of its
\* own, handle_client_final insists on it and is Done before it looks).
NoReplay ==
  \A s, t \in Servers :
    /\ Accepted(s) /\ Accepted(t) /\ PeerOf(s) = PeerOf(t) => s = t
    /\ server[s].judged <= 1

\* "accepting it would let an attacker strip channel binding"
\* (validate_gs2_flag_for_scram): a client that can bind and was kept from it
\* by a wrong offer does not get in unbound where -PLUS had been offered.
NoDowngrade ==
  \A s \in Servers :
    Accepted(s) /\ cert[s] # NoCert /\ profile[PeerOf(s)].sees # NoCert
        /\ profile[PeerOf(s)].kind # "unbound"
      => server[s].mechanism = PLUS

\* A known user with the right password who read this login's offer, knows its
\* mechanisms by the offered names and sees its certificate is never rejected
\* (handle_client_first, handle_client_final).
HonestAccepted ==
  \A s \in Servers : \A c \in Clients :
    /\ ~dummy /\ profile[c].right /\ profile[c].sees = cert[s] /\ profile[c].kind # "libpq"
    /\ client[c].offer = s /\ server[s].verdict # Undecided /\ server[s].sender = c
    => Accepted(s)

\* "`y` asserts 'I support channel binding but believe the server does not'.
\* That is true only when we did not offer `-PLUS`" (scram_authenticator.rs
\* validate_gs2_flag_for_scram), and "libpq selects the first mechanism it
\* supports" (mechanisms): nobody is refused for a downgrade who has read this
\* login's own offer and sees its certificate.
DowngradeIsReal ==
  \A s \in Servers : \A c \in Clients :
    server[s].verdict = "08P01" /\ server[s].sender = c /\ client[c].gs2[1] = "y"
      => ~ (client[c].offer = s /\ profile[c].sees = cert[s])
=============================================================================
