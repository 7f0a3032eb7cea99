----------------------------- MODULE SessionKeys -----------------------------
(***************************************************************************)
(* What the proxy promises about cancel keys, stated without the registry, *)
(* the permits or the connection tasks that implement it.  A session has   *)
(* one proxy-minted key and one backend link of its own, from the moment   *)
(* it is opened to the moment it is closed.  A cancel request is forwarded *)
(* to the link of the session that holds the key it names at that moment,  *)
(* and a link that is the target of a forwarded cancel is not given to     *)
(* another session before the forwarding is over.                          *)
(***************************************************************************)
CONSTANTS Clients,        \* connections that may own a session or ask for a cancel
          Keys, NoKey,    \* proxy cancel keys; NoKey marks "no session"
          Links, NoLink   \* backend links; NoLink marks "none"

VARIABLES session,        \* session[c]: the key and link of c's session
          asked,          \* asked[c]: the key c's cancel request names
          forwarding      \* forwarding[c]: the link c's cancel is sent to

cancelVars == <<asked, forwarding>>
keyVars == <<session, cancelVars>>

None == [key |-> NoKey, link |-> NoLink]

InUse == {session[c].link : c \in Clients} \cup {forwarding[c] : c \in Clients}

Init ==
  /\ session = [c \in Clients |-> None]
  /\ asked = [c \in Clients |-> NoKey]
  /\ forwarding = [c \in Clients |-> NoLink]

\* A session gets a key no other session holds and a link nobody uses.
Open(c, k, l) ==
  /\ session[c] = None
  /\ \A d \in Clients : session[d].key # k
  /\ l \notin InUse
  /\ session' = [session EXCEPT ![c] = [key |-> k, link |-> l]]
  /\ UNCHANGED cancelVars

Close(c) ==
  /\ session[c] # None
  /\ session' = [session EXCEPT ![c] = None]
  /\ UNCHANGED cancelVars

\* c asks for key k: the cancel goes to the link of a session that holds k
\* now (Open lets no two hold it), and to no other link.
Forward(c, k) ==
  /\ forwarding[c] = NoLink
  /\ \E d \in Clients :
       /\ session[d].key = k
       /\ forwarding' = [forwarding EXCEPT ![c] = session[d].link]
  /\ asked' = [asked EXCEPT ![c] = k]
  /\ UNCHANGED session

Forwarded(c) ==
  /\ forwarding[c] # NoLink
  /\ forwarding' = [forwarding EXCEPT ![c] = NoLink]
  /\ asked' = [asked EXCEPT ![c] = NoKey]
  /\ UNCHANGED session

Next ==
  \/ \E c \in Clients, k \in Keys, l \in Links : Open(c, k, l)
  \/ \E c \in Clients : Close(c) \/ Forwarded(c)
  \/ \E c \in Clients, k \in Keys : Forward(c, k)

Spec == Init /\ [][Next]_keyVars
=============================================================================
