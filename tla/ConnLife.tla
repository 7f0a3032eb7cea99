------------------------------- MODULE ConnLife -------------------------------
(***************************************************************************)
(* The life of one connection, as its peers see it: Conn::handle from the  *)
(* permit to the drop of the Conn.  A connection gets a session only       *)
(* through a login and a backend link, at most once, and keeps it until it *)
(* is over; a cancel never becomes a session, and nothing but the return   *)
(* comes after a deadline.                                                 *)
(*                                                                         *)
(* Module Sessions has this life for each of its tasks, module Startup     *)
(* fills in the dialogue of one.                                           *)
(***************************************************************************)
VARIABLES phase,     \* outside, startup, linking, announcing, cancelling, expiring, returning
          session    \* the connection is in the registry

lifeVars == <<phase, session>>

\* A dialogue by itself begins inside.
Init ==
  /\ phase \in {"outside", "startup"}
  /\ session = FALSE

\* With a permit, or refused without one.
Enter ==
  /\ phase = "outside"
  /\ phase' \in {"startup", "returning"}
  /\ UNCHANGED session

\* The packets end in a login or in a cancel.
Proceed ==
  /\ phase = "startup"
  /\ phase' \in {"linking", "cancelling"}
  /\ UNCHANGED session

Register ==
  /\ phase = "linking"
  /\ ~session
  /\ phase' = "announcing"
  /\ session' = TRUE

\* The deadline interrupts any of the awaits under it.
Expire ==
  /\ phase \in {"startup", "linking", "announcing", "cancelling"}
  /\ phase' = "expiring"
  /\ UNCHANGED session

Return ==
  /\ phase \in {"startup", "linking", "announcing", "cancelling", "expiring"}
  /\ phase' = "returning"
  /\ UNCHANGED session

Leave ==
  /\ phase = "returning"
  /\ phase' = "outside"
  /\ session' = FALSE

Next == Enter \/ Proceed \/ Register \/ Expire \/ Return \/ Leave

Spec == Init /\ [][Next]_lifeVars
=============================================================================
