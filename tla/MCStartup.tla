----------------------------- MODULE MCStartup -----------------------------
(* Small instances of Startup for TLC. *)
EXTENDS Startup

CONSTANTS v1, v2

MCVerifiers == {v1, v2}
=============================================================================
