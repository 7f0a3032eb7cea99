-------------------------- MODULE MCScramExchange --------------------------
(* Small instances of ScramExchange for TLC. *)
EXTENDS ScramExchange, TLC

CONSTANTS l1, l2, c1, c2, x1, x2

MCServers == {l1, l2}
MCClients == {c1, c2}
MCCerts == {x1, x2}
MCSymmetry == Permutations(MCServers) \cup Permutations(MCClients) \cup Permutations(MCCerts)
=============================================================================
