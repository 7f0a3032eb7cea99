------------------------- MODULE MCCredentialReload -------------------------
(* Small instances of CredentialReload for TLC. *)
EXTENDS CredentialReload

CONSTANTS r1, r2, m1, m2

MCReloaders == {r1, r2}
MCMaps == {m1, m2}
=============================================================================
