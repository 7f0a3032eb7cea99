--------------------------- MODULE MCBackendLink ---------------------------
(* Small instances of BackendLink for TLC. *)
EXTENDS BackendLink

CONSTANTS p1, p2, s1, s2, k1, k2

MCPasswords == {p1, p2}
MCSalts == {s1, s2}

\* The store may have two passwords under one salt, the role one password under
\* two salts: their secrets agree, differ in either part, or in both.
MCSecrets == {[pw |-> p1, salt |-> s1], [pw |-> p2, salt |-> s1]}
MCRoleSecrets == {[pw |-> p1, salt |-> s1], [pw |-> p1, salt |-> s2]}

MCBackendKeys == {k1, k2}
=============================================================================
