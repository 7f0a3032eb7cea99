---------------------------- MODULE MCAuthQuery ----------------------------
(* Small instances of AuthQuery for TLC. *)
EXTENDS AuthQuery, TLC

CONSTANTS q1, q2, u1, u2, s1, s2

MCLookups == {q1, q2}
MCUsers == {u1, u2}
MCOneUser == {u1}
MCSecrets == {s1}
MCTwoSecrets == {s1, s2}
MCSymmetry == Permutations(MCLookups) \cup Permutations(MCUsers)
=============================================================================
