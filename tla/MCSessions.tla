----------------------------- MODULE MCSessions -----------------------------
(* Small instances of Sessions for TLC. *)
EXTENDS Sessions, TLC

CONSTANTS t1, t2, t3, k1, k2, l1, l2, l3

MCTasks == {t1, t2, t3}
MCKeys == {k1, k2}
MCLinks == {l1, l2, l3}
MCKeyless == {l3}

\* Tasks, keys and the two keyed links are interchangeable.
Symmetry ==
  Permutations(MCTasks) \cup Permutations(MCKeys) \cup Permutations({l1, l2})
=============================================================================
