---------------------------- MODULE MCBufferPool ----------------------------
(* Small instances of BufferPool for TLC. *)
EXTENDS BufferPool, TLC

CONSTANTS t1, t2

MCTasks == {t1, t2}
MCSymmetry == Permutations(MCTasks)
=============================================================================
