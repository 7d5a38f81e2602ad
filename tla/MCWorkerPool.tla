---------------------------- MODULE MCWorkerPool ----------------------------
(* The pool with a caller that calls its functions in any order. *)
EXTENDS WorkerPool, TLC

CONSTANTS t1, t2, t3, t4, i1, i2

\* Which thread runs a slot, and which is used for a new one, does not matter.
PoolSymmetry == Permutations(Threads) \cup Permutations(Items)

=============================================================================
