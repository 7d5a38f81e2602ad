---------------------------- MODULE MCPackUpdate ----------------------------
(* Two packs and their two slots, small enough to check every interleaving. *)
EXTENDS PackUpdate, TLC

CONSTANTS t1, t2, t3, t4

MCThreads == {t1, t2, t3, t4}

MCItems == 1..NPacks

\* Which thread runs a slot, and which is used for a new one, does not matter.
ThreadSymmetry == Permutations(Threads)

=============================================================================
