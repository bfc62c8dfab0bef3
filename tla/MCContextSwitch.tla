-------------------------- MODULE MCContextSwitch ---------------------------
(* Instances of ContextSwitch for TLC. *)
EXTENDS ContextSwitch, TLC

CONSTANTS t1, t2, t3

MCThreads == {t1, t2, t3}
MCTwoThreads == {t1, t2}
MCPreempt == [c \in 0 .. NumCores - 1 |-> LowestPriority]
Symmetry == Permutations(MCThreads)
=============================================================================
