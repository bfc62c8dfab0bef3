------------------------ MODULE MCKConditionVariable ------------------------
(* Instances of KConditionVariable for TLC. *)
EXTENDS KConditionVariable, TLC

CONSTANTS t1, t2, t3, c1

MCThreads == {t1, t2, t3}
MCTwoThreads == {t1, t2}
MCOneMutex == {1}
MCTwoMutexes == {1, 2}
MCCvKeys == {c1}
MCPriorities == 1 .. 2
Symmetry == Permutations(MCThreads)
SymmetryTwo == Permutations({t2, t3})
=============================================================================
