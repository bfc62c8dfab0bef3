---------------------------- MODULE MCKLightLock ----------------------------
(* Instances of KLightLock for TLC. *)
EXTENDS KLightLock, TLC

CONSTANTS t1, t2, t3, sThread, sSystem

MCThreads == {t1, t2, t3}
MCOneLock == {1}
MCTwoLocks == {1, 2}
MCPriorities == 1 .. 2
MCOneType == {sThread}
MCTwoTypes == {sThread, sSystem}
Symmetry == Permutations(MCThreads)
=============================================================================
