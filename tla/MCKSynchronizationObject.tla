---------------------- MODULE MCKSynchronizationObject ----------------------
(* An instance of KSynchronizationObject for TLC. *)
EXTENDS KSynchronizationObject, TLC

CONSTANTS t1, t2, t3, o1, o2

MCThreads == {t1, t2, t3}
MCObjects == {o1, o2}
Symmetry == Permutations(MCThreads) \cup Permutations(MCObjects)
=============================================================================
