------------------------- MODULE MCKAddressArbiter -------------------------
(* An instance of KAddressArbiter for TLC. *)
EXTENDS KAddressArbiter, TLC

CONSTANTS t1, t2, t3, a1, a2

MCThreads == {t1, t2, t3}
MCEqual == {a1}
MCLess == {a2}
Symmetry == Permutations(MCThreads)
=============================================================================
