-------------------------- MODULE MCKHardwareTimer --------------------------
(* An instance of KHardwareTimer for TLC. *)
EXTENDS KHardwareTimer

CONSTANTS t1, t2, t3

MCThreads == {t1, t2, t3}
=============================================================================
