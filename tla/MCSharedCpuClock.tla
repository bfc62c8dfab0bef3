------------------------- MODULE MCSharedCpuClock ---------------------------
(* An instance of SharedCpuClock for TLC. *)
EXTENDS SharedCpuClock

MCCores == {0, 1}
MCMasks == {{1}}
=============================================================================
