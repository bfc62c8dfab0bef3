---------------------------- MODULE MCKScheduler ----------------------------
(* Instances of KScheduler for TLC. *)
EXTENDS KScheduler, TLC

CONSTANTS t1, t2, t3

MCThreads == {t1, t2, t3}
\* The cores rotate threads of different priorities (59 and 63).
MCPreempt == [c \in 0 .. NumCores - 1 |-> IF c = 0 THEN 1 ELSE 0]
MCMasks == {<<-1, {0, 1}>>, <<-1, {1}>>, <<-3, {1}>>}

\* A bound for TLC: the third thread keeps its priority.
OneSteady == ctx.prio[t3] = LowestPriority
=============================================================================
