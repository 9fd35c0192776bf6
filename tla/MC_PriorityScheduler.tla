------------------------- MODULE MC_PriorityScheduler -------------------------
(* Model-checking instance of PriorityScheduler: two workers.              *)
EXTENDS PriorityScheduler

CONSTANTS w1, w2

TwoWorkers == {w1, w2}
=============================================================================
