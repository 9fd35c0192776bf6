------------------------------ MODULE MC_TaskPool ------------------------------
EXTENDS TaskPool

CONSTANTS w1, w2, c1, c2

TwoWorkers == {w1, w2}
TwoClients == {c1, c2}
=============================================================================
