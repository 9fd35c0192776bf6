----------------------- MODULE MC_WorkStealingScheduler -----------------------
EXTENDS WorkStealingScheduler

CONSTANTS c1, c2

TwoClients == {c1, c2}
=============================================================================
