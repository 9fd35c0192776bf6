------------------------- MODULE MC_ThreadPoolExecutor -------------------------
EXTENDS ThreadPoolExecutor

CONSTANTS w1, w2, c1

TwoWorkers == {w1, w2}
OneClient  == {c1}

\* a priority below and one above the 0 of submit and schedule_after
LowHigh == {-1, 1}
=============================================================================
