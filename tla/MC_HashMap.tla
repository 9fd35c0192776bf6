------------------------------ MODULE MC_HashMap ------------------------------
(* lockfree::HashMap with the threads as model values, for HashMap.cfg.  *)
EXTENDS HashMap

CONSTANTS t1, t2

TwoThreads == {t1, t2}
=============================================================================
