------------------------------- MODULE MC_Actor -------------------------------
(* Model-checking instance of Actor: threads are model values.             *)
EXTENDS Actor

CONSTANTS t1, t2, p

\* Two other actors telling this one.
TwoTellers == {t1, t2}

=============================================================================
