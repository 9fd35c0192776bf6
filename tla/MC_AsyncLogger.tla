--------------------------- MODULE MC_AsyncLogger ---------------------------
(* Model-checking instance of AsyncLogger: threads are model values.       *)
EXTENDS AsyncLogger

CONSTANTS l1, l2, w, o

\* One thread that logs and flushes.
OneLogger == {l1}

\* Two logging threads.
TwoLoggers == {l1, l2}
=============================================================================
