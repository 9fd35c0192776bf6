----------------------------- MODULE MC_EventLoop -----------------------------
(* EventLoop with the clients as model values, for EventLoop.cfg.         *)
EXTENDS EventLoop

CONSTANTS c1, c2

OneClient == {c1}
=============================================================================
