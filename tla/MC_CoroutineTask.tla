-------------------------- MODULE MC_CoroutineTask --------------------------
(* CoroutineTask with its Task objects and frames as model values.         *)
EXTENDS CoroutineTask

CONSTANTS ta, tb, f1, f2, f3

TwoTasks == {ta, tb}
ThreeFrames == {f1, f2, f3}
=============================================================================
