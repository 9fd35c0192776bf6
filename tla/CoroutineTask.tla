---------------------------- MODULE CoroutineTask ----------------------------
(***************************************************************************)
(* coroutine::Task<T> (src/include/async_toolkit/coroutine/task.hpp): a    *)
(* move-only handle that owns one coroutine frame.  The body runs eagerly  *)
(* (initial_suspend is suspend_never) up to its first suspension or to its *)
(* end, where it stays suspended (final_suspend is suspend_always) until   *)
(* the owning Task destroys it.  get() resumes the frame once and returns  *)
(* the promise's result.                                                   *)
(*                                                                         *)
(* Slots are the Task objects of one thread (locals, members); a frame is  *)
(* one call of a coroutine function, whose body suspends k times, k in     *)
(* Suspends, before it co_returns.  The result and the exception are      *)
(* abstracted to whether return_value has run.                             *)
(***************************************************************************)
EXTENDS Naturals

CONSTANTS
  Slots,     \* Task objects
  Frames,    \* coroutine frames, one per call of a coroutine function
  Suspends,  \* how many times a body suspends before it co_returns
  Null       \* the null coroutine_handle

VARIABLES
  alive,    \* alive[s]: Task object s is constructed and not yet destroyed
  coro,     \* coro[s]: its coro_
  fstate,   \* a frame: "unborn", "suspended", "done" (at final_suspend), "destroyed"
  left,     \* suspensions still ahead of a suspended frame's body
  lastGet   \* what the last get() did

vars == <<alive, coro, fstate, left, lastGet>>

TypeOK ==
  /\ alive \in [Slots -> BOOLEAN] /\ coro \in [Slots -> Frames \cup {Null}]
  /\ fstate \in [Frames -> {"unborn", "suspended", "done", "destroyed"}]
  /\ left \in [Frames -> Suspends]
  /\ lastGet \in {"none", "value", "unset", "throw", "ub"}

Init ==
  /\ alive = [s \in Slots |-> FALSE] /\ coro = [s \in Slots |-> Null]
  /\ fstate = [f \in Frames |-> "unborn"] /\ left = [f \in Frames |-> 0]
  /\ lastGet = "none"

\* if (coro_) coro_.destroy(): the frame states after it.
Released(fs, f) == IF f = Null THEN fs ELSE [fs EXCEPT ![f] = "destroyed"]

\* Run a body with k suspensions ahead to its next suspension or its end.
RunBody(fs, f, k) ==
  /\ fstate' = [fs EXCEPT ![f] = IF k = 0 THEN "done" ELSE "suspended"]
  /\ left' = [left EXCEPT ![f] = IF k = 0 THEN 0 ELSE k - 1]

-----------------------------------------------------------------------------
\* Task() : coro_(nullptr).
DefaultConstruct(s) ==
  /\ ~alive[s] /\ alive' = [alive EXCEPT ![s] = TRUE]
  /\ coro' = [coro EXCEPT ![s] = Null]
  /\ UNCHANGED <<fstate, left, lastGet>>

\* Task t = coro(): get_return_object builds the Task(handle) in t, and the
\* body runs eagerly to its first suspension or its end.
Call(s, f, k) ==
  /\ ~alive[s] /\ fstate[f] = "unborn"
  /\ alive' = [alive EXCEPT ![s] = TRUE] /\ coro' = [coro EXCEPT ![s] = f]
  /\ RunBody(fstate, f, k)
  /\ UNCHANGED lastGet

\* Mutant: the source keeps its handle.
MoveConstructNoReset(s, o) ==
  /\ ~alive[s] /\ alive[o]
  /\ alive' = [alive EXCEPT ![s] = TRUE] /\ coro' = [coro EXCEPT ![s] = coro[o]]
  /\ UNCHANGED <<fstate, left, lastGet>>

\* Task(Task&& other): take other.coro_ and null it.
MoveConstruct(s, o) ==
  /\ ~alive[s] /\ alive[o]
  /\ alive' = [alive EXCEPT ![s] = TRUE]
  /\ coro' = [coro EXCEPT ![s] = coro[o], ![o] = Null]
  /\ UNCHANGED <<fstate, left, lastGet>>

\* operator=(Task&& other): unless this == &other, destroy the frame held,
\* take other.coro_ and null it.
MoveAssign(s, o) ==
  /\ alive[s] /\ alive[o]
  /\ IF s = o
       THEN UNCHANGED <<coro, fstate>>
       ELSE /\ fstate' = Released(fstate, coro[s])
            /\ coro' = [coro EXCEPT ![s] = coro[o], ![o] = Null]
  /\ UNCHANGED <<alive, left, lastGet>>

\* t = coro(): the move assignment from the temporary Task the call returns;
\* the temporary, left null, is destroyed without effect.
CallAssign(s, f, k) ==
  /\ alive[s] /\ fstate[f] = "unborn"
  /\ RunBody(Released(fstate, coro[s]), f, k)
  /\ coro' = [coro EXCEPT ![s] = f]
  /\ UNCHANGED <<alive, lastGet>>

\* ~Task(): destroy the frame held.
Destruct(s) ==
  /\ alive[s] /\ alive' = [alive EXCEPT ![s] = FALSE]
  /\ fstate' = Released(fstate, coro[s])
  /\ UNCHANGED <<coro, left, lastGet>>

\* get(): a null Task throws; otherwise coro_.resume(), then the result is
\* returned, whether or not the body reached co_return.  Resuming a frame at
\* its final suspend point, or a destroyed one, is undefined behaviour.
Get(s) ==
  /\ alive[s]
  /\ LET f == coro[s] IN
       CASE f = Null ->
              lastGet' = "throw" /\ UNCHANGED <<fstate, left>>
         [] fstate[f] = "suspended" ->
              /\ RunBody(fstate, f, left[f])
              /\ lastGet' = IF left[f] = 0 THEN "value" ELSE "unset"
         [] OTHER ->
              lastGet' = "ub" /\ UNCHANGED <<fstate, left>>
  /\ UNCHANGED <<alive, coro>>

Next ==
  \/ \E s \in Slots : DefaultConstruct(s) \/ Destruct(s) \/ Get(s)
  \/ \E s \in Slots, f \in Frames, k \in Suspends : Call(s, f, k) \/ CallAssign(s, f, k)
  \/ \E s, o \in Slots : MoveConstruct(s, o) \/ MoveAssign(s, o)

Spec == Init /\ [][Next]_vars

-----------------------------------------------------------------------------
(* Properties                                                              *)

\* Through any sequence of calls, move constructions, move assignments (self
\* assignment included) and destructions, a frame that has started and not
\* been destroyed is owned by exactly one living Task, and a destroyed frame
\* by none: no frame leaks, none is destroyed twice or resumed after destroy.
FrameOwnedOnce ==
  \A f \in Frames :
    LET owners == {s \in Slots : alive[s] /\ coro[s] = f}
    IN  /\ fstate[f] \in {"suspended", "done"} => \E s \in owners : owners = {s}
        /\ fstate[f] \in {"unborn", "destroyed"} => owners = {}

\* get() returns the value the body co_returned.  It resumes exactly once,
\* so it does not hold for a body that suspends twice (the result is read
\* unset) or never (a frame at its final suspend is resumed).
GetReturnsValue == lastGet \in {"none", "value", "throw"}
=============================================================================
