------------------------------- MODULE TaskPool -------------------------------
(***************************************************************************)
(* coroutine/task_pool.hpp: a FIFO std::queue of tasks under queue_mutex_, *)
(* a condition variable, a stop_ flag, and a fixed set of worker threads.  *)
(* Every critical section is one step; notify_one and notify_all happen    *)
(* after the lock is released and are steps of their own.  A task is a     *)
(* number; its packaged_task makes the future ready when it runs, with a   *)
(* value or with the exception it threw, so running it is one step that    *)
(* adds it to `ready`.                                                      *)
(***************************************************************************)
EXTENDS Naturals, Sequences, FiniteSets

CONSTANTS
    Workers,      \* the worker threads (thread_count of them)
    Clients,      \* threads calling submit, possibly while the pool is destroyed
    SubmitOps     \* submit calls each client makes at most

ASSUME SubmitOps \in Nat

TaskIds == Clients \X (1..SubmitOps)
NoTask  == <<>>

VARIABLES
    tasks,        \* tasks_
    stop,         \* stop_
    wpc,          \* worker program counter
    current,      \* each worker's local `task`
    cpc,          \* client program counter
    calls,        \* submit calls each client has made
    accepted,     \* tasks whose submit returned a future
    rejected,     \* submit calls that threw "Cannot submit task to stopped ThreadPool"
    ready,        \* tasks whose future is ready
    opc           \* the owner: "live", then the destructor's steps

vars == <<tasks, stop, wpc, current, cpc, calls, accepted, rejected, ready, opc>>

TypeOK ==
    /\ tasks \in Seq(TaskIds)
    /\ stop \in BOOLEAN
    /\ wpc \in [Workers -> {"wait", "blocked", "run", "exited"}]
    /\ current \in [Workers -> TaskIds \cup {NoTask}]
    /\ cpc \in [Clients -> {"idle", "notify"}]
    /\ calls \in [Clients -> 0..SubmitOps]
    /\ accepted \subseteq TaskIds
    /\ rejected \subseteq TaskIds
    /\ ready \subseteq TaskIds
    /\ opc \in {"live", "notify_all", "join", "done"}

(* The constructor starts every worker at the top of its loop. *)
Init ==
    /\ tasks = <<>>
    /\ stop = FALSE
    /\ wpc = [w \in Workers |-> "wait"]
    /\ current = [w \in Workers |-> NoTask]
    /\ cpc = [c \in Clients |-> "idle"]
    /\ calls = [c \in Clients |-> 0]
    /\ accepted = {}
    /\ rejected = {}
    /\ ready = {}
    /\ opc = "live"

-----------------------------------------------------------------------------
(* condition_.notify_one() *)
WakeOne ==
    LET blocked == {w \in Workers : wpc[w] = "blocked"}
    IN  IF blocked = {} THEN UNCHANGED wpc
        ELSE \E w \in blocked : wpc' = [wpc EXCEPT ![w] = "wait"]

(* condition_.notify_all() *)
WakeAll ==
    wpc' = [w \in Workers |-> IF wpc[w] = "blocked" THEN "wait" ELSE wpc[w]]

(* submit(f, args...): under the lock, throw if stop_ is set, else         *)
(* enqueue the task; the future is returned after notify_one.               *)
Submit(c) ==
    /\ cpc[c] = "idle" /\ calls[c] < SubmitOps
    /\ LET t == <<c, calls[c] + 1>>
       IN  IF stop
           THEN /\ rejected' = rejected \cup {t}
                /\ UNCHANGED <<tasks, accepted, cpc>>
           ELSE /\ tasks' = Append(tasks, t)
                /\ accepted' = accepted \cup {t}
                /\ cpc' = [cpc EXCEPT ![c] = "notify"]
                /\ UNCHANGED rejected
    /\ calls' = [calls EXCEPT ![c] = @ + 1]
    /\ UNCHANGED <<stop, wpc, current, ready, opc>>

(* Mutant: submit returns without notify_one. *)
NotifyOneMissing(c) ==
    /\ cpc[c] = "notify"
    /\ cpc' = [cpc EXCEPT ![c] = "idle"]
    /\ UNCHANGED <<tasks, stop, wpc, current, calls, accepted, rejected, ready, opc>>

NotifyOne(c) ==
    /\ cpc[c] = "notify"
    /\ WakeOne
    /\ cpc' = [cpc EXCEPT ![c] = "idle"]
    /\ UNCHANGED <<tasks, stop, current, calls, accepted, rejected, ready, opc>>

-----------------------------------------------------------------------------
(* Mutant: the worker returns as soon as stop_ is set. *)
WorkerTakeExitOnStop(w) ==
    /\ wpc[w] = "wait"
    /\ IF ~stop /\ tasks = <<>>
       THEN /\ wpc' = [wpc EXCEPT ![w] = "blocked"]
            /\ UNCHANGED <<tasks, current>>
       ELSE IF stop
       THEN /\ wpc' = [wpc EXCEPT ![w] = "exited"]
            /\ UNCHANGED <<tasks, current>>
       ELSE /\ current' = [current EXCEPT ![w] = Head(tasks)]
            /\ tasks' = Tail(tasks)
            /\ wpc' = [wpc EXCEPT ![w] = "run"]
    /\ UNCHANGED <<stop, cpc, calls, accepted, rejected, ready, opc>>

(* Mutant: no wait at all; front() of an empty std::queue is undefined and *)
(* yields whatever the storage holds.                                     *)
WorkerTakeNoWait(w) ==
    /\ wpc[w] = "wait"
    /\ IF stop /\ tasks = <<>>
       THEN /\ wpc' = [wpc EXCEPT ![w] = "exited"]
            /\ UNCHANGED <<tasks, current>>
       ELSE IF tasks = <<>>
       THEN /\ current' = [current EXCEPT ![w] = "garbage"]
            /\ wpc' = [wpc EXCEPT ![w] = "run"]
            /\ UNCHANGED tasks
       ELSE /\ current' = [current EXCEPT ![w] = Head(tasks)]
            /\ tasks' = Tail(tasks)
            /\ wpc' = [wpc EXCEPT ![w] = "run"]
    /\ UNCHANGED <<stop, cpc, calls, accepted, rejected, ready, opc>>

(* One pass of the worker lambda under the lock: wait until stop_ or a    *)
(* task, return on stop_ with an empty queue, else take the front task.   *)
WorkerTake(w) ==
    /\ wpc[w] = "wait"
    /\ IF ~stop /\ tasks = <<>>
       THEN /\ wpc' = [wpc EXCEPT ![w] = "blocked"]
            /\ UNCHANGED <<tasks, current>>
       ELSE IF stop /\ tasks = <<>>
       THEN /\ wpc' = [wpc EXCEPT ![w] = "exited"]
            /\ UNCHANGED <<tasks, current>>
       ELSE /\ current' = [current EXCEPT ![w] = Head(tasks)]
            /\ tasks' = Tail(tasks)
            /\ wpc' = [wpc EXCEPT ![w] = "run"]
    /\ UNCHANGED <<stop, cpc, calls, accepted, rejected, ready, opc>>

(* A blocked worker is woken by a notification or spuriously; either way *)
(* it re-evaluates the predicate.                                          *)
SpuriousWakeup(w) ==
    /\ wpc[w] = "blocked"
    /\ wpc' = [wpc EXCEPT ![w] = "wait"]
    /\ UNCHANGED <<tasks, stop, current, cpc, calls, accepted, rejected, ready, opc>>

(* task(): the packaged_task runs and makes its future ready. *)
WorkerRun(w) ==
    /\ wpc[w] = "run"
    /\ ready' = ready \cup {current[w]}
    /\ current' = [current EXCEPT ![w] = NoTask]
    /\ wpc' = [wpc EXCEPT ![w] = "wait"]
    /\ UNCHANGED <<tasks, stop, cpc, calls, accepted, rejected, opc>>

-----------------------------------------------------------------------------
(* ~TaskPool(): set stop_ under the lock, notify_all, join every worker. *)
Destroy ==
    /\ opc = "live"
    /\ stop' = TRUE
    /\ opc' = "notify_all"
    /\ UNCHANGED <<tasks, wpc, current, cpc, calls, accepted, rejected, ready>>

DtorNotifyAll ==
    /\ opc = "notify_all"
    /\ WakeAll
    /\ opc' = "join"
    /\ UNCHANGED <<tasks, stop, current, cpc, calls, accepted, rejected, ready>>

Join ==
    /\ opc = "join" /\ \A w \in Workers : wpc[w] = "exited"
    /\ opc' = "done"
    /\ UNCHANGED <<tasks, stop, wpc, current, cpc, calls, accepted, rejected, ready>>

-----------------------------------------------------------------------------
Worker(w) == WorkerTake(w) \/ WorkerRun(w)

(* The program is finished: the pool is gone and no client has a call left. *)
Terminated ==
    /\ opc = "done"
    /\ \A c \in Clients : cpc[c] = "idle" /\ calls[c] = SubmitOps
    /\ UNCHANGED vars

Next ==
    \/ \E c \in Clients : Submit(c) \/ NotifyOne(c)
    \/ \E w \in Workers : Worker(w) \/ SpuriousWakeup(w)
    \/ Destroy \/ DtorNotifyAll \/ Join
    \/ Terminated

(* Workers and a submit call in progress keep running; once started, the *)
(* destructor runs to its end.  Nobody is obliged to submit, or to destroy *)
(* the pool.                                                               *)
Fairness ==
    /\ \A w \in Workers : WF_vars(Worker(w))
    /\ \A c \in Clients : WF_vars(NotifyOne(c))
    /\ WF_vars(DtorNotifyAll) /\ WF_vars(Join)

Spec == Init /\ [][Next]_vars /\ Fairness

-----------------------------------------------------------------------------
(* Workers drain the queue before they exit: when the destructor returns, *)
(* every task whose submit returned a future has run, even when a submit  *)
(* raced the destructor's stop_ and got in just before it.                *)
DrainedAtExit == opc = "done" => accepted = ready

(* Every future submit returned becomes ready, whether or not the pool is *)
(* ever destroyed: a worker blocked in condition_.wait is always notified *)
(* of a task that arrives.                                                 *)
EveryFutureReady == \A t \in TaskIds : (t \in accepted) ~> (t \in ready)
=============================================================================
