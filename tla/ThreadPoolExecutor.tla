--------------------------- MODULE ThreadPoolExecutor ---------------------------
(***************************************************************************)
(* executor/thread_pool_executor.hpp: a std::priority_queue<Task> under    *)
(* mutex_, a condition variable, an atomic stop_, max_queue_size_, and a   *)
(* fixed set of workers.  The heap is the set `heap` of task records; a    *)
(* worker pops a maximal one under Task::operator<.                         *)
(*                                                                         *)
(* The three submit functions push task_pool_->allocate(...), a Task*,     *)
(* into a priority_queue<Task>, which does not compile once instantiated;  *)
(* the model pushes the Task those arguments construct, which is plainly   *)
(* what is meant.  Running a task makes its future ready (with a value or  *)
(* the exception, which the packaged_task captures).                       *)
(***************************************************************************)
EXTENDS Integers, FiniteSets

CONSTANTS
    Workers,       \* the worker threads
    Clients,       \* threads calling submit / submit_with_priority / schedule_after
    SubmitOps,     \* calls each client makes at most
    Priorities,    \* priorities submit_with_priority is given
    Delays,        \* delays schedule_after is given, in clock ticks
    MaxQueueSize,  \* max_queue_size_
    MaxTime        \* bound on steady_clock::now()

ASSUME SubmitOps \in Nat /\ MaxQueueSize \in Nat /\ MaxTime \in Nat
ASSUME Priorities \subseteq Int /\ Delays \subseteq Nat

TaskIds  == Clients \X (1..SubmitOps)
Tasks    == [id : TaskIds, priority : Priorities \cup {0}, time : 0..MaxTime]
NoTask   == [id |-> <<>>, priority |-> 0, time |-> 0]

VARIABLES
    heap,         \* tasks_
    stop,         \* stop_
    now,          \* steady_clock::now()
    wpc,          \* worker program counter
    current,      \* the task a worker popped and is running
    cpc,          \* client program counter
    calls,        \* calls each client has made
    accepted,     \* ids of tasks whose call returned a future
    ready,        \* ids of tasks whose future is ready
    opc           \* the owner: "live", then the destructor's steps

vars == <<heap, stop, now, wpc, current, cpc, calls, accepted, ready, opc>>

(* The heap never holds more than max_queue_size_ tasks. *)
TypeOK ==
    /\ heap \subseteq Tasks /\ Cardinality(heap) <= MaxQueueSize
    /\ stop \in BOOLEAN
    /\ now \in 0..MaxTime
    /\ wpc \in [Workers -> {"wait", "blocked", "run", "exited"}]
    /\ current \in [Workers -> Tasks \cup {NoTask}]
    /\ cpc \in [Clients -> {"idle", "notify"}]
    /\ calls \in [Clients -> 0..SubmitOps]
    /\ accepted \subseteq TaskIds /\ ready \subseteq TaskIds
    /\ opc \in {"live", "notify_all", "join", "done"}

Init ==
    /\ heap = {}
    /\ stop = FALSE
    /\ now = 0
    /\ wpc = [w \in Workers |-> "wait"]
    /\ current = [w \in Workers |-> NoTask]
    /\ cpc = [c \in Clients |-> "idle"]
    /\ calls = [c \in Clients |-> 0]
    /\ accepted = {}
    /\ ready = {}
    /\ opc = "live"

-----------------------------------------------------------------------------
(* Task::operator<: lower priority, then later schedule_time, is less. *)
Less(a, b) ==
    IF a.priority # b.priority THEN a.priority < b.priority
    ELSE a.time > b.time

(* The tasks std::priority_queue may have at top(): the maximal ones. *)
Tops == {t \in heap : \A u \in heap : ~Less(t, u)}

(* Mutant: the full check is tasks_.size() > max_queue_size_. *)
PushOffByOne(c, priority, time) ==
    /\ cpc[c] = "idle" /\ calls[c] < SubmitOps /\ opc = "live"
    /\ LET t == [id |-> <<c, calls[c] + 1>>, priority |-> priority, time |-> time]
       IN  IF Cardinality(heap) > MaxQueueSize
           THEN UNCHANGED <<heap, accepted, cpc>>
           ELSE /\ heap' = heap \cup {t}
                /\ accepted' = accepted \cup {t.id}
                /\ cpc' = [cpc EXCEPT ![c] = "notify"]
    /\ calls' = [calls EXCEPT ![c] = @ + 1]
    /\ UNCHANGED <<stop, now, wpc, current, ready, opc>>

(* The body every submit variant shares: under the lock, throw "Task queue *)
(* is full" at max_queue_size_, else push the Task; then notify_one.       *)
Push(c, priority, time) ==
    /\ cpc[c] = "idle" /\ calls[c] < SubmitOps /\ opc = "live"
    /\ LET t == [id |-> <<c, calls[c] + 1>>, priority |-> priority, time |-> time]
       IN  IF Cardinality(heap) >= MaxQueueSize
           THEN UNCHANGED <<heap, accepted, cpc>>
           ELSE /\ heap' = heap \cup {t}
                /\ accepted' = accepted \cup {t.id}
                /\ cpc' = [cpc EXCEPT ![c] = "notify"]
    /\ calls' = [calls EXCEPT ![c] = @ + 1]
    /\ UNCHANGED <<stop, now, wpc, current, ready, opc>>

(* submit(f, args...): priority 0, schedule_time now. *)
Submit(c) == Push(c, 0, now)

(* submit_with_priority(priority, f, args...) *)
SubmitWithPriority(c) == \E p \in Priorities : Push(c, p, now)

(* schedule_after(delay, f, args...): priority 0, now + delay. *)
ScheduleAfter(c) ==
    \E d \in Delays : now + d <= MaxTime /\ Push(c, 0, now + d)

NotifyOne(c) ==
    /\ cpc[c] = "notify"
    /\ LET blocked == {w \in Workers : wpc[w] = "blocked"}
       IN  IF blocked = {} THEN UNCHANGED wpc
           ELSE \E w \in blocked : wpc' = [wpc EXCEPT ![w] = "wait"]
    /\ cpc' = [cpc EXCEPT ![c] = "idle"]
    /\ UNCHANGED <<heap, stop, now, current, calls, accepted, ready, opc>>

-----------------------------------------------------------------------------
(* Mutant: the top is popped without the schedule_time check. *)
WorkerPassNoDueCheck(w) ==
    /\ wpc[w] = "wait"
    /\ \/ /\ ~stop /\ heap = {}
          /\ wpc' = [wpc EXCEPT ![w] = "blocked"]
          /\ UNCHANGED <<heap, current>>
       \/ /\ stop /\ heap = {}
          /\ wpc' = [wpc EXCEPT ![w] = "exited"]
          /\ UNCHANGED <<heap, current>>
       \/ \E t \in Tops :
            /\ heap' = heap \ {t}
            /\ current' = [current EXCEPT ![w] = t]
            /\ wpc' = [wpc EXCEPT ![w] = "run"]
    /\ UNCHANGED <<stop, now, cpc, calls, accepted, ready, opc>>

(* Mutant: the worker returns as soon as stop_ is set. *)
WorkerPassExitOnStop(w) ==
    /\ wpc[w] = "wait"
    /\ \/ /\ ~stop /\ heap = {}
          /\ wpc' = [wpc EXCEPT ![w] = "blocked"]
          /\ UNCHANGED <<heap, current>>
       \/ /\ stop
          /\ wpc' = [wpc EXCEPT ![w] = "exited"]
          /\ UNCHANGED <<heap, current>>
       \/ \E t \in Tops :
            /\ ~stop /\ t.time <= now
            /\ heap' = heap \ {t}
            /\ current' = [current EXCEPT ![w] = t]
            /\ wpc' = [wpc EXCEPT ![w] = "run"]
    /\ UNCHANGED <<stop, now, cpc, calls, accepted, ready, opc>>

(* One pass of worker_loop under the lock: wait for stop_ or a task,      *)
(* return on stop_ with an empty heap, pop the top if it is due.  An undue *)
(* top releases the lock and loops at once: the pass changes nothing, and  *)
(* the worker spins until the clock makes the top due.                     *)
WorkerPass(w) ==
    /\ wpc[w] = "wait"
    /\ \/ /\ ~stop /\ heap = {}
          /\ wpc' = [wpc EXCEPT ![w] = "blocked"]
          /\ UNCHANGED <<heap, current>>
       \/ /\ stop /\ heap = {}
          /\ wpc' = [wpc EXCEPT ![w] = "exited"]
          /\ UNCHANGED <<heap, current>>
       \/ \E t \in Tops :
            /\ t.time <= now
            /\ heap' = heap \ {t}
            /\ current' = [current EXCEPT ![w] = t]
            /\ wpc' = [wpc EXCEPT ![w] = "run"]
    /\ UNCHANGED <<stop, now, cpc, calls, accepted, ready, opc>>

SpuriousWakeup(w) ==
    /\ wpc[w] = "blocked"
    /\ wpc' = [wpc EXCEPT ![w] = "wait"]
    /\ UNCHANGED <<heap, stop, now, current, cpc, calls, accepted, ready, opc>>

(* task.func(), inside try/catch: the future becomes ready either way. *)
WorkerRun(w) ==
    /\ wpc[w] = "run"
    /\ ready' = ready \cup {current[w].id}
    /\ current' = [current EXCEPT ![w] = NoTask]
    /\ wpc' = [wpc EXCEPT ![w] = "wait"]
    /\ UNCHANGED <<heap, stop, now, cpc, calls, accepted, opc>>

Tick ==
    /\ now < MaxTime
    /\ now' = now + 1
    /\ UNCHANGED <<heap, stop, wpc, current, cpc, calls, accepted, ready, opc>>

-----------------------------------------------------------------------------
(* ~ThreadPoolExecutor(): stop_ under the lock, notify_all, join. *)
Destroy ==
    /\ opc = "live" /\ \A c \in Clients : cpc[c] = "idle"
    /\ stop' = TRUE
    /\ opc' = "notify_all"
    /\ UNCHANGED <<heap, now, wpc, current, cpc, calls, accepted, ready>>

(* Mutant: the destructor never calls notify_all. *)
DtorNotifyAllMissing ==
    /\ opc = "notify_all"
    /\ opc' = "join"
    /\ UNCHANGED <<heap, stop, now, wpc, current, cpc, calls, accepted, ready>>

DtorNotifyAll ==
    /\ opc = "notify_all"
    /\ wpc' = [w \in Workers |-> IF wpc[w] = "blocked" THEN "wait" ELSE wpc[w]]
    /\ opc' = "join"
    /\ UNCHANGED <<heap, stop, now, current, cpc, calls, accepted, ready>>

Join ==
    /\ opc = "join" /\ \A w \in Workers : wpc[w] = "exited"
    /\ opc' = "done"
    /\ UNCHANGED <<heap, stop, now, wpc, current, cpc, calls, accepted, ready>>

-----------------------------------------------------------------------------
Worker(w) == WorkerPass(w) \/ WorkerRun(w)

Terminated == opc = "done" /\ UNCHANGED vars

Next ==
    \/ \E c \in Clients : Submit(c) \/ SubmitWithPriority(c) \/ ScheduleAfter(c)
                            \/ NotifyOne(c)
    \/ \E w \in Workers : Worker(w) \/ SpuriousWakeup(w)
    \/ Tick
    \/ Destroy \/ DtorNotifyAll \/ Join
    \/ Terminated

(* Workers, a call in progress and the clock advance; once started, the   *)
(* destructor goes on.  Nobody has to submit or destroy the executor.      *)
Fairness ==
    /\ \A w \in Workers : WF_vars(Worker(w))
    /\ \A c \in Clients : WF_vars(NotifyOne(c))
    /\ WF_vars(Tick)
    /\ WF_vars(DtorNotifyAll) /\ WF_vars(Join)

Spec == Init /\ [][Next]_vars /\ Fairness

-----------------------------------------------------------------------------
(* No task runs before its schedule_time, although a worker also passes   *)
(* the wait predicate when the heap's top is not yet due, and after stop_ *)
(* is set.                                                                 *)
NeverEarly == \A w \in Workers : wpc[w] = "run" => current[w].time <= now

(* Every future a call returned becomes ready, delayed tasks and tasks    *)
(* still queued when the destructor starts included: after stop_ the      *)
(* workers keep popping until the heap is empty.                           *)
EveryTaskRuns == \A id \in TaskIds : (id \in accepted) ~> (id \in ready)

(* The destructor returns: every worker, blocked in condition_.wait or     *)
(* spinning on an undue top, reaches the return in worker_loop.            *)
DestructorReturns == (opc = "notify_all") ~> (opc = "done")
=============================================================================
