-------------------------- MODULE PriorityScheduler --------------------------
(***************************************************************************)
(* scheduler::PriorityScheduler                                            *)
(* (src/include/async_toolkit/scheduler/priority_scheduler.hpp)            *)
(*                                                                         *)
(* A std::priority_queue<Task> under one mutex, one condition variable and *)
(* a fixed set of worker threads.  One client thread makes the calls: it   *)
(* schedules up to MaxTasks tasks (schedule, schedule_after and schedule_at*)
(* all reduce to schedule_at(now + delay)), cancels some of them, and then *)
(* either runs the destructor or keeps the scheduler alive without calls.  *)
(*                                                                         *)
(* Every critical section is one step, so the mutex needs no variable of  *)
(* its own: a worker's pass from taking the lock to unlocking or blocking  *)
(* in condition_.wait is atomic, which is what the mutex guarantees.       *)
(* condition_.wait(lock, pred) is the loop `while (!pred) wait(lock)`: a   *)
(* waiting worker is in `waiting` until a notify, or a spurious wakeup,    *)
(* sends it back to re-evaluate pred under the lock.                       *)
(*                                                                         *)
(* Time is steady_clock::now(), a counter that Tick advances up to MaxTime.*)
(* Tasks equal under operator< are popped in an order std::priority_queue  *)
(* leaves unspecified, so any of them may be popped.                       *)
(***************************************************************************)
EXTENDS Integers, FiniteSets

CONSTANTS
  Workers,      \* worker threads
  Priorities,   \* priorities the client passes
  Delays,       \* delays the client passes to schedule_after
  MaxTasks,     \* bound: schedule calls
  MaxCancels,   \* bound: cancel calls
  MaxTime       \* bound: the clock stops at MaxTime

ASSUME Priorities \subseteq Int /\ Delays \subseteq Nat
ASSUME MaxTasks \in Nat /\ MaxCancels \in Nat /\ MaxTime \in Nat

TaskIds == 0 .. MaxTasks - 1
Times == 0 .. MaxTime
TaskRec == [priority : Priorities, schedule_time : Times, task_id : TaskIds]

VARIABLES
  now,          \* steady_clock::now()
  tasks,        \* tasks_: the set of Task records in the heap
  nextTaskId,   \* next_task_id_
  stop,         \* stop_
  waiting,      \* workers blocked in condition_.wait
  wpc,          \* worker control point
  cpc,          \* client control point
  cancels,      \* cancel calls made so far
  scheduled,    \* history: task_id -> the Task record schedule_at built
  cancelled,    \* history: ids for which cancel returned true
  started       \* history: set of [task_id, at] for every task.func() call

vars == <<now, tasks, nextTaskId, stop, waiting, wpc, cpc, cancels,
          scheduled, cancelled, started>>

TypeOK ==
  /\ now \in Times
  /\ tasks \subseteq TaskRec
  /\ nextTaskId \in 0 .. MaxTasks
  /\ stop \in BOOLEAN
  /\ waiting \subseteq Workers
  /\ wpc \in [Workers -> {"loop", "waiting", "running", "exited"}]
  /\ cpc \in {"idle", "notify_one", "notify_all", "joining", "done"}
  /\ cancels \in 0 .. MaxCancels
  /\ scheduled \in [0 .. nextTaskId - 1 -> TaskRec]
  /\ cancelled \subseteq TaskIds
  /\ started \subseteq [task_id : TaskIds, at : Times]

-----------------------------------------------------------------------------
\* Mutant: the comparison of priorities turned round.
LessReversed(a, b) ==
  IF a.priority # b.priority THEN a.priority > b.priority
                             ELSE a.schedule_time > b.schedule_time

\* Task::operator<: a < b when a has lower priority or, at equal priority,
\* a later schedule_time.  std::priority_queue pops a maximal element.
Less(a, b) ==
  IF a.priority # b.priority THEN a.priority < b.priority
                             ELSE a.schedule_time > b.schedule_time

Top == {x \in tasks : \A y \in tasks : ~Less(x, y)}

\* tasks_.top().schedule_time <= now  (all maximal tasks share it)
TopDue == \E x \in Top : x.schedule_time <= now

\* The predicate of condition_.wait in worker_loop.
WakePred == stop \/ (tasks # {} /\ TopDue)

\* Constructor: thread_count workers start in worker_loop.
Init ==
  /\ now = 0
  /\ tasks = {}
  /\ nextTaskId = 0
  /\ stop = FALSE
  /\ waiting = {}
  /\ wpc = [w \in Workers |-> "loop"]
  /\ cpc = "idle"
  /\ cancels = 0
  /\ scheduled = << >>
  /\ cancelled = {}
  /\ started = {}

Wake(ws) ==
  /\ waiting' = waiting \ ws
  /\ wpc' = [w \in Workers |-> IF w \in ws THEN "loop" ELSE wpc[w]]

-----------------------------------------------------------------------------
(* Client calls                                                            *)

\* Mutant: next_task_id_ read but not incremented.
ScheduleAtSameId(p, d) ==
  /\ cpc = "idle" /\ nextTaskId < MaxTasks /\ now + d <= MaxTime
  /\ LET t == [priority |-> p, schedule_time |-> now + d, task_id |-> nextTaskId]
     IN /\ tasks' = tasks \cup {t}
        /\ scheduled' = [i \in 0 .. nextTaskId |->
                           IF i = nextTaskId THEN t ELSE scheduled[i]]
  /\ cpc' = "notify_one"
  /\ UNCHANGED <<now, nextTaskId, stop, waiting, wpc, cancels, cancelled, started>>

\* schedule_at(func, now + delay, priority): take next_task_id_++, push the
\* Task under the lock; notify_one follows after the unlock.
schedule_at(p, d) ==
  /\ cpc = "idle" /\ nextTaskId < MaxTasks /\ now + d <= MaxTime
  /\ LET t == [priority |-> p, schedule_time |-> now + d, task_id |-> nextTaskId]
     IN /\ tasks' = tasks \cup {t}
        /\ scheduled' = [i \in 0 .. nextTaskId |->
                           IF i = nextTaskId THEN t ELSE scheduled[i]]
  /\ nextTaskId' = nextTaskId + 1
  /\ cpc' = "notify_one"
  /\ UNCHANGED <<now, stop, waiting, wpc, cancels, cancelled, started>>

\* condition_.notify_one(): wakes one waiting worker, if any.
NotifyOne ==
  /\ cpc = "notify_one"
  /\ IF waiting = {} THEN UNCHANGED <<waiting, wpc>>
                     ELSE \E w \in waiting : Wake({w})
  /\ cpc' = "idle"
  /\ UNCHANGED <<now, tasks, nextTaskId, stop, cancels, scheduled, cancelled, started>>

\* Mutant: the matching task is found but pushed back with the others.
CancelKeepsTask(id) ==
  /\ cpc = "idle" /\ cancels < MaxCancels /\ id < nextTaskId
  /\ cancelled' = IF \E x \in tasks : x.task_id = id
                    THEN cancelled \cup {id} ELSE cancelled
  /\ cancels' = cancels + 1
  /\ UNCHANGED <<now, tasks, nextTaskId, stop, waiting, wpc, cpc, scheduled, started>>

\* cancel(task_id): under the lock, pop every task and push back all but
\* those with the id; the result is whether one was found.
cancel(id) ==
  /\ cpc = "idle" /\ cancels < MaxCancels /\ id < nextTaskId
  /\ tasks' = {x \in tasks : x.task_id # id}
  /\ cancelled' = IF \E x \in tasks : x.task_id = id
                    THEN cancelled \cup {id} ELSE cancelled
  /\ cancels' = cancels + 1
  /\ UNCHANGED <<now, nextTaskId, stop, waiting, wpc, cpc, scheduled, started>>

\* ~PriorityScheduler: stop_ = true under the lock ...
Destroy ==
  /\ cpc = "idle"
  /\ stop' = TRUE
  /\ cpc' = "notify_all"
  /\ UNCHANGED <<now, tasks, nextTaskId, waiting, wpc, cancels, scheduled, cancelled, started>>

\* Mutant: the destructor wakes one worker instead of all.
NotifyAllOne ==
  /\ cpc = "notify_all"
  /\ IF waiting = {} THEN UNCHANGED <<waiting, wpc>>
                     ELSE \E w \in waiting : Wake({w})
  /\ cpc' = "joining"
  /\ UNCHANGED <<now, tasks, nextTaskId, stop, cancels, scheduled, cancelled, started>>

\* ... condition_.notify_all() ...
NotifyAll ==
  /\ cpc = "notify_all"
  /\ Wake(waiting)
  /\ cpc' = "joining"
  /\ UNCHANGED <<now, tasks, nextTaskId, stop, cancels, scheduled, cancelled, started>>

\* ... and join every worker.
Join ==
  /\ cpc = "joining"
  /\ \A w \in Workers : wpc[w] = "exited"
  /\ cpc' = "done"
  /\ UNCHANGED <<now, tasks, nextTaskId, stop, waiting, wpc, cancels, scheduled, cancelled, started>>

\* The client makes no more calls and the scheduler lives on (a program
\* that sleeps while its tasks are due, as spec.md 8 scenario 3 does).
KeepAlive ==
  /\ cpc = "idle"
  /\ cpc' = "done"
  /\ UNCHANGED <<now, tasks, nextTaskId, stop, waiting, wpc, cancels, scheduled, cancelled, started>>

-----------------------------------------------------------------------------
(* worker_loop: one pass under the lock per step                           *)

\* condition_.wait(lock, pred) with pred false: block and release the lock.
WorkerWait(w) ==
  /\ wpc[w] = "loop" /\ ~WakePred
  /\ waiting' = waiting \cup {w}
  /\ wpc' = [wpc EXCEPT ![w] = "waiting"]
  /\ UNCHANGED <<now, tasks, nextTaskId, stop, cpc, cancels, scheduled, cancelled, started>>

\* Mutant: the worker returns as soon as stop_ is set.
WorkerExitOnStop(w) ==
  /\ wpc[w] = "loop" /\ WakePred
  /\ stop
  /\ wpc' = [wpc EXCEPT ![w] = "exited"]
  /\ UNCHANGED <<now, tasks, nextTaskId, stop, waiting, cpc, cancels, scheduled, cancelled, started>>

\* if (stop_ && tasks_.empty()) return;
WorkerExit(w) ==
  /\ wpc[w] = "loop" /\ WakePred
  /\ stop /\ tasks = {}
  /\ wpc' = [wpc EXCEPT ![w] = "exited"]
  /\ UNCHANGED <<now, tasks, nextTaskId, stop, waiting, cpc, cancels, scheduled, cancelled, started>>

\* Mutant: the top is popped without the second schedule_time check.
WorkerPopUndue(w) ==
  /\ wpc[w] = "loop" /\ WakePred
  /\ tasks # {}
  /\ \E x \in Top :
       /\ tasks' = tasks \ {x}
       /\ started' = started \cup {[task_id |-> x.task_id, at |-> now]}
  /\ wpc' = [wpc EXCEPT ![w] = "running"]
  /\ UNCHANGED <<now, nextTaskId, stop, waiting, cpc, cancels, scheduled, cancelled>>

\* if (top due) { task = top(); pop(); unlock(); task.func(); }  When stop_
\* is set and the top is not yet due, the pass changes nothing and the
\* worker goes round again: a busy spin, the stuttering of this model.
WorkerPop(w) ==
  /\ wpc[w] = "loop" /\ WakePred
  /\ tasks # {} /\ TopDue
  /\ \E x \in Top :
       /\ tasks' = tasks \ {x}
       /\ started' = started \cup {[task_id |-> x.task_id, at |-> now]}
  /\ wpc' = [wpc EXCEPT ![w] = "running"]
  /\ UNCHANGED <<now, nextTaskId, stop, waiting, cpc, cancels, scheduled, cancelled>>

\* task.func() returns (an exception is caught and dropped).
WorkerRun(w) ==
  /\ wpc[w] = "running"
  /\ wpc' = [wpc EXCEPT ![w] = "loop"]
  /\ UNCHANGED <<now, tasks, nextTaskId, stop, waiting, cpc, cancels, scheduled, cancelled, started>>

\* A spurious wakeup: allowed by condition_variable, never guaranteed.
SpuriousWakeup(w) ==
  /\ w \in waiting
  /\ Wake({w})
  /\ UNCHANGED <<now, tasks, nextTaskId, stop, cpc, cancels, scheduled, cancelled, started>>

Tick ==
  /\ now < MaxTime
  /\ now' = now + 1
  /\ UNCHANGED <<tasks, nextTaskId, stop, waiting, wpc, cpc, cancels, scheduled, cancelled, started>>

Worker(w) == WorkerWait(w) \/ WorkerExit(w) \/ WorkerPop(w) \/ WorkerRun(w)

Client ==
  \/ \E p \in Priorities, d \in Delays : schedule_at(p, d)
  \/ \E id \in TaskIds : cancel(id)
  \/ NotifyOne \/ Destroy \/ NotifyAll \/ Join \/ KeepAlive

\* The client has returned and the clock has run out: nothing more happens.
Terminated == cpc = "done" /\ now = MaxTime /\ UNCHANGED vars

Next ==
  \/ Client
  \/ \E w \in Workers : Worker(w) \/ SpuriousWakeup(w)
  \/ Tick
  \/ Terminated

\* Threads that can run are scheduled by the OS and the clock advances;
\* a spurious wakeup may happen but nothing makes it happen.
Fairness ==
  /\ WF_vars(Client)
  /\ \A w \in Workers : WF_vars(Worker(w))
  /\ WF_vars(Tick)

Spec == Init /\ [][Next]_vars /\ Fairness

-----------------------------------------------------------------------------
(* Properties                                                              *)

Ran(id) == \E s \in started : s.task_id = id

\* spec.md 8: a task never runs before its schedule_time.  worker_loop's
\* wait predicate is also satisfied by stop_ alone, so after the destructor
\* has set stop_ only the second check of top().schedule_time holds a
\* delayed task back.
NeverEarly ==
  \A s \in started : s.at >= scheduled[s.task_id].schedule_time

\* spec.md 8: a task for which cancel returned true never runs, whatever
\* worker was about to pop it.
CancelledNeverRuns == \A id \in cancelled : ~Ran(id)

\* spec.md 4.3 ordering: a worker starts a task only when no task left in
\* the heap has a higher priority, or the same priority and an earlier
\* schedule_time; this is what Task::operator< must give the max-heap
\* std::priority_queue (the open question of spec.md 9).
DispatchOrder ==
  [][\A s \in started' \ started :
       LET x == scheduled[s.task_id] IN
       \A y \in tasks' :
         \/ y.priority < x.priority
         \/ y.priority = x.priority /\ y.schedule_time >= x.schedule_time]_vars

\* Once the destructor has set stop_, every task scheduled and not
\* cancelled still runs before the workers leave worker_loop.
TasksRunByShutdown ==
  \A id \in TaskIds :
    (id < nextTaskId /\ stop) ~> (Ran(id) \/ id \in cancelled)

\* spec.md 5 and 8 (scenario 3): a task that was scheduled and not
\* cancelled eventually runs while the scheduler lives.
EveryTaskRuns ==
  \A id \in TaskIds :
    (id < nextTaskId) ~> (Ran(id) \/ id \in cancelled)

\* The destructor, once begun, returns: every worker leaves worker_loop
\* and is joined.
DestructorReturns == stop ~> (cpc = "done")

\* spec.md 4.3 shutdown: tasks still in the heap when stop_ is set are
\* discarded without execution, so no task starts after stop_.
DiscardedAtShutdown == [][stop => started' = started]_vars
=============================================================================
