------------------------- MODULE WorkStealingScheduler -------------------------
(***************************************************************************)
(* scheduler/work_stealing_scheduler.hpp: one WorkStealingQueue (a deque  *)
(* behind its own mutex) per worker thread.  Workers pop the back of their *)
(* own deque, steal the front of a randomly chosen victim, and otherwise  *)
(* wait on cv_ for at most 100 ms.  Client threads submit single tasks or *)
(* batches; the destructor clears running_, notifies, and joins.          *)
(*                                                                         *)
(* Every WorkStealingQueue method holds the deque mutex for its whole     *)
(* body, so each is one atomic step.  A task is a number; running it is  *)
(* one step that records it in `ran` (tasks are opaque to the scheduler). *)
(***************************************************************************)
EXTENDS Integers, Sequences, FiniteSets, FiniteSetsExt

CONSTANTS
    N,            \* queues_.size() = threads_.size() = thread_count
    Clients,      \* threads calling submit / submit_batch
    ClientOps,    \* calls each client makes at most
    BatchSizes,   \* the values of std::distance(begin, end) a batch may have
    MaxTasks      \* bound on the number of tasks submitted in a behaviour

ASSUME N \in Nat \ {0} /\ ClientOps \in Nat /\ MaxTasks \in Nat
ASSUME BatchSizes \subseteq Nat

Workers == 0..(N - 1)
TaskIds == 0..(MaxTasks - 1)
NoTask  == MaxTasks            \* the empty std::function of `Task task;`
NoIndex == -1                  \* the thread_local index not yet initialised

VARIABLES
    queues,       \* queues_[i].tasks_, back = Last
    running,      \* running_
    threadIndex,  \* thread_index_
    index,        \* each client's thread_local static index
    wpc,          \* worker program counter in worker_loop
    task,         \* each worker's local `task`
    cpc,          \* client program counter
    calls,        \* calls each client has made
    pending,      \* queues the rest of a client's batch goes to, in order
    batch,        \* the start queue and count of the batch a client is
                  \* pushing (history, for BatchIsStriped)
    nextTask,     \* the id the next submitted task gets
    ran,          \* tasks whose task() has run
    opc           \* the owner thread: "live", then the destructor's steps

vars == <<queues, running, threadIndex, index, wpc, task, cpc, calls,
          pending, batch, nextTask, ran, opc>>

TypeOK ==
    /\ queues \in [Workers -> Seq(TaskIds)]
    /\ running \in BOOLEAN
    /\ threadIndex \in 0..Cardinality(Clients)
    /\ index \in [Clients -> 0..(Cardinality(Clients) - 1) \cup {NoIndex}]
    /\ wpc \in [Workers -> {"loop", "pop", "steal", "wait", "sleep", "blocked",
                            "run", "exited"}]
    /\ task \in [Workers -> TaskIds \cup {NoTask}]
    /\ cpc \in [Clients -> {"idle", "notify_one", "batch"}]
    /\ calls \in [Clients -> 0..ClientOps]
    /\ pending \in [Clients -> Seq(Workers)]
    /\ batch \in [Clients -> [start : Workers, count : 0..MaxTasks]]
    /\ nextTask \in 0..MaxTasks
    /\ ran \subseteq TaskIds
    /\ opc \in {"live", "notify_all", "join", "done"}

Init ==
    /\ queues = [w \in Workers |-> <<>>]
    /\ running = TRUE
    /\ threadIndex = 0
    /\ index = [c \in Clients |-> NoIndex]
    /\ wpc = [w \in Workers |-> "loop"]
    /\ task = [w \in Workers |-> NoTask]
    /\ cpc = [c \in Clients |-> "idle"]
    /\ calls = [c \in Clients |-> 0]
    /\ pending = [c \in Clients |-> <<>>]
    /\ batch = [c \in Clients |-> [start |-> 0, count |-> 0]]
    /\ nextTask = 0
    /\ ran = {}
    /\ opc = "live"

-----------------------------------------------------------------------------
(* The predicate of cv_.wait_for: !running_ || active_tasks() > 0.        *)
(* active_tasks() locks each deque in turn and counts the nonempty ones.  *)
WakeCondition == ~running \/ \E q \in Workers : queues[q] # <<>>

Blocked == {w \in Workers : wpc[w] = "blocked"}

(* cv_.notify_one(): one waiting worker, if any, re-evaluates its predicate. *)
NotifyOneWorker ==
    IF Blocked = {} THEN UNCHANGED wpc
    ELSE \E w \in Blocked : wpc' = [wpc EXCEPT ![w] = "wait"]

(* cv_.notify_all(): every waiting worker re-evaluates its predicate. *)
NotifyAllWorkers ==
    wpc' = [w \in Workers |-> IF wpc[w] = "blocked" THEN "wait" ELSE wpc[w]]

-----------------------------------------------------------------------------
(* submit_batch: the queue each task of a batch of `count` tasks is       *)
(* pushed to, in order, as the nested loop computes it from index.        *)
RECURSIVE BatchLoop(_, _, _, _, _)

(* Mutant: the remainder is given to queue i == size() rather than       *)
(* size() - 1, which the loop never reaches.                              *)
BatchLoopNoRemainder(i, cur, it, count, perQueue) ==
    IF i >= N \/ it = count THEN <<>>
    ELSE LET forThisQueue == IF i = N THEN count - it ELSE perQueue
             pushed == IF forThisQueue < count - it THEN forThisQueue
                       ELSE count - it
         IN  [j \in 1..pushed |-> cur]
               \o BatchLoop(i + 1, (cur + 1) % N, it + pushed, count, perQueue)

BatchLoop(i, cur, it, count, perQueue) ==
    IF i >= N \/ it = count THEN <<>>
    ELSE LET forThisQueue == IF i = N - 1 THEN count - it ELSE perQueue
             pushed == IF forThisQueue < count - it THEN forThisQueue
                       ELSE count - it
         IN  [j \in 1..pushed |-> cur]
               \o BatchLoop(i + 1, (cur + 1) % N, it + pushed, count, perQueue)

BatchTargets(start, count) == BatchLoop(0, start, 0, count, count \div N)

(* The stripes a batch is meant to form: the k-th block of count \div N   *)
(* tasks goes to the k-th queue after start, and whatever is left over    *)
(* goes to the last queue visited.                                         *)
StripeOf(start, count, j) ==
    LET perQueue == count \div N
        block == IF perQueue = 0 THEN N - 1
                 ELSE IF (j - 1) \div perQueue < N - 1
                      THEN (j - 1) \div perQueue ELSE N - 1
    IN  (start + block) % N

(* Task ids handed out, counting the rest of every batch in progress. *)
Reserved == nextTask + MapThenSumSet(LAMBDA c : Len(pending[c]), Clients)

-----------------------------------------------------------------------------
(* Mutant: index is a plain local, so thread_index_++ runs on every call. *)
GetWorkerIndexEveryCall(c) ==
    /\ index' = [index EXCEPT ![c] = threadIndex]
    /\ threadIndex' = threadIndex + 1

(* get_worker_index(): the thread_local index is initialised from          *)
(* thread_index_++ on the calling thread's first call only.                *)
GetWorkerIndex(c) ==
    /\ index' = [index EXCEPT ![c] = IF @ = NoIndex THEN threadIndex ELSE @]
    /\ threadIndex' = IF index[c] = NoIndex THEN threadIndex + 1
                      ELSE threadIndex

(* submit(): push onto queues_[index % size], then cv_.notify_one().       *)
Submit(c) ==
    /\ opc = "live" /\ cpc[c] = "idle"
    /\ calls[c] < ClientOps /\ Reserved < MaxTasks
    /\ GetWorkerIndex(c)
    /\ queues' = [queues EXCEPT ![index'[c] % N] = Append(@, nextTask)]
    /\ nextTask' = nextTask + 1
    /\ calls' = [calls EXCEPT ![c] = @ + 1]
    /\ cpc' = [cpc EXCEPT ![c] = "notify_one"]
    /\ UNCHANGED <<running, wpc, task, pending, batch, ran, opc>>

NotifyOne(c) ==
    /\ cpc[c] = "notify_one"
    /\ NotifyOneWorker
    /\ cpc' = [cpc EXCEPT ![c] = "idle"]
    /\ UNCHANGED <<queues, running, threadIndex, index, task, calls,
                   pending, batch, nextTask, ran, opc>>

(* submit_batch(): compute the stripes, push one task at a time (each push *)
(* its own critical section), then cv_.notify_all().                      *)
SubmitBatch(c) ==
    /\ opc = "live" /\ cpc[c] = "idle" /\ calls[c] < ClientOps
    /\ \E count \in BatchSizes :
         /\ Reserved + count <= MaxTasks
         /\ GetWorkerIndex(c)
         /\ pending' = [pending EXCEPT ![c] = BatchTargets(index'[c] % N, count)]
         /\ batch' = [batch EXCEPT ![c] = [start |-> index'[c] % N,
                                            count |-> count]]
    /\ calls' = [calls EXCEPT ![c] = @ + 1]
    /\ cpc' = [cpc EXCEPT ![c] = "batch"]
    /\ UNCHANGED <<queues, running, wpc, task, nextTask, ran, opc>>

BatchPush(c) ==
    /\ cpc[c] = "batch" /\ pending[c] # <<>>
    /\ queues' = [queues EXCEPT ![Head(pending[c])] = Append(@, nextTask)]
    /\ nextTask' = nextTask + 1
    /\ pending' = [pending EXCEPT ![c] = Tail(@)]
    /\ UNCHANGED <<running, threadIndex, index, wpc, task, cpc, calls, batch,
                   ran, opc>>

BatchNotifyAll(c) ==
    /\ cpc[c] = "batch" /\ pending[c] = <<>>
    /\ NotifyAllWorkers
    /\ cpc' = [cpc EXCEPT ![c] = "idle"]
    /\ batch' = [batch EXCEPT ![c] = [start |-> 0, count |-> 0]]
    /\ UNCHANGED <<queues, running, threadIndex, index, task, calls,
                   pending, nextTask, ran, opc>>

-----------------------------------------------------------------------------
(* worker_loop(index) *)
SetPc(w, l) == wpc' = [wpc EXCEPT ![w] = l]

(* Mutant: the loop is while (true). *)
WorkerLoopForever(w) ==
    /\ wpc[w] = "loop"
    /\ SetPc(w, "pop")
    /\ UNCHANGED <<queues, running, threadIndex, index, task, cpc, calls,
                   pending, batch, nextTask, ran, opc>>

(* while (running_) *)
WorkerLoop(w) ==
    /\ wpc[w] = "loop"
    /\ SetPc(w, IF running THEN "pop" ELSE "exited")
    /\ UNCHANGED <<queues, running, threadIndex, index, task, cpc, calls,
                   pending, batch, nextTask, ran, opc>>

(* queues_[index].try_pop(task): the back of the worker's own deque. *)
TryPop(w) ==
    /\ wpc[w] = "pop"
    /\ IF queues[w] # <<>>
       THEN /\ task' = [task EXCEPT ![w] = queues[w][Len(queues[w])]]
            /\ queues' = [queues EXCEPT ![w] = SubSeq(@, 1, Len(@) - 1)]
            /\ SetPc(w, "run")
       ELSE /\ SetPc(w, "steal")
            /\ UNCHANGED <<queues, task>>
    /\ UNCHANGED <<running, threadIndex, index, cpc, calls, pending, batch,
                   nextTask, ran, opc>>

(* Mutant: try_steal copies the front task and leaves it in the deque. *)
TryStealKeeps(w) ==
    /\ wpc[w] = "steal"
    /\ \E victim \in Workers :
         IF victim # w /\ queues[victim] # <<>>
         THEN /\ task' = [task EXCEPT ![w] = Head(queues[victim])]
              /\ SetPc(w, "run")
              /\ UNCHANGED queues
         ELSE /\ SetPc(w, "wait")
              /\ UNCHANGED <<queues, task>>
    /\ UNCHANGED <<running, threadIndex, index, cpc, calls, pending, batch,
                   nextTask, ran, opc>>

(* A uniformly random victim; try_steal takes the front of its deque. *)
TrySteal(w) ==
    /\ wpc[w] = "steal"
    /\ \E victim \in Workers :
         IF victim # w /\ queues[victim] # <<>>
         THEN /\ task' = [task EXCEPT ![w] = Head(queues[victim])]
              /\ queues' = [queues EXCEPT ![victim] = Tail(@)]
              /\ SetPc(w, "run")
         ELSE /\ SetPc(w, "wait")
              /\ UNCHANGED <<queues, task>>
    /\ UNCHANGED <<running, threadIndex, index, cpc, calls, pending, batch,
                   nextTask, ran, opc>>

(* cv_.wait_for with its predicate, holding mutex_: return at once if the  *)
(* predicate holds, else go on to block.  A notified or spurious wakeup    *)
(* comes back here to re-evaluate the predicate.                           *)
Wait(w) ==
    /\ wpc[w] = "wait"
    /\ SetPc(w, IF WakeCondition THEN "loop" ELSE "sleep")
    /\ UNCHANGED <<queues, running, threadIndex, index, task, cpc, calls,
                   pending, batch, nextTask, ran, opc>>

(* The worker joins cv_'s waiters.  mutex_ keeps other waiters out between *)
(* the predicate and this step, but submit(), submit_batch() and the       *)
(* destructor change the deques and running_ and notify without mutex_,   *)
(* so their notification can fall between the two.                        *)
Sleep(w) ==
    /\ wpc[w] = "sleep"
    /\ SetPc(w, "blocked")
    /\ UNCHANGED <<queues, running, threadIndex, index, task, cpc, calls,
                   pending, batch, nextTask, ran, opc>>

(* Mutant: cv_.wait(lock, pred) with no deadline; only a notification *)
(* wakes the worker.                                                   *)
TimeoutNever(w) == wpc[w] = "blocked" /\ FALSE /\ SetPc(w, "loop")

(* The 100 ms elapse: wait_for returns whatever the predicate says. *)
Timeout(w) ==
    /\ wpc[w] = "blocked"
    /\ SetPc(w, "loop")
    /\ UNCHANGED <<queues, running, threadIndex, index, task, cpc, calls,
                   pending, batch, nextTask, ran, opc>>

SpuriousWakeup(w) ==
    /\ wpc[w] = "blocked"
    /\ SetPc(w, "wait")
    /\ UNCHANGED <<queues, running, threadIndex, index, task, cpc, calls,
                   pending, batch, nextTask, ran, opc>>

(* task(); continue; *)
RunTask(w) ==
    /\ wpc[w] = "run"
    /\ ran' = ran \cup {task[w]}
    /\ task' = [task EXCEPT ![w] = NoTask]
    /\ SetPc(w, "loop")
    /\ UNCHANGED <<queues, running, threadIndex, index, cpc, calls, pending, batch,
                   nextTask, opc>>

-----------------------------------------------------------------------------
(* ~WorkStealingScheduler(), run once no client call is in progress. *)
Destroy ==
    /\ opc = "live" /\ \A c \in Clients : cpc[c] = "idle"
    /\ running' = FALSE
    /\ opc' = "notify_all"
    /\ UNCHANGED <<queues, threadIndex, index, wpc, task, cpc, calls,
                   pending, batch, nextTask, ran>>

DtorNotifyAll ==
    /\ opc = "notify_all"
    /\ NotifyAllWorkers
    /\ opc' = "join"
    /\ UNCHANGED <<queues, running, threadIndex, index, task, cpc, calls,
                   pending, batch, nextTask, ran>>

Join ==
    /\ opc = "join" /\ \A w \in Workers : wpc[w] = "exited"
    /\ opc' = "done"
    /\ UNCHANGED <<queues, running, threadIndex, index, wpc, task, cpc, calls,
                   pending, batch, nextTask, ran>>

-----------------------------------------------------------------------------
Worker(w) ==
    WorkerLoop(w) \/ TryPop(w) \/ TrySteal(w) \/ Wait(w) \/ Sleep(w)
      \/ Timeout(w)
      \/ RunTask(w)

Terminated == opc = "done" /\ UNCHANGED vars

Next ==
    \/ \E c \in Clients : Submit(c) \/ NotifyOne(c) \/ SubmitBatch(c)
                            \/ BatchPush(c) \/ BatchNotifyAll(c)
    \/ \E w \in Workers : Worker(w) \/ SpuriousWakeup(w)
    \/ Destroy \/ DtorNotifyAll \/ Join
    \/ Terminated

(* Worker threads and calls already in progress keep running; the 100 ms  *)
(* of wait_for always elapse.  Nobody is obliged to submit or to destroy  *)
(* the scheduler.                                                          *)
Fairness ==
    /\ \A w \in Workers : WF_vars(Worker(w))
    /\ \A c \in Clients : WF_vars(NotifyOne(c) \/ BatchPush(c)
                                    \/ BatchNotifyAll(c))
    /\ WF_vars(DtorNotifyAll) /\ WF_vars(Join)

Spec == Init /\ [][Next]_vars /\ Fairness

-----------------------------------------------------------------------------
(* How many places hold task t: slots of the deques, workers about to run *)
(* it, and the record of tasks that have run.                              *)
Copies(t) ==
    LET inQueues == UNION {{<<q, i>> : i \in {k \in DOMAIN queues[q] :
                                                 queues[q][k] = t}} : q \in Workers}
        inHand   == {w \in Workers : wpc[w] = "run" /\ task[w] = t}
    IN  Cardinality(inQueues) + Cardinality(inHand)
          + (IF t \in ran THEN 1 ELSE 0)

(* Owner pops (try_pop at the back) and thieves (try_steal at the front)  *)
(* race for the same deques: every submitted task is in exactly one place *)
(* at any time, so no task is lost between deques and none runs twice.    *)
ExactlyOnce == \A t \in 0..(nextTask - 1) : Copies(t) = 1

(* spec.md 8: every task submitted runs eventually unless the scheduler   *)
(* is destroyed first, although submit() notifies cv_ without mutex_ and  *)
(* a worker can block just after its predicate saw every deque empty.     *)
EveryTaskRuns ==
    \A t \in TaskIds : (t < nextTask) ~> (t \in ran \/ ~running)

(* The destructor returns: once running_ is cleared, every worker leaves  *)
(* worker_loop and every join() completes, even if notify_all() reaches a *)
(* worker before it blocks.                                               *)
ShutdownCompletes == ~running ~> (opc = "done")

(* While a submit_batch call pushes its tasks, the queues still to come  *)
(* are exactly the rest of the stripes: count / size() tasks on each      *)
(* successive queue from the caller's index, the remainder on the last    *)
(* queue visited, and no task of the batch left out.                       *)
BatchIsStriped ==
    \A c \in Clients :
        LET b == batch[c]
            done == b.count - Len(pending[c])
        IN  cpc[c] = "batch" =>
              pending[c] = [j \in 1..Len(pending[c]) |->
                              StripeOf(b.start, b.count, done + j)]
=============================================================================
