------------------------------ MODULE AsyncLogger ------------------------------
(***************************************************************************)
(* logging/async_logger.hpp: log() spins try_enqueue on an MPMCQueue until *)
(* it succeeds; one worker thread (process_logs) dequeues into a batch and *)
(* writes the batch when it is full or the queue looks empty, then calls   *)
(* cv_.notify_all() without taking mutex_; flush() waits on cv_ under      *)
(* mutex_ until queue_.empty(), that is size_ == 0; ~AsyncLogger() clears  *)
(* running_, flushes and joins the worker.                                 *)
(*                                                                         *)
(* The queue is the MPMCQueue model: the loggers are its producers and the *)
(* worker its one consumer, and every queue step is a step of this module. *)
(* A message is <<logger, k>>, the k-th message that logger logs; its      *)
(* level, text, time and thread id, the formatting and the file (its       *)
(* rotation and size) are left out: write_batch appends the batch to       *)
(* `written`.                                                              *)
(*                                                                         *)
(* cv_.wait(lock, pred) is `while (!pred()) wait(lock)`: the predicate is  *)
(* read under mutex_ and the thread then blocks.  The worker never takes   *)
(* mutex_, so its notify_all can fall between the two, and is lost; the    *)
(* model therefore checks and blocks in two steps.                         *)
(***************************************************************************)
EXTENDS Naturals, Sequences, FiniteSets

CONSTANTS
    Loggers,        \* threads calling log and flush
    Worker,         \* the worker_ thread running process_logs
    Owner,          \* the thread that destroys the logger
    QueueSize,      \* queue_size
    LogOps,         \* log calls each logger makes at most
    FlushOps,       \* flush calls each logger makes at most
    BatchSize,      \* the batch.size() >= 100 threshold
    SizeWidth, BlocksPerChunk, MaxChunks

ASSUME BatchSize \in Nat \ {0} /\ FlushOps \in Nat

VARIABLES
    freeList, chunks, nodeNext, nodeData, head, tail, size, pc, attempts,
    node, ltail, lhead, lnext, value, received,
    running,        \* running_
    wpc,            \* the worker's place in process_logs
    batch,          \* the worker's local batch
    written,        \* the log file: every message written, in order
    lpc,            \* each logger's log call: "idle", spinning ("log"), enqueuing
    logged,         \* log calls each logger has started
    flushes,        \* flush calls each logger has started
    fpc,            \* each flushing thread's place in flush()
    opc             \* the owner: "live", then ~AsyncLogger's steps

queueVars == <<freeList, chunks, nodeNext, nodeData, head, tail, size, pc,
               attempts, node, ltail, lhead, lnext, value, received>>
vars == <<queueVars, running, wpc, batch, written, lpc, logged, flushes, fpc, opc>>

Queue == INSTANCE MPMCQueue
    WITH Producers <- Loggers, Consumers <- {Worker}, Capacity <- QueueSize,
         ProducerOps <- LogOps, ConsumerOps <- 0

Messages == Queue!Values
Flushers == Loggers \cup {Owner}

TypeOK ==
    /\ Queue!TypeOK
    /\ running \in BOOLEAN
    /\ wpc \in {"loop", "try", "deq", "notify", "sleep", "final", "final_notify", "exited"}
    /\ batch \in Seq(Messages)
    /\ written \in Seq(Messages)
    /\ lpc \in [Loggers -> {"idle", "log", "enq"}]
    /\ logged \in [Loggers -> 0..LogOps]
    /\ flushes \in [Loggers -> 0..FlushOps]
    /\ fpc \in [Flushers -> {"idle", "check", "sleep", "blocked"}]
    /\ opc \in {"live", "flush", "join", "done"}

(* The constructor builds the queue and starts the worker. *)
Init ==
    /\ Queue!Init
    /\ running = TRUE
    /\ wpc = "loop"
    /\ batch = <<>>
    /\ written = <<>>
    /\ lpc = [t \in Loggers |-> "idle"]
    /\ logged = [t \in Loggers |-> 0]
    /\ flushes = [t \in Loggers |-> 0]
    /\ fpc = [f \in Flushers |-> "idle"]
    /\ opc = "live"

-----------------------------------------------------------------------------
(* cv_.notify_all() *)
NotifyAll ==
    fpc' = [f \in Flushers |-> IF fpc[f] = "blocked" THEN "check" ELSE fpc[f]]

(* write_batch(batch): every message of the batch, formatted by          *)
(* format_log_entry, is appended to the current file, which is rotated    *)
(* when it reaches MAX_FILE_SIZE; the file is one sequence here.          *)
WriteBatch(b) == written' = written \o b

(* A logger between calls: no log and no flush in progress. *)
LoggerIdle(t) == lpc[t] = "idle" /\ fpc[t] = "idle"

(* One pass of while (!queue_.try_enqueue(std::move(msg))) yield(): the   *)
(* size_ >= capacity_ test of try_enqueue fails the attempt and the logger *)
(* spins; otherwise the enqueue proceeds with the queue's steps.           *)
TryEnqueue(t) ==
    IF size >= QueueSize
    THEN /\ lpc' = [lpc EXCEPT ![t] = "log"]
         /\ UNCHANGED pc
    ELSE /\ lpc' = [lpc EXCEPT ![t] = "enq"]
         /\ pc' = [pc EXCEPT ![t] = "enq_alloc"]

(* log(level, ...): build the LogMessage and make the first attempt. *)
Log(t) ==
    /\ opc = "live" /\ LoggerIdle(t) /\ logged[t] < LogOps
    /\ logged' = [logged EXCEPT ![t] = @ + 1]
    /\ value' = [value EXCEPT ![t] = <<t, logged[t] + 1>>]
    /\ TryEnqueue(t)
    /\ UNCHANGED <<freeList, chunks, nodeNext, nodeData, head, tail, size, attempts,
                   node, ltail, lhead, lnext, received,
                   running, wpc, batch, written, flushes, fpc, opc>>

(* After yield(), the next attempt. *)
LogRetry(t) ==
    /\ lpc[t] = "log"
    /\ TryEnqueue(t)
    /\ UNCHANGED <<freeList, chunks, nodeNext, nodeData, head, tail, size, attempts,
                   node, ltail, lhead, lnext, value, received,
                   running, wpc, batch, written, logged, flushes, fpc, opc>>

(* The steps of the successful try_enqueue on the queue. *)
LogEnqueue(t) ==
    /\ lpc[t] = "enq"
    /\ \/ Queue!EnqAlloc(t) \/ Queue!EnqReadTail(t) \/ Queue!EnqReadNext(t)
       \/ Queue!EnqCheckTail(t) \/ Queue!EnqLink(t) \/ Queue!EnqHelp(t)
       \/ Queue!EnqSwing(t) \/ Queue!EnqCount(t)
    /\ UNCHANGED <<running, wpc, batch, written, lpc, logged, flushes, fpc, opc>>

(* try_enqueue returned true: log returns. *)
LogReturn(t) ==
    /\ lpc[t] = "enq" /\ pc[t] = "idle"
    /\ lpc' = [lpc EXCEPT ![t] = "idle"]
    /\ UNCHANGED <<queueVars, running, wpc, batch, written, logged, flushes, fpc, opc>>

-----------------------------------------------------------------------------
(* flush(): lock mutex_ and enter cv_.wait(lock, pred). *)
Flush(t) ==
    /\ opc = "live" /\ LoggerIdle(t) /\ flushes[t] < FlushOps
    /\ flushes' = [flushes EXCEPT ![t] = @ + 1]
    /\ fpc' = [fpc EXCEPT ![t] = "check"]
    /\ UNCHANGED <<queueVars, running, wpc, batch, written, lpc, logged, opc>>

(* The predicate queue_.empty(), that is size_.load() == 0, read under     *)
(* mutex_: true returns from flush, false goes on to block.                *)
FlushCheck(f) ==
    /\ fpc[f] = "check"
    /\ fpc' = [fpc EXCEPT ![f] = IF size = 0 THEN "idle" ELSE "sleep"]
    /\ UNCHANGED <<queueVars, running, wpc, batch, written, lpc, logged, flushes, opc>>

(* wait(lock) releases mutex_ and blocks until a notify_all. *)
FlushBlock(f) ==
    /\ fpc[f] = "sleep"
    /\ fpc' = [fpc EXCEPT ![f] = "blocked"]
    /\ UNCHANGED <<queueVars, running, wpc, batch, written, lpc, logged, flushes, opc>>

(* condition_variable may wake a waiter with no notify. *)
SpuriousWakeup(f) ==
    /\ fpc[f] = "blocked"
    /\ fpc' = [fpc EXCEPT ![f] = "check"]
    /\ UNCHANGED <<queueVars, running, wpc, batch, written, lpc, logged, flushes, opc>>

-----------------------------------------------------------------------------
(* while (running_ || !queue_.empty()) *)
WorkerLoop ==
    /\ wpc = "loop"
    /\ wpc' = IF running \/ size # 0 THEN "try" ELSE "final"
    /\ UNCHANGED <<queueVars, running, batch, written, lpc, logged, flushes, fpc, opc>>

(* queue_.try_dequeue(msg): its size_ == 0 early return sends the worker  *)
(* to sleep_for(1ms); otherwise the dequeue proceeds with the queue's      *)
(* steps.                                                                  *)
WorkerTry ==
    /\ wpc = "try"
    /\ IF size = 0
       THEN /\ wpc' = "sleep"
            /\ UNCHANGED pc
       ELSE /\ wpc' = "deq"
            /\ pc' = [pc EXCEPT ![Worker] = "deq_read_head"]
    /\ UNCHANGED <<freeList, chunks, nodeNext, nodeData, head, tail, size, attempts,
                   node, ltail, lhead, lnext, value, received,
                   running, batch, written, lpc, logged, flushes, fpc, opc>>

WorkerDequeue ==
    /\ wpc = "deq"
    /\ \/ Queue!DeqReadHead(Worker) \/ Queue!DeqReadTail(Worker)
       \/ Queue!DeqReadNext(Worker) \/ Queue!DeqCheckHead(Worker)
       \/ Queue!DeqHelp(Worker) \/ Queue!DeqReadData(Worker)
       \/ Queue!DeqCasHead(Worker) \/ Queue!DeqReloadHead(Worker)
       \/ Queue!DeqFree(Worker) \/ Queue!DeqCount(Worker)
    /\ UNCHANGED <<running, wpc, batch, written, lpc, logged, flushes, fpc, opc>>

(* try_dequeue has returned.  On true: batch.push_back(msg), and when     *)
(* batch.size() >= 100 or queue_.empty(), write_batch(batch) and           *)
(* batch.clear() before notify_all.  On false: sleep_for(1ms).             *)
WorkerBatch ==
    /\ wpc = "deq" /\ pc[Worker] = "idle"
    /\ IF Len(received[Worker]) > Len(written) + Len(batch)
       THEN LET full == Append(batch, received[Worker][Len(received[Worker])])
            IN  IF Len(full) >= BatchSize \/ size = 0
                THEN /\ WriteBatch(full)
                     /\ batch' = <<>>
                     /\ wpc' = "notify"
                ELSE /\ batch' = full
                     /\ wpc' = "loop"
                     /\ UNCHANGED written
       ELSE /\ wpc' = "sleep"
            /\ UNCHANGED <<batch, written>>
    /\ UNCHANGED <<queueVars, running, lpc, logged, flushes, fpc, opc>>

(* cv_.notify_all(), without mutex_. *)
WorkerNotify ==
    /\ wpc = "notify"
    /\ NotifyAll
    /\ wpc' = "loop"
    /\ UNCHANGED <<queueVars, running, batch, written, lpc, logged, flushes, opc>>

(* std::this_thread::sleep_for(1ms) *)
WorkerSleep ==
    /\ wpc = "sleep"
    /\ wpc' = "loop"
    /\ UNCHANGED <<queueVars, running, batch, written, lpc, logged, flushes, fpc, opc>>

(* After the loop: if (!batch.empty()) { write_batch(batch); notify_all }. *)
WorkerFinal ==
    /\ wpc = "final"
    /\ IF batch # <<>>
       THEN /\ WriteBatch(batch)
            /\ wpc' = "final_notify"
       ELSE /\ wpc' = "exited"
            /\ UNCHANGED written
    /\ UNCHANGED <<queueVars, running, batch, lpc, logged, flushes, fpc, opc>>

WorkerFinalNotify ==
    /\ wpc = "final_notify"
    /\ NotifyAll
    /\ wpc' = "exited"
    /\ UNCHANGED <<queueVars, running, batch, written, lpc, logged, flushes, opc>>

-----------------------------------------------------------------------------
(* ~AsyncLogger(): running_ = false, then flush(), once no logger is in a *)
(* call.                                                                   *)
Destroy ==
    /\ opc = "live" /\ \A t \in Loggers : LoggerIdle(t)
    /\ running' = FALSE
    /\ fpc' = [fpc EXCEPT ![Owner] = "check"]
    /\ opc' = "flush"
    /\ UNCHANGED <<queueVars, wpc, batch, written, lpc, logged, flushes>>

(* flush() has returned: worker_.join(). *)
Join ==
    /\ opc = "flush" /\ fpc[Owner] = "idle" /\ wpc = "exited"
    /\ opc' = "done"
    /\ UNCHANGED <<queueVars, running, wpc, batch, written, lpc, logged, flushes, fpc>>

-----------------------------------------------------------------------------
Logger(t) == LogRetry(t) \/ LogEnqueue(t) \/ LogReturn(t)

Flusher(f) == FlushCheck(f) \/ FlushBlock(f)

WorkerStep ==
    \/ WorkerLoop \/ WorkerTry \/ WorkerDequeue \/ WorkerBatch
    \/ WorkerNotify \/ WorkerSleep \/ WorkerFinal \/ WorkerFinalNotify

Terminated == opc = "done" /\ UNCHANGED vars

Next ==
    \/ \E t \in Loggers : Log(t) \/ Flush(t) \/ Logger(t)
    \/ \E f \in Flushers : Flusher(f) \/ SpuriousWakeup(f)
    \/ WorkerStep
    \/ Destroy \/ Join
    \/ Terminated

(* Every thread with a step to take is scheduled: a call in progress, the *)
(* worker, the destructor once started.  Nobody has to log, flush or      *)
(* destroy the logger, and no wakeup is promised without a notify.        *)
Fairness ==
    /\ \A t \in Loggers : WF_vars(Logger(t))
    /\ \A f \in Flushers : WF_vars(Flusher(f))
    /\ WF_vars(WorkerStep)
    /\ WF_vars(Join)

Spec == Init /\ [][Next]_vars /\ Fairness

-----------------------------------------------------------------------------
WrittenSet == {written[i] : i \in 1..Len(written)}

(* Every flush() returns, the one in ~AsyncLogger() included: the worker  *)
(* empties the queue and notifies the waiters.                            *)
FlushReturns == \A f \in Flushers : (fpc[f] # "idle") ~> (fpc[f] = "idle")

(* When a logger's flush() returns, every message it logged before is in *)
(* the file: flush waits until the queue is empty.                        *)
FlushedWritten ==
    [][\A t \in Loggers :
         (fpc[t] # "idle" /\ fpc'[t] = "idle")
            => \A k \in 1..logged[t] : <<t, k>> \in WrittenSet]_vars

=============================================================================
