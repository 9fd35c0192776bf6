------------------------------ MODULE MPMCQueue ------------------------------
(***************************************************************************)
(* lockfree::MPMCQueue<T> (src/include/async_toolkit/lockfree/mpmc_queue.hpp)*)
(*                                                                         *)
(* Michael-Scott style queue with a sentinel node, a size_ counter checked *)
(* against capacity_, and nodes taken from and returned to a MemoryPool.   *)
(* Each step below is one access to shared memory (a load, a store, a CAS, *)
(* a fetch_add/fetch_sub or one pool critical section), in program order; *)
(* the locals of a call (node, tail, head, next, value) are per thread.    *)
(* CAS is modelled as the strong form: the compare_exchange_weak calls may *)
(* also fail spuriously on LL/SC hardware, which this model leaves out.    *)
(*                                                                         *)
(* Producers call try_enqueue ProducerOps times, the k-th with <<p, k>>;  *)
(* consumers call try_dequeue ConsumerOps times.  A null dereference ends the whole*)
(* program (pc "segfault").                                                *)
(***************************************************************************)
EXTENDS Naturals, Sequences, FiniteSets

CONSTANTS
  Producers,        \* threads calling try_enqueue
  Consumers,        \* threads calling try_dequeue
  Capacity,         \* capacity_
  ProducerOps,      \* bound: try_enqueue calls per producer
  ConsumerOps,      \* bound: try_dequeue calls per consumer
  SizeWidth,        \* bits of size_t kept: size_ arithmetic is mod 2^SizeWidth
  BlocksPerChunk,
  MaxChunks

ASSUME Producers \cap Consumers = {}
ASSUME Capacity \in Nat \ {0} /\ ProducerOps \in Nat \ {0} /\ ConsumerOps \in Nat
\* size_ is only compared with capacity_ and with 0, so any width whose
\* largest value exceeds every reachable count gives the comparisons of a
\* 64-bit size_t; a wrapped value stays >= capacity_ as it does in the code.
ASSUME 2^SizeWidth > Capacity + Cardinality(Producers) * ProducerOps

Threads == Producers \cup Consumers
NULL == 0
Values == Producers \X (1 .. ProducerOps)
Ops(t) == IF t \in Producers THEN ProducerOps ELSE ConsumerOps
NoValue == <<>>
Modulus == 2^SizeWidth

VARIABLES
  freeList, chunks,           \* the node pool
  nodeNext,                   \* Node::next of every block
  nodeData,                   \* Node::data of every block
  head, tail,                 \* head_, tail_
  size,                       \* size_
  pc, attempts,               \* program counter, calls made so far
  node, ltail, lhead, lnext,  \* locals: node, tail, head, next
  value,                      \* local value (dequeue) / argument (enqueue)
  received                    \* history: values each consumer got, in order

Pool == INSTANCE MemoryPool

poolVars == <<freeList, chunks>>
heapVars == <<nodeNext, nodeData>>
localVars == <<node, ltail, lhead, lnext, value>>
vars == <<poolVars, heapVars, head, tail, size, pc, attempts, localVars, received>>

Blocks == Pool!Blocks
Ptr == Blocks \cup {NULL}

PCs == {"idle", "enq_alloc", "enq_read_tail", "enq_read_next", "enq_check_tail",
        "enq_link", "enq_help", "enq_swing", "enq_count",
        "deq_read_head", "deq_read_tail", "deq_read_next", "deq_check_head",
        "deq_help", "deq_read_data", "deq_cas_head", "deq_reload_head",
        "deq_free", "deq_count", "segfault"}

TypeOK ==
  /\ Pool!PoolTypeOK
  /\ nodeNext \in [Blocks -> Ptr]
  /\ nodeData \in [Blocks -> Values \cup {NoValue}]
  /\ head \in Blocks /\ tail \in Blocks
  /\ size \in 0 .. Modulus - 1
  /\ pc \in [Threads -> PCs]
  /\ attempts \in [Threads -> 0 .. ProducerOps + ConsumerOps]
  /\ node \in [Threads -> Ptr] /\ ltail \in [Threads -> Ptr]
  /\ lhead \in [Threads -> Ptr] /\ lnext \in [Threads -> Ptr]
  /\ value \in [Threads -> Values \cup {NoValue}]
  /\ received \in [Consumers -> Seq(Values)]

-----------------------------------------------------------------------------
(* Constructor: allocate the dummy node, head_ = tail_ = dummy, size_ = 0. *)
Init ==
  /\ freeList = Tail(Pool!ChunkBlocks(1))
  /\ chunks = 1
  /\ nodeNext = [b \in Blocks |-> NULL]
  /\ nodeData = [b \in Blocks |-> NoValue]
  /\ head = Pool!ChunkBlocks(1)[1]
  /\ tail = Pool!ChunkBlocks(1)[1]
  /\ size = 0
  /\ pc = [t \in Threads |-> "idle"]
  /\ attempts = [t \in Threads |-> 0]
  /\ node = [t \in Threads |-> NULL] /\ ltail = [t \in Threads |-> NULL]
  /\ lhead = [t \in Threads |-> NULL] /\ lnext = [t \in Threads |-> NULL]
  /\ value = [t \in Threads |-> NoValue]
  /\ received = [c \in Consumers |-> <<>>]

Goto(t, l) == pc' = [pc EXCEPT ![t] = l]
SetLocal(f, t, x) == f' = [f EXCEPT ![t] = x]
Decrement(n) == (n + Modulus - 1) % Modulus

-----------------------------------------------------------------------------
(* try_enqueue                                                             *)

\* Call entry and `if (size_.load() >= capacity_) return false;`
try_enqueue(t) ==
  /\ pc[t] = "idle" /\ attempts[t] < ProducerOps
  /\ attempts' = [attempts EXCEPT ![t] = @ + 1]
  /\ SetLocal(value, t, <<t, attempts[t] + 1>>)
  /\ Goto(t, IF size >= Capacity THEN "idle" ELSE "enq_alloc")
  /\ UNCHANGED <<poolVars, heapVars, head, tail, size, node, ltail, lhead, lnext, received>>

\* Mutant: a recycled block keeps the next it had when it was freed.
EnqAllocKeepsNext(t) ==
  /\ pc[t] = "enq_alloc"
  /\ Pool!AllocateBlock
  /\ nodeData' = [nodeData EXCEPT ![Pool!NextBlock] = value[t]]
  /\ SetLocal(node, t, Pool!NextBlock)
  /\ Goto(t, "enq_read_tail")
  /\ UNCHANGED <<nodeNext, head, tail, size, attempts, ltail, lhead, lnext, value, received>>

\* node = pool_.allocate(); node->data = value; node->next.store(nullptr);
EnqAlloc(t) ==
  /\ pc[t] = "enq_alloc"
  /\ Pool!AllocateBlock
  /\ nodeNext' = [nodeNext EXCEPT ![Pool!NextBlock] = NULL]
  /\ nodeData' = [nodeData EXCEPT ![Pool!NextBlock] = value[t]]
  /\ SetLocal(node, t, Pool!NextBlock)
  /\ Goto(t, "enq_read_tail")
  /\ UNCHANGED <<head, tail, size, attempts, ltail, lhead, lnext, value, received>>

\* tail = tail_.load();  (before the loop and at the end of every iteration)
EnqReadTail(t) ==
  /\ pc[t] = "enq_read_tail"
  /\ SetLocal(ltail, t, tail)
  /\ Goto(t, "enq_read_next")
  /\ UNCHANGED <<poolVars, heapVars, head, tail, size, attempts, node, lhead, lnext, value, received>>

\* next = tail->next.load();
EnqReadNext(t) ==
  /\ pc[t] = "enq_read_next"
  /\ SetLocal(lnext, t, nodeNext[ltail[t]])
  /\ Goto(t, "enq_check_tail")
  /\ UNCHANGED <<poolVars, heapVars, head, tail, size, attempts, node, ltail, lhead, value, received>>

\* if (tail == tail_.load()) { if (next == nullptr) ... else ... }
EnqCheckTail(t) ==
  /\ pc[t] = "enq_check_tail"
  /\ Goto(t, IF ltail[t] # tail THEN "enq_read_tail"
             ELSE IF lnext[t] = NULL THEN "enq_link" ELSE "enq_help")
  /\ UNCHANGED <<poolVars, heapVars, head, tail, size, attempts, localVars, received>>

\* tail->next.compare_exchange_weak(next, node): break on success.
EnqLink(t) ==
  /\ pc[t] = "enq_link"
  /\ IF nodeNext[ltail[t]] = lnext[t]
       THEN /\ nodeNext' = [nodeNext EXCEPT ![ltail[t]] = node[t]]
            /\ Goto(t, "enq_swing")
       ELSE /\ UNCHANGED nodeNext
            /\ Goto(t, "enq_read_tail")
  /\ UNCHANGED <<poolVars, nodeData, head, tail, size, attempts, localVars, received>>

\* tail_.compare_exchange_weak(tail, next): help a lagging tail along.
EnqHelp(t) ==
  /\ pc[t] = "enq_help"
  /\ tail' = IF tail = ltail[t] THEN lnext[t] ELSE tail
  /\ Goto(t, "enq_read_tail")
  /\ UNCHANGED <<poolVars, heapVars, head, size, attempts, localVars, received>>

\* tail_.compare_exchange_weak(tail, node): its failure is ignored.
EnqSwing(t) ==
  /\ pc[t] = "enq_swing"
  /\ tail' = IF tail = ltail[t] THEN node[t] ELSE tail
  /\ Goto(t, "enq_count")
  /\ UNCHANGED <<poolVars, heapVars, head, size, attempts, localVars, received>>

\* size_.fetch_add(1); return true;
EnqCount(t) ==
  /\ pc[t] = "enq_count"
  /\ size' = (size + 1) % Modulus
  /\ Goto(t, "idle")
  /\ UNCHANGED <<poolVars, heapVars, head, tail, attempts, localVars, received>>

-----------------------------------------------------------------------------
(* try_dequeue                                                             *)

\* Call entry and `if (size_.load() == 0) return false;`
try_dequeue(t) ==
  /\ pc[t] = "idle" /\ attempts[t] < ConsumerOps
  /\ attempts' = [attempts EXCEPT ![t] = @ + 1]
  /\ Goto(t, IF size = 0 THEN "idle" ELSE "deq_read_head")
  /\ UNCHANGED <<poolVars, heapVars, head, tail, size, localVars, received>>

\* Node* head = head_.load();
DeqReadHead(t) ==
  /\ pc[t] = "deq_read_head"
  /\ SetLocal(lhead, t, head)
  /\ Goto(t, "deq_read_tail")
  /\ UNCHANGED <<poolVars, heapVars, head, tail, size, attempts, node, ltail, lnext, value, received>>

\* Node* tail = tail_.load();  (read once: the loop never reloads it)
DeqReadTail(t) ==
  /\ pc[t] = "deq_read_tail"
  /\ SetLocal(ltail, t, tail)
  /\ Goto(t, "deq_read_next")
  /\ UNCHANGED <<poolVars, heapVars, head, tail, size, attempts, node, lhead, lnext, value, received>>

\* next = head->next.load();  (head may already be back in the pool)
DeqReadNext(t) ==
  /\ pc[t] = "deq_read_next"
  /\ SetLocal(lnext, t, nodeNext[lhead[t]])
  /\ Goto(t, "deq_check_head")
  /\ UNCHANGED <<poolVars, heapVars, head, tail, size, attempts, node, ltail, lhead, value, received>>

\* if (head == head_.load()) { if (head == tail) { if (next == nullptr)
\* return false; ... } else ... }
DeqCheckHead(t) ==
  /\ pc[t] = "deq_check_head"
  /\ Goto(t, IF lhead[t] # head THEN "deq_reload_head"
             ELSE IF lhead[t] = ltail[t]
                    THEN IF lnext[t] = NULL THEN "idle" ELSE "deq_help"
                    ELSE "deq_read_data")
  /\ UNCHANGED <<poolVars, heapVars, head, tail, size, attempts, localVars, received>>

\* Mutant: a CAS whose failure does not refresh the local tail.
DeqHelpNoWriteback(t) ==
  /\ pc[t] = "deq_help"
  /\ tail' = IF tail = ltail[t] THEN lnext[t] ELSE tail
  /\ Goto(t, "deq_reload_head")
  /\ UNCHANGED <<poolVars, heapVars, head, size, attempts, localVars, received>>

\* tail_.compare_exchange_weak(tail, next): on failure the local tail
\* receives the current tail_, the only way the loop ever refreshes it.
DeqHelp(t) ==
  /\ pc[t] = "deq_help"
  /\ IF tail = ltail[t]
       THEN tail' = lnext[t] /\ UNCHANGED ltail
       ELSE SetLocal(ltail, t, tail) /\ UNCHANGED tail
  /\ Goto(t, "deq_reload_head")
  /\ UNCHANGED <<poolVars, heapVars, head, size, attempts, node, lhead, lnext, value, received>>

\* Mutant: the value is read from the sentinel instead of its successor.
DeqReadDataSentinel(t) ==
  /\ pc[t] = "deq_read_data"
  /\ IF lnext[t] = NULL
       THEN Goto(t, "segfault") /\ UNCHANGED value
       ELSE Goto(t, "deq_cas_head") /\ SetLocal(value, t, nodeData[lhead[t]])
  /\ UNCHANGED <<poolVars, heapVars, head, tail, size, attempts, node, ltail, lhead, lnext, received>>

\* value = next->data;  a null next crashes the program.
DeqReadData(t) ==
  /\ pc[t] = "deq_read_data"
  /\ IF lnext[t] = NULL
       THEN Goto(t, "segfault") /\ UNCHANGED value
       ELSE Goto(t, "deq_cas_head") /\ SetLocal(value, t, nodeData[lnext[t]])
  /\ UNCHANGED <<poolVars, heapVars, head, tail, size, attempts, node, ltail, lhead, lnext, received>>

\* head_.compare_exchange_weak(head, next): break on success.  The value is
\* handed to the caller by this CAS, so the history is extended here.
DeqCasHead(t) ==
  /\ pc[t] = "deq_cas_head"
  /\ IF head = lhead[t]
       THEN /\ head' = lnext[t]
            /\ received' = [received EXCEPT ![t] = Append(@, value[t])]
            /\ Goto(t, "deq_free")
       ELSE /\ UNCHANGED <<head, received>>
            /\ Goto(t, "deq_reload_head")
  /\ UNCHANGED <<poolVars, heapVars, tail, size, attempts, localVars>>

\* head = head_.load();  at the end of an iteration.
DeqReloadHead(t) ==
  /\ pc[t] = "deq_reload_head"
  /\ SetLocal(lhead, t, head)
  /\ Goto(t, "deq_read_next")
  /\ UNCHANGED <<poolVars, heapVars, head, tail, size, attempts, node, ltail, lnext, value, received>>

\* Mutant: the new sentinel, not the old one, is returned to the pool.
DeqFreeNext(t) ==
  /\ pc[t] = "deq_free"
  /\ Pool!Deallocate(lnext[t])
  /\ Goto(t, "deq_count")
  /\ UNCHANGED <<heapVars, head, tail, size, attempts, localVars, received>>

\* pool_.deallocate(head);  the old sentinel goes back to the pool.
DeqFree(t) ==
  /\ pc[t] = "deq_free"
  /\ Pool!Deallocate(lhead[t])
  /\ Goto(t, "deq_count")
  /\ UNCHANGED <<heapVars, head, tail, size, attempts, localVars, received>>

\* size_.fetch_sub(1); return true;
DeqCount(t) ==
  /\ pc[t] = "deq_count"
  /\ size' = Decrement(size)
  /\ Goto(t, "idle")
  /\ UNCHANGED <<poolVars, heapVars, head, tail, attempts, localVars, received>>

-----------------------------------------------------------------------------
Producer(t) ==
  \/ try_enqueue(t) \/ EnqAlloc(t) \/ EnqReadTail(t) \/ EnqReadNext(t)
  \/ EnqCheckTail(t) \/ EnqLink(t) \/ EnqHelp(t) \/ EnqSwing(t) \/ EnqCount(t)

Consumer(t) ==
  \/ try_dequeue(t) \/ DeqReadHead(t) \/ DeqReadTail(t) \/ DeqReadNext(t)
  \/ DeqCheckHead(t) \/ DeqHelp(t) \/ DeqReadData(t) \/ DeqCasHead(t)
  \/ DeqReloadHead(t) \/ DeqFree(t) \/ DeqCount(t)

Crashed == \E t \in Threads : pc[t] = "segfault"

Finished == \A t \in Threads : pc[t] = "idle" /\ attempts[t] = Ops(t)

\* The program stops when every call has returned or a thread crashed.
Terminated == (Finished \/ Crashed) /\ UNCHANGED vars

Next ==
  \/ ~Crashed /\ \E t \in Producers : Producer(t)
  \/ ~Crashed /\ \E t \in Consumers : Consumer(t)
  \/ Terminated

\* Every thread that has a step to take is eventually scheduled.
Fairness ==
  /\ \A t \in Producers : WF_vars(Producer(t))
  /\ \A t \in Consumers : WF_vars(Consumer(t))

Spec == Init /\ [][Next]_vars /\ Fairness

-----------------------------------------------------------------------------
(* The node chain reachable from head_ (at most one visit per block, so a  *)
(* corrupted, cyclic chain still has a finite prefix) and the values it    *)
(* holds: those of every node after the sentinel.                          *)
RECURSIVE ChainFrom(_, _)
ChainFrom(n, k) ==
  IF n = NULL \/ k = 0 THEN <<>> ELSE <<n>> \o ChainFrom(nodeNext[n], k - 1)

Chain == ChainFrom(head, Cardinality(Blocks))

Contents == [i \in 1 .. Len(Chain) - 1 |-> nodeData[Chain[i + 1]]]

InChain(b) == \E i \in 1 .. Len(Chain) : Chain[i] = b

FreeBlocks == {freeList[i] : i \in 1 .. Len(freeList)}

-----------------------------------------------------------------------------
(* Properties                                                              *)

\* Linearizability (spec.md 5, 8): the queue refines AbstractQueue when its
\* contents are the values chained after the sentinel, a successful
\* try_enqueue takes effect at its link CAS and a successful try_dequeue at
\* its head_ CAS, handing over the value it read before that CAS.  This is
\* FIFO order per producer and exactly-once delivery of every linked value.
AQ == INSTANCE AbstractQueue WITH queue <- Contents

Linearizable == AQ!Spec

\* spec.md 8: values from one producer are dequeued in the order that
\* producer enqueued them (the k-th call of producer p carries <<p, k>>).
PerProducerFIFO ==
  \A c \in Consumers : \A i, j \in 1 .. Len(received[c]) :
    (i < j /\ received[c][i][1] = received[c][j][1])
      => received[c][i][2] < received[c][j][2]

\* Invariant I1 of spec.md 3: tail_ is reachable from head_ along next
\* links, whatever the interleaving of helpers advancing tail_ and
\* consumers advancing head_ past the sentinel they then free.
TailReachable == InChain(tail)

\* No step writes the Node of a block that lies in the pool's free list both
\* before and after the step: a CAS by a thread holding a stale tail or head
\* never lands on recycled memory (spec.md 9, "CAS ABA hazard").
NoWriteToFreedNode ==
  [][\A b \in FreeBlocks \cap {freeList'[i] : i \in 1 .. Len(freeList')} :
       nodeNext'[b] = nodeNext[b] /\ nodeData'[b] = nodeData[b]]_vars

\* size_ never wraps below zero: every legitimate value of size_ is below
\* capacity_ plus the producers that passed the capacity check together,
\* and a fetch_sub from 0 yields 2^w - 1, far above that.
SizeNeverWraps == size < Capacity + Cardinality(Producers)

\* Invariant I4 of spec.md 3 and the boundary behaviour of spec.md 8: the
\* queue never holds more than capacity_ values.
CapacityRespected == Len(Contents) <= Capacity

\* try_dequeue never dereferences a null next (mpmc_queue.hpp line 83).
NoNullDereference == ~Crashed

\* spec.md 4.2 "No operation blocks indefinitely": under fair scheduling
\* every call of every thread returns.
AllCallsReturn == <>Finished
=============================================================================
