------------------------------- MODULE LFQueue -------------------------------
(***************************************************************************)
(* lockfree::Queue<T> (src/include/async_toolkit/lockfree/queue.hpp)      *)
(*                                                                         *)
(* An unbounded Michael-Scott queue whose nodes come from `new` and go     *)
(* back with `delete`, with no hazard pointers or epochs.  Each step is    *)
(* one access to shared memory, in program order; the locals of a call    *)
(* (new_node, tail, head, next, result) are per thread.                   *)
(*                                                                         *)
(* `new` may return any deleted block or a block never used before: which *)
(* one depends on the allocator's per-thread caches and bins, so the model *)
(* leaves it open.  A freed node keeps its `next` field (glibc overwrites  *)
(* the first 16 bytes, which are Node::data) until `new Node(value)`       *)
(* resets it, so a thread that loads the next of a freed node reads its    *)
(* stale value: the load is formally undefined, and on every build it      *)
(* returns that word.  Reading                                             *)
(* `*next->data` of a deleted node dereferences a destroyed shared_ptr:   *)
(* what happens is undefined, and the model stops there (pc "uaf").       *)
(***************************************************************************)
EXTENDS Naturals, Sequences, FiniteSets

CONSTANTS
  Producers,        \* threads calling push
  Consumers,        \* threads calling pop
  ProducerOps,      \* bound: push calls per producer
  ConsumerOps,      \* bound: pop calls per consumer
  SizeWidth,        \* bits of size_t kept: size_ is mod 2^SizeWidth
  MaxBlocks         \* bound: distinct addresses `new` ever returns

ASSUME Producers \cap Consumers = {}
ASSUME 2^SizeWidth > Cardinality(Producers) * ProducerOps
ASSUME MaxBlocks >= 2

Threads == Producers \cup Consumers
NULL == 0
Values == Producers \X (1 .. ProducerOps)
NoValue == <<>>
Ops(t) == IF t \in Producers THEN ProducerOps ELSE ConsumerOps
Modulus == 2^SizeWidth

VARIABLES
  deleted, used,              \* the heap: deleted blocks, blocks 1..used handed out
  nodeNext, nodeData,         \* Node::next and *Node::data of every block
  head, tail, size,           \* head_, tail_, size_
  pc, attempts,               \* program counter, calls made so far
  node, ltail, lhead, lnext,  \* locals new_node, tail, head, next
  value,                      \* push's argument, pop's result
  received                    \* history: values each consumer got

heapVars == <<deleted, used, nodeNext, nodeData>>
localVars == <<node, ltail, lhead, lnext, value>>
vars == <<heapVars, head, tail, size, pc, attempts, localVars, received>>

Blocks == 1 .. MaxBlocks
Ptr == Blocks \cup {NULL}

\* The addresses `new Node` may return.
NewBlocks == deleted \cup (IF used < MaxBlocks THEN {used + 1} ELSE {})

TypeOK ==
  /\ deleted \subseteq 1 .. used /\ used \in Blocks
  /\ nodeNext \in [Blocks -> Ptr] /\ nodeData \in [Blocks -> Values \cup {NoValue}]
  /\ head \in Blocks /\ tail \in Blocks /\ size \in 0 .. Modulus - 1
  /\ pc \in [Threads -> {"idle", "push_read_tail", "push_read_next", "push_check",
                         "push_link", "push_swing", "push_count", "push_help",
                         "pop_read_head", "pop_read_tail", "pop_read_next",
                         "pop_check", "pop_help", "pop_read_data", "pop_cas",
                         "pop_count", "pop_delete", "uaf"}]
  /\ attempts \in [Threads -> Nat]
  /\ \A f \in {node, ltail, lhead, lnext} : f \in [Threads -> Ptr]
  /\ value \in [Threads -> Values \cup {NoValue}]
  /\ received \in [Consumers -> Seq(Values)]

\* Queue(): the dummy node is the first `new`; head_ = tail_ = dummy.
Init ==
  /\ deleted = {} /\ used = 1
  /\ nodeNext = [b \in Blocks |-> NULL] /\ nodeData = [b \in Blocks |-> NoValue]
  /\ head = 1 /\ tail = 1 /\ size = 0
  /\ pc = [t \in Threads |-> "idle"] /\ attempts = [t \in Threads |-> 0]
  /\ node = [t \in Threads |-> NULL] /\ ltail = [t \in Threads |-> NULL]
  /\ lhead = [t \in Threads |-> NULL] /\ lnext = [t \in Threads |-> NULL]
  /\ value = [t \in Threads |-> NoValue]
  /\ received = [c \in Consumers |-> <<>>]

Goto(t, l) == pc' = [pc EXCEPT ![t] = l]
Set(f, t, x) == f' = [f EXCEPT ![t] = x]
\* A CAS on a shared pointer: x' is new when x equals expected.
CAS(x, expected, new) == x' = IF x = expected THEN new ELSE x

-----------------------------------------------------------------------------
(* push                                                                    *)

\* Call entry and `auto new_node = new Node(value);`
push(t) ==
  /\ pc[t] = "idle" /\ attempts[t] < ProducerOps
  /\ \E b \in NewBlocks :
       /\ deleted' = deleted \ {b} /\ used' = IF b > used THEN b ELSE used
       /\ nodeNext' = [nodeNext EXCEPT ![b] = NULL]
       /\ nodeData' = [nodeData EXCEPT ![b] = <<t, attempts[t] + 1>>]
       /\ Set(node, t, b)
  /\ attempts' = [attempts EXCEPT ![t] = @ + 1]
  /\ Goto(t, "push_read_tail")
  /\ UNCHANGED <<head, tail, size, ltail, lhead, lnext, value, received>>

\* auto tail = tail_.load();
PushReadTail(t) ==
  /\ pc[t] = "push_read_tail" /\ Set(ltail, t, tail) /\ Goto(t, "push_read_next")
  /\ UNCHANGED <<heapVars, head, tail, size, attempts, node, lhead, lnext, value, received>>

\* auto next = tail->next.load();  (tail may already have been deleted)
PushReadNext(t) ==
  /\ pc[t] = "push_read_next"
  /\ Set(lnext, t, nodeNext[ltail[t]]) /\ Goto(t, "push_check")
  /\ UNCHANGED <<heapVars, head, tail, size, attempts, node, ltail, lhead, value, received>>

\* if (tail == tail_.load()) { if (next == nullptr) ... else ... }
PushCheck(t) ==
  /\ pc[t] = "push_check"
  /\ Goto(t, IF ltail[t] # tail THEN "push_read_tail"
             ELSE IF lnext[t] = NULL THEN "push_link" ELSE "push_help")
  /\ UNCHANGED <<heapVars, head, tail, size, attempts, localVars, received>>

\* tail->next.compare_exchange_weak(next, new_node)
PushLink(t) ==
  /\ pc[t] = "push_link"
  /\ nodeNext' = [nodeNext EXCEPT ![ltail[t]] = IF @ = lnext[t] THEN node[t] ELSE @]
  /\ Goto(t, IF nodeNext[ltail[t]] = lnext[t] THEN "push_swing" ELSE "push_read_tail")
  /\ UNCHANGED <<deleted, used, nodeData, head, tail, size, attempts, localVars, received>>

\* tail_.compare_exchange_weak(tail, new_node);  its result is ignored.
PushSwing(t) ==
  /\ pc[t] = "push_swing" /\ CAS(tail, ltail[t], node[t]) /\ Goto(t, "push_count")
  /\ UNCHANGED <<heapVars, head, size, attempts, localVars, received>>

\* size_.fetch_add(1); return;
PushCount(t) ==
  /\ pc[t] = "push_count" /\ size' = (size + 1) % Modulus /\ Goto(t, "idle")
  /\ UNCHANGED <<heapVars, head, tail, attempts, localVars, received>>

\* else tail_.compare_exchange_weak(tail, next);
PushHelp(t) ==
  /\ pc[t] = "push_help" /\ CAS(tail, ltail[t], lnext[t]) /\ Goto(t, "push_read_tail")
  /\ UNCHANGED <<heapVars, head, size, attempts, localVars, received>>

-----------------------------------------------------------------------------
(* pop                                                                     *)

\* Call entry: pop has no size_ check and loops until it returns.
pop(t) ==
  /\ pc[t] = "idle" /\ attempts[t] < ConsumerOps
  /\ attempts' = [attempts EXCEPT ![t] = @ + 1] /\ Goto(t, "pop_read_head")
  /\ UNCHANGED <<heapVars, head, tail, size, localVars, received>>

\* auto head = head_.load();
PopReadHead(t) ==
  /\ pc[t] = "pop_read_head" /\ Set(lhead, t, head) /\ Goto(t, "pop_read_tail")
  /\ UNCHANGED <<heapVars, head, tail, size, attempts, node, ltail, lnext, value, received>>

\* auto tail = tail_.load();
PopReadTail(t) ==
  /\ pc[t] = "pop_read_tail" /\ Set(ltail, t, tail) /\ Goto(t, "pop_read_next")
  /\ UNCHANGED <<heapVars, head, tail, size, attempts, node, lhead, lnext, value, received>>

\* auto next = head->next.load();  (head may already have been deleted)
PopReadNext(t) ==
  /\ pc[t] = "pop_read_next"
  /\ Set(lnext, t, nodeNext[lhead[t]]) /\ Goto(t, "pop_check")
  /\ UNCHANGED <<heapVars, head, tail, size, attempts, node, ltail, lhead, value, received>>

\* if (head == head_.load()) { if (head == tail) { if (next == nullptr)
\* return std::nullopt; help } else if (next) read and CAS }  else retry.
PopCheck(t) ==
  /\ pc[t] = "pop_check"
  /\ Goto(t, IF lhead[t] # head THEN "pop_read_head"
             ELSE IF lhead[t] = ltail[t]
                    THEN IF lnext[t] = NULL THEN "idle" ELSE "pop_help"
                    ELSE IF lnext[t] # NULL THEN "pop_read_data" ELSE "pop_read_head")
  /\ UNCHANGED <<heapVars, head, tail, size, attempts, localVars, received>>

\* tail_.compare_exchange_weak(tail, next);
PopHelp(t) ==
  /\ pc[t] = "pop_help" /\ CAS(tail, ltail[t], lnext[t]) /\ Goto(t, "pop_read_head")
  /\ UNCHANGED <<heapVars, head, size, attempts, localVars, received>>

\* auto result = *next->data;  next may have been deleted by another pop.
PopReadData(t) ==
  /\ pc[t] = "pop_read_data"
  /\ Set(value, t, nodeData[lnext[t]])
  /\ Goto(t, IF lnext[t] \in deleted THEN "uaf" ELSE "pop_cas")
  /\ UNCHANGED <<heapVars, head, tail, size, attempts, node, ltail, lhead, lnext, received>>

\* if (head_.compare_exchange_weak(head, next)): the value is handed over.
PopCas(t) ==
  /\ pc[t] = "pop_cas" /\ CAS(head, lhead[t], lnext[t])
  /\ received' = IF head = lhead[t] THEN [received EXCEPT ![t] = Append(@, value[t])]
                 ELSE received
  /\ Goto(t, IF head = lhead[t] THEN "pop_count" ELSE "pop_read_head")
  /\ UNCHANGED <<heapVars, tail, size, attempts, localVars>>

\* size_.fetch_sub(1);
PopCount(t) ==
  /\ pc[t] = "pop_count" /\ size' = (size + Modulus - 1) % Modulus
  /\ Goto(t, "pop_delete")
  /\ UNCHANGED <<heapVars, head, tail, attempts, localVars, received>>

\* Mutant: the new sentinel, not the old one, is deleted.
PopDeleteNext(t) ==
  /\ pc[t] = "pop_delete" /\ deleted' = deleted \cup {lnext[t]} /\ Goto(t, "idle")
  /\ UNCHANGED <<used, nodeNext, nodeData, head, tail, size, attempts, localVars, received>>

\* delete head; return result;
PopDelete(t) ==
  /\ pc[t] = "pop_delete" /\ deleted' = deleted \cup {lhead[t]} /\ Goto(t, "idle")
  /\ UNCHANGED <<used, nodeNext, nodeData, head, tail, size, attempts, localVars, received>>

-----------------------------------------------------------------------------
Producer(t) ==
  \/ push(t) \/ PushReadTail(t) \/ PushReadNext(t) \/ PushCheck(t)
  \/ PushLink(t) \/ PushSwing(t) \/ PushCount(t) \/ PushHelp(t)

Consumer(t) ==
  \/ pop(t) \/ PopReadHead(t) \/ PopReadTail(t) \/ PopReadNext(t) \/ PopCheck(t)
  \/ PopHelp(t) \/ PopReadData(t) \/ PopCas(t) \/ PopCount(t) \/ PopDelete(t)

Undefined == \E t \in Threads : pc[t] = "uaf"
Finished == \A t \in Threads : pc[t] = "idle" /\ attempts[t] = Ops(t)

\* The program stops when every call has returned or behaviour is undefined.
Terminated == (Finished \/ Undefined) /\ UNCHANGED vars

Next ==
  \/ ~Undefined /\ \E t \in Producers : Producer(t)
  \/ ~Undefined /\ \E t \in Consumers : Consumer(t)
  \/ Terminated

\* Every thread with a step to take is eventually scheduled; no step blocks.
Fairness ==
  /\ \A t \in Producers : WF_vars(Producer(t))
  /\ \A t \in Consumers : WF_vars(Consumer(t))

Spec == Init /\ [][Next]_vars /\ Fairness

-----------------------------------------------------------------------------
RECURSIVE ChainFrom(_, _)
ChainFrom(n, k) ==
  IF n = NULL \/ k = 0 THEN <<>> ELSE <<n>> \o ChainFrom(nodeNext[n], k - 1)

Chain == ChainFrom(head, Cardinality(Blocks))

\* The values of the nodes after the sentinel, oldest first.
Contents == [i \in 1 .. Len(Chain) - 1 |-> nodeData[Chain[i + 1]]]

-----------------------------------------------------------------------------
(* Properties                                                              *)

\* The queue refines a FIFO queue: a push takes effect at its link CAS and
\* a pop at its head_ CAS, handing over the value it read before that CAS;
\* recycled nodes (ABA on tail->next and on head_) never reorder, lose or
\* duplicate a value.
AQ == INSTANCE AbstractQueue WITH queue <- Contents

Linearizable == AQ!Spec

\* pop never reads `*next->data` of a node another pop has deleted, and no
\* step writes a deleted node's fields.
NoUseAfterFree ==
  /\ [](~Undefined)
  /\ [][\A b \in deleted \cap deleted' :
          nodeNext'[b] = nodeNext[b] /\ nodeData'[b] = nodeData[b]]_vars

\* Under fair scheduling every push and pop returns: no thread spins for
\* ever on a tail_ or head_ that no other thread will move.
AllCallsReturn == <>Finished
=============================================================================
