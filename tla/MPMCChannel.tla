----------------------------- MODULE MPMCChannel -----------------------------
(***************************************************************************)
(* channel::MPMCChannel<T>                                                 *)
(* (src/include/async_toolkit/lockfree/mpmc_channel.hpp)                   *)
(*                                                                         *)
(* The node chain of MPMCQueue with a different pair of loops:             *)
(* try_send_impl uses compare_exchange_strong on tail_ and reloads both    *)
(* tail and next at the end of every pass; try_receive_impl has no         *)
(* head == tail test and no size_ test, and moves the value out of         *)
(* next->data before its head_ CAS.  try_send and try_receive wrap them in *)
(* a retry loop that yields until a deadline when the timeout is positive. *)
(*                                                                         *)
(* Each step is one access to shared memory, in program order, as in       *)
(* MPMCQueue.  MoveEmpties says what std::move leaves in next->data: TRUE  *)
(* for a T such as the actor's Message (std::any) or std::string, whose    *)
(* moved-from state is empty; FALSE for a trivially copyable T.  The       *)
(* deadline is not a clock: a call with a positive timeout whose attempt   *)
(* failed either retries or finds the deadline passed, at most MaxRetries  *)
(* times.                                                                  *)
(***************************************************************************)
EXTENDS Naturals, Sequences, FiniteSets

CONSTANTS
  Senders,          \* threads calling try_send
  Receivers,        \* threads calling try_receive
  Capacity,         \* capacity_
  SendOps,          \* bound: try_send calls per sender
  RecvOps,          \* bound: try_receive calls per receiver
  MaxRetries,       \* bound: retries of one call before its deadline
  Timeouts,         \* timeouts callers pass: 0 or 1 (any positive duration)
  MoveEmpties,      \* std::move(next->data) leaves an empty T behind
  SizeWidth,        \* bits of size_t kept: size_ arithmetic is mod 2^SizeWidth
  BlocksPerChunk,
  MaxChunks

ASSUME Senders \cap Receivers = {}
ASSUME Capacity \in Nat \ {0} /\ SendOps \in Nat /\ RecvOps \in Nat
ASSUME MaxRetries \in Nat /\ Timeouts \subseteq {0, 1} /\ Timeouts # {}
ASSUME MoveEmpties \in BOOLEAN
ASSUME 2^SizeWidth > Capacity + Cardinality(Senders) * SendOps

Threads == Senders \cup Receivers
NULL == 0
Values == Senders \X (1 .. SendOps)
NoValue == <<>>          \* T{} of the dummy node
Gone == <<"gone">>       \* a T moved from, or destroyed by deallocate
Modulus == 2^SizeWidth

VARIABLES
  freeList, chunks,       \* the node pool
  nodeNext, nodeData,     \* Node::next and Node::data of every block
  head, tail, size,       \* head_, tail_, size_
  pc, calls,              \* control point, calls made so far
  timeout, retries,       \* the current call's timeout and retries so far
  node, ltail, lhead, lnext, value,   \* locals of the current call
  sent,                   \* history: values whose link CAS succeeded
  received                \* history: values each receiver returned, in order

Pool == INSTANCE MemoryPool

poolVars == <<freeList, chunks>>
heapVars == <<nodeNext, nodeData>>
callVars == <<calls, timeout, retries>>
localVars == <<node, ltail, lhead, lnext, value>>
vars == <<poolVars, heapVars, head, tail, size, pc, callVars, localVars, sent, received>>

Blocks == Pool!Blocks
Ptr == Blocks \cup {NULL}

TypeOK ==
  /\ Pool!PoolTypeOK
  /\ nodeNext \in [Blocks -> Ptr]
  /\ nodeData \in [Blocks -> Values \cup {NoValue, Gone}]
  /\ head \in Blocks /\ tail \in Blocks
  /\ size \in 0 .. Modulus - 1
  /\ calls \in [Threads -> 0 .. SendOps + RecvOps]
  /\ timeout \in [Threads -> Timeouts] /\ retries \in [Threads -> 0 .. MaxRetries]
  /\ node \in [Threads -> Ptr] /\ ltail \in [Threads -> Ptr]
  /\ lhead \in [Threads -> Ptr] /\ lnext \in [Threads -> Ptr]
  /\ value \in [Threads -> Values \cup {NoValue, Gone}]
  /\ sent \subseteq Values
  /\ received \in [Receivers -> Seq(Values \cup {NoValue, Gone})]

-----------------------------------------------------------------------------
(* Constructor: the dummy node (T{}, committed = false) is head_ and tail_. *)
Init ==
  /\ freeList = Tail(Pool!ChunkBlocks(1))
  /\ chunks = 1
  /\ nodeNext = [b \in Blocks |-> NULL]
  /\ nodeData = [b \in Blocks |-> NoValue]
  /\ head = Pool!ChunkBlocks(1)[1]
  /\ tail = Pool!ChunkBlocks(1)[1]
  /\ size = 0
  /\ pc = [t \in Threads |-> "idle"]
  /\ calls = [t \in Threads |-> 0]
  /\ timeout = [t \in Threads |-> CHOOSE x \in Timeouts : TRUE]
  /\ retries = [t \in Threads |-> 0]
  /\ node = [t \in Threads |-> NULL] /\ ltail = [t \in Threads |-> NULL]
  /\ lhead = [t \in Threads |-> NULL] /\ lnext = [t \in Threads |-> NULL]
  /\ value = [t \in Threads |-> NoValue]
  /\ sent = {}
  /\ received = [r \in Receivers |-> <<>>]

Goto(t, l) == pc' = [pc EXCEPT ![t] = l]
SetLocal(f, t, x) == f' = [f EXCEPT ![t] = x]

\* Mutant: the loop ignores the deadline and retries while the timeout is
\* positive.
AfterFailureNoDeadline(t, retryPc) ==
  IF timeout[t] > 0
    THEN Goto(t, retryPc) /\ UNCHANGED retries
    ELSE Goto(t, "idle") /\ UNCHANGED retries

\* The do/while of try_send and try_receive after a failed attempt: with a
\* zero timeout, or once the deadline has passed, the call returns failure;
\* otherwise it yields and tries again.
AfterFailure(t, retryPc) ==
  \/ /\ timeout[t] > 0 /\ retries[t] < MaxRetries
     /\ retries' = [retries EXCEPT ![t] = @ + 1]
     /\ Goto(t, retryPc)
  \/ /\ Goto(t, "idle")
     /\ UNCHANGED retries

-----------------------------------------------------------------------------
(* try_send(value, timeout): the k-th call of sender s sends <<s, k>>.      *)
try_send(t) ==
  /\ t \in Senders /\ pc[t] = "idle" /\ calls[t] < SendOps
  /\ calls' = [calls EXCEPT ![t] = @ + 1]
  /\ \E to \in Timeouts : timeout' = [timeout EXCEPT ![t] = to]
  /\ retries' = [retries EXCEPT ![t] = 0]
  /\ SetLocal(value, t, <<t, calls[t] + 1>>)
  /\ Goto(t, "snd_size")
  /\ UNCHANGED <<poolVars, heapVars, head, tail, size, node, ltail, lhead, lnext, sent, received>>

\* try_send_impl: if (size_.load() >= capacity_) return false; the caller's
\* loop then gives up or retries.
SndSize(t) ==
  /\ pc[t] = "snd_size"
  /\ IF size >= Capacity
       THEN AfterFailure(t, "snd_size")
       ELSE Goto(t, "snd_alloc") /\ UNCHANGED retries
  /\ UNCHANGED <<poolVars, heapVars, head, tail, size, calls, timeout, localVars, sent, received>>

\* Mutant: a Node constructor that leaves next as the block last held it.
SndAllocKeepsNext(t) ==
  /\ pc[t] = "snd_alloc"
  /\ Pool!AllocateBlock
  /\ nodeData' = [nodeData EXCEPT ![Pool!NextBlock] = value[t]]
  /\ SetLocal(node, t, Pool!NextBlock)
  /\ Goto(t, "snd_read_tail")
  /\ UNCHANGED <<nodeNext, head, tail, size, callVars, ltail, lhead, lnext, value, sent, received>>

\* pool_.allocate(value): Node(value) sets next = nullptr and data = value.
SndAlloc(t) ==
  /\ pc[t] = "snd_alloc"
  /\ Pool!AllocateBlock
  /\ LET b == Pool!NextBlock IN
       /\ nodeNext' = [nodeNext EXCEPT ![b] = NULL]
       /\ nodeData' = [nodeData EXCEPT ![b] = value[t]]
       /\ SetLocal(node, t, b)
  /\ Goto(t, "snd_read_tail")
  /\ UNCHANGED <<head, tail, size, callVars, ltail, lhead, lnext, value, sent, received>>

\* tail = tail_.load() (line 96, and line 111 at the end of every pass).
SndReadTail(t) ==
  /\ pc[t] = "snd_read_tail"
  /\ SetLocal(ltail, t, tail)
  /\ Goto(t, "snd_read_next")
  /\ UNCHANGED <<poolVars, heapVars, head, tail, size, callVars, node, lhead, lnext, value, sent, received>>

\* next = tail->next.load() (lines 97 and 112).
SndReadNext(t) ==
  /\ pc[t] = "snd_read_next"
  /\ SetLocal(lnext, t, nodeNext[ltail[t]])
  /\ Goto(t, "snd_check")
  /\ UNCHANGED <<poolVars, heapVars, head, tail, size, callVars, node, ltail, lhead, value, sent, received>>

\* if (tail == tail_.load()): a stale tail goes straight to the reload.
SndCheck(t) ==
  /\ pc[t] = "snd_check"
  /\ Goto(t, CASE ltail[t] # tail -> "snd_read_tail"
               [] lnext[t] = NULL -> "snd_link"
               [] OTHER           -> "snd_help")
  /\ UNCHANGED <<poolVars, heapVars, head, tail, size, callVars, localVars, sent, received>>

\* tail->next.compare_exchange_weak(next, new_node).  On failure the value
\* written back into next is overwritten by the reload at line 112.
SndLink(t) ==
  /\ pc[t] = "snd_link"
  /\ IF nodeNext[ltail[t]] = lnext[t]
       THEN /\ nodeNext' = [nodeNext EXCEPT ![ltail[t]] = node[t]]
            /\ sent' = sent \cup {value[t]}
            /\ Goto(t, "snd_swing")
       ELSE /\ Goto(t, "snd_read_tail")
            /\ UNCHANGED <<nodeNext, sent>>
  /\ UNCHANGED <<poolVars, nodeData, head, tail, size, callVars, localVars, received>>

\* tail_.compare_exchange_strong(tail, new_node), result ignored.
SndSwing(t) ==
  /\ pc[t] = "snd_swing"
  /\ tail' = IF tail = ltail[t] THEN node[t] ELSE tail
  /\ Goto(t, "snd_count")
  /\ UNCHANGED <<poolVars, heapVars, head, size, callVars, localVars, sent, received>>

\* size_.fetch_add(1); return true.
SndCount(t) ==
  /\ pc[t] = "snd_count"
  /\ size' = (size + 1) % Modulus
  /\ Goto(t, "idle")
  /\ UNCHANGED <<poolVars, heapVars, head, tail, callVars, localVars, sent, received>>

\* tail_.compare_exchange_strong(tail, next): help a lagging tail_ forward,
\* then reload (lines 108, 111).
SndHelp(t) ==
  /\ pc[t] = "snd_help"
  /\ tail' = IF tail = ltail[t] THEN lnext[t] ELSE tail
  /\ Goto(t, "snd_read_tail")
  /\ UNCHANGED <<poolVars, heapVars, head, size, callVars, localVars, sent, received>>

-----------------------------------------------------------------------------
(* try_receive(timeout)                                                    *)
try_receive(t) ==
  /\ t \in Receivers /\ pc[t] = "idle" /\ calls[t] < RecvOps
  /\ calls' = [calls EXCEPT ![t] = @ + 1]
  /\ \E to \in Timeouts : timeout' = [timeout EXCEPT ![t] = to]
  /\ retries' = [retries EXCEPT ![t] = 0]
  /\ Goto(t, "rcv_read_head")
  /\ UNCHANGED <<poolVars, heapVars, head, tail, size, localVars, sent, received>>

\* head = head_.load() (line 117, and line 133 at the end of every pass).
RcvReadHead(t) ==
  /\ pc[t] = "rcv_read_head"
  /\ SetLocal(lhead, t, head)
  /\ Goto(t, "rcv_read_next")
  /\ UNCHANGED <<poolVars, heapVars, head, tail, size, callVars, node, ltail, lnext, value, sent, received>>

\* next = head->next.load() (lines 118 and 134).
RcvReadNext(t) ==
  /\ pc[t] = "rcv_read_next"
  /\ SetLocal(lnext, t, nodeNext[lhead[t]])
  /\ Goto(t, "rcv_check")
  /\ UNCHANGED <<poolVars, heapVars, head, tail, size, callVars, node, ltail, lhead, value, sent, received>>

\* if (head == head_.load()) { if (next == nullptr) return std::nullopt; }
\* A stale head goes to the reload; an empty channel fails the attempt.
RcvCheck(t) ==
  /\ pc[t] = "rcv_check"
  /\ \/ /\ lhead[t] # head
        /\ Goto(t, "rcv_read_head") /\ UNCHANGED retries
     \/ /\ lhead[t] = head /\ lnext[t] = NULL
        /\ AfterFailure(t, "rcv_read_head")
     \/ /\ lhead[t] = head /\ lnext[t] # NULL
        /\ Goto(t, "rcv_move") /\ UNCHANGED retries
  /\ UNCHANGED <<poolVars, heapVars, head, tail, size, calls, timeout, localVars, sent, received>>

\* T result = std::move(next->data): the value leaves the node before the
\* CAS that decides whether this thread owns it.
RcvMove(t) ==
  /\ pc[t] = "rcv_move"
  /\ SetLocal(value, t, nodeData[lnext[t]])
  /\ nodeData' = IF MoveEmpties THEN [nodeData EXCEPT ![lnext[t]] = Gone] ELSE nodeData
  /\ Goto(t, "rcv_cas")
  /\ UNCHANGED <<poolVars, nodeNext, head, tail, size, callVars, node, ltail, lhead, lnext, sent, received>>

\* head_.compare_exchange_weak(head, next): on success the call returns
\* result; on failure result is destroyed and the loop reloads head.
RcvCas(t) ==
  /\ pc[t] = "rcv_cas"
  /\ IF head = lhead[t]
       THEN /\ head' = lnext[t]
            /\ received' = [received EXCEPT ![t] = Append(@, value[t])]
            /\ Goto(t, "rcv_free")
       ELSE /\ Goto(t, "rcv_read_head")
            /\ UNCHANGED <<head, received>>
  /\ UNCHANGED <<poolVars, heapVars, tail, size, callVars, localVars, sent>>

\* Mutant: the node that just became the sentinel is freed.
RcvFreeNext(t) ==
  /\ pc[t] = "rcv_free"
  /\ Pool!Deallocate(lnext[t])
  /\ nodeData' = IF MoveEmpties THEN [nodeData EXCEPT ![lnext[t]] = Gone] ELSE nodeData
  /\ Goto(t, "rcv_count")
  /\ UNCHANGED <<nodeNext, head, tail, size, callVars, localVars, sent, received>>

\* pool_.deallocate(head): ~Node() destroys data (nothing is left of a
\* non-trivial T), then the block is pushed on the free list.
RcvFree(t) ==
  /\ pc[t] = "rcv_free"
  /\ Pool!Deallocate(lhead[t])
  /\ nodeData' = IF MoveEmpties THEN [nodeData EXCEPT ![lhead[t]] = Gone] ELSE nodeData
  /\ Goto(t, "rcv_count")
  /\ UNCHANGED <<nodeNext, head, tail, size, callVars, localVars, sent, received>>

\* size_.fetch_sub(1); return result.
RcvCount(t) ==
  /\ pc[t] = "rcv_count"
  /\ size' = (size + Modulus - 1) % Modulus
  /\ Goto(t, "idle")
  /\ UNCHANGED <<poolVars, heapVars, head, tail, callVars, localVars, sent, received>>

-----------------------------------------------------------------------------
Sender(t) ==
  \/ try_send(t) \/ SndSize(t) \/ SndAlloc(t) \/ SndReadTail(t) \/ SndReadNext(t)
  \/ SndCheck(t) \/ SndLink(t) \/ SndSwing(t) \/ SndCount(t) \/ SndHelp(t)

Receiver(t) ==
  \/ try_receive(t) \/ RcvReadHead(t) \/ RcvReadNext(t) \/ RcvCheck(t)
  \/ RcvMove(t) \/ RcvCas(t) \/ RcvFree(t) \/ RcvCount(t)

Ops(t) == IF t \in Senders THEN SendOps ELSE RecvOps

Finished == \A t \in Threads : pc[t] = "idle" /\ calls[t] = Ops(t)

\* The program stops once every call has returned.
Terminated == Finished /\ UNCHANGED vars

Next ==
  \/ \E t \in Senders : Sender(t)
  \/ \E t \in Receivers : Receiver(t)
  \/ Terminated

\* Every thread with a step to take is eventually scheduled; the yield in
\* the retry loop does not park the thread.
Fairness == \A t \in Threads : WF_vars(IF t \in Senders THEN Sender(t) ELSE Receiver(t))

Spec == Init /\ [][Next]_vars /\ Fairness

-----------------------------------------------------------------------------
(* The chain reachable from head_, at most one visit per block, and the    *)
(* values held by the nodes after the sentinel.                            *)
RECURSIVE ChainFrom(_, _)
ChainFrom(n, k) ==
  IF n = NULL \/ k = 0 THEN <<>> ELSE <<n>> \o ChainFrom(nodeNext[n], k - 1)

Chain == ChainFrom(head, Cardinality(Blocks))

\* A receiver between its std::move and its CAS holds the value of lnext in
\* its local result; until that CAS decides, the value still belongs to the
\* node it came from.
Holders(b) == {r \in Receivers : pc[r] = "rcv_cas" /\ lnext[r] = b}

DataOf(b) ==
  IF nodeData[b] = Gone /\ Holders(b) # {}
    THEN value[CHOOSE r \in Holders(b) : TRUE]
    ELSE nodeData[b]

Contents == [i \in 1 .. Len(Chain) - 1 |-> DataOf(Chain[i + 1])]

Delivered == UNION {{received[r][i] : i \in 1 .. Len(received[r])} : r \in Receivers}

-----------------------------------------------------------------------------
(* Properties                                                              *)

\* spec.md 4.2 and 5: the channel refines AbstractQueue, with a successful
\* try_send taking effect at its link CAS and a successful try_receive at
\* its head_ CAS, returning the value it moved out before that CAS.
AQ == INSTANCE AbstractQueue WITH queue <- Contents, Consumers <- Receivers

Linearizable == AQ!Spec

\* No value is lost: every value whose link CAS succeeded (so that try_send
\* returns true) is still chained after the sentinel or has been returned
\* by a try_receive.  A value linked behind a node that was already
\* unlinked and recycled would break this while the refinement above only
\* sees a stuttering step.
NoLostValue ==
  \A v \in sent : v \in Delivered \/ \E i \in 1 .. Len(Contents) : Contents[i] = v

\* spec.md 4.2 "Dequeue": a successful try_receive returns a value some
\* try_send sent, never the empty T left behind by a competing receiver's
\* std::move of the same node.
ReceivesSentValues == Delivered \subseteq sent

\* spec.md 4.2 "No operation blocks indefinitely": every call returns.
AllCallsReturn == <>Finished
=============================================================================
