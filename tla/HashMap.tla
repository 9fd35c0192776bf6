------------------------------- MODULE HashMap -------------------------------
(***************************************************************************)
(* lockfree::HashMap<Key, Value, Buckets>                                  *)
(* (src/include/async_toolkit/lockfree/hashmap.hpp)                        *)
(*                                                                         *)
(* An array of bucket heads, each a singly linked list of pool nodes.      *)
(* insert pushes a new node at the bucket's head with a CAS and, only when *)
(* that CAS fails, scans the bucket for the key; remove marks the first    *)
(* unmarked node of the key with an exchange and unlinks it with one CAS   *)
(* on its predecessor's next or on the bucket head; find and update scan   *)
(* for the first unmarked node of the key.  Removed nodes are never freed; *)
(* only an insert that finds its key gives its unpublished node back to    *)
(* the pool.  std::hash of an integer key is the key, so the bucket of k  *)
(* is k % Buckets.                                                         *)
(*                                                                         *)
(* Each step is one access to shared memory, except that a scan step      *)
(* reads a node's marked flag and its next (and find its value) at once;  *)
(* a node's key never changes.  compare_exchange_weak may fail spuriously: *)
(* that is a step of its own, never forced by fairness.                    *)
(***************************************************************************)
EXTENDS Naturals, FiniteSets

CONSTANTS
  Threads,          \* threads calling insert, remove, find and update
  Keys,             \* keys (natural numbers)
  Vals,             \* values
  Buckets,          \* the template parameter Buckets
  Ops,              \* bound: calls per thread
  SizeWidth,        \* bits of size_t kept: size_ is mod 2^SizeWidth
  BlocksPerChunk,   \* the node pool's blocks per chunk
  MaxChunks         \* bound: chunks the node pool may obtain

ASSUME Keys \subseteq Nat /\ Buckets \in Nat \ {0}

VARIABLES
  freeList, chunks,                    \* the node pool
  nodeKey, nodeVal, nodeNext, marked,  \* the fields of every block
  buckets, size,                       \* buckets_, size_
  pc, calls,                           \* program counter, calls made
  call,                                \* the call in progress: op, key, val
  newNode, lhead, cur, prev, lnext,    \* locals new_node, head, current, prev, next
  inserted                             \* history: nodes whose insert CAS succeeded

poolVars == <<freeList, chunks>>
nodeVars == <<nodeKey, nodeVal, nodeNext, marked>>
localVars == <<call, newNode, lhead, cur, prev, lnext>>
vars == <<poolVars, nodeVars, buckets, size, pc, calls, localVars, inserted>>

Pool == INSTANCE MemoryPool

NULL == 0
Blocks == Pool!Blocks
Ptr == Blocks \cup {NULL}
BucketIds == 0 .. Buckets - 1
Modulus == 2^SizeWidth

\* bucket = hash_(key) % Buckets
Bucket(k) == k % Buckets

Calls == [op : {"insert", "update"}, key : Keys, val : Vals]
           \cup [op : {"remove", "find"}, key : Keys, val : {NULL}]

TypeOK ==
  /\ Pool!PoolTypeOK
  /\ nodeKey \in [Blocks -> Keys \cup {NULL}] /\ nodeVal \in [Blocks -> Vals \cup {NULL}]
  /\ nodeNext \in [Blocks -> Ptr] /\ marked \in [Blocks -> BOOLEAN]
  /\ buckets \in [BucketIds -> Ptr] /\ size \in 0 .. Modulus - 1
  /\ calls \in [Threads -> 0 .. Ops] /\ call \in [Threads -> Calls]
  /\ \A f \in {newNode, lhead, cur, prev, lnext} : f \in [Threads -> Ptr]
  /\ inserted \subseteq Blocks

\* HashMap(): every bucket head null, size_ 0.
Init ==
  /\ Pool!PoolInit
  /\ nodeKey = [b \in Blocks |-> NULL] /\ nodeVal = [b \in Blocks |-> NULL]
  /\ nodeNext = [b \in Blocks |-> NULL] /\ marked = [b \in Blocks |-> FALSE]
  /\ buckets = [i \in BucketIds |-> NULL] /\ size = 0
  /\ pc = [t \in Threads |-> "idle"] /\ calls = [t \in Threads |-> 0]
  /\ call = [t \in Threads |-> [op |-> "find", key |-> CHOOSE k \in Keys : TRUE, val |-> NULL]]
  /\ newNode = [t \in Threads |-> NULL] /\ lhead = newNode /\ cur = newNode
  /\ prev = newNode /\ lnext = newNode
  /\ inserted = {}

Goto(t, l) == pc' = [pc EXCEPT ![t] = l]
Set(f, t, x) == f' = [f EXCEPT ![t] = x]
B(t) == Bucket(call[t].key)

\* The first unmarked node of the call's key, as every scan tests it.
Match(t, n) == nodeKey[n] = call[t].key /\ ~marked[n]

-----------------------------------------------------------------------------
(* insert(key, value)                                                      *)

\* pool_.allocate(key, value): Node(k, v) with next null and not marked.
insert(t) ==
  /\ pc[t] = "idle" /\ calls[t] < Ops /\ Pool!CanAllocate
  /\ \E c \in Calls : c.op = "insert" /\ Set(call, t, c)
     /\ Pool!AllocateBlock
     /\ LET n == Pool!NextBlock IN
          /\ nodeKey' = [nodeKey EXCEPT ![n] = c.key]
          /\ nodeVal' = [nodeVal EXCEPT ![n] = c.val]
          /\ nodeNext' = [nodeNext EXCEPT ![n] = NULL]
          /\ marked' = [marked EXCEPT ![n] = FALSE]
          /\ Set(newNode, t, n)
  /\ Set(calls, t, calls[t] + 1) /\ Goto(t, "ins_load")
  /\ UNCHANGED <<buckets, size, lhead, cur, prev, lnext, inserted>>

\* head = buckets_[bucket].load(); new_node->next.store(head) (the node is
\* not yet shared).
InsLoad(t) ==
  /\ pc[t] = "ins_load"
  /\ Set(lhead, t, buckets[B(t)])
  /\ nodeNext' = [nodeNext EXCEPT ![newNode[t]] = buckets[B(t)]]
  /\ Goto(t, "ins_cas")
  /\ UNCHANGED <<poolVars, nodeKey, nodeVal, marked, buckets, size, calls, call,
                 newNode, cur, prev, lnext, inserted>>

\* compare_exchange_weak(head, new_node): on failure head is reloaded and
\* the scan starts from it.
InsCas(t) ==
  /\ pc[t] = "ins_cas"
  /\ IF buckets[B(t)] = lhead[t]
       THEN /\ buckets' = [buckets EXCEPT ![B(t)] = newNode[t]]
            /\ inserted' = inserted \cup {newNode[t]}
            /\ Goto(t, "ins_count") /\ UNCHANGED <<lhead, cur>>
       ELSE /\ Set(lhead, t, buckets[B(t)]) /\ Set(cur, t, buckets[B(t)])
            /\ Goto(t, "ins_scan") /\ UNCHANGED <<buckets, inserted>>
  /\ UNCHANGED <<poolVars, nodeVars, size, calls, call, newNode, prev, lnext>>

\* A spurious failure of compare_exchange_weak: head already holds the
\* current value.
InsCasSpurious(t) ==
  /\ pc[t] = "ins_cas" /\ buckets[B(t)] = lhead[t]
  /\ Set(cur, t, lhead[t]) /\ Goto(t, "ins_scan")
  /\ UNCHANGED <<poolVars, nodeVars, buckets, size, calls, call, newNode, lhead,
                 prev, lnext, inserted>>

\* size_.fetch_add(1); return true.
InsCount(t) ==
  /\ pc[t] = "ins_count"
  /\ size' = (size + 1) % Modulus /\ Goto(t, "idle")
  /\ UNCHANGED <<poolVars, nodeVars, buckets, calls, localVars, inserted>>

\* The scan after a failed CAS: the key found unmarked gives new_node back
\* to the pool and returns false; the end of the bucket retries the CAS.
InsScan(t) ==
  /\ pc[t] = "ins_scan"
  /\ CASE cur[t] = NULL -> Goto(t, "ins_load") /\ UNCHANGED <<poolVars, cur>>
       [] Match(t, cur[t]) -> Pool!Deallocate(newNode[t]) /\ Goto(t, "idle")
                              /\ UNCHANGED cur
       [] OTHER -> Set(cur, t, nodeNext[cur[t]]) /\ UNCHANGED <<poolVars, pc>>
  /\ UNCHANGED <<nodeVars, buckets, size, calls, call, newNode, lhead, prev, lnext,
                 inserted>>

-----------------------------------------------------------------------------
(* remove(key)                                                             *)

\* head = buckets_[bucket].load(); prev = nullptr; current = head.
remove(t) ==
  /\ pc[t] = "idle" /\ calls[t] < Ops
  /\ \E k \in Keys : Set(call, t, [op |-> "remove", key |-> k, val |-> NULL])
                     /\ Set(cur, t, buckets[Bucket(k)])
  /\ Set(prev, t, NULL) /\ Set(calls, t, calls[t] + 1) /\ Goto(t, "rem_scan")
  /\ UNCHANGED <<poolVars, nodeVars, buckets, size, newNode, lhead, lnext, inserted>>

\* One iteration of the while loop: the end returns false, the key found
\* unmarked goes on to the exchange, any other node becomes prev.
RemScan(t) ==
  /\ pc[t] = "rem_scan"
  /\ CASE cur[t] = NULL -> Goto(t, "idle") /\ UNCHANGED <<cur, prev>>
       [] Match(t, cur[t]) -> Goto(t, "rem_mark") /\ UNCHANGED <<cur, prev>>
       [] OTHER -> Set(prev, t, cur[t]) /\ Set(cur, t, nodeNext[cur[t]])
                   /\ UNCHANGED pc
  /\ UNCHANGED <<poolVars, nodeVars, buckets, size, calls, call, newNode, lhead,
                 lnext, inserted>>

\* Mutant: the exchange's result ignored, so two removes both succeed.
RemMarkIgnoreResult(t) ==
  /\ pc[t] = "rem_mark"
  /\ marked' = [marked EXCEPT ![cur[t]] = TRUE] /\ Goto(t, "rem_next")
  /\ UNCHANGED <<poolVars, nodeKey, nodeVal, nodeNext, buckets, size, calls,
                 localVars, inserted>>

\* if (current->marked.exchange(true)) return false;
RemMark(t) ==
  /\ pc[t] = "rem_mark"
  /\ marked' = [marked EXCEPT ![cur[t]] = TRUE]
  /\ Goto(t, IF marked[cur[t]] THEN "idle" ELSE "rem_next")
  /\ UNCHANGED <<poolVars, nodeKey, nodeVal, nodeNext, buckets, size, calls,
                 localVars, inserted>>

\* next = current->next.load()
RemNext(t) ==
  /\ pc[t] = "rem_next"
  /\ Set(lnext, t, nodeNext[cur[t]]) /\ Goto(t, "rem_unlink")
  /\ UNCHANGED <<poolVars, nodeVars, buckets, size, calls, call, newNode, lhead,
                 cur, prev, inserted>>

\* Mutant: the unlink as a plain store of next, without the compare.
RemUnlinkStore(t) ==
  /\ pc[t] = "rem_unlink"
  /\ IF prev[t] # NULL
       THEN nodeNext' = [nodeNext EXCEPT ![prev[t]] = lnext[t]] /\ UNCHANGED buckets
       ELSE buckets' = [buckets EXCEPT ![B(t)] = lnext[t]] /\ UNCHANGED nodeNext
  /\ Goto(t, "rem_count")
  /\ UNCHANGED <<poolVars, nodeKey, nodeVal, marked, size, calls, localVars, inserted>>

\* prev->next.compare_exchange_strong(current, next), or the same CAS on
\* the bucket head when current was the first node seen.
RemUnlink(t) ==
  /\ pc[t] = "rem_unlink"
  /\ IF prev[t] # NULL
       THEN /\ nodeNext' = [nodeNext EXCEPT ![prev[t]] =
                              IF @ = cur[t] THEN lnext[t] ELSE @]
            /\ UNCHANGED buckets
       ELSE /\ buckets' = [buckets EXCEPT ![B(t)] =
                              IF @ = cur[t] THEN lnext[t] ELSE @]
            /\ UNCHANGED nodeNext
  /\ Goto(t, "rem_count")
  /\ UNCHANGED <<poolVars, nodeKey, nodeVal, marked, size, calls, localVars, inserted>>

\* size_.fetch_sub(1); return true.
RemCount(t) ==
  /\ pc[t] = "rem_count"
  /\ size' = (size + Modulus - 1) % Modulus /\ Goto(t, "idle")
  /\ UNCHANGED <<poolVars, nodeVars, buckets, calls, localVars, inserted>>

-----------------------------------------------------------------------------
(* find(key) and update(key, new_value)                                    *)

\* current = buckets_[bucket].load()
find(t) ==
  /\ pc[t] = "idle" /\ calls[t] < Ops
  /\ \E c \in Calls : c.op \in {"find", "update"} /\ Set(call, t, c)
                      /\ Set(cur, t, buckets[Bucket(c.key)])
  /\ Set(calls, t, calls[t] + 1) /\ Goto(t, "scan")
  /\ UNCHANGED <<poolVars, nodeVars, buckets, size, newNode, lhead, prev, lnext,
                 inserted>>

\* One iteration of the loop: the end returns nullopt or false; the key
\* found unmarked returns its value, or has new_value stored into it.
Scan(t) ==
  /\ pc[t] = "scan"
  /\ CASE cur[t] = NULL -> Goto(t, "idle") /\ UNCHANGED <<cur, nodeVal>>
       [] Match(t, cur[t]) ->
            /\ nodeVal' = IF call[t].op = "update"
                            THEN [nodeVal EXCEPT ![cur[t]] = call[t].val] ELSE nodeVal
            /\ Goto(t, "idle") /\ UNCHANGED cur
       [] OTHER -> Set(cur, t, nodeNext[cur[t]]) /\ UNCHANGED <<pc, nodeVal>>
  /\ UNCHANGED <<poolVars, nodeKey, nodeNext, marked, buckets, size, calls, call,
                 newNode, lhead, prev, lnext, inserted>>

-----------------------------------------------------------------------------
Step(t) ==
  \/ insert(t) \/ InsLoad(t) \/ InsCas(t) \/ InsCount(t) \/ InsScan(t)
  \/ remove(t) \/ RemScan(t) \/ RemMark(t) \/ RemNext(t)
  \/ RemUnlink(t) \/ RemCount(t)
  \/ find(t) \/ Scan(t)

Finished == \A t \in Threads : pc[t] = "idle" /\ calls[t] = Ops

Terminated == Finished /\ UNCHANGED vars

Next == (\E t \in Threads : Step(t) \/ InsCasSpurious(t)) \/ Terminated

\* A thread in a call is eventually scheduled, and nobody has to start a
\* call.  compare_exchange_weak fails spuriously only now and then: a CAS
\* that is tried again and again with the expected value in place
\* eventually succeeds (strong fairness of InsCas).
Fairness ==
  \A t \in Threads : WF_vars(pc[t] # "idle" /\ Step(t)) /\ SF_vars(InsCas(t))

Spec == Init /\ [][Next]_vars /\ Fairness

-----------------------------------------------------------------------------
(* Properties                                                              *)

RECURSIVE ChainFrom(_, _)
ChainFrom(n, k) == IF n = NULL \/ k = 0 THEN {} ELSE {n} \cup ChainFrom(nodeNext[n], k - 1)

\* The nodes reachable from bucket i.
Reachable(i) == ChainFrom(buckets[i], Cardinality(Blocks))

\* No node is lost from its bucket while it is live: every node whose
\* insert CAS succeeded and that no remove has marked is reachable from its
\* bucket's head, although removes of neighbouring nodes unlink with CASes
\* on next fields that other removes are changing.
NoLostNode ==
  \A n \in inserted : ~marked[n] => n \in Reachable(Bucket(nodeKey[n]))

\* When no call is in progress, size_ is the number of live nodes: every
\* successful insert is counted once and every node is removed (returning
\* true) at most once, although two removes can race for the same node.
SizeCounted ==
  (\A t \in Threads : pc[t] = "idle") =>
    size = Cardinality({n \in inserted : ~marked[n]}) % Modulus

\* Every call a thread starts returns under fair scheduling: insert's retry
\* loop after a failed CAS ends once the other threads stop changing the
\* bucket head, and no scan follows a cycle of next pointers.
AllCallsReturn == \A t \in Threads : pc[t] # "idle" ~> pc[t] = "idle"

\* size() never returns more than the nodes ever inserted: no fetch_sub
\* takes size_ below zero.  A remove can count a node down before its
\* insert has counted it up, so it does not hold.
SizeNeverWraps == size <= Cardinality(inserted)

\* What insert's scan after a failed CAS is for: a key has at most one
\* live node.  insert looks for the key only when its CAS fails, so an
\* insert of a key already present adds a second node.
NoDuplicateKeys ==
  \A i \in BucketIds : \A m, n \in Reachable(i) :
    m # n /\ ~marked[m] /\ ~marked[n] => nodeKey[m] # nodeKey[n]
=============================================================================
