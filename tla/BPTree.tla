------------------------------- MODULE BPTree -------------------------------
(***************************************************************************)
(* lockfree::BPlusTree<Key, Value, Order> (lockfree/bptree.hpp).           *)
(*                                                                         *)
(* The tree's fields are std::atomic, but no operation uses a CAS or any   *)
(* other synchronisation: two calls that run at once race on the shifting *)
(* loops and on size.  The model therefore has one caller, and each public *)
(* call (insert, remove, find, range_query) is one step computed by the    *)
(* operators below, which follow the code statement by statement on the    *)
(* fixed-size arrays of the nodes.                                         *)
(*                                                                         *)
(* Leaves come from leaf_pool_ and internal nodes from internal_pool_, two *)
(* MemoryPools: a pointer is <<"leaf", b>> or <<"inner", b>> for block b   *)
(* of that pool.  A freed node keeps its fields until its block is handed  *)
(* out again and a new node is constructed in it.  Key{} and Value{} are   *)
(* 0, the keys are 1..MaxKey and the values are Vals.  Node::parent is     *)
(* written but never read, so only the null dereferences of the stores to *)
(* it are kept.  A call that dereferences null, or loops with size_t       *)
(* wrapped below zero, ends the program: `heap.fault` is set and no step  *)
(* follows.                                                                *)
(***************************************************************************)
EXTENDS Naturals, Sequences

CONSTANTS
  MaxKey,        \* the keys are 1 .. MaxKey
  Vals,          \* values passed to insert
  NoValue,       \* std::nullopt
  Order,         \* the template parameter Order
  LeafBlocks,    \* bound: blocks of leaf_pool_'s first chunk the model uses
  InnerBlocks,   \* bound: the same for internal_pool_
  MaxCalls,      \* bound: calls the caller makes
  Calls          \* the kinds of call the caller makes

ASSUME Order > 2                                  \* static_assert, line 14
ASSUME Calls \subseteq {"insert", "remove", "find", "range"}
ASSUME 0 \notin Vals /\ NoValue \notin Vals \cup {0}

Keys == 1 .. MaxKey
Null == <<"null", 0>>
LeafPtr(b) == <<"leaf", b>>
InnerPtr(b) == <<"inner", b>>
IsLeaf(p) == p[1] = "leaf"
IsInner(p) == p[1] = "inner"

\* MemoryPool::allocate_block on a free list and chunk count: when the
\* list is empty, allocate_chunk threads the blocks of a new chunk of n
\* blocks onto it, first block on top; the top block is handed out.
Refill(free, chunks, n) ==
  IF free = <<>> THEN [i \in 1 .. n |-> chunks * n + i] ELSE free

Ptrs == {Null} \cup {LeafPtr(b) : b \in 1 .. LeafBlocks}
                \cup {InnerPtr(b) : b \in 1 .. InnerBlocks}

\* A LeafNode and an InternalNode as their constructors leave them.
NewLeaf ==
  [size |-> 0, keys |-> [i \in 0 .. Order - 1 |-> 0],
   vals |-> [i \in 0 .. Order - 1 |-> 0], next |-> Null]
NewInner ==
  [size |-> 0, keys |-> [i \in 0 .. Order - 1 |-> 0],
   kids |-> [i \in 0 .. Order |-> Null]]

VARIABLES
  heap,     \* root_, every node of both pools, the pools' free lists, fault
  last,     \* the last call and its result
  calls     \* calls made

vars == <<heap, last, calls>>

NoCall == [op |-> "none", key |-> 0, arg |-> 0, ret |-> 0]

-----------------------------------------------------------------------------
(* Arrays.  Each is a loop of the code over a node's keys, values or      *)
(* children, with the bounds the loop has.                                 *)

\* for (i = hi; i > lo; --i) f[i] = f[i-1]
ShiftUp(f, lo, hi) == [i \in DOMAIN f |-> IF lo < i /\ i <= hi THEN f[i - 1] ELSE f[i]]

\* for (i = lo; i < hi; ++i) f[i] = f[i+1]
ShiftDown(f, lo, hi) == [i \in DOMAIN f |-> IF lo <= i /\ i < hi THEN f[i + 1] ELSE f[i]]

\* for (i = 0; i < n; ++i) dst[at + i] = src[from + i]
CopyIn(dst, at, src, from, n) ==
  [i \in DOMAIN dst |-> IF at <= i /\ i < at + n THEN src[from + i - at] ELSE dst[i]]

\* The scan `while (pos < size && keys[pos] < key) ++pos` (strict) or with
\* <= (find_child).
ScanPos(keys, size, key, strict) ==
  LET before(x) == IF strict THEN x < key ELSE x <= key
  IN  CHOOSE p \in 0 .. size :
        /\ \A i \in 0 .. p - 1 : before(keys[i])
        /\ p = size \/ ~before(keys[p])

-----------------------------------------------------------------------------
(* LeafNode and InternalNode, on a node record.                            *)

FindPosition(l, key) == ScanPos(l.keys, l.size, key, TRUE)

LeafInsert(l, key, value) ==
  LET pos == FindPosition(l, key) IN
  IF pos < l.size /\ l.keys[pos] = key
  THEN [ok |-> TRUE, node |-> [l EXCEPT !.vals[pos] = value]]
  ELSE IF l.size >= Order
  THEN [ok |-> FALSE, node |-> l]
  ELSE [ok |-> TRUE,
        node |-> [l EXCEPT !.keys = [ShiftUp(@, pos, l.size) EXCEPT ![pos] = key],
                           !.vals = [ShiftUp(@, pos, l.size) EXCEPT ![pos] = value],
                           !.size = @ + 1]]

LeafFind(l, key) ==
  LET pos == FindPosition(l, key)
  IN  IF pos < l.size /\ l.keys[pos] = key THEN l.vals[pos] ELSE NoValue

LeafRemove(l, key) ==
  LET pos == FindPosition(l, key) IN
  IF pos >= l.size \/ l.keys[pos] # key
  THEN [ok |-> FALSE, node |-> l]
  ELSE [ok |-> TRUE,
        node |-> [l EXCEPT !.keys = ShiftDown(@, pos, l.size - 1),
                           !.vals = ShiftDown(@, pos, l.size - 1),
                           !.size = @ - 1]]

FindChild(n, key) == n.kids[ScanPos(n.keys, n.size, key, FALSE)]

\* insert_child; child->parent is not kept (the child is never null here).
InsertChild(n, key, child) ==
  IF n.size >= Order
  THEN [ok |-> FALSE, node |-> n]
  ELSE LET pos == ScanPos(n.keys, n.size, key, TRUE) IN
       [ok |-> TRUE,
        node |-> [n EXCEPT !.keys = [ShiftUp(@, pos, n.size) EXCEPT ![pos] = key],
                           !.kids = [ShiftUp(@, pos + 1, n.size + 1) EXCEPT ![pos + 1] = child],
                           !.size = @ + 1]]

-----------------------------------------------------------------------------
(* The tree, on a heap record h.                                           *)

Leaf(h, p) == h.leaves[p[2]]
Inner(h, p) == h.inner[p[2]]
SizeOf(h, p) == IF IsLeaf(p) THEN Leaf(h, p).size ELSE Inner(h, p).size

Fault(h) == [h EXCEPT !.fault = TRUE]

\* create_leaf_node / create_internal_node: the block allocate hands out,
\* and the heap with a new node constructed in it.
NextLeaf(h) == LeafPtr(Head(Refill(h.lfree, h.lchunks, LeafBlocks)))
NextInner(h) == InnerPtr(Head(Refill(h.ifree, h.ichunks, InnerBlocks)))

\* Blocks a pool can still hand out within its first chunk.
Available(free, chunks, n) == Len(free) + (IF chunks = 0 THEN n ELSE 0)

CreateLeafNode(h) ==
  [h EXCEPT !.lfree = Tail(Refill(@, h.lchunks, LeafBlocks)),
            !.lchunks = IF h.lfree = <<>> THEN @ + 1 ELSE @,
            !.leaves[NextLeaf(h)[2]] = NewLeaf]
CreateInternalNode(h) ==
  [h EXCEPT !.ifree = Tail(Refill(@, h.ichunks, InnerBlocks)),
            !.ichunks = IF h.ifree = <<>> THEN @ + 1 ELSE @,
            !.inner[NextInner(h)[2]] = NewInner]

\* deallocate: ~T() leaves the fields as they were; the block is pushed.
FreeLeaf(h, p) == [h EXCEPT !.lfree = <<p[2]>> \o @]
FreeInner(h, p) == [h EXCEPT !.ifree = <<p[2]>> \o @]

\* find_leaf_node: the leaf reached from root_ through find_child, and the
\* internal nodes passed.  The leaf is Null when the walk meets a null
\* child (current->is_leaf then dereferences null); a walk longer than
\* there are internal nodes is a cycle, which the code never leaves.
RECURSIVE Descend(_, _, _, _)
Descend(h, cur, path, key) ==
  IF cur = Null \/ Len(path) > InnerBlocks THEN [leaf |-> Null, path |-> path]
  ELSE IF IsLeaf(cur) THEN [leaf |-> cur, path |-> path]
  ELSE Descend(h, FindChild(Inner(h, cur), key), Append(path, cur), key)

FindLeafNode(h, key) == Descend(h, h.root, <<>>, key)

Front(s) == SubSeq(s, 1, Len(s) - 1)
Last(s) == s[Len(s)]

\* split_leaf_node(p) into the new leaf q.
SplitLeafNode(h, p, q) ==
  LET l == Leaf(h, p)
      mid == l.size \div 2
  IN  [h EXCEPT !.leaves[q[2]] =
                  [@ EXCEPT !.keys = CopyIn(@, 0, l.keys, mid, l.size - mid),
                            !.vals = CopyIn(@, 0, l.vals, mid, l.size - mid),
                            !.size = l.size - mid],
                !.leaves[p[2]].size = mid]

\* insert_in_parent.  Every path through it returns true, so the retry of
\* insert (lines 156-158) never happens.  When the parent is full, the
\* code moves keys[mid+1 .. size-1] and children[mid+1 .. size-1] to
\* positions 0.. of the new node, then children[size] to position
\* size-mid: children[size-mid-1] of the new node is never written, and
\* the key and node being inserted are inserted nowhere.
RECURSIVE InsertInParent(_, _, _, _, _)
InsertInParent(h, left, key, right, path) ==
  IF path = <<>>
  THEN LET r == NextInner(h)
           h1 == CreateInternalNode(h)
           n == InsertChild([Inner(h1, r) EXCEPT !.kids[0] = left], key, right).node
       IN  [h1 EXCEPT !.inner[r[2]] = n, !.root = r]
  ELSE
  LET p == Last(path)
      ins == InsertChild(Inner(h, p), key, right)
  IN  IF ins.ok THEN [h EXCEPT !.inner[p[2]] = ins.node]
      ELSE LET q == NextInner(h)
               h1 == CreateInternalNode(h)
               n == Inner(h1, p)
               mid == n.size \div 2
               moved == n.size - mid - 1
               np == [Inner(h1, q) EXCEPT
                        !.keys = CopyIn(@, 0, n.keys, mid + 1, moved),
                        !.kids = [CopyIn(@, 0, n.kids, mid + 1, moved)
                                    EXCEPT ![n.size - mid] = n.kids[n.size]],
                        !.size = moved]
           IN  InsertInParent([h1 EXCEPT !.inner[q[2]] = np, !.inner[p[2]].size = mid],
                              p, n.keys[mid], q, Front(path))

\* insert(key, value): the heap after it.  The return value is always true.
DoInsert(h, key, value) ==
  LET f == FindLeafNode(h, key) IN
  IF f.leaf = Null THEN Fault(h)
  ELSE LET r == LeafInsert(Leaf(h, f.leaf), key, value) IN
  IF r.ok THEN [h EXCEPT !.leaves[f.leaf[2]] = r.node]
  ELSE LET q == NextLeaf(h)
           h1 == SplitLeafNode(CreateLeafNode(h), f.leaf, q)
           h2 == [h1 EXCEPT !.leaves[q[2]].next = Leaf(h1, f.leaf).next,
                            !.leaves[f.leaf[2]].next = q]
       IN  InsertInParent(h2, f.leaf, Leaf(h2, q).keys[0], q, f.path)

\* The bound on the pools: insert(key) allocates at most one leaf and one
\* internal node for each level above it and a new root.
InsertFits(h, key) ==
  /\ Available(h.lfree, h.lchunks, LeafBlocks) >= 1
  /\ Available(h.ifree, h.ichunks, InnerBlocks) >= Len(FindLeafNode(h, key).path) + 1

-----------------------------------------------------------------------------
(* remove and the rebalancing after it.                                    *)

\* The `while (node_pos <= parent->size && children[node_pos] != node)`
\* scan: size + 1 when node is not a child of the parent.
NodePos(n, node) ==
  CHOOSE i \in 0 .. n.size + 1 :
    /\ \A j \in 0 .. i - 1 : n.kids[j] # node
    /\ i = n.size + 1 \/ n.kids[i] = node

\* The branch merge_nodes and merge_internal_node take, in the order the
\* code tests them, for the child at pos of parent node par whose siblings
\* are of the given kind.  Reading the size of a null sibling, or of a node
\* of the other kind, is "fault".
Branch(h, par, pos, kind) ==
  LET half == Order \div 2
      bad(i) == par.kids[i] = Null \/ par.kids[i][1] # kind
  IN  IF pos > 0 /\ bad(pos - 1) THEN "fault"
      ELSE IF pos > 0 /\ SizeOf(h, par.kids[pos - 1]) > half THEN "borrow_left"
      ELSE IF pos < par.size /\ bad(pos + 1) THEN "fault"
      ELSE IF pos < par.size /\ SizeOf(h, par.kids[pos + 1]) > half THEN "borrow_right"
      ELSE IF pos > 0 THEN "merge_left"
      ELSE IF bad(pos + 1) THEN "fault"
      ELSE "merge_right"

\* Remove key i and child i+1 of parent p (the loops at lines 363-367 and
\* their copies).  With parent->size 0 the bound size-1 wraps and the loop
\* runs off the arrays.
RemoveFromParent(h, p, i) ==
  LET n == Inner(h, p) IN
  IF n.size = 0 THEN Fault(h)
  ELSE [h EXCEPT !.inner[p[2]] = [n EXCEPT !.keys = ShiftDown(@, i, n.size - 1),
                                           !.kids = ShiftDown(@, i + 1, n.size),
                                           !.size = @ - 1]]


\* merge_internal_node(n, path), after n's size fell below Order/2.
RECURSIVE MergeInternalNode(_, _, _)
MergeInternalNode(h, n, path) ==
  LET nd == Inner(h, n)
      half == Order \div 2
  IN
  IF path = <<>>
  THEN IF n = h.root /\ nd.size = 0
       THEN FreeInner([h EXCEPT !.root = nd.kids[0]], n)
       ELSE h
  ELSE
  LET p == Last(path)
      par == Inner(h, p)
      pos == NodePos(par, n)
      lp == par.kids[pos - 1]
      rp == par.kids[pos + 1]
      ls == Inner(h, lp)
      rs == Inner(h, rp)
      \* After the sibling's nodes were moved under the merged node, the
      \* parent loses the separator; it is rebalanced in turn, then the
      \* emptied node is freed.
      Unlink(h1, i, gone) ==
        LET h2 == RemoveFromParent(h1, p, i)
            h3 == IF ~h2.fault /\ Inner(h2, p).size < half
                  THEN MergeInternalNode(h2, p, Front(path)) ELSE h2
        IN  IF h2.fault THEN h2 ELSE FreeInner(h3, gone)
      br == Branch(h, par, pos, "inner")
  IN
  IF br = "fault" THEN Fault(h)
  ELSE IF br = "borrow_left"
  THEN \* the separator comes down, ls's last key goes up, its last child over
       LET c == ls.kids[ls.size] IN
       IF c = Null THEN Fault(h)          \* c->parent.store(node)
       ELSE [h EXCEPT
               !.inner[n[2]] =
                 [nd EXCEPT !.keys = [ShiftUp(@, 0, nd.size) EXCEPT ![0] = par.keys[pos - 1]],
                            !.kids = [ShiftUp(@, 1, nd.size + 1) EXCEPT ![1] = nd.kids[0], ![0] = c],
                            !.size = @ + 1],
               !.inner[lp[2]].size = @ - 1,
               !.inner[p[2]].keys[pos - 1] = ls.keys[ls.size - 1]]
  ELSE IF br = "borrow_right"
  THEN LET c == rs.kids[0] IN
       IF c = Null THEN Fault(h)
       ELSE [h EXCEPT
               !.inner[n[2]] = [nd EXCEPT !.keys[nd.size] = par.keys[pos],
                                          !.kids[nd.size + 1] = c,
                                          !.size = @ + 1],
               \* the loop at 469-472 and the store at 473-474
               !.inner[rp[2]] = [rs EXCEPT !.keys = ShiftDown(@, 0, rs.size - 1),
                                           !.kids = ShiftDown(@, 0, rs.size),
                                           !.size = @ - 1],
               !.inner[p[2]].keys[pos] = rs.keys[0]]
  ELSE IF br = "merge_left"
  THEN IF \E i \in 0 .. nd.size : nd.kids[i] = Null THEN Fault(h)
       ELSE Unlink([h EXCEPT !.inner[lp[2]] =
                      [ls EXCEPT !.keys = [CopyIn(@, ls.size + 1, nd.keys, 0, nd.size)
                                             EXCEPT ![ls.size] = par.keys[pos - 1]],
                                 !.kids = CopyIn(@, ls.size + 1, nd.kids, 0, nd.size + 1),
                                 !.size = ls.size + 1 + nd.size]],
                   pos - 1, n)
  ELSE IF \E i \in 0 .. rs.size : rs.kids[i] = Null THEN Fault(h)
       ELSE Unlink([h EXCEPT !.inner[n[2]] =
                      [nd EXCEPT !.keys = [CopyIn(@, nd.size + 1, rs.keys, 0, rs.size)
                                             EXCEPT ![nd.size] = par.keys[pos]],
                                 !.kids = CopyIn(@, nd.size + 1, rs.kids, 0, rs.size + 1),
                                 !.size = nd.size + 1 + rs.size]],
                   pos, rp)

\* merge_nodes(n, path), after leaf n's size fell below Order/2.
MergeNodes(h, n, path) ==
  IF path = <<>> THEN h
  ELSE
  LET l == Leaf(h, n)
      half == Order \div 2
      p == Last(path)
      par == Inner(h, p)
      pos == NodePos(par, n)
      lp == par.kids[pos - 1]
      rp == par.kids[pos + 1]
      ls == Leaf(h, lp)
      rs == Leaf(h, rp)
      Unlink(h1, i, gone) ==
        LET h2 == RemoveFromParent(h1, p, i)
            h3 == IF ~h2.fault /\ Inner(h2, p).size < half
                  THEN MergeInternalNode(h2, p, Front(path)) ELSE h2
        IN  IF h2.fault THEN h2 ELSE FreeLeaf(h3, gone)
      br == Branch(h, par, pos, "leaf")
  IN
  IF br = "fault" THEN Fault(h)
  ELSE IF br = "borrow_left"
  THEN LET lastIdx == ls.size - 1
           nl == [l EXCEPT !.keys = [ShiftUp(@, 0, l.size) EXCEPT ![0] = ls.keys[lastIdx]],
                           !.vals = [ShiftUp(@, 0, l.size) EXCEPT ![0] = ls.vals[lastIdx]],
                           !.size = @ + 1]
       IN  [h EXCEPT !.leaves[n[2]] = nl, !.leaves[lp[2]].size = @ - 1,
                     !.inner[p[2]].keys[pos - 1] = nl.keys[0]]
  ELSE IF br = "borrow_right"
  THEN LET nr == [rs EXCEPT !.keys = ShiftDown(@, 0, rs.size - 1),
                            !.vals = ShiftDown(@, 0, rs.size - 1),
                            !.size = @ - 1]
       IN  [h EXCEPT !.leaves[n[2]] = [l EXCEPT !.keys[l.size] = rs.keys[0],
                                                !.vals[l.size] = rs.vals[0],
                                                !.size = @ + 1],
                     !.leaves[rp[2]] = nr,
                     !.inner[p[2]].keys[pos] = nr.keys[0]]
  ELSE IF br = "merge_left"
  THEN Unlink([h EXCEPT !.leaves[lp[2]] =
                 [ls EXCEPT !.keys = CopyIn(@, ls.size, l.keys, 0, l.size),
                            !.vals = CopyIn(@, ls.size, l.vals, 0, l.size),
                            !.size = @ + l.size,
                            !.next = l.next]],
              pos - 1, n)
  ELSE Unlink([h EXCEPT !.leaves[n[2]] =
                 [l EXCEPT !.keys = CopyIn(@, l.size, rs.keys, 0, rs.size),
                           !.vals = CopyIn(@, l.size, rs.vals, 0, rs.size),
                           !.size = @ + rs.size,
                           !.next = rs.next]],
              pos, rp)

\* remove(key): the heap after it and the value returned.
DoRemove(h, key) ==
  LET f == FindLeafNode(h, key) IN
  IF f.leaf = Null THEN [heap |-> Fault(h), ret |-> FALSE]
  ELSE LET r == LeafRemove(Leaf(h, f.leaf), key)
           h1 == [h EXCEPT !.leaves[f.leaf[2]] = r.node]
       IN  [heap |-> IF r.ok /\ r.node.size < Order \div 2
                     THEN MergeNodes(h1, f.leaf, f.path) ELSE h1,
            ret |-> r.ok]


-----------------------------------------------------------------------------
(* find and range_query.                                                   *)

\* find(key): the value, or NoValue; also NoValue when the walk to the leaf
\* faults (the call then never returns).
Lookup(h, key) ==
  LET f == FindLeafNode(h, key)
  IN  IF f.leaf = Null THEN NoValue ELSE LeafFind(Leaf(h, f.leaf), key)

\* The loop of range_query from leaf p along next_leaf: the pairs emitted,
\* and whether the walk never ends.  A walk through more leaves than the
\* pool has blocks has entered a cycle; it ends only at a key above hi.
RECURSIVE Walk(_, _, _, _, _)
Walk(h, p, lo, hi, fuel) ==
  IF p = Null THEN [out |-> <<>>, hung |-> FALSE]
  ELSE IF fuel = 0 THEN [out |-> <<>>, hung |-> TRUE]
  ELSE
  LET l == Leaf(h, p)
      stop == {i \in 0 .. l.size - 1 : l.keys[i] > hi}
      upto == IF stop = {} THEN l.size ELSE CHOOSE i \in stop : \A j \in stop : i <= j
      out == SelectSeq([j \in 1 .. upto |-> <<l.keys[j - 1], l.vals[j - 1]>>],
                       LAMBDA e : e[1] >= lo)
      rest == Walk(h, l.next, lo, hi, fuel - 1)
  IN  IF stop # {} THEN [out |-> out, hung |-> FALSE]
      ELSE [out |-> out \o rest.out, hung |-> rest.hung]

-----------------------------------------------------------------------------
TypeOK ==
  /\ heap.root \in Ptrs \ {Null}
  /\ \A b \in DOMAIN heap.leaves :
       heap.leaves[b].size \in 0 .. Order /\ heap.leaves[b].next \in Ptrs
  /\ \A b \in DOMAIN heap.inner :
       /\ heap.inner[b].size \in 0 .. Order
       /\ \A i \in 0 .. Order : heap.inner[b].kids[i] \in Ptrs
  /\ heap.fault \in BOOLEAN
  /\ calls \in 0 .. MaxCalls

(* BPlusTree(): root_(create_leaf_node()).  root_ is declared before the   *)
(* pools, so this allocate runs on leaf_pool_ before its constructor,      *)
(* which then sets free_list_ back to null: the root leaf sits in a chunk  *)
(* the pool no longer knows (block 0 here), and the pool starts empty.     *)
(* This is the outcome on zeroed storage; on other storage the             *)
(* behaviour is undefined.                                                 *)
Init ==
  /\ heap = [root |-> LeafPtr(0),
             leaves |-> [b \in 0 .. LeafBlocks |-> NewLeaf],
             inner |-> [b \in 1 .. InnerBlocks |-> NewInner],
             lfree |-> <<>>, lchunks |-> 0,
             ifree |-> <<>>, ichunks |-> 0,
             fault |-> FALSE]
  /\ last = NoCall
  /\ calls = 0

Call(kind) == kind \in Calls /\ calls < MaxCalls /\ ~heap.fault /\ calls' = calls + 1

\* A call that faults never returns: last keeps the previous call.
Returns(h, result) ==
  /\ heap' = h
  /\ last' = IF h.fault THEN last ELSE result

Insert(k, v) ==
  /\ Call("insert")
  /\ InsertFits(heap, k)
  /\ Returns(DoInsert(heap, k, v), [op |-> "insert", key |-> k, arg |-> v, ret |-> TRUE])

Remove(k) ==
  /\ Call("remove")
  /\ LET r == DoRemove(heap, k)
     IN  Returns(r.heap, [op |-> "remove", key |-> k, arg |-> 0, ret |-> r.ret])

Find(k) ==
  /\ Call("find")
  /\ LET f == FindLeafNode(heap, k)
     IN  Returns(IF f.leaf = Null THEN Fault(heap) ELSE heap,
                 [op |-> "find", key |-> k, arg |-> 0, ret |-> Lookup(heap, k)])

RangeQuery(lo, hi) ==
  /\ Call("range")
  /\ LET f == FindLeafNode(heap, lo)
         w == Walk(heap, f.leaf, lo, hi, LeafBlocks + 1)
     IN  Returns(IF f.leaf = Null \/ w.hung THEN Fault(heap) ELSE heap,
                 [op |-> "range", key |-> lo, arg |-> hi, ret |-> w.out])

\* The caller is done, or the program has crashed or hangs.
Terminated == (calls = MaxCalls \/ heap.fault) /\ UNCHANGED vars

Next ==
  \/ \E k \in Keys :
       \/ \E v \in Vals : Insert(k, v)
       \/ Remove(k)
       \/ Find(k)
       \/ \E hi \in k .. MaxKey : RangeQuery(k, hi)
  \/ Terminated

Spec == Init /\ [][Next]_vars

-----------------------------------------------------------------------------
(* Properties                                                              *)

AM == INSTANCE AbstractMap WITH map <- [k \in Keys |-> Lookup(heap, k)]

\* The tree implements the ordered map its interface promises: after each
\* call, find of every key gives the value of the last insert of that key
\* not removed since, and each call's result (insert's true, remove's
\* found-or-not, find's value, range_query's pairs in key order) is the
\* map's.  An insert whose key is not then found breaks it.
ImplementsMap == AM!Spec

\* No call dereferences null, runs a loop with a wrapped size_t bound, or
\* walks the leaf list for ever: every call of insert, remove, find and
\* range_query returns.
NoFault == ~heap.fault

=============================================================================
