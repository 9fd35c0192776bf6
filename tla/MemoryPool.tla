----------------------------- MODULE MemoryPool -----------------------------
(***************************************************************************)
(* memory::MemoryPool<T> (src/include/async_toolkit/memory/memory_pool.hpp)*)
(*                                                                         *)
(* A typed slab allocator: chunks of fixed-size blocks threaded on an      *)
(* intrusive LIFO free list guarded by one mutex.  Every operation is one  *)
(* critical section, so each is a single atomic step here.  Blocks are the *)
(* numbers 1..BlocksPerChunk*MaxChunks; chunk k holds the k-th run of      *)
(* BlocksPerChunk of them.  The free-list link lives in Block::next, after *)
(* the BlockSize payload, so it never overlaps the object stored in the    *)
(* block: a freed object keeps its last field values until the block is    *)
(* handed out again.                                                       *)
(*                                                                         *)
(* The module has no specification of its own: the structures that own a  *)
(* pool (MPMCQueue, MPMCChannel) INSTANCE it and use its operators inside  *)
(* their own steps.                                                        *)
(***************************************************************************)
EXTENDS Naturals, Sequences

CONSTANTS
  BlocksPerChunk,   \* blocks threaded onto the free list by one allocate_chunk
  MaxChunks         \* bound: chunks the model lets the pool obtain from new

ASSUME BlocksPerChunk \in Nat \ {0} /\ MaxChunks \in Nat \ {0}

VARIABLES
  freeList,         \* free_list_, top of the stack first
  chunks            \* chunks_.size()

Blocks == 1 .. BlocksPerChunk * MaxChunks

\* The blocks of the k-th chunk in the order allocate_chunk links them:
\* blocks[0] becomes the new top and blocks.back() points at the old top.
ChunkBlocks(k) == [i \in 1 .. BlocksPerChunk |-> (k - 1) * BlocksPerChunk + i]

PoolInit ==
  /\ freeList = <<>>
  /\ chunks = 0

\* allocate_block with its call of allocate_chunk when free_list_ is null.
\* The block it returns is NextBlock.
StackAfterRefill ==
  IF freeList = <<>> THEN ChunkBlocks(chunks + 1) \o freeList ELSE freeList

NextBlock == Head(StackAfterRefill)

CanAllocate == freeList # <<>> \/ chunks < MaxChunks

AllocateBlock ==
  /\ CanAllocate
  /\ freeList' = Tail(StackAfterRefill)
  /\ chunks' = IF freeList = <<>> THEN chunks + 1 ELSE chunks

\* deallocate(ptr): push the block on the free list (ptr is never null here).
Deallocate(b) ==
  /\ freeList' = <<b>> \o freeList
  /\ UNCHANGED chunks

\* Blocks handed out by allocate and not yet returned.
Issued == { b \in 1 .. chunks * BlocksPerChunk :
              \A i \in 1 .. Len(freeList) : freeList[i] # b }

PoolTypeOK ==
  /\ freeList \in Seq(Blocks)
  /\ chunks \in 0 .. MaxChunks
=============================================================================
