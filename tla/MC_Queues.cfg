\* MPMCQueue, lockfree::Queue and HashMap in the configurations listed in
\* MC_Queues; the constants of each are fixed there.
CONSTANTS
  p1 = p1
  p2 = p2
  c1 = c1

SPECIFICATION Spec
INVARIANT TypeOK
INVARIANT HashMapNoLostNode
INVARIANT HashMapSizeCounted
PROPERTY QueueLinearizable
PROPERTY NoWriteToFreedNode
PROPERTY LFQueueLinearizable
PROPERTY AllCallsReturn
