------------------------------ MODULE MC_Queues ------------------------------
(***************************************************************************)
(* The passing configurations of the two Michael-Scott queues in one       *)
(* model: Init picks a configuration, and every later step is a step of    *)
(* that configuration's instance while the others' variables keep their   *)
(* initial values.  A behaviour of this module is a behaviour of exactly   *)
(* one instance, so each property below is a property of the instances it *)
(* names.                                                                  *)
(*                                                                         *)
(*   QS  MPMCQueue, one producer and one consumer, 4 calls each            *)
(*   QM  MPMCQueue, two producers and one consumer (AsyncLogger's shape)   *)
(*   LS  lockfree::Queue, one producer and one consumer, 4 calls each      *)
(*   HM  lockfree::HashMap, one bucket, two threads, one key, 2 calls each  *)
(*       each                                                              *)
(***************************************************************************)
EXTENDS Naturals

CONSTANTS p1, p2, c1

VARIABLES
  shape,   \* the configuration this behaviour runs
  \* MPMCQueue spsc
  qsFreeList, qsChunks, qsNodeNext, qsNodeData, qsHead, qsTail, qsSize,
  qsPc, qsAttempts, qsNode, qsLtail, qsLhead, qsLnext, qsValue, qsReceived,
  \* MPMCQueue mpsc
  qmFreeList, qmChunks, qmNodeNext, qmNodeData, qmHead, qmTail, qmSize,
  qmPc, qmAttempts, qmNode, qmLtail, qmLhead, qmLnext, qmValue, qmReceived,
  \* lockfree::Queue spsc
  lsDeleted, lsUsed, lsNodeNext, lsNodeData, lsHead, lsTail, lsSize, lsPc,
  lsAttempts, lsNode, lsLtail, lsLhead, lsLnext, lsValue, lsReceived,
  \* lockfree::HashMap
  hmFreeList, hmChunks, hmNodeKey, hmNodeVal, hmNodeNext, hmMarked,
  hmBuckets, hmSize, hmPc, hmCalls, hmCall, hmNewNode, hmLhead, hmCur,
  hmPrev, hmLnext, hmInserted

qsVars ==
  <<qsFreeList, qsChunks, qsNodeNext, qsNodeData, qsHead, qsTail, qsSize,
    qsPc, qsAttempts, qsNode, qsLtail, qsLhead, qsLnext, qsValue, qsReceived>>
qmVars ==
  <<qmFreeList, qmChunks, qmNodeNext, qmNodeData, qmHead, qmTail, qmSize,
    qmPc, qmAttempts, qmNode, qmLtail, qmLhead, qmLnext, qmValue, qmReceived>>
lsVars ==
  <<lsDeleted, lsUsed, lsNodeNext, lsNodeData, lsHead, lsTail, lsSize, lsPc,
    lsAttempts, lsNode, lsLtail, lsLhead, lsLnext, lsValue, lsReceived>>
hmVars ==
  <<hmFreeList, hmChunks, hmNodeKey, hmNodeVal, hmNodeNext, hmMarked,
    hmBuckets, hmSize, hmPc, hmCalls, hmCall, hmNewNode, hmLhead, hmCur,
    hmPrev, hmLnext, hmInserted>>
vars == <<shape, qsVars, qmVars, lsVars, hmVars>>

QS == INSTANCE MPMCQueue
  WITH Producers <- {p1}, Consumers <- {c1}, Capacity <- 2,
       ProducerOps <- 4, ConsumerOps <- 4, SizeWidth <- 3,
       BlocksPerChunk <- 2, MaxChunks <- 2, freeList <- qsFreeList,
       chunks <- qsChunks, nodeNext <- qsNodeNext, nodeData <- qsNodeData,
       head <- qsHead, tail <- qsTail, size <- qsSize, pc <- qsPc,
       attempts <- qsAttempts, node <- qsNode, ltail <- qsLtail,
       lhead <- qsLhead, lnext <- qsLnext, value <- qsValue,
       received <- qsReceived

QM == INSTANCE MPMCQueue
  WITH Producers <- {p1, p2}, Consumers <- {c1}, Capacity <- 2,
       ProducerOps <- 2, ConsumerOps <- 2, SizeWidth <- 3,
       BlocksPerChunk <- 2, MaxChunks <- 3, freeList <- qmFreeList,
       chunks <- qmChunks, nodeNext <- qmNodeNext, nodeData <- qmNodeData,
       head <- qmHead, tail <- qmTail, size <- qmSize, pc <- qmPc,
       attempts <- qmAttempts, node <- qmNode, ltail <- qmLtail,
       lhead <- qmLhead, lnext <- qmLnext, value <- qmValue,
       received <- qmReceived

LS == INSTANCE LFQueue
  WITH Producers <- {p1}, Consumers <- {c1}, ProducerOps <- 4,
       ConsumerOps <- 4, SizeWidth <- 3, MaxBlocks <- 5,
       deleted <- lsDeleted, used <- lsUsed, nodeNext <- lsNodeNext,
       nodeData <- lsNodeData, head <- lsHead, tail <- lsTail,
       size <- lsSize, pc <- lsPc, attempts <- lsAttempts, node <- lsNode,
       ltail <- lsLtail, lhead <- lsLhead, lnext <- lsLnext,
       value <- lsValue, received <- lsReceived

HM == INSTANCE HashMap
  WITH Threads <- {p1, p2}, Keys <- {1}, Vals <- {1}, Buckets <- 1,
       Ops <- 2, SizeWidth <- 3, BlocksPerChunk <- 2, MaxChunks <- 2,
       freeList <- hmFreeList, chunks <- hmChunks, nodeKey <- hmNodeKey,
       nodeVal <- hmNodeVal, nodeNext <- hmNodeNext, marked <- hmMarked,
       buckets <- hmBuckets, size <- hmSize, pc <- hmPc, calls <- hmCalls,
       call <- hmCall, newNode <- hmNewNode, lhead <- hmLhead, cur <- hmCur,
       prev <- hmPrev, lnext <- hmLnext, inserted <- hmInserted

Init ==
  /\ shape \in {"qs", "qm", "ls", "hm"}
  /\ QS!Init /\ QM!Init /\ LS!Init /\ HM!Init

QSStep == shape = "qs" /\ QS!Next /\ UNCHANGED <<shape, qmVars, lsVars, hmVars>>
QMStep == shape = "qm" /\ QM!Next /\ UNCHANGED <<shape, qsVars, lsVars, hmVars>>
LSStep == shape = "ls" /\ LS!Next /\ UNCHANGED <<shape, qsVars, qmVars, hmVars>>
HMStep == shape = "hm" /\ HM!Next /\ UNCHANGED <<shape, qsVars, qmVars, lsVars>>

Next == QSStep \/ QMStep \/ LSStep \/ HMStep

\* A step of thread t of the chosen instance.
QSThread(t) == shape = "qs" /\ (QS!Producer(t) \/ QS!Consumer(t)) /\ UNCHANGED <<shape, qmVars, lsVars, hmVars>>
QMThread(t) == shape = "qm" /\ (QM!Producer(t) \/ QM!Consumer(t)) /\ UNCHANGED <<shape, qsVars, lsVars, hmVars>>
LSThread(t) == shape = "ls" /\ (LS!Producer(t) \/ LS!Consumer(t)) /\ UNCHANGED <<shape, qsVars, qmVars, hmVars>>
HMThread(t) == shape = "hm" /\ hmPc[t] # "idle" /\ HM!Step(t) /\ UNCHANGED <<shape, qsVars, qmVars, lsVars>>
HMCas(t) == shape = "hm" /\ HM!InsCas(t) /\ UNCHANGED <<shape, qsVars, qmVars, lsVars>>

\* The modules' own fairness: every thread of the chosen instance that has
\* a step to take is eventually scheduled, and HashMap's weak CAS does not
\* fail spuriously for ever.
Fairness ==
  /\ \A t \in {p1, c1} : WF_vars(QSThread(t)) /\ WF_vars(LSThread(t))
  /\ \A t \in {p1, p2, c1} : WF_vars(QMThread(t))
  /\ \A t \in {p1, p2} : WF_vars(HMThread(t)) /\ SF_vars(HMCas(t))

Spec == Init /\ [][Next]_vars /\ Fairness

-----------------------------------------------------------------------------
\* Every reachable state of every instance is well typed.
TypeOK == QS!TypeOK /\ QM!TypeOK /\ LS!TypeOK /\ HM!TypeOK

\* MPMCQueue, one producer: the queue refines AbstractQueue, each
\* try_enqueue taking effect at its link CAS and each try_dequeue at its
\* head_ CAS, although nodes are recycled through the pool.
QueueLinearizable == QS!Linearizable

\* MPMCQueue, two producers: no CAS by a thread holding a stale tail or head
\* writes a node that sits in the pool's free list.
NoWriteToFreedNode == QM!NoWriteToFreedNode

\* lockfree::Queue, one producer and one consumer: the queue refines
\* AbstractQueue although every popped sentinel is deleted and its address
\* may be returned by the producer's next `new`, and pop never reads a
\* deleted node's data.
LFQueueLinearizable == LS!Linearizable /\ LS!NoUseAfterFree

\* HashMap: no live node is lost from its bucket by a remove's unlink CAS,
\* although two removes may unlink neighbouring nodes at once.
HashMapNoLostNode == HM!NoLostNode

\* HashMap: at quiescence size_ counts the live nodes, although two removes
\* of one key race for its node and an insert's fetch_add may come after a
\* remove's fetch_sub.
HashMapSizeCounted == HM!SizeCounted

\* Every call of every thread returns under fair scheduling: no dequeue or
\* pop loop spins for ever on a head_ or tail_ that no thread will move,
\* and no HashMap insert retries its CAS for ever (the modules'
\* AllCallsReturn).
AllCallsReturn ==
  /\ shape = "qm" => QM!AllCallsReturn
  /\ shape = "ls" => LS!AllCallsReturn
  /\ shape = "hm" => HM!AllCallsReturn
=============================================================================
