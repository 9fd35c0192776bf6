------------------------------ MODULE MC_Pools ------------------------------
(***************************************************************************)
(* The passing configurations of the thread pools and the RPC load        *)
(* balancers in one model: Init picks                                      *)
(* a configuration, and every later step is a step of that                *)
(* configuration's instance while the others' variables keep their        *)
(* initial values.  A behaviour of this module is a behaviour of exactly  *)
(* one instance, so each property below is a property of the instance it *)
(* names.                                                                 *)
(*                                                                        *)
(*   TG  TaskGraph::execute on a TaskPool of two workers, three nodes     *)
(*   TP  TaskPool, two workers, two clients of two submits each           *)
(*   TE  ThreadPoolExecutor, two workers, one client of three calls       *)
(*   LB  the four LoadBalancer classes, three servers, three lists        *)
(*   EL  EventLoop: the loop thread, one client of two calls, the owner   *)
(*   CP  ConnectionPool of max_size 2, two clients, three connections     *)
(*   CT  coroutine::Task: two Task objects, three coroutine calls         *)
(* The allocator's size-class arithmetic is constant: its property holds *)
(* or fails in every state alike.                                         *)
(***************************************************************************)
EXTENDS Integers, TLC

CONSTANTS w1, w2, c1, c2, g, sa, sb, sc, x1, x2, x3, ta, tb, f1, f2, f3, nul

VARIABLES
  shape,   \* the configuration this behaviour runs
  \* TaskGraph and its TaskPool
  tgPc, tgI, tgCompleted, tgFutures, tgResults, tgTasks, tgStop, tgWpc,
  tgCurrent, tgCpc, tgCalls, tgAccepted, tgRejected, tgReady, tgOpc,
  \* TaskPool
  tpTasks, tpStop, tpWpc, tpCurrent, tpCpc, tpCalls, tpAccepted,
  tpRejected, tpReady, tpOpc,
  \* ThreadPoolExecutor
  teHeap, teStop, teNow, teWpc, teCurrent, teCpc, teCalls, teAccepted,
  teReady, teOpc,
  \* LoadBalancer
  lbRrIndex, lbCounts, lbCurrentServers, lbRing, lbResult,
  \* EventLoop
  elNow, elTimers, elRunning, elLpc, elLoopNow, elCur, elCpc, elCalls,
  elPending, elStopped, elFired, elCancelled,
  \* ConnectionPool
  cpMade, cpConnected, cpIdle, cpHeld,
  \* coroutine::Task
  ctAlive, ctCoro, ctFstate, ctLeft, ctLastGet

tgVars ==
  <<tgPc, tgI, tgCompleted, tgFutures, tgResults, tgTasks, tgStop, tgWpc,
    tgCurrent, tgCpc, tgCalls, tgAccepted, tgRejected, tgReady, tgOpc>>
tpVars ==
  <<tpTasks, tpStop, tpWpc, tpCurrent, tpCpc, tpCalls, tpAccepted,
    tpRejected, tpReady, tpOpc>>
teVars ==
  <<teHeap, teStop, teNow, teWpc, teCurrent, teCpc, teCalls, teAccepted,
    teReady, teOpc>>
lbVars == <<lbRrIndex, lbCounts, lbCurrentServers, lbRing, lbResult>>
elVars ==
  <<elNow, elTimers, elRunning, elLpc, elLoopNow, elCur, elCpc, elCalls,
    elPending, elStopped, elFired, elCancelled>>
cpVars == <<cpMade, cpConnected, cpIdle, cpHeld>>
ctVars == <<ctAlive, ctCoro, ctFstate, ctLeft, ctLastGet>>
vars == <<shape, tgVars, tpVars, teVars, lbVars, elVars, cpVars, ctVars>>

\* Node 1 depends on 2 and 3, node 2 on 3: nodes_ lists every node before
\* its dependencies, so execute needs three passes of its loop.
TG == INSTANCE TaskGraph
  WITH N <- 3, Deps <- {<<1, 2>>, <<1, 3>>, <<2, 3>>}, Workers <- {w1, w2},
       Coord <- g, gpc <- tgPc, i <- tgI, completed <- tgCompleted,
       futures <- tgFutures, results <- tgResults, tasks <- tgTasks,
       stop <- tgStop, wpc <- tgWpc, current <- tgCurrent, cpc <- tgCpc,
       calls <- tgCalls, accepted <- tgAccepted, rejected <- tgRejected,
       ready <- tgReady, opc <- tgOpc

TP == INSTANCE TaskPool
  WITH Workers <- {w1, w2}, Clients <- {c1, c2}, SubmitOps <- 2,
       tasks <- tpTasks, stop <- tpStop, wpc <- tpWpc, current <- tpCurrent,
       cpc <- tpCpc, calls <- tpCalls, accepted <- tpAccepted,
       rejected <- tpRejected, ready <- tpReady, opc <- tpOpc

\* Priorities: one below and one above the 0 of submit and schedule_after.
TE == INSTANCE ThreadPoolExecutor
  WITH Workers <- {w1, w2}, Clients <- {c1}, SubmitOps <- 3,
       Priorities <- {-1, 1}, Delays <- {1}, MaxQueueSize <- 2, MaxTime <- 2,
       heap <- teHeap, stop <- teStop, now <- teNow, wpc <- teWpc,
       current <- teCurrent, cpc <- teCpc, calls <- teCalls,
       accepted <- teAccepted, ready <- teReady, opc <- teOpc

\* Two lists of one size that differ in a server, and a longer one; the
\* hashes of sa#1 and sc#0 collide, so in <<sa, sc>> key 4 is sc's.
LBLists == {<<>>, <<sa, sb>>, <<sa, sc>>, <<sb, sa, sc>>}
LBVHash == sa :> <<1, 4>> @@ sb :> <<3, 5>> @@ sc :> <<4, 0>>

\* Time hashes below, on and above the ring's keys.
LB == INSTANCE LoadBalancer
  WITH Servers <- {sa, sb, sc}, Lists <- LBLists, CountVals <- {0, 1},
       Width <- 3, RandSteps <- 4, CanonicalOne <- TRUE, VirtualNodes <- 2,
       VHash <- LBVHash, TimeHashes <- {0, 2, 4, 6}, rrIndex <- lbRrIndex,
       counts <- lbCounts, currentServers <- lbCurrentServers, ring <- lbRing,
       result <- lbResult

\* One-shot delays 0 and 1 and a periodic timer of period 1, so a timer is
\* due at registration, one is due later and one comes back.
EL == INSTANCE EventLoop
  WITH Clients <- {c1}, Delays <- {0, 1}, PeriodicDelays <- {1}, Ops <- 2,
       MaxTime <- 2, now <- elNow, timers <- elTimers, running <- elRunning,
       lpc <- elLpc, loopNow <- elLoopNow, cur <- elCur, cpc <- elCpc,
       calls <- elCalls, pending <- elPending, stopped <- elStopped,
       fired <- elFired, cancelled <- elCancelled

\* max_size 2 with three connections: a release finds the queue full.
CP == INSTANCE ConnectionPool
  WITH Clients <- {c1, c2}, Conns <- {x1, x2, x3}, MaxSize <- 2, None <- nul,
       made <- cpMade, connected <- cpConnected, idle <- cpIdle, held <- cpHeld

\* Bodies that never suspend, suspend once and suspend twice.
CT == INSTANCE CoroutineTask
  WITH Slots <- {ta, tb}, Frames <- {f1, f2, f3}, Suspends <- {0, 1, 2},
       Null <- nul, alive <- ctAlive, coro <- ctCoro, fstate <- ctFstate,
       left <- ctLeft, lastGet <- ctLastGet

\* Sizes at, below and above each band's edges and the granules.
AL == INSTANCE Allocator
  WITH Sizes <- {0, 1, 15, 16, 17, 255, 256, 257, 511, 512, 513, 4095, 4096,
                 4097, 65535, 65536, 65537},
       Width <- 17

Shapes == {"tg", "tp", "te", "lb", "el", "cp", "ct"}

Init ==
  /\ shape \in Shapes
  /\ TG!Init /\ TP!Init /\ TE!Init /\ LB!Init /\ EL!Init /\ CP!Init /\ CT!Init

\* A step A of the chosen instance, the other instances standing still.
TGStep(A) == shape = "tg" /\ A /\ UNCHANGED <<shape, tpVars, teVars, lbVars, elVars, cpVars, ctVars>>
TPStep(A) == shape = "tp" /\ A /\ UNCHANGED <<shape, tgVars, teVars, lbVars, elVars, cpVars, ctVars>>
TEStep(A) == shape = "te" /\ A /\ UNCHANGED <<shape, tgVars, tpVars, lbVars, elVars, cpVars, ctVars>>
LBStep(A) == shape = "lb" /\ A /\ UNCHANGED <<shape, tgVars, tpVars, teVars, elVars, cpVars, ctVars>>
ELStep(A) == shape = "el" /\ A /\ UNCHANGED <<shape, tgVars, tpVars, teVars, lbVars, cpVars, ctVars>>
CPStep(A) == shape = "cp" /\ A /\ UNCHANGED <<shape, tgVars, tpVars, teVars, lbVars, elVars, ctVars>>
CTStep(A) == shape = "ct" /\ A /\ UNCHANGED <<shape, tgVars, tpVars, teVars, lbVars, elVars, cpVars>>

Next ==
  \/ TGStep(TG!Next) \/ TPStep(TP!Next) \/ TEStep(TE!Next) \/ LBStep(LB!LBNext)
  \/ ELStep(EL!Next) \/ CPStep(CP!CPNext) \/ CTStep(CT!Next)

\* The modules' own fairness.  Only one instance moves in a behaviour, so
\* weak fairness of a disjunction of steps of different instances is weak
\* fairness of the step of the chosen one.
Fairness ==
  /\ \A w \in {w1, w2} :
       WF_vars(TGStep(TG!PoolWorker(w)) \/ TPStep(TP!Worker(w)) \/ TEStep(TE!Worker(w)))
  /\ \A c \in {c1, c2} :
       WF_vars(TPStep(TP!NotifyOne(c))
               \/ (c = c1 /\ (TEStep(TE!NotifyOne(c)) \/ ELStep(EL!RegisterPush(c)))))
  /\ WF_vars(TGStep(TG!Coordinator) \/ TEStep(TE!Tick) \/ ELStep(EL!Loop))
  /\ WF_vars(TGStep(TG!PoolDtor) \/ TPStep(TP!DtorNotifyAll) \/ TEStep(TE!DtorNotifyAll))
  /\ WF_vars(TPStep(TP!Join) \/ TEStep(TE!Join) \/ ELStep(EL!Tick))

Spec == Init /\ [][Next]_vars /\ Fairness

-----------------------------------------------------------------------------
\* Every reachable state of every instance is well typed.
TypeOK ==
  /\ TG!TypeOK /\ TP!TypeOK /\ TE!TypeOK /\ LB!TypeOK /\ EL!TypeOK /\ CP!TypeOK
  /\ CT!TypeOK

\* TaskGraph: no node's task runs before the nodes it depends on, although
\* execute reads executed_ while the pool's workers set it (the module's
\* DependenciesFirst).
DependenciesFirst == TG!DependenciesFirst

\* TaskGraph: on this acyclic graph execute returns, with one result for
\* every node, after restarting its scan of nodes_ as long as some node is
\* not yet submitted (the module's ExecuteReturns).
ExecuteReturns == shape = "tg" => TG!ExecuteReturns

\* TaskPool: when the destructor returns every accepted task has run, even
\* one whose submit raced stop_ (the module's DrainedAtExit).
DrainedAtExit == TP!DrainedAtExit

\* TaskPool: every future submit returned becomes ready, whether or not
\* the pool is destroyed (the module's EveryFutureReady).
EveryFutureReady == shape = "tp" => TP!EveryFutureReady

\* ThreadPoolExecutor: no task runs before its schedule_time (NeverEarly).
NeverEarly == TE!NeverEarly

\* ThreadPoolExecutor: every future a call returned becomes ready, delayed
\* tasks and tasks still queued at destruction included (EveryTaskRuns).
ExecutorTaskRuns == shape = "te" => TE!EveryTaskRuns

\* ThreadPoolExecutor: the destructor returns (DestructorReturns).
DestructorReturns == shape = "te" => TE!DestructorReturns

\* LeastConn: the selection loop picks the first server of the list with
\* the fewest connections (LoadBalancer!LeastConnPicksFirstLeast).
LeastConnPicksFirstLeast == LB!LeastConnPicksFirstLeast

\* ConsistentHash: select_server returns a server of the list it was given,
\* whether or not rebuild_if_needed rebuilt hash_ring_
\* (LoadBalancer!RingServesList).
RingServesList == LB!RingServesList

\* EventLoop: a stop() called once run() has begun makes run() return,
\* although process_timers pushes periodic timers back inside its loop
\* (EventLoop!StopEndsRun).
StopEndsRun == shape = "el" => EL!StopEndsRun

\* EventLoop: every registered timer fires unless run() returns first; the
\* heap's top is a timer of least deadline (EventLoop!EveryTimerFires).
EveryTimerFires == shape = "el" => EL!EveryTimerFires

\* ConnectionPool: a connection in use is neither queued nor held by another
\* client, the queue holds each once, and none a holder disconnected
\* (ConnectionPool!ExclusiveUse).
ExclusiveUse == CP!ExclusiveUse

\* coroutine::Task: through moves, self-moves, reassignments and
\* destructions every started frame has exactly one owning Task until it
\* is destroyed (CoroutineTask!FrameOwnedOnce).
FrameOwnedOnce == CT!FrameOwnedOnce

\* Allocator: get_size_class rounds up to its band's granule and is stable
\* under reapplication (Allocator!SizeClassCorrect).  The arithmetic does
\* not depend on the state; it is checked in every configuration.
SizeClassCorrect == shape \in Shapes => AL!SizeClassCorrect

=============================================================================
