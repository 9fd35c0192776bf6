------------------------------ MODULE TaskGraph ------------------------------
(***************************************************************************)
(* graph::TaskGraph<T> (src/include/async_toolkit/graph/task_graph.hpp)    *)
(* running on the TaskPool of coroutine/task_pool.hpp.                     *)
(*                                                                         *)
(* execute(pool) is one coordinator thread that spins over nodes_ in      *)
(* order, submitting every node not yet in `completed` whose dependencies *)
(* have executed, until every node has been submitted; it then calls get  *)
(* on the futures in submission order.  The pool's workers run           *)
(* Node::execute, which sets executed_ when task_ returns.  The pool is   *)
(* the TaskPool module itself, with the coordinator as its only client:   *)
(* the k-th submit of execute is the pool task <<Coord, k>>, and a node    *)
(* has executed when the pool task that runs it has made its future      *)
(* ready.  The pool's owner destroys it after execute returns.            *)
(***************************************************************************)
EXTENDS Naturals, Sequences, FiniteSets

CONSTANTS
  N,          \* nodes_ holds the nodes 1 .. N, in add_task order
  Deps,       \* <<a, b>> \in Deps: add_dependency(a, b), a depends on b
  Workers,    \* the pool's worker threads
  Coord       \* the thread that calls execute

Nodes == 1 .. N

ASSUME Deps \subseteq Nodes \X Nodes

G == INSTANCE Graphs

\* The dependency graph has no cycle (a cycle makes execute spin for ever).
Acyclic == G!IsDag([node |-> Nodes, edge |-> Deps])

VARIABLES
  gpc,        \* the coordinator: "scan", "submit" (inside pool.submit), "get", "done"
  i,          \* index into nodes_ of the for loop, or of the futures in get
  completed,  \* the local set `completed`
  futures,    \* the node each future belongs to, in submission order
  results,    \* the local vector `results`
  \* the TaskPool's variables
  tasks, stop, wpc, current, cpc, calls, accepted, rejected, ready, opc

poolVars == <<tasks, stop, wpc, current, cpc, calls, accepted, rejected, ready, opc>>
graphVars == <<gpc, i, completed, futures, results>>
vars == <<graphVars, poolVars>>

Pool == INSTANCE TaskPool WITH Clients <- {Coord}, SubmitOps <- N

\* Node n's executed_: the pool task that runs it has returned.
Executed(n) == \E k \in 1 .. Len(futures) : futures[k] = n /\ <<Coord, k>> \in ready

\* Mutant: can_execute without the loop over dependencies_.
CanExecuteNoDeps(n) == ~Executed(n)

\* Node::can_execute: every dependency has executed and n has not.
CanExecute(n) == (\A <<a, b>> \in Deps : a = n => Executed(b)) /\ ~Executed(n)

TypeOK ==
  /\ gpc \in {"scan", "submit", "get", "done"} /\ i \in 1 .. N + 1
  /\ completed \subseteq Nodes /\ futures \in Seq(Nodes) /\ results \in Seq(Nodes)
  /\ Pool!TypeOK

Init ==
  /\ gpc = "scan" /\ i = 1 /\ completed = {} /\ futures = <<>> /\ results = <<>>
  /\ Pool!Init

\* The end of the for loop: start it again while completed.size() <
\* nodes_.size(), else go on to the futures.
\* Mutant: the while loop's test made once, after the first pass.
NextIndexNoRestart == IF i < N THEN [gpc |-> "scan", i |-> i + 1] ELSE [gpc |-> "get", i |-> 1]

NextIndex == IF i < N THEN [gpc |-> "scan", i |-> i + 1]
             ELSE IF Cardinality(completed) < N THEN [gpc |-> "scan", i |-> 1]
             ELSE [gpc |-> "get", i |-> 1]

-----------------------------------------------------------------------------
(* execute(pool)                                                           *)

\* if (completed.count(node) == 0 && node->can_execute()) { submit the
\* node and completed.insert(node); }  The submit's critical section is
\* Pool!Submit; its notify_one is the step ScanNotify.
Scan ==
  /\ gpc = "scan"
  /\ IF i \notin completed /\ CanExecute(i)
       THEN /\ Pool!Submit(Coord)
            /\ futures' = Append(futures, i)
            /\ completed' = completed \cup {i}
            /\ gpc' = "submit" /\ UNCHANGED i
       ELSE /\ gpc' = NextIndex.gpc /\ i' = NextIndex.i
            /\ UNCHANGED <<completed, futures, poolVars>>
  /\ UNCHANGED results

\* The notify_one at the end of pool.submit, then the next node.
ScanNotify ==
  /\ gpc = "submit" /\ Pool!NotifyOne(Coord)
  /\ gpc' = NextIndex.gpc /\ i' = NextIndex.i
  /\ UNCHANGED <<completed, futures, results>>

\* results.push_back(future.get()): blocks until the future is ready.
Get ==
  /\ gpc = "get" /\ i <= Len(futures) /\ <<Coord, i>> \in ready
  /\ results' = Append(results, futures[i]) /\ i' = i + 1
  /\ UNCHANGED <<gpc, completed, futures, poolVars>>

\* return results;
Return ==
  /\ gpc = "get" /\ i = Len(futures) + 1 /\ gpc' = "done"
  /\ UNCHANGED <<i, completed, futures, results, poolVars>>

\* A step of the pool's workers, or of its destructor once execute has
\* returned.
PoolWorker(w) == Pool!Worker(w) /\ UNCHANGED graphVars
PoolStep ==
  /\ \/ \E w \in Workers : Pool!Worker(w) \/ Pool!SpuriousWakeup(w)
     \/ gpc = "done" /\ (Pool!Destroy \/ Pool!DtorNotifyAll \/ Pool!Join)
  /\ UNCHANGED graphVars

Coordinator == Scan \/ ScanNotify \/ Get \/ Return

Terminated == gpc = "done" /\ opc = "done" /\ UNCHANGED vars

Next == Coordinator \/ PoolStep \/ Terminated

\* The coordinator and the workers are scheduled; the destructor, once
\* started, runs to its end.  The owner is not obliged to destroy the pool.
PoolDtor == (Pool!DtorNotifyAll \/ Pool!Join) /\ UNCHANGED graphVars
Fairness ==
  /\ WF_vars(Coordinator) /\ \A w \in Workers : WF_vars(PoolWorker(w))
  /\ WF_vars(PoolDtor)

Spec == Init /\ [][Next]_vars /\ Fairness

-----------------------------------------------------------------------------
(* Properties                                                              *)

\* No node's task runs before every node it depends on has executed, even
\* though the coordinator reads executed_ while workers are setting it.
DependenciesFirst ==
  [][\A n \in Nodes : ~Executed(n) /\ Executed(n)' =>
        \A <<a, b>> \in Deps : a = n => Executed(b)]_vars

\* On an acyclic graph, execute returns, with exactly one result for every
\* node: the spin loop neither stops early nor submits a node twice.
ExecuteReturns ==
  Acyclic =>
    /\ <>(gpc = "done")
    /\ [](gpc = "done" => Len(results) = N /\ \A n \in Nodes : \E k \in 1 .. N : results[k] = n)
=============================================================================
