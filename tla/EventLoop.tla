------------------------------ MODULE EventLoop ------------------------------
(***************************************************************************)
(* reactor::EventLoop's timers and its run/stop protocol                   *)
(* (src/include/async_toolkit/reactor/event_loop.hpp).                     *)
(*                                                                         *)
(* One loop thread runs run(): process_timers, then process_events, while  *)
(* running_.  process_timers reads the clock once, then pops every timer   *)
(* due by that reading, releasing timer_mutex_ around each callback and    *)
(* pushing a periodic timer back with its deadline advanced by its period. *)
(* process_events is epoll_wait with a 100 ms timeout: its I/O callbacks   *)
(* are not modelled, so it is one step.  Clients register timers and call  *)
(* cancel_timer; an owner calls stop() once.  register_timer reads the     *)
(* clock before it takes timer_mutex_.                                     *)
(***************************************************************************)
EXTENDS Naturals, FiniteSets

CONSTANTS
  Clients,          \* threads calling register_timer and cancel_timer
  Delays,           \* delays of one-shot timers, in ticks
  PeriodicDelays,   \* delays (= periods) of periodic timers
  Ops,              \* bound: calls per client
  MaxTime           \* bound: the clock stops at MaxTime, no deadline is later

VARIABLES
  now,         \* std::chrono::steady_clock
  timers,      \* timers_: the heap, a set of timer records
  running,     \* running_
  lpc,         \* the loop thread's program counter
  loopNow,     \* process_timers' local now
  cur,         \* process_timers' local timer, popped and not yet pushed back
  cpc, calls,  \* clients: program counter, calls made
  pending,     \* a client's timer whose deadline it has computed
  stopped,     \* history: stop() was called; "late" if after run() began
  fired,       \* history: ids of timers whose callback has run
  cancelled    \* history: ids passed to cancel_timer before they fired

vars == <<now, timers, running, lpc, loopNow, cur, cpc, calls, pending, stopped,
          fired, cancelled>>

Ids == Clients \X (1 .. Ops)
Timer == [id : Ids, deadline : Nat, period : Nat, periodic : BOOLEAN]
NoTimer == [id |-> <<>>, deadline |-> 0, period |-> 0, periodic |-> FALSE]

TypeOK ==
  /\ now \in 0 .. MaxTime /\ timers \subseteq Timer /\ running \in BOOLEAN
  /\ lpc \in {"start", "pass", "check", "callback", "events", "test", "done"}
  /\ loopNow \in 0 .. MaxTime /\ cur \in Timer \cup {NoTimer}
  /\ cpc \in [Clients -> {"idle", "push"}] /\ calls \in [Clients -> 0 .. Ops]
  /\ pending \in [Clients -> Timer \cup {NoTimer}]
  /\ stopped \in {"no", "early", "late"}
  /\ fired \subseteq Ids /\ cancelled \subseteq Ids

\* The thread that will call run() has not yet started it.
Init ==
  /\ now = 0 /\ timers = {} /\ running = FALSE /\ lpc = "start"
  /\ loopNow = 0 /\ cur = NoTimer
  /\ cpc = [c \in Clients |-> "idle"] /\ calls = [c \in Clients |-> 0]
  /\ pending = [c \in Clients |-> NoTimer]
  /\ stopped = "no" /\ fired = {} /\ cancelled = {}

\* timer_mutex_ is held by the loop from its clock reading to the pop, and
\* from a callback's end to the next pop or the end of process_timers.
LoopHoldsLock == lpc = "check"

-----------------------------------------------------------------------------
(* The loop thread                                                         *)

\* run(): running_ = true.
Run ==
  /\ lpc = "start" /\ running' = TRUE /\ lpc' = "pass"
  /\ UNCHANGED <<now, timers, loopNow, cur, cpc, calls, pending, stopped, fired,
                 cancelled>>

\* process_timers: lock, now = steady_clock::now().
Pass ==
  /\ lpc = "pass" /\ loopNow' = now /\ lpc' = "check"
  /\ UNCHANGED <<now, timers, running, cur, cpc, calls, pending, stopped, fired,
                 cancelled>>

\* Mutant: the heap ordered by operator< (a max-heap on deadline).
TopMax(ts) == {t \in ts : \A u \in ts : u.deadline <= t.deadline}

\* timers_.top() of priority_queue<Timer, vector, greater<Timer>>: a timer
\* of least deadline; the heap's layout decides among equal deadlines.
Top(ts) == {t \in ts : \A u \in ts : t.deadline <= u.deadline}

\* The while test: a due top is popped and the lock released for its
\* callback; otherwise process_timers returns and releases the lock.
Check ==
  /\ lpc = "check"
  /\ IF \E t \in Top(timers) : t.deadline <= loopNow
       THEN \E t \in Top(timers) :
              /\ t.deadline <= loopNow
              /\ cur' = t /\ timers' = timers \ {t} /\ lpc' = "callback"
       ELSE lpc' = "events" /\ UNCHANGED <<cur, timers>>
  /\ UNCHANGED <<now, running, loopNow, cpc, calls, pending, stopped, fired,
                 cancelled>>

\* Mutant: a periodic timer pushed back without advancing its deadline.
FireNoAdvance ==
  /\ lpc = "callback"
  /\ fired' = fired \cup {cur.id}
  /\ timers' = IF cur.periodic THEN timers \cup {cur} ELSE timers
  /\ cur' = NoTimer /\ lpc' = "check"
  /\ UNCHANGED <<now, running, loopNow, cpc, calls, pending, stopped, cancelled>>

\* timer.callback(); lock.lock(); a periodic timer is pushed back with
\* deadline += period.
Fire ==
  /\ lpc = "callback"
  /\ fired' = fired \cup {cur.id}
  /\ timers' = IF cur.periodic
                 THEN timers \cup {[cur EXCEPT !.deadline = @ + cur.period]}
                 ELSE timers
  /\ cur' = NoTimer /\ lpc' = "check"
  /\ UNCHANGED <<now, running, loopNow, cpc, calls, pending, stopped, cancelled>>

\* process_events: epoll_wait returns within its 100 ms timeout.
Events ==
  /\ lpc = "events" /\ lpc' = "test"
  /\ UNCHANGED <<now, timers, running, loopNow, cur, cpc, calls, pending, stopped,
                 fired, cancelled>>

\* while (running_): run() returns once it reads false.
Test ==
  /\ lpc = "test" /\ lpc' = IF running THEN "pass" ELSE "done"
  /\ UNCHANGED <<now, timers, running, loopNow, cur, cpc, calls, pending, stopped,
                 fired, cancelled>>

Loop == Run \/ Pass \/ Check \/ Fire \/ Events \/ Test

-----------------------------------------------------------------------------
(* Clients, the owner and the clock                                        *)

\* register_timer: deadline = now + delay, read before the lock; the
\* period is the delay.
RegisterTimer(c) ==
  /\ cpc[c] = "idle" /\ calls[c] < Ops
  /\ \E d \in Delays \cup PeriodicDelays, p \in BOOLEAN :
       /\ d \in (IF p THEN PeriodicDelays ELSE Delays) /\ now + d <= MaxTime
       /\ pending' = [pending EXCEPT ![c] = [id |-> <<c, calls[c] + 1>>,
                        deadline |-> now + d, period |-> d, periodic |-> p]]
  /\ calls' = [calls EXCEPT ![c] = @ + 1] /\ cpc' = [cpc EXCEPT ![c] = "push"]
  /\ UNCHANGED <<now, timers, running, lpc, loopNow, cur, stopped, fired, cancelled>>

\* lock; timers_.push(...); timer_cv_.notify_one(), which nobody waits on.
RegisterPush(c) ==
  /\ cpc[c] = "push" /\ ~LoopHoldsLock
  /\ timers' = timers \cup {pending[c]}
  /\ pending' = [pending EXCEPT ![c] = NoTimer] /\ cpc' = [cpc EXCEPT ![c] = "idle"]
  /\ UNCHANGED <<now, running, lpc, loopNow, cur, calls, stopped, fired, cancelled>>

\* cancel_timer(callback) of one of the client's timers: it takes the lock
\* and does nothing else.
CancelTimer(c) ==
  /\ cpc[c] = "idle" /\ calls[c] < Ops /\ ~LoopHoldsLock
  /\ \E k \in 1 .. calls[c] :
       cancelled' = IF <<c, k>> \in fired THEN cancelled ELSE cancelled \cup {<<c, k>>}
  /\ calls' = [calls EXCEPT ![c] = @ + 1]
  /\ UNCHANGED <<now, timers, running, lpc, loopNow, cur, cpc, pending, stopped, fired>>

\* stop(): running_ = false, by the owner, once.
Stop ==
  /\ stopped = "no" /\ running' = FALSE
  /\ stopped' = IF lpc = "start" THEN "early" ELSE "late"
  /\ UNCHANGED <<now, timers, lpc, loopNow, cur, cpc, calls, pending, fired, cancelled>>

Tick ==
  /\ now < MaxTime /\ now' = now + 1
  /\ UNCHANGED <<timers, running, lpc, loopNow, cur, cpc, calls, pending, stopped,
                 fired, cancelled>>

\* run() has returned, every client has made its calls and the clock has
\* reached its bound.
Terminated ==
  /\ lpc = "done" /\ now = MaxTime
  /\ \A c \in Clients : cpc[c] = "idle" /\ calls[c] = Ops
  /\ UNCHANGED vars

Next ==
  \/ Loop \/ Stop \/ Tick
  \/ \E c \in Clients : RegisterTimer(c) \/ RegisterPush(c) \/ CancelTimer(c)
  \/ Terminated

\* The loop thread and a register in progress are eventually scheduled and
\* time passes; nobody has to register, cancel or stop.
Fairness == WF_vars(Loop) /\ WF_vars(Tick) /\ \A c \in Clients : WF_vars(RegisterPush(c))

Spec == Init /\ [][Next]_vars /\ Fairness

-----------------------------------------------------------------------------
(* Properties                                                              *)

\* A stop() called after run() has set running_ makes run() return,
\* however many timers are due: process_timers ends, although a periodic
\* timer is pushed back inside its loop and a client can push a due timer
\* while a callback runs.
StopEndsRun == stopped = "late" ~> lpc = "done"

\* Every timer a client registered fires, unless run() returns first: no
\* timer stays behind another in the heap for ever, periodic timers
\* included.
EveryTimerFires ==
  \A id \in Ids : (\E t \in timers : t.id = id) ~> (id \in fired \/ lpc = "done")

\* stop() makes run() return whenever it is called.  run() sets running_
\* itself, so a stop() before it is lost, and it does not hold.
StopHonoured == stopped # "no" ~> lpc = "done"

\* What cancel_timer's name and comment promise: a timer cancelled before it
\* fired never fires.  Its body is empty, so it does not hold.
CancelledNeverFires == cancelled \cap fired = {}
=============================================================================
