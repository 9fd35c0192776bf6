---------------------------- MODULE ConnectionPool ----------------------------
(***************************************************************************)
(* network::ConnectionPool and Connection's connected_ flag                *)
(* (src/include/async_toolkit/network/connection_pool.hpp).                *)
(*                                                                         *)
(* acquire, release and add_connection each run under mutex_; the one      *)
(* read outside it, release's and add_connection's is_connected(), is of   *)
(* a flag only the connection's holder changes, so every call is one step. *)
(* A Connection::Ptr a client holds is held[c]; when the last Ptr goes,    *)
(* ~Connection calls disconnect(), so a connection that is neither idle   *)
(* nor held is disconnected in the step that drops it.                     *)
(***************************************************************************)
EXTENDS Naturals, Sequences, SequencesExt

CONSTANTS
  Clients,   \* threads using the pool
  Conns,     \* connections that clients may create and add
  MaxSize,   \* max_size_
  None       \* a null Connection::Ptr

VARIABLES
  made,       \* made[x]: connection x has been constructed
  connected,  \* Connection::connected_
  idle,       \* idle_connections_, front first
  held        \* held[c]: the Ptr client c is using, or None

cpVars == <<made, connected, idle, held>>

TypeOK ==
  /\ made \in [Conns -> BOOLEAN] /\ connected \in [Conns -> BOOLEAN]
  /\ idle \in Seq(Conns) /\ Len(idle) <= MaxSize
  /\ held \in [Clients -> Conns \cup {None}]

Init ==
  /\ made = [x \in Conns |-> FALSE] /\ connected = [x \in Conns |-> FALSE]
  /\ idle = <<>> /\ held = [c \in Clients |-> None]

\* The push under mutex_ of release and add_connection, with the flags cn:
\* below max_size_ the Ptr is queued, otherwise the caller's is the last
\* and ~Connection disconnects it.
Push(cn, x) ==
  IF Len(idle) < MaxSize
    THEN idle' = Append(idle, x) /\ connected' = cn
    ELSE connected' = [cn EXCEPT ![x] = FALSE] /\ UNCHANGED idle

-----------------------------------------------------------------------------
\* add_connection(std::make_shared<Connection>(fd, loop)): a new connection
\* is connected, so it reaches the push.
AddConnection(c, x) ==
  /\ ~made[x] /\ made' = [made EXCEPT ![x] = TRUE]
  /\ Push([connected EXCEPT ![x] = TRUE], x)
  /\ UNCHANGED held

\* Mutant: front() is read and pop() forgotten.
AcquireNoPop(c) ==
  /\ held[c] = None /\ idle # <<>>
  /\ held' = [held EXCEPT ![c] = Head(idle)]
  /\ UNCHANGED <<made, connected, idle>>

\* acquire(): the front of a non-empty queue, popped; nullptr otherwise.
Acquire(c) ==
  /\ held[c] = None
  /\ IF idle # <<>>
       THEN held' = [held EXCEPT ![c] = Head(idle)] /\ idle' = Tail(idle)
       ELSE UNCHANGED <<held, idle>>
  /\ UNCHANGED <<made, connected>>

\* Connection::disconnect() by its holder, on an I/O error.
Disconnect(c) ==
  /\ held[c] # None /\ connected[held[c]]
  /\ connected' = [connected EXCEPT ![held[c]] = FALSE]
  /\ UNCHANGED <<made, idle, held>>

\* release(conn), after which the caller's copy of the Ptr goes: a
\* disconnected connection returns early and is dropped.
Release(c) ==
  /\ held[c] # None
  /\ IF connected[held[c]] THEN Push(connected, held[c]) ELSE UNCHANGED <<idle, connected>>
  /\ held' = [held EXCEPT ![c] = None]
  /\ UNCHANGED made

CPNext ==
  \E c \in Clients :
    \/ Acquire(c) \/ Disconnect(c) \/ Release(c)
    \/ \E x \in Conns : AddConnection(c, x)

Spec == Init /\ [][CPNext]_cpVars

-----------------------------------------------------------------------------
(* Properties                                                              *)

\* Every connection is in exactly one place: a connection a client is using
\* is neither queued nor held by another client, the queue holds each at
\* most once, and a connection some holder disconnected is never queued, so
\* acquire never hands out a closed or shared connection.
ExclusiveUse ==
  /\ IsInjective(idle)
  /\ \A i \in 1 .. Len(idle) : connected[idle[i]]
  /\ \A c \in Clients : held[c] # None => held[c] \notin Range(idle)
  /\ \A c, d \in Clients : c # d /\ held[c] # None => held[c] # held[d]
=============================================================================
