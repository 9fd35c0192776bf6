---------------------------- MODULE AbstractQueue ----------------------------
(***************************************************************************)
(* What MPMCQueue and MPMCChannel promise (spec.md 4.2 and 5): a FIFO in   *)
(* which each successful enqueue appends its value at one instant and each *)
(* successful dequeue removes the oldest value at one instant and hands it *)
(* to the consumer that called it.  A failed try_* call changes nothing,   *)
(* so it is a stuttering step.  No capacity is stated here: the detailed   *)
(* modules check the capacity bound as a separate property.                *)
(***************************************************************************)
EXTENDS Sequences

CONSTANTS Values, Consumers

VARIABLES
  queue,      \* the values in the queue, oldest first
  received    \* received[c]: values handed to consumer c, in order

vars == <<queue, received>>

Init ==
  /\ queue = <<>>
  /\ received = [c \in Consumers |-> <<>>]

Enqueue(v) ==
  /\ queue' = Append(queue, v)
  /\ UNCHANGED received

Dequeue(c) ==
  /\ queue # <<>>
  /\ received' = [received EXCEPT ![c] = Append(@, Head(queue))]
  /\ queue' = Tail(queue)

Next ==
  \/ \E v \in Values : Enqueue(v)
  \/ \E c \in Consumers : Dequeue(c)

Spec == Init /\ [][Next]_vars
=============================================================================
