----------------------------- MODULE AbstractMap -----------------------------
(***************************************************************************)
(* What lockfree::BPlusTree promises its caller: an ordered map.  insert  *)
(* sets the value of a key and returns true, remove deletes a key and     *)
(* returns whether it was there, find returns the key's value or nothing, *)
(* and range_query(start, end) emits the pairs with start <= key <= end   *)
(* in ascending key order.  `last` is the most recent call with its       *)
(* result, so a call that returns the wrong answer, or whose effect is    *)
(* lost, is a step this specification does not allow.                    *)
(***************************************************************************)
EXTENDS Naturals, Sequences

CONSTANTS
  MaxKey,     \* the keys are 1 .. MaxKey
  Vals,       \* the values
  NoValue     \* std::nullopt: the key is absent

Keys == 1 .. MaxKey

VARIABLES
  map,        \* map[k]: the value of key k, or NoValue
  last        \* the last call and its result

vars == <<map, last>>

NoCall == [op |-> "none", key |-> 0, arg |-> 0, ret |-> 0]

\* The pairs of m with lo <= key <= hi, in ascending key order.
InRange(m, lo, hi) ==
  LET ks == SelectSeq([i \in 1 .. (hi - lo + 1) |-> lo + i - 1],
                      LAMBDA k : m[k] # NoValue)
  IN  [i \in 1 .. Len(ks) |-> <<ks[i], m[ks[i]]>>]

Init ==
  /\ map = [k \in Keys |-> NoValue]
  /\ last = NoCall

Insert(k, v) ==
  /\ map' = [map EXCEPT ![k] = v]
  /\ last' = [op |-> "insert", key |-> k, arg |-> v, ret |-> TRUE]

Remove(k) ==
  /\ map' = [map EXCEPT ![k] = NoValue]
  /\ last' = [op |-> "remove", key |-> k, arg |-> 0, ret |-> map[k] # NoValue]

Find(k) ==
  /\ last' = [op |-> "find", key |-> k, arg |-> 0, ret |-> map[k]]
  /\ UNCHANGED map

RangeQuery(lo, hi) ==
  /\ last' = [op |-> "range", key |-> lo, arg |-> hi, ret |-> InRange(map, lo, hi)]
  /\ UNCHANGED map

Next ==
  \E k \in Keys :
    \/ \E v \in Vals : Insert(k, v)
    \/ Remove(k)
    \/ Find(k)
    \/ \E hi \in k .. MaxKey : RangeQuery(k, hi)

Spec == Init /\ [][Next]_vars
=============================================================================
