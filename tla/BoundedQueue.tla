----------------------------- MODULE BoundedQueue -----------------------------
(***************************************************************************)
(* What osi/include/fixed_queue.h promises: a first-in first-out queue     *)
(* that never holds more than its capacity, from the middle of which an    *)
(* element can be removed.                                                 *)
(***************************************************************************)
EXTENDS Integers, Sequences

CONSTANTS Capacity, Item

VARIABLE queue

Put(x) ==
  /\ Len(queue) < Capacity
  /\ queue' = Append(queue, x)

Take == queue # <<>> /\ queue' = Tail(queue)

Withdraw(x) ==
  \E i \in 1 .. Len(queue) :
    /\ queue[i] = x
    /\ queue' = SubSeq(queue, 1, i - 1) \o SubSeq(queue, i + 1, Len(queue))

Next == Take \/ \E x \in Item : Put(x) \/ Withdraw(x)

Spec == queue = <<>> /\ [][Next]_queue
=============================================================================
