------------------------------ MODULE FixedQueue ------------------------------
(***************************************************************************)
(* osi/src/fixed_queue.cc over osi/src/semaphore.cc: a list, a mutex and   *)
(* two semaphores that are event file descriptors. semaphore_try_wait      *)
(* makes the descriptor non-blocking for the time of one read; the flag    *)
(* belongs to the descriptor, so every thread sees it.                     *)
(*                                                                         *)
(* A thread that calls an operation goes through the calls of the source:  *)
(* it takes a permit, changes the list under the mutex and posts the other *)
(* semaphore.                                                              *)
(***************************************************************************)
EXTENDS Integers, Sequences, FiniteSets, Functions

CONSTANTS
  Thread,
  Operations,   \* per thread: the operations it calls
  Capacity,
  Item,         \* what is enqueued, each element once
  NoThread, NoItem

Operation == {"enqueue", "try_enqueue", "dequeue", "try_dequeue", "try_remove"}
Semaphore == {"enqueue_sem", "dequeue_sem"}

ASSUME FixedQueueAssumption ==
  /\ Capacity \in Nat \ {0}
  /\ IsFiniteSet(Thread)
  /\ NoThread \notin Thread /\ NoItem \notin Item
  /\ \A t \in Thread : Operations[t] \subseteq Operation

VARIABLES
  list,
  mutex,      \* who holds the queue's mutex between steps
  sem,        \* per semaphore: the event counter and O_NONBLOCK
  thread,     \* per thread: where it is
  unused      \* items nobody has enqueued

vars == <<list, mutex, sem, thread, unused>>

Idle == [pc |-> "idle", op |-> "dequeue", item |-> NoItem, flags |-> FALSE, rc |-> FALSE]

\* fixed_queue_new
Init ==
  /\ list = <<>> /\ mutex = NoThread
  /\ sem = [s \in Semaphore |->
              [value |-> IF s = "enqueue_sem" THEN Capacity ELSE 0, nonblock |-> FALSE]]
  /\ thread = [t \in Thread |-> Idle]
  /\ unused = Item

Enqueues(t) == thread[t].op \in {"enqueue", "try_enqueue"}
Waited(t) == IF Enqueues(t) THEN "enqueue_sem" ELSE "dequeue_sem"
Posted(t) == IF Enqueues(t) THEN "dequeue_sem" ELSE "enqueue_sem"

Goto(t, label) == thread' = [thread EXCEPT ![t].pc = label]
-----------------------------------------------------------------------------
(* osi/src/semaphore.cc                                                    *)

\* semaphore_wait. A read that fails because the descriptor is non-blocking
\* is logged, and the caller goes on.
semaphore_wait(t) ==
  LET s == Waited(t)
  IN /\ thread[t].pc = "wait"
     /\ \/ /\ sem[s].value > 0
           /\ sem' = [sem EXCEPT ![s].value = @ - 1]
           /\ Goto(t, "list")
        \/ /\ sem[s].value = 0
           /\ Goto(t, IF sem[s].nonblock THEN "list" ELSE "blocked")
           /\ UNCHANGED sem
     /\ UNCHANGED <<list, mutex, unused>>

\* A thread blocked in the read gets the permit when there is one.
wake(t) ==
  /\ thread[t].pc \in {"blocked", "try_blocked"}
  /\ sem[Waited(t)].value > 0
  /\ sem' = [sem EXCEPT ![Waited(t)].value = @ - 1]
  /\ thread' = [thread EXCEPT ![t].pc = IF @ = "blocked" THEN "list" ELSE "restore",
                              ![t].rc = TRUE]
  /\ UNCHANGED <<list, mutex, unused>>

\* semaphore_try_wait: read the flags, set O_NONBLOCK, read, restore the flags.
get_flags(t) ==
  /\ thread[t].pc = "try_wait"
  /\ thread' = [thread EXCEPT ![t].flags = sem[Waited(t)].nonblock, ![t].pc = "set_flags"]
  /\ UNCHANGED <<list, mutex, sem, unused>>

set_nonblock_missing(t) ==
  thread[t].pc = "set_flags" /\ Goto(t, "read") /\ UNCHANGED <<list, mutex, sem, unused>>

set_nonblock(t) ==
  /\ thread[t].pc = "set_flags"
  /\ sem' = [sem EXCEPT ![Waited(t)].nonblock = TRUE]
  /\ Goto(t, "read")
  /\ UNCHANGED <<list, mutex, unused>>

try_read(t) ==
  LET s == sem[Waited(t)]
  IN /\ thread[t].pc = "read"
     /\ thread' = [thread EXCEPT ![t].rc = s.value > 0,
                                 ![t].pc = IF s.value > 0 \/ s.nonblock THEN "restore"
                                           ELSE "try_blocked"]
     /\ sem' = [sem EXCEPT ![Waited(t)].value = IF @ > 0 THEN @ - 1 ELSE @]
     /\ UNCHANGED <<list, mutex, unused>>

\* Without a permit the operation returns false or NULL.
restore_flags(t) ==
  /\ thread[t].pc = "restore"
  /\ sem' = [sem EXCEPT ![Waited(t)].nonblock = thread[t].flags]
  /\ thread' = [thread EXCEPT ![t] = IF thread[t].rc THEN [@ EXCEPT !.pc = "list"] ELSE Idle]
  /\ mutex' = IF mutex = t /\ ~thread[t].rc THEN NoThread ELSE mutex
  /\ UNCHANGED <<list, unused>>

semaphore_post_when_empty(t) ==
  /\ thread[t].pc = "post"
  /\ sem' = [sem EXCEPT ![Posted(t)].value = IF Enqueues(t) /\ Len(list) > 1 THEN @ ELSE @ + 1]
  /\ thread' = [thread EXCEPT ![t] = Idle]
  /\ UNCHANGED <<list, mutex, unused>>

semaphore_post_not_removed(t) ==
  /\ thread[t].pc = "post"
  /\ sem' = [sem EXCEPT ![Posted(t)].value = IF thread[t].op = "try_remove" THEN @ ELSE @ + 1]
  /\ thread' = [thread EXCEPT ![t] = Idle]
  /\ UNCHANGED <<list, mutex, unused>>

semaphore_post(t) ==
  /\ thread[t].pc = "post"
  /\ sem' = [sem EXCEPT ![Posted(t)].value = @ + 1]
  /\ thread' = [thread EXCEPT ![t] = Idle]
  /\ UNCHANGED <<list, mutex, unused>>
-----------------------------------------------------------------------------
(* osi/src/fixed_queue.cc                                                  *)

\* fixed_queue_enqueue, fixed_queue_try_enqueue
call_enqueue(t, op) ==
  /\ thread[t].pc = "idle" /\ op \in Operations[t] \cap {"enqueue", "try_enqueue"}
  /\ \E x \in unused :
       /\ unused' = unused \ {x}
       /\ thread' = [thread EXCEPT
            ![t] = [Idle EXCEPT !.op = op, !.item = x,
                                !.pc = IF op = "enqueue" THEN "wait" ELSE "try_wait"]]
  /\ UNCHANGED <<list, mutex, sem>>

\* fixed_queue_dequeue, fixed_queue_try_dequeue
call_dequeue(t, op) ==
  /\ thread[t].pc = "idle" /\ op \in Operations[t] \cap {"dequeue", "try_dequeue"}
  /\ thread' = [thread EXCEPT
       ![t] = [Idle EXCEPT !.op = op, !.pc = IF op = "dequeue" THEN "wait" ELSE "try_wait"]]
  /\ UNCHANGED <<list, mutex, sem, unused>>

\* fixed_queue_try_remove_from_queue keeps the mutex while it tries to wait.
call_try_remove(t) ==
  /\ thread[t].pc = "idle" /\ "try_remove" \in Operations[t] /\ mutex = NoThread
  /\ \E i \in DOMAIN list :
       thread' = [thread EXCEPT ![t] = [Idle EXCEPT !.op = "try_remove", !.item = list[i],
                                                    !.pc = "try_wait"]]
  /\ mutex' = t
  /\ UNCHANGED <<list, sem, unused>>

\* list_remove: the list without the element.
list_remove(x) ==
  \E i \in DOMAIN list :
    /\ list[i] = x
    /\ list' = SubSeq(list, 1, i - 1) \o SubSeq(list, i + 1, Len(list))

update_list_prepends(t) ==
  /\ thread[t].pc = "list" /\ mutex \in {NoThread, t}
  /\ \/ Enqueues(t) /\ list' = <<thread[t].item>> \o list
     \/ thread[t].op = "try_remove" /\ list_remove(thread[t].item)
     \/ thread[t].op \in {"dequeue", "try_dequeue"} /\ list' = Tail(list)
  /\ mutex' = NoThread
  /\ Goto(t, "post")
  /\ UNCHANGED <<sem, unused>>

\* The list, under the mutex. list_front of an empty list aborts the process.
update_list(t) ==
  /\ thread[t].pc = "list" /\ mutex \in {NoThread, t}
  /\ \/ Enqueues(t) /\ list' = Append(list, thread[t].item)
     \/ thread[t].op = "try_remove" /\ list_remove(thread[t].item)
     \/ thread[t].op \in {"dequeue", "try_dequeue"}
        /\ list' = IF list = <<>> THEN list ELSE Tail(list)
  /\ Goto(t, IF ~Enqueues(t) /\ list = <<>> THEN "aborted" ELSE "post")
  /\ mutex' = NoThread
  /\ UNCHANGED <<sem, unused>>

\* What a thread does once it has called an operation.
step(t) ==
  \/ semaphore_wait(t) \/ wake(t)
  \/ get_flags(t) \/ set_nonblock(t) \/ try_read(t) \/ restore_flags(t)
  \/ update_list(t) \/ semaphore_post(t)

Next ==
  \E t \in Thread :
    \/ \E op \in Operation : call_enqueue(t, op) \/ call_dequeue(t, op)
    \/ call_try_remove(t)
    \/ step(t)

Spec == Init /\ [][Next]_vars

\* Threads are scheduled, and whoever dequeues goes on dequeuing.
FairSpec ==
  /\ Spec
  /\ \A t \in Thread : /\ SF_vars(step(t))
                       /\ WF_vars(call_dequeue(t, "dequeue"))
-----------------------------------------------------------------------------
\* The counters stay counters, and the mutex is held only by a removal.
TypeOK ==
  /\ \A s \in Semaphore : sem[s].value \in 0 .. Capacity
  /\ mutex # NoThread => thread[mutex].op = "try_remove"
                         /\ thread[mutex].pc \notin {"idle", "post"}
  /\ \A i, j \in DOMAIN list : list[i] = list[j] => i = j

\* "This function will never return NULL": no dequeue of fixed_queue.cc finds
\* the list empty once it has its permit, and no removal finds its element gone
\* (CHECK(removed)). "This function will never block the caller":
\* semaphore_try_wait does not block in its read.
PermitMeansItem ==
  \A t \in Thread :
    /\ thread[t].pc \notin {"aborted", "try_blocked"}
    /\ thread[t].pc = "list" /\ thread[t].op = "try_remove" => thread[t].item \in Range(list)

\* "If more elements than |capacity| are added to the queue, the caller is
\* blocked".
WithinCapacity == Len(list) <= Capacity

\* When no operation is under way but those that block, the semaphores of
\* fixed_queue.cc count exactly the free places and the elements: no permit is
\* lost or made, so nobody stays blocked for want of one.
PermitsAgree ==
  (\A t \in Thread : thread[t].pc \in {"idle", "blocked"}) =>
    /\ sem["dequeue_sem"].value = Len(list)
    /\ sem["enqueue_sem"].value = Capacity - Len(list)

\* fixed_queue.cc implements the queue its header describes.
Promise == INSTANCE BoundedQueue WITH queue <- list
KeepsPromise == Promise!Spec

\* Whatever is enqueued is taken out, although producers and consumers block.
EveryItemTaken == \A x \in Item : x \in Range(list) ~> x \notin Range(list)
=============================================================================
