------------------------------- MODULE OsiThread ------------------------------
(***************************************************************************)
(* osi/src/thread.cc: a thread that runs the functions posted to it, until *)
(* its owner stops it; then it runs what is still queued, and exits.       *)
(*                                                                         *)
(* Its work queue is the bounded queue that FixedQueue implements (one     *)
(* thread alone takes elements out), and its reactor is reduced to the two *)
(* descriptors it watches here: the queue's and the one that stops it.     *)
(***************************************************************************)
EXTENDS Integers, Sequences, Functions, FiniteSets

CONSTANTS
  Poster,
  Item,          \* the functions that are posted
  Reposts,       \* the functions that post themselves again when they run
  Capacity,      \* work_queue_capacity
  Failures,      \* what may fail: subset of {"pthread_create", "prctl"}
  NoItem

ASSUME OsiThreadAssumption ==
  /\ Capacity \in Nat \ {0} /\ Reposts \subseteq Item /\ NoItem \notin Item
  /\ Failures \subseteq {"pthread_create", "prctl"}

VARIABLES
  owner,      \* where the thread's owner is
  start,      \* start_arg: what the new thread answered
  stop,       \* event_fd of the reactor
  queue,      \* work_queue
  posting,    \* per poster: the item it is about to enqueue
  worker,     \* the thread: where it is, its item, count
  live,       \* how many work_item_t of each function are allocated
  due         \* what was in the queue when thread_stop was called

vars == <<owner, start, stop, queue, posting, worker, live, due>>

Init ==
  /\ owner = "outside" /\ start = "none" /\ stop = 0
  /\ queue = <<>> /\ posting = [p \in Poster |-> NoItem]
  /\ worker = [pc |-> "none", item |-> NoItem, count |-> 0]
  /\ live = [x \in Item |-> 0]
  /\ due = {}
-----------------------------------------------------------------------------
(* The owner.                                                              *)

\* thread_new_sized, up to semaphore_wait. The result of pthread_create is
\* not looked at.
thread_new_sized ==
  /\ owner = "outside"
  /\ owner' = "starting"
  /\ \/ worker' = [worker EXCEPT !.pc = "created"]
     \/ "pthread_create" \in Failures /\ UNCHANGED worker
  /\ UNCHANGED <<start, stop, queue, posting, live, due>>

\* thread_new_sized, once start_sem is posted: the thread, or NULL.
thread_new_returns ==
  /\ owner = "starting" /\ start # "none"
  /\ owner' = IF start = "error" THEN "no_thread" ELSE "using"
  /\ UNCHANGED <<start, stop, queue, posting, worker, live, due>>

\* thread_stop, reactor_stop
thread_stop ==
  /\ owner = "using"
  /\ owner' = "stopping"
  /\ stop' = stop + 1
  /\ due' = Range(queue)
  /\ UNCHANGED <<start, queue, posting, worker, live>>

\* thread_join
thread_join ==
  /\ owner = "stopping" /\ worker.pc = "exited"
  /\ owner' = "joined"
  /\ UNCHANGED <<start, stop, queue, posting, worker, live, due>>

\* The end of thread_free: fixed_queue_free frees what is left in the queue.
\* Nobody may be in thread_post any more.
thread_free ==
  /\ owner = "joined" /\ \A p \in Poster : posting[p] = NoItem
  /\ owner' = "freed"
  /\ queue' = <<>>
  /\ live' = [x \in Item |-> live[x] - Cardinality({i \in DOMAIN queue : queue[i] = x})]
  /\ UNCHANGED <<start, stop, posting, worker, due>>
-----------------------------------------------------------------------------
(* The other threads.                                                      *)

\* thread_post, up to fixed_queue_enqueue. "Only thread_free and thread_name
\* may be called after calling thread_stop."
thread_post(p, x) ==
  /\ owner = "using" /\ posting[p] = NoItem /\ live[x] = 0
  /\ posting' = [posting EXCEPT ![p] = x]
  /\ live' = [live EXCEPT ![x] = @ + 1]
  /\ UNCHANGED <<owner, start, stop, queue, worker, due>>

\* fixed_queue_enqueue, which waits for a place.
enqueue(p) ==
  /\ posting[p] # NoItem /\ Len(queue) < Capacity
  /\ queue' = Append(queue, posting[p])
  /\ posting' = [posting EXCEPT ![p] = NoItem]
  /\ UNCHANGED <<owner, start, stop, worker, live, due>>
-----------------------------------------------------------------------------
(* The thread.                                                             *)

\* run_thread, up to reactor_start.
run_thread ==
  /\ worker.pc = "created"
  /\ \/ start' = "ok" /\ worker' = [worker EXCEPT !.pc = "loop"]
     \/ /\ "prctl" \in Failures
        /\ start' = "error" /\ worker' = [worker EXCEPT !.pc = "exited"]
  /\ UNCHANGED <<owner, stop, queue, posting, live, due>>

\* work_queue_read_cb, up to the call of the function.
work_queue_read_cb ==
  /\ worker.pc = "loop" /\ queue # <<>>
  /\ worker' = [worker EXCEPT !.pc = "call", !.item = Head(queue)]
  /\ queue' = Tail(queue)
  /\ UNCHANGED <<owner, start, stop, posting, live, due>>

\* run_reactor finds event_fd readable, reads it and returns.
reactor_stopped ==
  /\ worker.pc = "loop" /\ stop > 0
  /\ stop' = 0
  /\ worker' = [worker EXCEPT !.pc = "drain"]
  /\ UNCHANGED <<owner, start, queue, posting, live, due>>

\* The function is called. In the loop the item is freed next; in the drain
\* as well, and count goes up. A function that posts itself again waits for
\* a place in the queue that it alone empties.
call_function ==
  LET x == worker.item
  IN /\ worker.pc \in {"call", "drain_call"}
     /\ x \in Reposts => Len(queue) < Capacity
     /\ queue' = IF x \in Reposts THEN Append(queue, x) ELSE queue
     /\ live' = [live EXCEPT ![x] = IF x \in Reposts THEN @ ELSE @ - 1]
     /\ worker' = [worker EXCEPT !.pc = IF worker.pc = "call" THEN "loop" ELSE "drain",
                                 !.item = NoItem,
                                 !.count = IF worker.pc = "call" THEN @ ELSE @ + 1]
     /\ due' = due \ {x}
     /\ UNCHANGED <<owner, start, stop, posting>>

drain_short ==
  /\ worker.pc = "drain"
  /\ IF queue # <<>> /\ worker.count + 1 < Capacity
     THEN worker' = [worker EXCEPT !.pc = "drain_call", !.item = Head(queue)]
     ELSE worker' = [worker EXCEPT !.pc = "exited"]
  /\ queue' = IF queue = <<>> THEN queue ELSE Tail(queue)
  /\ UNCHANGED <<owner, start, stop, posting, live, due>>

drain_one_less ==
  /\ worker.pc = "drain"
  /\ IF queue # <<>> /\ worker.count < Capacity
     THEN worker' = [worker EXCEPT !.pc = "drain_call", !.item = Head(queue)]
     ELSE worker' = [worker EXCEPT !.pc = "exited"]
  /\ queue' = IF queue = <<>> THEN queue ELSE Tail(queue)
  /\ UNCHANGED <<owner, start, stop, posting, live, due>>

drain_unbounded ==
  /\ worker.pc = "drain"
  /\ IF queue # <<>>
     THEN worker' = [worker EXCEPT !.pc = "drain_call", !.item = Head(queue), !.count = 0]
     ELSE worker' = [worker EXCEPT !.pc = "exited"]
  /\ queue' = IF queue = <<>> THEN queue ELSE Tail(queue)
  /\ UNCHANGED <<owner, start, stop, posting, live, due>>

\* The end of run_thread: one fixed_queue_try_dequeue and the condition of
\* the loop. An item that comes out after the last turn is left alone.
drain ==
  /\ worker.pc = "drain"
  /\ IF queue # <<>> /\ worker.count <= Capacity
     THEN worker' = [worker EXCEPT !.pc = "drain_call", !.item = Head(queue)]
     ELSE worker' = [worker EXCEPT !.pc = "exited"]
  /\ queue' = IF queue = <<>> THEN queue ELSE Tail(queue)
  /\ UNCHANGED <<owner, start, stop, posting, live, due>>
-----------------------------------------------------------------------------
WorkerStep ==
  run_thread \/ work_queue_read_cb \/ reactor_stopped \/ call_function \/ drain

Next ==
  \/ thread_new_sized \/ thread_new_returns \/ thread_stop \/ thread_join \/ thread_free
  \/ \E p \in Poster : enqueue(p) \/ \E x \in Item : thread_post(p, x)
  \/ WorkerStep

Spec == Init /\ [][Next]_vars

\* The thread is scheduled; its reactor does not pass over event_fd for ever,
\* because epoll_wait reports it with every turn once it is readable.
FairSpec ==
  /\ Spec
  /\ WF_vars(WorkerStep) /\ SF_vars(reactor_stopped)
  /\ WF_vars(thread_new_returns)
-----------------------------------------------------------------------------
\* An allocated item is in one place only: about to be enqueued, queued or
\* being run, so the work queue never exceeds its capacity and no item is run
\* after it is freed.
TypeOK ==
  /\ Len(queue) <= Capacity /\ stop \in 0 .. 1
  /\ worker.count \in 0 .. Capacity + 1
  /\ \A x \in Item :
       Cardinality({i \in DOMAIN queue : queue[i] = x})
         + Cardinality({p \in Poster : posting[p] = x})
         + (IF worker.item = x THEN 1 ELSE 0) <= live[x]

\* "Make sure we dispatch all queued work items before exiting the thread":
\* whatever was queued when thread_stop was called has run when thread_join
\* returns, although run_thread runs no more than Capacity + 1 items then.
QueuedItemsRun == owner \in {"joined", "freed"} => due = {}

\* "Queue item is freed either when the queue itself is destroyed or when the
\* item is removed from the queue for dispatch": nothing is left allocated
\* once thread_free has returned, if the final loop of run_thread ended because
\* the queue was empty. When it ends by its count, the item taken out last is
\* neither called nor freed.
EveryItemFreed ==
  owner = "freed" /\ worker.count <= Capacity => \A x \in Item : live[x] = 0

\* A function waits in thread_post for a place in the queue of its own thread.
WaitsForItself ==
  worker.pc \in {"call", "drain_call"} /\ worker.item \in Reposts /\ Len(queue) = Capacity

\* "If the thread is still running, it is stopped and the calling thread will
\* block until |thread| terminates": the thread does terminate, also when a
\* function keeps posting itself, unless that function waits for itself. And
\* thread_new returns once pthread_create has made the thread, whether or not
\* the thread gets as far as its loop.
CallsReturn ==
  /\ owner = "stopping" ~> (worker.pc = "exited" \/ WaitsForItself)
  /\ owner = "starting" /\ worker.pc # "none" ~> owner # "starting"
=============================================================================
