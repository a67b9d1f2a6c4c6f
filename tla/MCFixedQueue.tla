----------------------------- MODULE MCFixedQueue -----------------------------
(* Instances of FixedQueue. *)
EXTENDS FixedQueue, TLC

CONSTANTS p1, p2, c1, c2

\* A work queue: anyone enqueues, its thread alone takes out.
WorkQueue == (p1 :> {"enqueue"}) @@ (p2 :> {"enqueue"})
             @@ (c1 :> {"dequeue", "try_dequeue", "try_remove"})

\* Producers and consumers that block.
Blocking == (p1 :> {"enqueue"}) @@ (p2 :> {"enqueue"})
            @@ (c1 :> {"dequeue"}) @@ (c2 :> {"dequeue"})

\* Two threads that try to dequeue.
TwoTakers == (p1 :> {"enqueue"}) @@ (c1 :> {"try_dequeue"}) @@ (c2 :> {"try_dequeue"})

\* One thread waits for an element, another one looks for one.
WaitAndTry == (p1 :> {"enqueue"}) @@ (c1 :> {"dequeue"}) @@ (c2 :> {"try_dequeue"})

\* One producer blocks, another one does not.
BlockAndTry == (p1 :> {"enqueue"}) @@ (p2 :> {"try_enqueue"}) @@ (c1 :> {"dequeue"})
=============================================================================
