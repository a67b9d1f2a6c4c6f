---------------------------- MODULE OsiThreadProofs ---------------------------
(***************************************************************************)
(* Machine-checked proofs about OsiThread, for any capacity of the work    *)
(* queue, any functions and any number of posting threads.                 *)
(***************************************************************************)
EXTENDS OsiThread, FiniteSetTheorems, SequenceTheorems, TLAPS

Types ==
  /\ queue \in Seq(Item) /\ Len(queue) <= Capacity
  /\ posting \in [Poster -> Item \cup {NoItem}]
  /\ worker \in [pc : {"none", "created", "loop", "call", "drain", "drain_call", "exited"},
                 item : Item \cup {NoItem}, count : Nat]
  /\ stop \in Nat
  /\ due \subseteq Item

\* A thread leaves its loop only when it is asked to stop, which its owner does
\* once, after the start was reported; the final loop counts from 0.
Phases ==
  /\ owner \in {"outside", "starting", "no_thread", "using", "stopping", "joined", "freed"}
  /\ start \in {"none", "ok", "error"}
  /\ owner = "outside" => start = "none" /\ worker.pc = "none"
  /\ start = "none" <=> worker.pc \in {"none", "created"}
  /\ start = "error" => worker.pc = "exited"
  /\ owner \in {"outside", "starting", "no_thread", "using"} => stop = 0 /\ due = {}
  /\ owner \in {"outside", "starting", "using"} /\ start = "ok" => worker.pc \in {"loop", "call"}
  /\ owner \in {"using", "stopping", "joined", "freed"} => start = "ok"
  /\ owner \in {"joined", "freed"} => worker.pc = "exited"
  /\ worker.pc \in {"none", "created", "loop", "call"} => worker.count = 0

\* How many turns of its final loop run_thread has left, at least.
Turns == IF worker.pc = "drain_call" THEN Capacity - worker.count
         ELSE Capacity + 1 - worker.count

\* The first |n| elements of a queue.
Leading(q, n) == {q[i] : i \in {j \in 1 .. Len(q) : j <= n}}

\* What the thread is running.
Running == IF worker.pc \in {"call", "drain_call"} THEN {worker.item} ELSE {}

\* What was queued when thread_stop was called is being run, or so near the
\* front of the queue that the final loop reaches it.
DueReached ==
  /\ worker.pc = "exited" => due = {}
  /\ due \subseteq Running \cup Leading(queue, Turns)

ThreadInv == Types /\ Phases /\ DueReached

-------------------------------------------------------------------------------
LEMMA CapacityPositive == Capacity \in Nat /\ Capacity > 0
  BY OsiThreadAssumption

\* More turns reach at least as much.
LEMMA LeadingGrows ==
  ASSUME NEW q \in Seq(Item), NEW n \in Int, NEW m \in Int, n <= m
  PROVE  Leading(q, n) \subseteq Leading(q, m)
<1>1. Len(q) \in Nat
  BY LenProperties
<1> QED
  BY <1>1 DEF Leading

\* The front of a queue stays when an element is appended.
LEMMA LeadingOfAppend ==
  ASSUME NEW q \in Seq(Item), NEW x \in Item, NEW n \in Int
  PROVE  Leading(q, n) \subseteq Leading(Append(q, x), n)
<1>1. /\ Append(q, x) \in Seq(Item) /\ Len(Append(q, x)) = Len(q) + 1
      /\ \A i \in 1 .. Len(q) : Append(q, x)[i] = q[i]
  BY AppendProperties
<1>2. PICK r \in Seq(Item) : r = Append(q, x) /\ Len(r) = Len(q) + 1
                             /\ \A i \in 1 .. Len(q) : r[i] = q[i]
  BY <1>1, Zenon
<1>3. Len(q) \in Nat
  BY LenProperties
<1>4. Leading(q, n) \subseteq Leading(r, n)
  <2> SUFFICES ASSUME NEW i \in 1 .. Len(q), i <= n
               PROVE  q[i] \in Leading(r, n)
    BY DEF Leading
  <2>1. i \in 1 .. Len(r) /\ r[i] = q[i]
    BY <1>2, <1>3
  <2> QED
    BY <2>1 DEF Leading
<1> QED
  BY <1>2, <1>4

\* Without its head, the rest of the front is one shorter.
LEMMA LeadingOfTail ==
  ASSUME NEW q \in Seq(Item), NEW n \in Int, q # <<>>
  PROVE  Leading(q, n) \subseteq {Head(q)} \cup Leading(Tail(q), n - 1)
<1>1. PICK r \in Seq(Item) : r = Tail(q) /\ Len(r) = Len(q) - 1
                             /\ \A i \in 1 .. Len(r) : r[i] = q[i + 1]
  BY HeadTailProperties, Zenon
<1>2. Len(q) \in Nat /\ Head(q) = q[1]
  BY LenProperties
<1>3. ASSUME NEW i \in 1 .. Len(q), i <= n
      PROVE  q[i] \in {q[1]} \cup Leading(r, n - 1)
  <2>1. CASE i = 1
    BY <2>1
  <2>2. CASE i # 1
    <3>1. i - 1 \in 1 .. Len(r) /\ i - 1 <= n - 1 /\ r[i - 1] = q[i]
      BY <1>1, <1>2, <1>3, <2>2, SMTT(30)
    <3> QED
      BY <3>1 DEF Leading
  <2> QED
    BY <2>1, <2>2
<1>4. Leading(q, n) \subseteq {q[1]} \cup Leading(r, n - 1)
  BY <1>3 DEF Leading
<1> QED
  BY <1>1, <1>2, <1>4

\* A queue no longer than |n| is all front; an empty one, or no turns, has none.
LEMMA LeadingIsAll ==
  ASSUME NEW q \in Seq(Item), NEW n \in Int
  PROVE  /\ Len(q) <= n => Range(q) \subseteq Leading(q, n)
         /\ q = <<>> \/ n <= 0 => Leading(q, n) = {}
<1>1. Len(q) \in Nat /\ DOMAIN q = 1 .. Len(q)
  BY LenProperties
<1>2. q = <<>> => Len(q) = 0
  BY EmptySeq
<1> QED
  BY <1>1, <1>2 DEF Leading, Range

\* A queue is a sequence of items of some length.
LEMMA QueueFacts ==
  ASSUME NEW q \in Seq(Item)
  PROVE  /\ Len(q) \in Nat /\ Range(q) \subseteq Item
         /\ q # <<>> => Head(q) \in Item /\ Tail(q) \in Seq(Item)
                        /\ Len(Tail(q)) = Len(q) - 1
         /\ \A x \in Item : Append(q, x) \in Seq(Item) /\ Len(Append(q, x)) = Len(q) + 1
  BY LenProperties, HeadTailProperties, AppendProperties, SMTT(30) DEF Range

-------------------------------------------------------------------------------
\* The owner's calls: thread_new, thread_stop, thread_join, thread_free.
LEMMA OwnerKeepsInv ==
  ASSUME ThreadInv,
         thread_new_sized \/ thread_new_returns \/ thread_stop \/ thread_join \/ thread_free
  PROVE  ThreadInv'
<1> USE DEF ThreadInv
<1>1. CASE thread_new_sized
  <2>1. /\ due = {} /\ due' = {} /\ owner = "outside" /\ owner' = "starting"
        /\ UNCHANGED <<start, stop, queue, posting>>
    BY <1>1 DEF thread_new_sized, Phases
  <2>2. Types'
    BY <1>1, <2>1 DEF thread_new_sized, Types
  <2>3. Phases'
    <3>1. CASE worker' = [worker EXCEPT !.pc = "created"]
      <4>1. worker'.pc = "created" /\ worker'.count = worker.count
        BY <3>1 DEF Types
      <4> QED
        BY <1>1, <2>1, <4>1 DEF Phases
    <3>2. CASE UNCHANGED worker
      BY <2>1, <3>2 DEF Phases
    <3> QED
      BY <1>1, <3>1, <3>2 DEF thread_new_sized
  <2> QED
    BY <2>1, <2>2, <2>3 DEF DueReached
<1>2. CASE thread_new_returns
  BY <1>2 DEF thread_new_returns, Types, Phases, DueReached, Turns, Running
<1>3. CASE thread_stop
  <2>1. /\ worker.pc \in {"loop", "call"} /\ worker.count = 0
        /\ owner' = "stopping" /\ stop' = stop + 1 /\ due' = Range(queue)
        /\ UNCHANGED <<start, queue, posting, worker>>
    BY <1>3 DEF thread_stop, Phases
  <2>2. Turns = Capacity + 1 /\ Turns \in Int
    BY <2>1, CapacityPositive DEF Turns
  <2>3. Len(queue) \in Nat /\ Len(queue) <= Turns /\ Range(queue) \subseteq Item
    BY <2>2, QueueFacts, CapacityPositive DEF Types
  <2>4. Range(queue) \subseteq Leading(queue, Turns)
    BY <2>2, <2>3, LeadingIsAll DEF Types
  <2>5. Types'
    BY <2>1, <2>3 DEF Types
  <2>6. Phases'
    BY <2>1 DEF Phases
  <2>7. DueReached'
    BY <2>1, <2>4 DEF DueReached, Turns, Running
  <2> QED
    BY <2>5, <2>6, <2>7
<1>4. CASE thread_join
  BY <1>4 DEF thread_join, Types, Phases, DueReached, Turns, Running
<1>5. CASE thread_free
  <2>1. queue' \in Seq(Item) /\ Len(queue') <= Capacity
    BY <1>5, EmptySeq, CapacityPositive DEF thread_free
  <2>2. due' = {}
    BY <1>5 DEF thread_free, Phases, DueReached
  <2> QED
    BY <1>5, <2>1, <2>2, SMTT(30) DEF thread_free, Types, Phases, DueReached
<1> QED
  BY <1>1, <1>2, <1>3, <1>4, <1>5, SMTT(30)

\* thread_post: what is queued behind the rest moves nothing.
LEMMA PostersKeepInv ==
  ASSUME ThreadInv, \E p \in Poster : enqueue(p) \/ \E x \in Item : thread_post(p, x)
  PROVE  ThreadInv'
<1> USE DEF ThreadInv
<1>1. ASSUME NEW p \in Poster, enqueue(p)
      PROVE  ThreadInv'
  <2>1. PICK x \in Item : /\ queue' = Append(queue, x) /\ Len(queue) < Capacity
                          /\ UNCHANGED <<owner, start, stop, worker, due>>
    BY <1>1 DEF enqueue, Types
  <2>2. posting' \in [Poster -> Item \cup {NoItem}]
    BY <1>1 DEF enqueue, Types
  <2>3. queue' \in Seq(Item) /\ Len(queue') <= Capacity
    BY <2>1, QueueFacts, CapacityPositive DEF Types
  <2>4. Turns \in Int /\ Turns' = Turns /\ Running' = Running
    BY <2>1, CapacityPositive DEF Types, Turns, Running
  <2>5. Leading(queue, Turns) \subseteq Leading(queue', Turns')
    BY <2>1, <2>4, LeadingOfAppend, SMTT(30) DEF Types
  <2> QED
    BY <2>1, <2>2, <2>3, <2>4, <2>5, SMTT(30) DEF Types, Phases, DueReached
<1>2. ASSUME NEW p \in Poster, NEW x \in Item, thread_post(p, x)
      PROVE  ThreadInv'
  BY <1>2 DEF thread_post, Types, Phases, DueReached, Turns, Running
<1> QED
  BY <1>1, <1>2

\* The thread itself: one element leaves the front of the queue per turn.
LEMMA WorkerKeepsInv ==
  ASSUME ThreadInv, WorkerStep
  PROVE  ThreadInv'
<1> USE DEF ThreadInv
<1>1. CASE run_thread
  <2>1. due = {} /\ due' = {} /\ UNCHANGED <<owner, stop, queue, posting>>
    BY <1>1 DEF run_thread, Phases, DueReached, Running
  <2>2. Types'
    BY <1>1, <2>1 DEF run_thread, Types
  <2>3. Phases'
    <3>1. \/ start' = "ok" /\ worker'.pc = "loop" /\ worker'.count = worker.count
          \/ start' = "error" /\ worker'.pc = "exited"
      BY <1>1 DEF run_thread, Types
    <3>2. worker.pc = "created" /\ owner \in {"outside", "starting", "no_thread"}
      BY <1>1 DEF run_thread, Phases
    <3> QED
      BY <2>1, <3>1, <3>2 DEF Phases
  <2> QED
    BY <2>1, <2>2, <2>3, SMTT(30) DEF DueReached
<1>2. CASE work_queue_read_cb
  <2>1. /\ queue # <<>> /\ queue' = Tail(queue)
        /\ worker.pc = "loop" /\ worker' = [worker EXCEPT !.pc = "call", !.item = Head(queue)]
        /\ UNCHANGED <<owner, start, stop, posting, due>>
    BY <1>2 DEF work_queue_read_cb
  <2>2. queue' \in Seq(Item) /\ Len(queue') <= Capacity /\ Head(queue) \in Item
    BY <2>1, QueueFacts, CapacityPositive, SMTT(30) DEF Types
  <2>3. Turns \in Int /\ Turns' = Turns /\ Running = {} /\ Running' = {Head(queue)}
    BY <2>1, CapacityPositive DEF Types, Turns, Running
  <2>4. /\ Leading(queue, Turns) \subseteq {Head(queue)} \cup Leading(queue', Turns - 1)
        /\ Leading(queue', Turns - 1) \subseteq Leading(queue', Turns)
    <3>1. Turns - 1 \in Int /\ Turns - 1 <= Turns
      BY <2>3
    <3>2. Leading(queue', Turns - 1) \subseteq Leading(queue', Turns)
      BY <2>2, <2>3, <3>1, LeadingGrows, SMTT(30)
    <3>3. Leading(queue, Turns) \subseteq {Head(queue)} \cup Leading(Tail(queue), Turns - 1)
      BY <2>1, <2>3, LeadingOfTail DEF Types
    <3> QED
      BY <2>1, <3>2, <3>3, SMTT(30)
  <2>5. Types'
    BY <2>1, <2>2, Zenon DEF Types
  <2>6. Phases'
    <3>1. worker'.pc = "call" /\ worker'.count = worker.count
      BY <2>1 DEF Types
    <3> QED
      BY <2>1, <3>1 DEF Phases
  <2>7. DueReached'
    BY <2>1, <2>3, <2>4, SMTT(30) DEF Types, DueReached
  <2> QED
    BY <2>5, <2>6, <2>7
<1>3. CASE reactor_stopped
  <2>1. Turns' = Turns /\ Running' = Running
    BY <1>3, SMTT(30) DEF reactor_stopped, Types, Turns, Running
  <2> QED
    BY <1>3, <2>1 DEF reactor_stopped, Types, Phases, DueReached
<1>4. CASE call_function
  <2>1. PICK x : /\ x = worker.item /\ worker.pc \in {"call", "drain_call"}
                 /\ x \in Reposts => Len(queue) < Capacity
                 /\ queue' = IF x \in Reposts THEN Append(queue, x) ELSE queue
                 /\ worker' = [worker EXCEPT
                                 !.pc = IF worker.pc = "call" THEN "loop" ELSE "drain",
                                 !.item = NoItem,
                                 !.count = IF worker.pc = "call" THEN @ ELSE @ + 1]
                 /\ due' = due \ {x}
                 /\ UNCHANGED <<owner, start, stop, posting>>
    BY <1>4 DEF call_function
  <2>2. Turns \in Int /\ Turns' = Turns /\ Running = {x} /\ Running' = {}
    BY <2>1, CapacityPositive DEF Types, Turns, Running
  <2>3. /\ queue' \in Seq(Item) /\ Len(queue') <= Capacity
        /\ Leading(queue, Turns) \subseteq Leading(queue', Turns)
    <3>1. CASE x \in Reposts
      <4>1. x \in Item
        BY <3>1, OsiThreadAssumption
      <4> QED
        BY <2>1, <2>2, <3>1, <4>1, QueueFacts, LeadingOfAppend, CapacityPositive, SMTT(30) DEF Types
    <3>2. CASE x \notin Reposts
      BY <2>1, <3>2 DEF Types
    <3> QED
      BY <3>1, <3>2
  <2>4. Types'
    <3>1. CASE worker.pc = "call"
      <4>1. worker' = [worker EXCEPT !.pc = "loop", !.item = NoItem]
        BY <2>1, <3>1, Zenon DEF Types
      <4> QED
        BY <2>1, <2>3, <4>1, Zenon DEF Types
    <3>2. CASE worker.pc = "drain_call"
      <4>1. PICK n \in Nat : n = worker.count + 1
        BY DEF Types
      <4>2. worker' = [worker EXCEPT !.pc = "drain", !.item = NoItem, !.count = n]
        BY <2>1, <3>2, <4>1 DEF Types
      <4> QED
        BY <2>1, <2>3, <4>2, Zenon DEF Types
    <3> QED
      BY <2>1, <3>1, <3>2, SMTT(30)
  <2>5. Phases'
    <3>1. \/ worker.pc = "call" /\ worker'.pc = "loop" /\ worker'.count = worker.count
          \/ worker.pc = "drain_call" /\ worker'.pc = "drain"
      BY <2>1 DEF Types
    <3> QED
      BY <2>1, <3>1 DEF Phases
  <2>6. DueReached'
    BY <2>1, <2>2, <2>3, SMTT(30) DEF Types, DueReached
  <2> QED
    BY <2>4, <2>5, <2>6
<1>5. CASE drain
  <2>1. /\ worker.pc = "drain"
        /\ worker' = IF queue # <<>> /\ worker.count <= Capacity
                     THEN [worker EXCEPT !.pc = "drain_call", !.item = Head(queue)]
                     ELSE [worker EXCEPT !.pc = "exited"]
        /\ queue' = IF queue = <<>> THEN queue ELSE Tail(queue)
        /\ UNCHANGED <<owner, start, stop, posting, due>>
    BY <1>5 DEF drain
  <2>2. /\ queue' \in Seq(Item) /\ Len(queue') <= Capacity
        /\ queue # <<>> => Head(queue) \in Item
    BY <2>1, QueueFacts, CapacityPositive DEF Types
  <2>3. Turns = Capacity + 1 - worker.count /\ Turns \in Int /\ Running = {}
    BY <2>1, CapacityPositive DEF Types, Turns, Running
  <2>4. Types'
    BY <2>1, <2>2, Zenon DEF Types
  <2>5. Phases'
    BY <2>1 DEF Types, Phases
  <2>6. CASE queue # <<>> /\ worker.count <= Capacity
    <3>1. Turns' = Turns - 1 /\ Running' = {Head(queue)} /\ queue' = Tail(queue)
      BY <2>1, <2>3, <2>6, CapacityPositive, SMTT(30) DEF Types, Turns, Running
    <3>2. Leading(queue, Turns) \subseteq {Head(queue)} \cup Leading(queue', Turns')
      BY <2>3, <2>6, <3>1, LeadingOfTail, SMTT(30) DEF Types
    <3> QED
      BY <2>1, <2>3, <2>4, <2>5, <2>6, <3>1, <3>2, SMTT(30) DEF Types, DueReached
  <2>7. CASE queue = <<>> \/ worker.count > Capacity
    <3>1. queue = <<>> \/ Turns <= 0
      BY <2>3, <2>7, CapacityPositive, SMTT(30) DEF Types
    <3>2. due = {}
      BY <2>3, <3>1, LeadingIsAll DEF Types, DueReached
    <3> QED
      BY <2>1, <2>4, <2>5, <3>2, SMTT(30) DEF DueReached
  <2> QED
    BY <2>6, <2>7, CapacityPositive DEF Types
<1> QED
  BY <1>1, <1>2, <1>3, <1>4, <1>5, SMTT(30) DEF WorkerStep

LEMMA ThreadInitially == Init => ThreadInv
<1>1. <<>> \in Seq(Item) /\ Len(<<>>) = 0
  BY EmptySeq
<1> QED
  BY <1>1, CapacityPositive DEF Init, ThreadInv, Types, Phases, DueReached

LEMMA ThreadStep ==
  ASSUME ThreadInv, [Next]_vars
  PROVE  ThreadInv'
<1>1. CASE Next
  BY <1>1, OwnerKeepsInv, PostersKeepInv, WorkerKeepsInv, SMTT(30) DEF Next
<1>2. CASE UNCHANGED vars
  BY <1>2 DEF vars, ThreadInv, Types, Phases, DueReached, Turns, Running
<1> QED
  BY <1>1, <1>2

\* "Make sure we dispatch all queued work items before exiting the thread":
\* the bound of run_thread's final loop is enough for whatever was queued when
\* thread_stop was called, for every capacity and although functions post
\* themselves again and other threads still add elements.
THEOREM QueuedItemsAreRun == Spec => []QueuedItemsRun
<1>1. ThreadInv => QueuedItemsRun
  BY DEF ThreadInv, Phases, DueReached, QueuedItemsRun
<1> QED
  BY <1>1, ThreadInitially, ThreadStep, PTL DEF Spec

-------------------------------------------------------------------------------
\* A work item is in use: queued, being run or about to be queued.
Held(x) == x \in Range(queue) \/ worker.item = x \/ \E p \in Poster : posting[p] = x

\* An allocated item is in one place, and unless the final loop ended by its
\* count every allocated item is in some place.
ItemInv ==
  /\ live \in [Item -> {0, 1}]
  /\ IsInjective(queue) /\ worker.item \notin Range(queue)
  /\ \A p, r \in Poster : posting[p] = posting[r] /\ posting[p] # NoItem => p = r
  /\ \A p \in Poster : posting[p] # NoItem =>
       posting[p] \notin Range(queue) /\ posting[p] # worker.item
  /\ \A x \in Item : Held(x) => live[x] = 1
  /\ worker.count <= Capacity => \A x \in Item : live[x] = 1 => Held(x)
  /\ worker.item = NoItem <=> worker.pc \notin {"call", "drain_call"}
  /\ owner = "freed" => queue = <<>> /\ \A p \in Poster : posting[p] = NoItem

\* What a queue holds once an element is appended, or the first one taken out.
LEMMA AppendedItem ==
  ASSUME NEW q \in Seq(Item), NEW x \in Item, IsInjective(q), x \notin Range(q)
  PROVE  Range(Append(q, x)) = Range(q) \cup {x} /\ IsInjective(Append(q, x))
<1>0. /\ Append(q, x) \in Seq(Item) /\ Len(Append(q, x)) = Len(q) + 1
      /\ Append(q, x)[Len(q) + 1] = x /\ \A i \in 1 .. Len(q) : Append(q, x)[i] = q[i]
  BY AppendProperties
<1>1. PICK r \in Seq(Item) : /\ r = Append(q, x) /\ Len(r) = Len(q) + 1 /\ r[Len(q) + 1] = x
                             /\ \A i \in 1 .. Len(q) : r[i] = q[i]
  BY <1>0, Zenon
<1>2. Len(q) \in Nat /\ DOMAIN q = 1 .. Len(q) /\ DOMAIN r = 1 .. Len(r)
  BY LenProperties
<1>3. Range(r) = Range(q) \cup {x}
  BY <1>1, <1>2, SMTT(30) DEF Range
<1>4. IsInjective(r)
  BY <1>1, <1>2, SMTT(30) DEF Range, IsInjective
<1> QED
  BY <1>1, <1>3, <1>4, SMTT(30)

LEMMA TakenItem ==
  ASSUME NEW q \in Seq(Item), q # <<>>, IsInjective(q)
  PROVE  /\ Range(Tail(q)) = Range(q) \ {Head(q)} /\ IsInjective(Tail(q))
         /\ Head(q) \in Range(q)
<1>1. PICK r \in Seq(Item) : /\ r = Tail(q) /\ Len(r) = Len(q) - 1
                             /\ \A i \in 1 .. Len(r) : r[i] = q[i + 1]
  BY HeadTailProperties, Zenon
<1>2. Len(q) \in Nat /\ Len(q) # 0 /\ DOMAIN q = 1 .. Len(q) /\ DOMAIN r = 1 .. Len(r)
      /\ Head(q) = q[1]
  BY LenProperties, EmptySeq
<1>3. ASSUME NEW i \in 1 .. Len(q), q[i] # q[1]
      PROVE  q[i] \in Range(r)
  <2>1. i - 1 \in DOMAIN r /\ r[i - 1] = q[i]
    BY <1>1, <1>2, <1>3, SMTT(30)
  <2> QED
    BY <2>1 DEF Range
<1>4. ASSUME NEW i \in 1 .. Len(r)
      PROVE  r[i] \in Range(q) /\ r[i] # q[1]
  BY <1>1, <1>2, <1>4, SMTT(30) DEF Range, IsInjective
<1>5. Range(r) = Range(q) \ {q[1]}
  BY <1>2, <1>3, <1>4, SMTT(30) DEF Range
<1>6. IsInjective(r)
  BY <1>1, <1>2, SMTT(30) DEF IsInjective
<1>7. q[1] \in Range(q)
  BY <1>2, SMTT(30) DEF Range
<1> QED
  BY <1>1, <1>2, <1>5, <1>6, <1>7, Zenon

\* fixed_queue_free frees each queued item once.
LEMMA FreedItem ==
  ASSUME NEW q \in Seq(Item), NEW x \in Item, IsInjective(q)
  PROVE  Cardinality({i \in DOMAIN q : q[i] = x}) = IF x \in Range(q) THEN 1 ELSE 0
<1>1. CASE x \in Range(q)
  <2>1. PICK j \in DOMAIN q : q[j] = x
    BY <1>1 DEF Range
  <2>2. {i \in DOMAIN q : q[i] = x} = {j}
    BY <2>1 DEF IsInjective
  <2> QED
    BY <1>1, <2>2, FS_Singleton, Zenon
<1>2. CASE x \notin Range(q)
  <2>1. {i \in DOMAIN q : q[i] = x} = {}
    BY <1>2 DEF Range
  <2> QED
    BY <1>2, <2>1, FS_EmptySet, Zenon
<1> QED
  BY <1>1, <1>2

LEMMA OwnerKeepsItems ==
  ASSUME ThreadInv, ItemInv,
         thread_new_sized \/ thread_new_returns \/ thread_stop \/ thread_join \/ thread_free
  PROVE  ItemInv'
<1>1. CASE thread_new_sized \/ thread_new_returns \/ thread_stop \/ thread_join
  <2>1. /\ UNCHANGED <<queue, posting, live>> /\ owner' # "freed"
        /\ worker'.item = worker.item /\ worker'.count = worker.count
        /\ worker'.pc = worker.pc \/ (worker.pc = "none" /\ worker'.pc = "created")
    BY <1>1, SMTT(30)
    DEF thread_new_sized, thread_new_returns, thread_stop, thread_join, ThreadInv, Types, Phases
  <2> QED
    BY <2>1, SMTT(30) DEF ItemInv, Held
<1>2. CASE thread_free
  <2>1. /\ queue' = <<>> /\ UNCHANGED <<posting, worker>>
        /\ worker.pc = "exited" /\ \A p \in Poster : posting[p] = NoItem
    BY <1>2 DEF thread_free, ThreadInv, Phases
  <2>2. live' = [x \in Item |-> live[x] - (IF x \in Range(queue) THEN 1 ELSE 0)]
    <3>1. \A x \in Item : Cardinality({i \in DOMAIN queue : queue[i] = x})
                             = IF x \in Range(queue) THEN 1 ELSE 0
      BY FreedItem, Zenon DEF ThreadInv, Types, ItemInv
    <3>2. live' = [x \in Item |-> live[x] - Cardinality({i \in DOMAIN queue : queue[i] = x})]
      BY <1>2, Zenon DEF thread_free
    <3> QED
      BY <3>1, <3>2, Zenon
  <2>3. IsInjective(queue') /\ Range(queue') = {}
    BY <2>1 DEF IsInjective, Range
  <2>4. \A x \in Item : x \in Range(queue) => live[x] = 1
    BY DEF ItemInv, Held
  <2>5. live' \in [Item -> {0, 1}]
    BY <2>2, <2>4, SMTT(30) DEF ItemInv
  <2>6. worker.item = NoItem
    BY <2>1 DEF ItemInv
  <2>7. \A x \in Item : ~Held(x)'
    BY <2>1, <2>3, <2>6, OsiThreadAssumption, SMTT(30) DEF Held
  <2>8. worker.count <= Capacity => \A x \in Item : live'[x] = 0
    BY <2>1, <2>2, <2>4, <2>6, OsiThreadAssumption, SMTT(30) DEF ItemInv, Held
  <2> QED
    BY <2>1, <2>3, <2>5, <2>6, <2>7, <2>8, SMTT(30) DEF ItemInv
<1> QED
  BY <1>1, <1>2

LEMMA PostersKeepItems ==
  ASSUME ThreadInv, ItemInv, \E p \in Poster : enqueue(p) \/ \E x \in Item : thread_post(p, x)
  PROVE  ItemInv'
<1> USE OsiThreadAssumption
<1>1. ASSUME NEW p \in Poster, enqueue(p)
      PROVE  ItemInv'
  <2>1. PICK x \in Item : /\ x = posting[p] /\ queue' = Append(queue, x)
                          /\ posting' = [posting EXCEPT ![p] = NoItem]
                          /\ UNCHANGED <<owner, worker, live>>
    BY <1>1 DEF enqueue, ThreadInv, Types
  <2>2. queue \in Seq(Item) /\ x \notin Range(queue) /\ x # worker.item /\ owner # "freed"
    BY <2>1 DEF ItemInv, ThreadInv, Types
  <2>3. Range(queue') = Range(queue) \cup {x} /\ IsInjective(queue')
    BY <2>1, <2>2, AppendedItem, Zenon DEF ItemInv
  <2>4. /\ posting'[p] = NoItem /\ \A r \in Poster : r # p => posting'[r] = posting[r] /\ posting[r] # x
    BY <2>1 DEF ThreadInv, Types, ItemInv
  <2>5. \A y \in Item : Held(y)' <=> Held(y)
    BY <2>1, <2>3, <2>4, SMTT(30) DEF Held
  <2> QED
    BY <2>1, <2>2, <2>3, <2>4, <2>5, SMTT(30) DEF ItemInv
<1>2. ASSUME NEW p \in Poster, NEW x \in Item, thread_post(p, x)
      PROVE  ItemInv'
  <2>1. /\ posting[p] = NoItem /\ live[x] = 0 /\ owner = "using"
        /\ posting' = [posting EXCEPT ![p] = x] /\ live' = [live EXCEPT ![x] = @ + 1]
        /\ UNCHANGED <<owner, queue, worker>>
    BY <1>2 DEF thread_post
  <2>2. posting'[p] = x /\ \A r \in Poster : r # p => posting'[r] = posting[r]
    BY <2>1 DEF ThreadInv, Types
  <2>3. live' \in [Item -> {0, 1}] /\ live'[x] = 1 /\ \A y \in Item : y # x => live'[y] = live[y]
    BY <2>1 DEF ItemInv
  <2>4. ~Held(x)
    BY <2>1 DEF ItemInv
  <2>5. Held(x)' /\ \A y \in Item : y # x => (Held(y)' <=> Held(y))
    BY <2>1, <2>2, SMTT(30) DEF Held
  <2> QED
    BY <2>1, <2>2, <2>3, <2>4, <2>5, SMTT(30) DEF ItemInv, Held
<1> QED
  BY <1>1, <1>2, SMTT(30)

LEMMA WorkerKeepsItems ==
  ASSUME ThreadInv, ItemInv, WorkerStep
  PROVE  ItemInv'
<1> USE OsiThreadAssumption
<1>0. queue \in Seq(Item) /\ IsInjective(queue) /\ (owner = "freed" => worker.pc = "exited")
  BY DEF ThreadInv, Types, Phases, ItemInv
<1>1. CASE run_thread \/ reactor_stopped
  <2>1. /\ UNCHANGED <<owner, queue, posting, live>>
        /\ worker'.item = worker.item /\ worker'.count = worker.count
        /\ worker.pc \notin {"call", "drain_call"} /\ worker'.pc \notin {"call", "drain_call"}
    BY <1>1, SMTT(30) DEF run_thread, reactor_stopped, ThreadInv, Types
  <2> QED
    BY <2>1, SMTT(30) DEF ItemInv, Held
<1>2. CASE work_queue_read_cb \/ (drain /\ queue # <<>> /\ worker.count <= Capacity)
  <2>1. PICK x \in Item : /\ x = Head(queue) /\ queue # <<>> /\ queue' = Tail(queue)
                          /\ worker'.item = x /\ worker'.count = worker.count
                          /\ worker.pc \notin {"call", "drain_call", "exited"}
                          /\ worker'.pc \in {"call", "drain_call"}
                          /\ UNCHANGED <<owner, posting, live>>
    <3>1. queue # <<>> /\ Head(queue) \in Item
      BY <1>0, <1>2, QueueFacts, SMTT(30) DEF work_queue_read_cb
    <3>2. PICK x \in Item : x = Head(queue)
      BY <3>1, Zenon
    <3>3. /\ queue' = Tail(queue) /\ UNCHANGED <<owner, posting, live>>
          /\ worker.pc \in {"loop", "drain"}
          /\ \/ worker' = [worker EXCEPT !.pc = "call", !.item = x]
             \/ worker' = [worker EXCEPT !.pc = "drain_call", !.item = x]
      BY <1>2, <3>1, <3>2, Zenon DEF work_queue_read_cb, drain
    <3>4. /\ worker'.item = x /\ worker'.count = worker.count
          /\ worker'.pc \in {"call", "drain_call"}
      <4>1. worker \in [pc : {"none", "created", "loop", "call", "drain", "drain_call", "exited"},
                        item : Item \cup {NoItem}, count : Nat]
        BY Zenon DEF ThreadInv, Types
      <4>2. CASE worker' = [worker EXCEPT !.pc = "call", !.item = x]
        BY <4>1, <4>2
      <4>3. CASE worker' = [worker EXCEPT !.pc = "drain_call", !.item = x]
        BY <4>1, <4>3
      <4> QED
        BY <3>3, <4>2, <4>3, Zenon
    <3>5. worker.pc \notin {"call", "drain_call", "exited"}
      BY <3>3
    <3> QED
      BY <3>1, <3>2, <3>3, <3>4, <3>5, Zenon
  <2>2. Range(queue') = Range(queue) \ {x} /\ IsInjective(queue') /\ x \in Range(queue)
    BY <1>0, <2>1, TakenItem, Zenon
  <2>3. worker.item = NoItem
    BY <2>1 DEF ItemInv
  <2>4. \A y \in Item : Held(y)' <=> Held(y)
    BY <2>1, <2>2, <2>3, SMTT(30) DEF Held
  <2> QED
    BY <1>0, <2>1, <2>2, <2>3, <2>4, SMTT(30) DEF ItemInv
<1>3. CASE call_function
  <2>1. PICK x : /\ x = worker.item
                 /\ worker.pc \in {"call", "drain_call"}
                 /\ queue' = IF x \in Reposts THEN Append(queue, x) ELSE queue
                 /\ live' = [live EXCEPT ![x] = IF x \in Reposts THEN @ ELSE @ - 1]
                 /\ worker'.item = NoItem /\ worker'.pc \in {"loop", "drain"}
                 /\ worker'.count = worker.count \/ worker'.count = worker.count + 1
                 /\ UNCHANGED <<owner, posting>>
    BY <1>3, Zenon DEF call_function, ThreadInv, Types
  <2>2. x \in Item /\ x \notin Range(queue) /\ live[x] = 1 /\ worker.count \in Nat
    BY <2>1 DEF ThreadInv, Types, ItemInv, Held
  <2>3. Range(queue') = Range(queue) \cup (Reposts \cap {x}) /\ IsInjective(queue')
    BY <1>0, <2>1, <2>2, AppendedItem, SMTT(30)
  <2>4. /\ live' \in [Item -> {0, 1}] /\ \A y \in Item : y # x => live'[y] = live[y]
        /\ live'[x] = IF x \in Reposts THEN 1 ELSE 0
    BY <2>1, <2>2, SMTT(30) DEF ItemInv
  <2>5. /\ \A y \in Item : y # x => (Held(y)' <=> Held(y))
        /\ Held(x)' <=> x \in Reposts
    BY <2>1, <2>2, <2>3, SMTT(30) DEF Held, ItemInv
  <2>6. NoItem \notin Range(queue')
    BY <1>0, <2>2, <2>3, QueueFacts, SMTT(30)
  <2>7. worker'.count <= Capacity => worker.count <= Capacity
    BY <2>1, <2>2, CapacityPositive, SMTT(30)
  <2> QED
    BY <1>0, <2>1, <2>2, <2>3, <2>4, <2>5, <2>6, <2>7, SMTT(30) DEF ItemInv
<1>4. CASE drain /\ ~(queue # <<>> /\ worker.count <= Capacity)
  <2>1. /\ worker.pc = "drain" /\ worker'.pc = "exited" /\ worker'.item = worker.item
        /\ worker'.count = worker.count /\ UNCHANGED <<owner, posting, live>>
        /\ queue' = IF queue = <<>> THEN queue ELSE Tail(queue)
        /\ queue = <<>> \/ worker.count > Capacity
    BY <1>4, CapacityPositive, SMTT(30) DEF drain, ThreadInv, Types
  <2>2. Range(queue') \subseteq Range(queue) /\ IsInjective(queue')
    BY <1>0, <2>1, TakenItem, SMTT(30)
  <2>3. worker.count <= Capacity => UNCHANGED queue
    BY <2>1, CapacityPositive, SMTT(30) DEF ThreadInv, Types
  <2>4. /\ \A y \in Item : Held(y)' => Held(y)
        /\ worker.count <= Capacity => \A y \in Item : Held(y)' <=> Held(y)
    BY <2>1, <2>2, <2>3, SMTT(30) DEF Held
  <2> QED
    BY <1>0, <2>1, <2>2, <2>3, <2>4, SMTT(30) DEF ItemInv
<1> QED
  BY <1>1, <1>2, <1>3, <1>4, Zenon DEF WorkerStep

\* Once thread_free has returned, no work item is left allocated: every one was
\* freed after its call, or by fixed_queue_free, if the final loop of run_thread
\* did not end by its count. The proof shows that each allocated item is in one
\* place at any time, so that none is freed twice either.
THEOREM ItemsAreFreed == Spec => []EveryItemFreed
<1>1. Init => ThreadInv /\ ItemInv
  <2>1. Init => IsInjective(queue) /\ Range(queue) = {}
    BY DEF Init, IsInjective, Range
  <2> QED
    BY <2>1, ThreadInitially, OsiThreadAssumption, SMTT(30) DEF Init, ItemInv, Held
<1>2. ThreadInv /\ ItemInv /\ [Next]_vars => (ThreadInv /\ ItemInv)'
  <2> SUFFICES ASSUME ThreadInv, ItemInv, [Next]_vars
               PROVE  ThreadInv' /\ ItemInv'
    BY Zenon
  <2>1. CASE Next
    BY <2>1, ThreadStep, OwnerKeepsItems, PostersKeepItems, WorkerKeepsItems, Zenon DEF Next
  <2>2. CASE UNCHANGED vars
    BY <2>2, ThreadStep, SMTT(30) DEF vars, ItemInv, Held
  <2> QED
    BY <2>1, <2>2
<1>3. ThreadInv /\ ItemInv => EveryItemFreed
  <2> SUFFICES ASSUME ThreadInv, ItemInv, owner = "freed", worker.count <= Capacity, NEW x \in Item
               PROVE  live[x] = 0
    BY Zenon DEF EveryItemFreed
  <2> QED
    <3>1. worker.item = NoItem /\ Range(queue) = {} /\ \A p \in Poster : posting[p] = NoItem
      BY DEF ItemInv, ThreadInv, Phases, Range
    <3>2. ~Held(x)
      BY <3>1, OsiThreadAssumption, SMTT(30) DEF Held
    <3> QED
      BY <3>2, SMTT(30) DEF ItemInv
<1> QED
  BY <1>1, <1>2, <1>3, PTL DEF Spec
==============================================================================
