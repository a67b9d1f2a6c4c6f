---------------------------- MODULE FixedQueueProofs ---------------------------
(***************************************************************************)
(* Machine-checked proofs about FixedQueue, for any number of threads, any *)
(* capacity and any elements: under the usage below, the queue keeps what  *)
(* fixed_queue.h promises.                                                 *)
(***************************************************************************)
EXTENDS FixedQueue, SequenceTheorems, FiniteSetTheorems, TLAPS

Trying == {"try_enqueue", "try_dequeue", "try_remove"}
WaitsOn(op) == IF op \in {"enqueue", "try_enqueue"} THEN "enqueue_sem" ELSE "dequeue_sem"

\* Whoever tries to wait on a semaphore is the only one that uses it: the
\* O_NONBLOCK that semaphore_try_wait sets is seen by nobody else. This is how
\* the work queue of a thread is used, and any queue on which every call blocks.
Usage ==
  \A t, u \in Thread : \A p \in Operations[t], q \in Operations[u] :
    p \in Trying /\ WaitsOn(p) = WaitsOn(q) => t = u

Places == {"idle", "wait", "blocked", "try_wait", "set_flags", "read", "restore", "list", "post"}
Call == [pc : Places, op : Operation, item : Item \cup {NoItem}, flags : BOOLEAN, rc : BOOLEAN]

Types ==
  /\ list \in Seq(Item)
  /\ mutex \in Thread \cup {NoThread}
  /\ sem \in [Semaphore -> [value : Nat, nonblock : BOOLEAN]]
  /\ thread \in [Thread -> Call]
  /\ unused \subseteq Item

\* Every thread calls what it may call, and goes through the steps of that call.
CallsFollowed ==
  \A t \in Thread :
    /\ thread[t].pc # "idle" => thread[t].op \in Operations[t]
    /\ thread[t].pc \in {"wait", "blocked"} => thread[t].op \notin Trying
    /\ thread[t].pc \in {"try_wait", "set_flags", "read", "restore"} => thread[t].op \in Trying
    /\ thread[t].pc # "idle" /\ Enqueues(t) => thread[t].item \in Item

\* A removal holds the mutex until the element it found is out of the list.
RemovalsLocked ==
  \A t \in Thread :
    /\ thread[t].op = "try_remove"
    /\ thread[t].pc \in {"try_wait", "set_flags", "read", "restore", "list"}
    => mutex = t /\ thread[t].item \in Range(list)

\* A descriptor is non-blocking exactly while somebody tries to wait on it.
FlagsOwned ==
  /\ \A t \in Thread :
       /\ thread[t].pc \in {"set_flags", "read", "restore"} => thread[t].flags = FALSE
       /\ thread[t].pc \in {"read", "restore"} => sem[Waited(t)].nonblock = TRUE
  /\ \A s \in Semaphore : sem[s].nonblock = TRUE =>
       \E t \in Thread : thread[t].pc \in {"read", "restore"} /\ Waited(t) = s

\* What a call holds: a free place, an element it has put and not yet posted, an
\* element to take, a place it has freed and not yet posted.
Holds(c) ==
  IF c.pc = "list" \/ (c.pc = "restore" /\ c.rc = TRUE)
  THEN IF c.op \in {"enqueue", "try_enqueue"} THEN "place" ELSE "element"
  ELSE IF c.pc = "post"
  THEN IF c.op \in {"enqueue", "try_enqueue"} THEN "put" ELSE "taken"
  ELSE "nothing"

Holders(calls, what) == {t \in Thread : Holds(calls[t]) = what}
Count(calls, what) == Cardinality(Holders(calls, what))

One(held, what) == IF held = what THEN 1 ELSE 0

\* No permit is lost or made: the places are free, promised, occupied or about
\* to be free, and the elements are there, promised or about to be there.
PermitsConserved ==
  /\ sem["enqueue_sem"].value + Count(thread, "place") + Len(list) + Count(thread, "taken") = Capacity
  /\ sem["dequeue_sem"].value + Count(thread, "element") + Count(thread, "put") = Len(list)

QueueInv == Types /\ CallsFollowed /\ RemovalsLocked /\ FlagsOwned /\ PermitsConserved

-------------------------------------------------------------------------------
\* Cardinalities when a set gains or loses one element.
LEMMA OneElement ==
  ASSUME NEW S, NEW T, NEW x, IsFiniteSet(S), T \ {x} = S \ {x}
  PROVE  /\ IsFiniteSet(T) /\ Cardinality(T) \in Nat /\ Cardinality(S) \in Nat
         /\ Cardinality(T) + (IF x \in S THEN 1 ELSE 0) = Cardinality(S) + (IF x \in T THEN 1 ELSE 0)
<1>1. PICK R : R = S \ {x}
  BY Zenon
<1>2. IsFiniteSet(R) /\ Cardinality(R) = IF x \in S THEN Cardinality(S) - 1 ELSE Cardinality(S)
  BY <1>1, FS_RemoveElement
<1>3. Cardinality(R) \in Nat /\ Cardinality(S) \in Nat
  BY <1>2, FS_CardinalityType
<1>4. x \notin R
  BY <1>1
<1>5. CASE x \in T
  <2>1. T = R \cup {x}
    BY <1>1, <1>5
  <2>2. IsFiniteSet(T) /\ Cardinality(T) = Cardinality(R) + 1
    BY <1>2, <1>4, <2>1, FS_AddElement
  <2> QED
    BY <1>2, <1>3, <1>5, <2>2
<1>6. CASE x \notin T
  <2>1. T = R
    BY <1>1, <1>6
  <2> QED
    BY <1>2, <1>3, <1>6, <2>1
<1> QED
  BY <1>5, <1>6

\* How the counts change when one thread moves.
LEMMA CountChanges ==
  ASSUME NEW f, NEW g, NEW what, NEW t \in Thread, \A u \in Thread \ {t} : g[u] = f[u]
  PROVE  /\ Count(f, what) \in Nat /\ Count(g, what) \in Nat
         /\ Count(g, what) + One(Holds(f[t]), what) = Count(f, what) + One(Holds(g[t]), what)
<1>1. Holders(f, what) \subseteq Thread
  BY DEF Holders
<1>2. IsFiniteSet(Holders(f, what))
  BY <1>1, FS_Subset, FixedQueueAssumption
<1>3. Holders(g, what) \ {t} = Holders(f, what) \ {t}
  BY DEF Holders
<1>4. /\ t \in Holders(f, what) <=> Holds(f[t]) = what
      /\ t \in Holders(g, what) <=> Holds(g[t]) = what
  BY DEF Holders
<1> QED
  BY <1>2, <1>3, <1>4, OneElement DEF Count, One

-------------------------------------------------------------------------------
\* Taking a found element out of the list.
LEMMA RemovedElement ==
  ASSUME NEW S, NEW s \in Seq(S), NEW i \in 1 .. Len(s)
  PROVE  /\ SubSeq(s, 1, i - 1) \o SubSeq(s, i + 1, Len(s)) \in Seq(S)
         /\ Len(SubSeq(s, 1, i - 1) \o SubSeq(s, i + 1, Len(s))) = Len(s) - 1
<1>1. /\ SubSeq(s, 1, i - 1) \in Seq(S) /\ Len(SubSeq(s, 1, i - 1)) = i - 1
      /\ SubSeq(s, i + 1, Len(s)) \in Seq(S) /\ Len(SubSeq(s, i + 1, Len(s))) = Len(s) - i
  OBVIOUS
<1>2. PICK a, b : a = SubSeq(s, 1, i - 1) /\ b = SubSeq(s, i + 1, Len(s))
  BY Zenon
<1>3. a \in Seq(S) /\ b \in Seq(S) /\ Len(a) = i - 1 /\ Len(b) = Len(s) - i
  BY <1>1, <1>2, Zenon
<1>4. a \o b \in Seq(S) /\ Len(a \o b) = Len(a) + Len(b)
  BY <1>3, ConcatProperties, Zenon
<1>5. a \o b \in Seq(S) /\ Len(a \o b) = Len(s) - 1
  BY <1>3, <1>4
<1> QED
  BY <1>2, <1>5, Zenon

-------------------------------------------------------------------------------
LEMMA InitQueue ==
  ASSUME Init PROVE QueueInv
<1>1. Types
  BY FixedQueueAssumption DEF Init, Types, Call, Places, Idle, Operation, Semaphore
<1>2. \A t \in Thread : thread[t] = Idle
  BY DEF Init
<1>3. \A s \in Semaphore : sem[s].nonblock = FALSE
  BY DEF Init, Semaphore
<1>4. CallsFollowed /\ RemovalsLocked /\ FlagsOwned
  BY <1>2, <1>3 DEF CallsFollowed, RemovalsLocked, FlagsOwned, Idle
<1>5. \A what : what # "nothing" => Count(thread, what) = 0
  <2>1. \A t \in Thread : Holds(thread[t]) = "nothing"
    BY <1>2 DEF Holds, Idle
  <2>2. \A what : what # "nothing" => Holders(thread, what) = {}
    BY <2>1 DEF Holders
  <2> QED
    BY <2>2, FS_EmptySet DEF Count
<1>6. PermitsConserved
  <2>1. sem["enqueue_sem"].value = Capacity /\ sem["dequeue_sem"].value = 0 /\ Len(list) = 0
    BY DEF Init, Semaphore
  <2>2. /\ Count(thread, "place") = 0 /\ Count(thread, "element") = 0
        /\ Count(thread, "put") = 0 /\ Count(thread, "taken") = 0
    BY <1>5
  <2> QED
    BY <2>1, <2>2, FixedQueueAssumption DEF PermitsConserved
<1> QED
  BY <1>1, <1>4, <1>6 DEF QueueInv

\* A step in which only t moves.
Moves(t) ==
  /\ thread' \in [Thread -> Call]
  /\ \A u \in Thread \ {t} : thread'[u] = thread[u]

LEMMA CallChanged ==
  ASSUME Types, NEW t \in Thread, NEW c \in Call, thread' = [thread EXCEPT ![t] = c]
  PROVE  Moves(t) /\ thread'[t] = c
BY DEF Types, Moves

LEMMA CounterChanged ==
  ASSUME Types, NEW s \in Semaphore, NEW v \in Nat, sem' = [sem EXCEPT ![s].value = v]
  PROVE  /\ sem' \in [Semaphore -> [value : Nat, nonblock : BOOLEAN]]
         /\ \A q \in Semaphore : /\ sem'[q].nonblock = sem[q].nonblock
                                 /\ sem'[q].value = IF q = s THEN v ELSE sem[q].value
<1>1. PICK r : r = [sem[s] EXCEPT !.value = v]
  BY Zenon
<1>2. sem[s] \in [value : Nat, nonblock : BOOLEAN]
  BY DEF Types
<1>3. r \in [value : Nat, nonblock : BOOLEAN] /\ r.value = v /\ r.nonblock = sem[s].nonblock
  BY <1>1, <1>2
<1>4. sem' = [sem EXCEPT ![s] = r]
  BY <1>1
<1> QED
  BY <1>3, <1>4 DEF Types

\* The permits are still conserved when t moves from holding h to holding k and
\* the counters and the list make up for it.
LEMMA Accounts ==
  ASSUME Types, Types', PermitsConserved, NEW t \in Thread, Moves(t),
         NEW h, h = Holds(thread[t]), NEW k, k = Holds(thread'[t]),
         sem'["enqueue_sem"].value + One(k, "place") + Len(list') + One(k, "taken")
           = sem["enqueue_sem"].value + One(h, "place") + Len(list) + One(h, "taken"),
         sem'["dequeue_sem"].value + One(k, "element") + One(k, "put") + Len(list)
           = sem["dequeue_sem"].value + One(h, "element") + One(h, "put") + Len(list')
  PROVE  PermitsConserved'
<1>1. PICK f, g : f = thread /\ g = thread'
  OBVIOUS
<1>2. \A u \in Thread \ {t} : g[u] = f[u]
  BY <1>1 DEF Moves
<1>3. ASSUME NEW what
      PROVE  /\ Count(f, what) \in Nat /\ Count(g, what) \in Nat
             /\ Count(g, what) + One(Holds(f[t]), what) = Count(f, what) + One(Holds(g[t]), what)
  BY <1>2, CountChanges, SMTT(30)
<1>4. ASSUME NEW what
      PROVE  /\ Count(thread, what) \in Nat /\ Count(thread', what) \in Nat
             /\ Count(thread', what) + One(h, what) = Count(thread, what) + One(k, what)
  BY <1>1, <1>3, Zenon
<1>5. /\ sem["enqueue_sem"].value \in Nat /\ sem["dequeue_sem"].value \in Nat /\ Len(list) \in Nat
      /\ sem'["enqueue_sem"].value \in Nat /\ sem'["dequeue_sem"].value \in Nat /\ Len(list') \in Nat
  BY DEF Types, Semaphore
<1>6. \A held, what : One(held, what) \in Nat
  BY DEF One
<1>7. sem'["enqueue_sem"].value + Count(thread', "place") + Len(list') + Count(thread', "taken") = Capacity
  <2>1. sem["enqueue_sem"].value + Count(thread, "place") + Len(list) + Count(thread, "taken") = Capacity
    BY DEF PermitsConserved
  <2>2. /\ Count(thread', "place") + One(h, "place") = Count(thread, "place") + One(k, "place")
        /\ Count(thread', "taken") + One(h, "taken") = Count(thread, "taken") + One(k, "taken")
        /\ Count(thread', "place") \in Nat /\ Count(thread, "place") \in Nat
        /\ Count(thread', "taken") \in Nat /\ Count(thread, "taken") \in Nat
    BY <1>4, Zenon
  <2>3. /\ One(h, "place") \in Nat /\ One(k, "place") \in Nat
        /\ One(h, "taken") \in Nat /\ One(k, "taken") \in Nat
    BY <1>6, Zenon
  <2>4. PICK v, w, m, n \in Nat :
          /\ v = sem["enqueue_sem"].value /\ w = sem'["enqueue_sem"].value
          /\ m = Len(list) /\ n = Len(list')
    BY <1>5, Zenon
  <2>5. PICK a, b, c, d \in Nat :
          /\ a = Count(thread, "place") /\ b = Count(thread', "place")
          /\ c = Count(thread, "taken") /\ d = Count(thread', "taken")
    BY <2>2, Zenon
  <2>6. PICK p, q, r, s \in Nat :
          /\ p = One(h, "place") /\ q = One(k, "place")
          /\ r = One(h, "taken") /\ s = One(k, "taken")
    BY <2>3, Zenon
  <2>7. w + q + n + s = v + p + m + r /\ b + p = a + q /\ d + r = c + s /\ v + a + m + c = Capacity
    BY <2>1, <2>2, <2>4, <2>5, <2>6, Zenon
  <2>8. w + b + n + d = Capacity
    BY <2>7
  <2> QED
    BY <2>4, <2>5, <2>8, Zenon
<1>8. sem'["dequeue_sem"].value + Count(thread', "element") + Count(thread', "put") = Len(list')
  <2>1. sem["dequeue_sem"].value + Count(thread, "element") + Count(thread, "put") = Len(list)
    BY DEF PermitsConserved
  <2>2. /\ Count(thread', "element") + One(h, "element") = Count(thread, "element") + One(k, "element")
        /\ Count(thread', "put") + One(h, "put") = Count(thread, "put") + One(k, "put")
        /\ Count(thread', "element") \in Nat /\ Count(thread, "element") \in Nat
        /\ Count(thread', "put") \in Nat /\ Count(thread, "put") \in Nat
    BY <1>4, Zenon
  <2>3. /\ One(h, "element") \in Nat /\ One(k, "element") \in Nat
        /\ One(h, "put") \in Nat /\ One(k, "put") \in Nat
    BY <1>6, Zenon
  <2>4. PICK v, w, m, n \in Nat :
          /\ v = sem["dequeue_sem"].value /\ w = sem'["dequeue_sem"].value
          /\ m = Len(list) /\ n = Len(list')
    BY <1>5, Zenon
  <2>5. PICK a, b, c, d \in Nat :
          /\ a = Count(thread, "element") /\ b = Count(thread', "element")
          /\ c = Count(thread, "put") /\ d = Count(thread', "put")
    BY <2>2, Zenon
  <2>6. PICK p, q, r, s \in Nat :
          /\ p = One(h, "element") /\ q = One(k, "element")
          /\ r = One(h, "put") /\ s = One(k, "put")
    BY <2>3, Zenon
  <2>7. w + q + s + m = v + p + r + n /\ b + p = a + q /\ d + r = c + s /\ v + a + c = m
    BY <2>1, <2>2, <2>4, <2>5, <2>6, Zenon
  <2>8. w + b + d = n
    BY <2>7
  <2> QED
    BY <2>4, <2>5, <2>8, Zenon
<1> QED
  BY <1>7, <1>8, Zenon DEF PermitsConserved, Count, Holders

\* A step that neither takes nor gives.
LEMMA NothingChanges ==
  ASSUME Types, Types', PermitsConserved, NEW t \in Thread, Moves(t), list' = list,
         \A s \in Semaphore : sem'[s].value = sem[s].value,
         Holds(thread'[t]) = Holds(thread[t])
  PROVE  PermitsConserved'
<1>1. sem["enqueue_sem"].value \in Nat /\ sem["dequeue_sem"].value \in Nat /\ Len(list) \in Nat
  BY DEF Types, Semaphore
<1>2. /\ sem'["enqueue_sem"].value = sem["enqueue_sem"].value
      /\ sem'["dequeue_sem"].value = sem["dequeue_sem"].value
  BY DEF Semaphore
<1> QED
  BY <1>1, <1>2, Accounts DEF One

\* The read that takes a permit.
LEMMA TakesPermit ==
  ASSUME Types, NEW t \in Thread, sem[Waited(t)].value > 0,
         sem' = [sem EXCEPT ![Waited(t)].value = @ - 1]
  PROVE  /\ sem' \in [Semaphore -> [value : Nat, nonblock : BOOLEAN]]
         /\ \A s \in Semaphore :
              /\ sem'[s].nonblock = sem[s].nonblock
              /\ sem'[s].value = IF s = Waited(t) THEN sem[s].value - 1 ELSE sem[s].value
<1>1. PICK v : v = sem[Waited(t)].value - 1
  OBVIOUS
<1>2. Waited(t) \in Semaphore
  BY DEF Waited, Semaphore
<1>3. v \in Nat /\ sem' = [sem EXCEPT ![Waited(t)].value = v]
  BY <1>1, <1>2, SMTT(30) DEF Types
<1>4. /\ sem' \in [Semaphore -> [value : Nat, nonblock : BOOLEAN]]
      /\ \A q \in Semaphore : /\ sem'[q].nonblock = sem[q].nonblock
                              /\ sem'[q].value = IF q = Waited(t) THEN v ELSE sem[q].value
  BY <1>2, <1>3, CounterChanged, Zenon
<1> QED
  BY <1>1, <1>4

\* It turns a permit into a place to put an element, or an element to take.
LEMMA PermitTaken ==
  ASSUME Types, Types', PermitsConserved, NEW t \in Thread, Moves(t), list' = list,
         \A s \in Semaphore :
           sem'[s].value = IF s = Waited(t) THEN sem[s].value - 1 ELSE sem[s].value,
         Holds(thread[t]) = "nothing",
         Holds(thread'[t]) = IF Enqueues(t) THEN "place" ELSE "element"
  PROVE  PermitsConserved'
<1>1. sem["enqueue_sem"].value \in Nat /\ sem["dequeue_sem"].value \in Nat /\ Len(list) \in Nat
  BY DEF Types, Semaphore
<1>2. CASE Enqueues(t)
  <2>1. /\ sem'["enqueue_sem"].value = sem["enqueue_sem"].value - 1
        /\ sem'["dequeue_sem"].value = sem["dequeue_sem"].value
        /\ Holds(thread'[t]) = "place"
    BY <1>2 DEF Semaphore, Waited
  <2> QED
    BY <1>1, <2>1, Accounts DEF One
<1>3. CASE ~Enqueues(t)
  <2>1. /\ sem'["dequeue_sem"].value = sem["dequeue_sem"].value - 1
        /\ sem'["enqueue_sem"].value = sem["enqueue_sem"].value
        /\ Holds(thread'[t]) = "element"
    BY <1>3 DEF Semaphore, Waited
  <2> QED
    BY <1>1, <2>1, Accounts, SMTT(30) DEF One
<1> QED
  BY <1>2, <1>3

LEMMA CallsKept ==
  ASSUME CallsFollowed, NEW t \in Thread, Moves(t),
         thread'[t].pc # "idle" => thread'[t].op \in Operations[t],
         thread'[t].pc \in {"wait", "blocked"} => thread'[t].op \notin Trying,
         thread'[t].pc \in {"try_wait", "set_flags", "read", "restore"} => thread'[t].op \in Trying,
         thread'[t].pc # "idle" /\ thread'[t].op \in {"enqueue", "try_enqueue"} => thread'[t].item \in Item
  PROVE  CallsFollowed'
<1>1. ASSUME NEW u \in Thread
      PROVE  /\ thread'[u].pc # "idle" => thread'[u].op \in Operations[u]
             /\ thread'[u].pc \in {"wait", "blocked"} => thread'[u].op \notin Trying
             /\ thread'[u].pc \in {"try_wait", "set_flags", "read", "restore"} => thread'[u].op \in Trying
             /\ thread'[u].pc # "idle" /\ thread'[u].op \in {"enqueue", "try_enqueue"}
                  => thread'[u].item \in Item
  <2>1. CASE u = t
    BY <2>1, Zenon
  <2>2. CASE u # t
    <3>1. thread'[u] = thread[u]
      BY <2>2 DEF Moves
    <3> QED
      BY <3>1 DEF CallsFollowed, Enqueues
  <2> QED
    BY <2>1, <2>2, Zenon
<1> QED
  BY <1>1, Zenon DEF CallsFollowed, Enqueues

LEMMA RemovalsKept ==
  ASSUME RemovalsLocked, NEW t \in Thread, Moves(t), mutex' = mutex, list' = list,
         thread'[t].op = "try_remove"
           /\ thread'[t].pc \in {"try_wait", "set_flags", "read", "restore", "list"}
         => /\ thread[t].op = "try_remove"
            /\ thread[t].pc \in {"try_wait", "set_flags", "read", "restore", "list"}
            /\ thread'[t].item = thread[t].item
  PROVE  RemovalsLocked'
<1>1. ASSUME NEW u \in Thread, thread'[u].op = "try_remove",
             thread'[u].pc \in {"try_wait", "set_flags", "read", "restore", "list"}
      PROVE  mutex = u /\ thread'[u].item \in Range(list)
  <2>1. CASE u = t
    BY <1>1, <2>1 DEF RemovalsLocked
  <2>2. CASE u # t
    <3>1. thread'[u] = thread[u]
      BY <2>2 DEF Moves
    <3> QED
      BY <1>1, <3>1, SMTT(30) DEF RemovalsLocked
  <2> QED
    BY <2>1, <2>2, Zenon
<1>2. ASSUME NEW u \in Thread, thread'[u].op = "try_remove",
             thread'[u].pc \in {"try_wait", "set_flags", "read", "restore", "list"}
      PROVE  mutex' = u /\ thread'[u].item \in Range(list')
  BY <1>1, <1>2, Zenon
<1> QED
  BY <1>2, Zenon DEF RemovalsLocked, Range

\* The mutex changes hands only when no other thread is removing.
LEMMA RemovalsElsewhere ==
  ASSUME RemovalsLocked, NEW t \in Thread, Moves(t),
         mutex \in {NoThread, t} \/ (mutex' = mutex /\ list' = list),
         thread'[t].op = "try_remove"
           /\ thread'[t].pc \in {"try_wait", "set_flags", "read", "restore", "list"}
         => mutex' = t /\ thread'[t].item \in Range(list')
  PROVE  RemovalsLocked'
<1>1. ASSUME NEW u \in Thread, u # t, thread'[u].op = "try_remove",
             thread'[u].pc \in {"try_wait", "set_flags", "read", "restore", "list"}
      PROVE  mutex' = u /\ thread'[u].item \in Range(list')
  <2>1. thread'[u] = thread[u]
    BY <1>1 DEF Moves
  <2>2. mutex = u /\ thread[u].item \in Range(list)
    BY <1>1, <2>1 DEF RemovalsLocked
  <2>3. mutex' = mutex /\ list' = list
    BY <1>1, <2>2, FixedQueueAssumption
  <2> QED
    BY <2>1, <2>2, <2>3, Zenon
<1>2. ASSUME NEW u \in Thread, thread'[u].op = "try_remove",
             thread'[u].pc \in {"try_wait", "set_flags", "read", "restore", "list"}
      PROVE  mutex' = u /\ thread'[u].item \in Range(list')
  BY <1>1, <1>2, Zenon
<1> QED
  BY <1>2, Zenon DEF RemovalsLocked, Range

LEMMA FlagsKept ==
  ASSUME FlagsOwned, NEW t \in Thread, Moves(t),
         thread[t].pc \notin {"set_flags", "read", "restore"},
         thread'[t].pc \notin {"set_flags", "read", "restore"},
         \A s \in Semaphore : sem'[s].nonblock = sem[s].nonblock
  PROVE  FlagsOwned'
<1>1. ASSUME NEW u \in Thread, thread'[u].pc \in {"set_flags", "read", "restore"}
      PROVE  thread'[u] = thread[u]
  BY <1>1 DEF Moves
<1>2. ASSUME NEW u \in Thread, thread[u].pc \in {"set_flags", "read", "restore"}
      PROVE  thread'[u] = thread[u]
  BY <1>2 DEF Moves
<1> QED
  BY <1>1, <1>2, SMTT(30) DEF FlagsOwned, Waited, Enqueues, Semaphore

\* Two threads that try to wait on the same semaphore are one, and nobody else
\* waits there.
LEMMA OnlyOneTries ==
  ASSUME Usage, CallsFollowed, NEW t \in Thread, NEW u \in Thread,
         thread[t].pc \in {"try_wait", "set_flags", "read", "restore"},
         thread[u].pc # "idle", Waited(t) = Waited(u)
  PROVE  t = u
<1>1. thread[t].op \in Operations[t] \cap Trying /\ thread[u].op \in Operations[u]
  BY DEF CallsFollowed
<1>2. WaitsOn(thread[t].op) = WaitsOn(thread[u].op)
  BY DEF WaitsOn, Waited, Enqueues
<1> QED
  BY <1>1, <1>2 DEF Usage

-------------------------------------------------------------------------------
\* The step that takes a permit without trying.
LEMMA WaitKeeps ==
  ASSUME Usage, QueueInv, NEW t \in Thread, semaphore_wait(t)
  PROVE  QueueInv'
<1>0. Types /\ CallsFollowed /\ RemovalsLocked /\ FlagsOwned /\ PermitsConserved
  BY DEF QueueInv
<1>1. /\ thread[t].pc = "wait" /\ list' = list /\ mutex' = mutex /\ unused' = unused
      /\ Waited(t) \in Semaphore
  BY DEF semaphore_wait, Waited, Semaphore
<1>2. sem[Waited(t)].nonblock = FALSE
  <2>1. SUFFICES ASSUME sem[Waited(t)].nonblock = TRUE PROVE FALSE
    BY <1>0, <1>1, Zenon DEF Types
  <2>2. PICK u \in Thread : thread[u].pc \in {"read", "restore"} /\ Waited(u) = Waited(t)
    BY <1>0, <1>1, <2>1 DEF FlagsOwned
  <2>3. u = t
    BY <1>0, <1>1, <2>2, OnlyOneTries
  <2> QED
    BY <1>1, <2>2, <2>3, SMTT(30)
<1>3. PICK label \in {"list", "blocked"} :
        /\ thread' = [thread EXCEPT ![t].pc = label]
        /\ label = "list" =>
             sem[Waited(t)].value > 0 /\ sem' = [sem EXCEPT ![Waited(t)].value = @ - 1]
        /\ label = "blocked" => sem' = sem
  BY <1>2 DEF semaphore_wait, Goto
<1>4. PICK c : c = [thread[t] EXCEPT !.pc = label]
  BY Zenon
<1>5. c \in Call /\ c.pc = label /\ c.op = thread[t].op /\ c.item = thread[t].item
  BY <1>0, <1>4 DEF Types, Call, Places
<1>6. Moves(t) /\ thread'[t] = c
  BY <1>0, <1>3, <1>4, <1>5, CallChanged, Zenon
<1>7. /\ sem' \in [Semaphore -> [value : Nat, nonblock : BOOLEAN]]
      /\ \A s \in Semaphore : sem'[s].nonblock = sem[s].nonblock
      /\ label = "list" => \A s \in Semaphore :
           sem'[s].value = IF s = Waited(t) THEN sem[s].value - 1 ELSE sem[s].value
  <2>1. CASE label = "list"
    BY <1>0, <1>3, <2>1, TakesPermit, SMTT(30)
  <2>2. CASE label = "blocked"
    BY <1>0, <1>3, <2>2, SMTT(30) DEF Types
  <2> QED
    BY <2>1, <2>2
<1>8. Types'
  BY <1>0, <1>1, <1>6, <1>7, SMTT(30) DEF Types, Moves
<1>9. CallsFollowed'
  <2>1. thread[t].op \in Operations[t] \ Trying
        /\ (thread[t].op \in {"enqueue", "try_enqueue"} => thread[t].item \in Item)
    BY <1>0, <1>1 DEF CallsFollowed, Enqueues
  <2> QED
    BY <1>0, <1>5, <1>6, <2>1, CallsKept, SMTT(30)
<1>10. RemovalsLocked'
  <2>1. thread[t].op # "try_remove"
    BY <1>0, <1>1, SMTT(30) DEF CallsFollowed, Trying
  <2> QED
    BY <1>0, <1>1, <1>5, <1>6, <2>1, RemovalsKept, SMTT(30)
<1>11. FlagsOwned'
  BY <1>0, <1>1, <1>5, <1>6, <1>7, FlagsKept, SMTT(30)
<1>12. PermitsConserved'
  <2>1. Holds(thread[t]) = "nothing"
    BY <1>1 DEF Holds
  <2>2. CASE label = "blocked"
    <3>1. Holds(thread'[t]) = "nothing"
      BY <1>5, <1>6, <2>2, SMTT(30) DEF Holds
    <3> QED
      BY <1>0, <1>1, <1>3, <1>6, <1>8, <2>1, <2>2, <3>1, NothingChanges, SMTT(30)
  <2>3. CASE label = "list"
    <3>1. Holds(thread'[t]) = IF Enqueues(t) THEN "place" ELSE "element"
      BY <1>5, <1>6, <2>3, SMTT(30) DEF Holds, Enqueues
    <3> QED
      BY <1>0, <1>1, <1>6, <1>7, <1>8, <2>1, <2>3, <3>1, PermitTaken, SMTT(30)
  <2> QED
    BY <2>2, <2>3
<1> QED
  BY <1>8, <1>9, <1>10, <1>11, <1>12, Zenon DEF QueueInv

\* A blocked thread that gets its permit.
LEMMA WakeKeeps ==
  ASSUME QueueInv, NEW t \in Thread, wake(t)
  PROVE  QueueInv'
<1>0. Types /\ CallsFollowed /\ RemovalsLocked /\ FlagsOwned /\ PermitsConserved
  BY DEF QueueInv
<1>1. /\ thread[t].pc = "blocked" /\ list' = list /\ mutex' = mutex /\ unused' = unused
      /\ sem[Waited(t)].value > 0 /\ sem' = [sem EXCEPT ![Waited(t)].value = @ - 1]
  BY <1>0 DEF wake, Types, Call, Places
<1>2. PICK c : c = [thread[t] EXCEPT !.pc = "list", !.rc = TRUE]
  OBVIOUS
<1>3. c \in Call /\ c.pc = "list" /\ c.op = thread[t].op /\ c.item = thread[t].item
  BY <1>0, <1>2, Zenon DEF Types, Call, Places
<1>4. thread' = [thread EXCEPT ![t] = c]
  BY <1>1, <1>2, Zenon DEF wake
<1>5. Moves(t) /\ thread'[t] = c
  BY <1>0, <1>3, <1>4, CallChanged, Zenon
<1>6. /\ sem' \in [Semaphore -> [value : Nat, nonblock : BOOLEAN]]
      /\ \A s \in Semaphore :
           /\ sem'[s].nonblock = sem[s].nonblock
           /\ sem'[s].value = IF s = Waited(t) THEN sem[s].value - 1 ELSE sem[s].value
  BY <1>0, <1>1, TakesPermit, Zenon
<1>7. Types'
  BY <1>0, <1>1, <1>5, <1>6 DEF Types, Moves
<1>8. thread[t].op \in Operations[t] \ Trying
      /\ (thread[t].op \in {"enqueue", "try_enqueue"} => thread[t].item \in Item)
  BY <1>0, <1>1, SMTT(30) DEF CallsFollowed, Enqueues
<1>9. CallsFollowed'
  BY <1>0, <1>3, <1>5, <1>8, CallsKept, SMTT(30)
<1>10. RemovalsLocked'
  <2>1. thread[t].op # "try_remove"
    BY <1>8 DEF Trying
  <2> QED
    BY <1>0, <1>1, <1>3, <1>5, <2>1, RemovalsKept, SMTT(30)
<1>11. FlagsOwned'
  BY <1>0, <1>1, <1>3, <1>5, <1>6, FlagsKept, SMTT(30)
<1>12. PermitsConserved'
  <2>1. Holds(thread[t]) = "nothing"
    BY <1>1 DEF Holds
  <2>2. Holds(thread'[t]) = IF Enqueues(t) THEN "place" ELSE "element"
    BY <1>3, <1>5 DEF Holds, Enqueues
  <2> QED
    BY <1>0, <1>1, <1>5, <1>6, <1>7, <2>1, <2>2, PermitTaken, SMTT(30)
<1> QED
  BY <1>7, <1>9, <1>10, <1>11, <1>12, Zenon DEF QueueInv

\* A step of semaphore_try_wait before the read: the flags are read and set.
LEMMA FlagsStepKeeps ==
  ASSUME Usage, QueueInv, NEW t \in Thread, get_flags(t) \/ set_nonblock(t)
  PROVE  QueueInv'
<1>0. Types /\ CallsFollowed /\ RemovalsLocked /\ FlagsOwned /\ PermitsConserved
  BY DEF QueueInv
<1>1. /\ thread[t].pc \in {"try_wait", "set_flags"}
      /\ list' = list /\ mutex' = mutex /\ unused' = unused /\ Waited(t) \in Semaphore
  BY DEF get_flags, set_nonblock, Waited, Semaphore
<1>2. \A u \in Thread : thread[u].pc \in {"set_flags", "read", "restore"} /\ Waited(u) = Waited(t) => u = t
  BY <1>0, <1>1, OnlyOneTries, SMTT(30)
<1>3. sem[Waited(t)].nonblock = FALSE
  <2>1. SUFFICES ASSUME sem[Waited(t)].nonblock = TRUE PROVE FALSE
    BY <1>0, <1>1, Zenon DEF Types
  <2>2. PICK u \in Thread : thread[u].pc \in {"read", "restore"} /\ Waited(u) = Waited(t)
    BY <1>0, <1>1, <2>1 DEF FlagsOwned
  <2>3. u = t
    BY <1>2, <2>2
  <2> QED
    BY <1>1, <2>2, <2>3, SMTT(30)
<1>4. PICK c : /\ thread' = [thread EXCEPT ![t] = c]
               /\ c \in Call /\ c.op = thread[t].op /\ c.item = thread[t].item /\ c.rc = thread[t].rc
               /\ c.flags = FALSE
               /\ \/ thread[t].pc = "try_wait" /\ c.pc = "set_flags" /\ sem' = sem
                  \/ thread[t].pc = "set_flags" /\ c.pc = "read"
                     /\ sem' = [sem EXCEPT ![Waited(t)].nonblock = TRUE]
  <2>1. CASE get_flags(t)
    <3>1. thread' = [thread EXCEPT ![t] = [thread[t] EXCEPT !.flags = FALSE, !.pc = "set_flags"]]
      BY <1>3, <2>1, Zenon DEF get_flags
    <3>2. PICK c : c = [thread[t] EXCEPT !.flags = FALSE, !.pc = "set_flags"]
      OBVIOUS
    <3>3. /\ c \in Call /\ c.op = thread[t].op /\ c.item = thread[t].item /\ c.rc = thread[t].rc
          /\ c.flags = FALSE /\ c.pc = "set_flags"
      BY <1>0, <3>2, Zenon DEF Types, Call, Places
    <3>4. thread[t].pc = "try_wait" /\ sem' = sem
      BY <2>1 DEF get_flags
    <3> QED
      BY <3>1, <3>2, <3>3, <3>4, Zenon
  <2>2. CASE set_nonblock(t)
    <3>1. thread' = [thread EXCEPT ![t] = [thread[t] EXCEPT !.pc = "read"]]
      BY <2>2 DEF set_nonblock, Goto
    <3>2. PICK c : c = [thread[t] EXCEPT !.pc = "read"]
      BY Zenon
    <3>3. thread[t].pc = "set_flags" /\ sem' = [sem EXCEPT ![Waited(t)].nonblock = TRUE]
      BY <2>2 DEF set_nonblock
    <3>4. thread[t].flags = FALSE
      BY <1>0, <3>3 DEF FlagsOwned
    <3>5. /\ c \in Call /\ c.op = thread[t].op /\ c.item = thread[t].item /\ c.rc = thread[t].rc
          /\ c.flags = FALSE /\ c.pc = "read"
      BY <1>0, <3>2, <3>4, SMTT(30) DEF Types, Call, Places
    <3> QED
      BY <3>1, <3>2, <3>3, <3>5, Zenon
  <2> QED
    BY <2>1, <2>2, Zenon
<1>5. Moves(t) /\ thread'[t] = c
  BY <1>0, <1>4, CallChanged, Zenon
<1>6. /\ sem' \in [Semaphore -> [value : Nat, nonblock : BOOLEAN]]
      /\ \A s \in Semaphore : sem'[s].value = sem[s].value
      /\ \A s \in Semaphore : s # Waited(t) => sem'[s].nonblock = sem[s].nonblock
      /\ sem'[Waited(t)].nonblock = TRUE <=> c.pc = "read"
  <2>1. CASE c.pc = "set_flags"
    BY <1>0, <1>3, <1>4, <2>1 DEF Types
  <2>2. CASE c.pc = "read"
    <3>1. sem' = [sem EXCEPT ![Waited(t)].nonblock = TRUE]
      BY <1>4, <2>2
    <3> QED
      BY <1>0, <1>1, <2>2, <3>1, Zenon DEF Types
  <2> QED
    BY <1>4, <2>1, <2>2, Zenon
<1>7. Types'
  BY <1>0, <1>1, <1>5, <1>6, SMTT(30) DEF Types, Moves
<1>8. thread[t].op \in Operations[t] \cap Trying
      /\ (thread[t].op \in {"enqueue", "try_enqueue"} => thread[t].item \in Item)
  BY <1>0, <1>1, SMTT(30) DEF CallsFollowed, Enqueues
<1>9. CallsFollowed'
  BY <1>0, <1>4, <1>5, <1>8, CallsKept, SMTT(30)
<1>10. RemovalsLocked'
  BY <1>0, <1>1, <1>4, <1>5, RemovalsKept, SMTT(30)
<1>11. FlagsOwned'
  <2>1. \A u \in Thread : Waited(u)' = Waited(u)
    BY <1>4, <1>5, SMTT(30) DEF Moves, Waited, Enqueues
  <2>2. ASSUME NEW u \in Thread
        PROVE  /\ thread'[u].pc \in {"set_flags", "read", "restore"} => thread'[u].flags = FALSE
               /\ thread'[u].pc \in {"read", "restore"} => sem'[Waited(u)].nonblock = TRUE
    <3>1. CASE u = t
      BY <1>4, <1>5, <1>6, <3>1, SMTT(30)
    <3>2. CASE u # t
      <4>1. thread'[u] = thread[u] /\ Waited(u) \in Semaphore
        BY <1>5, <3>2, SMTT(30) DEF Moves, Waited, Semaphore
      <4>2. thread[u].pc \in {"set_flags", "read", "restore"} => Waited(u) # Waited(t)
        BY <1>2, <3>2
      <4> QED
        BY <1>0, <1>6, <4>1, <4>2, SMTT(30) DEF FlagsOwned
    <3> QED
      BY <3>1, <3>2, Zenon
  <2>3. ASSUME NEW s \in Semaphore, sem'[s].nonblock = TRUE
        PROVE  \E u \in Thread : thread'[u].pc \in {"read", "restore"} /\ Waited(u) = s
    <3>1. CASE s = Waited(t)
      BY <1>5, <1>6, <2>3, <3>1, SMTT(30)
    <3>2. CASE s # Waited(t)
      <4>1. sem[s].nonblock = TRUE
        BY <1>6, <2>3, <3>2, SMTT(30)
      <4>2. PICK u \in Thread : thread[u].pc \in {"read", "restore"} /\ Waited(u) = s
        BY <1>0, <4>1, SMTT(30) DEF FlagsOwned
      <4>3. u # t
        BY <3>2, <4>2
      <4> QED
        BY <1>5, <4>2, <4>3, SMTT(30) DEF Moves
    <3> QED
      BY <3>1, <3>2, SMTT(30)
  <2>4. \A u \in Thread :
          /\ thread'[u].pc \in {"set_flags", "read", "restore"} => thread'[u].flags = FALSE
          /\ thread'[u].pc \in {"read", "restore"} => sem'[Waited(u)'].nonblock = TRUE
    BY <2>1, <2>2, Zenon
  <2>5. \A s \in Semaphore : sem'[s].nonblock = TRUE =>
          \E u \in Thread : thread'[u].pc \in {"read", "restore"} /\ Waited(u)' = s
    BY <2>1, <2>3, Zenon
  <2> QED
    BY <2>4, <2>5, Zenon DEF FlagsOwned
<1>12. PermitsConserved'
  <2>1. Holds(thread'[t]) = Holds(thread[t])
    BY <1>1, <1>4, <1>5, SMTT(30) DEF Holds
  <2> QED
    BY <1>0, <1>1, <1>5, <1>6, <1>7, <2>1, NothingChanges, SMTT(30)
<1> QED
  BY <1>7, <1>9, <1>10, <1>11, <1>12, Zenon DEF QueueInv

\* The read of semaphore_try_wait: it never blocks, and takes a permit if there
\* is one.
LEMMA TryReadKeeps ==
  ASSUME QueueInv, NEW t \in Thread, try_read(t)
  PROVE  QueueInv'
<1>0. Types /\ CallsFollowed /\ RemovalsLocked /\ FlagsOwned /\ PermitsConserved
  BY DEF QueueInv
<1>1. /\ thread[t].pc = "read" /\ list' = list /\ mutex' = mutex /\ unused' = unused
      /\ Waited(t) \in Semaphore
  BY DEF try_read, Waited, Semaphore
<1>2. sem[Waited(t)].nonblock = TRUE /\ thread[t].flags = FALSE
  BY <1>0, <1>1 DEF FlagsOwned
<1>3. sem[Waited(t)].value \in Nat
  BY <1>0, <1>1 DEF Types
<1>4. PICK got \in BOOLEAN : got <=> sem[Waited(t)].value > 0
  BY Zenon
<1>5. PICK c : c = [thread[t] EXCEPT !.rc = got, !.pc = "restore"]
  OBVIOUS
<1>6. /\ c \in Call /\ c.pc = "restore" /\ c.op = thread[t].op /\ c.item = thread[t].item
      /\ c.flags = thread[t].flags /\ c.rc = got
  BY <1>0, <1>5, Zenon DEF Types, Call, Places
<1>7. thread' = [thread EXCEPT ![t] = c]
  <2>1. thread' = [thread EXCEPT ![t] = [thread[t] EXCEPT !.rc = (sem[Waited(t)].value > 0),
                                                          !.pc = "restore"]]
    BY <1>2, Zenon DEF try_read
  <2>2. (sem[Waited(t)].value > 0) = got
    <3>1. CASE sem[Waited(t)].value > 0
      BY <1>4, <3>1, Zenon
    <3>2. CASE ~(sem[Waited(t)].value > 0)
      <4>1. got = FALSE
        BY <1>4, <3>2, Zenon
      <4>2. (sem[Waited(t)].value > 0) = FALSE
        BY <3>2
      <4> QED
        BY <4>1, <4>2, Zenon
    <3> QED
      BY <3>1, <3>2, Zenon
  <2> QED
    BY <1>5, <2>1, <2>2, Zenon
<1>8. Moves(t) /\ thread'[t] = c
  BY <1>0, <1>6, <1>7, CallChanged, Zenon
<1>9. /\ sem' \in [Semaphore -> [value : Nat, nonblock : BOOLEAN]]
      /\ \A s \in Semaphore :
           /\ sem'[s].nonblock = sem[s].nonblock
           /\ got = TRUE => sem'[s].value = IF s = Waited(t) THEN sem[s].value - 1 ELSE sem[s].value
           /\ got = FALSE => sem'[s].value = sem[s].value
  <2>1. CASE got = TRUE
    <3>1. sem[Waited(t)].value > 0
      BY <1>4, <2>1, SMTT(30)
    <3>2. sem' = [sem EXCEPT ![Waited(t)].value = @ - 1]
      BY <3>1, Zenon DEF try_read
    <3> QED
      BY <1>0, <2>1, <3>1, <3>2, TakesPermit, Zenon
  <2>2. CASE got = FALSE
    <3>1. PICK v : v = sem[Waited(t)].value
      OBVIOUS
    <3>2. v \in Nat /\ sem' = [sem EXCEPT ![Waited(t)].value = v]
      BY <1>3, <1>4, <2>2, <3>1, Zenon DEF try_read
    <3>3. /\ sem' \in [Semaphore -> [value : Nat, nonblock : BOOLEAN]]
          /\ \A q \in Semaphore : /\ sem'[q].nonblock = sem[q].nonblock
                                  /\ sem'[q].value = IF q = Waited(t) THEN v ELSE sem[q].value
      BY <1>0, <1>1, <3>2, CounterChanged, Zenon
    <3> QED
      BY <2>2, <3>1, <3>3
  <2> QED
    BY <2>1, <2>2, Zenon
<1>10. Types'
  BY <1>0, <1>1, <1>8, <1>9 DEF Types, Moves
<1>11. thread[t].op \in Operations[t] \cap Trying
      /\ (thread[t].op \in {"enqueue", "try_enqueue"} => thread[t].item \in Item)
  BY <1>0, <1>1, SMTT(30) DEF CallsFollowed, Enqueues
<1>12. CallsFollowed'
  BY <1>0, <1>6, <1>8, <1>11, CallsKept, SMTT(30)
<1>13. RemovalsLocked'
  BY <1>0, <1>1, <1>6, <1>8, RemovalsKept, SMTT(30)
<1>14. FlagsOwned'
  <2>1. ASSUME NEW u \in Thread
        PROVE  /\ thread'[u].op = thread[u].op /\ thread'[u].flags = thread[u].flags
               /\ thread'[u].pc \in {"set_flags", "read", "restore"}
                    => thread[u].pc \in {"set_flags", "read", "restore"}
               /\ thread'[u].pc \in {"read", "restore"} <=> thread[u].pc \in {"read", "restore"}
    <3>1. CASE u = t
      BY <1>1, <1>6, <1>8, <3>1, SMTT(30)
    <3>2. CASE u # t
      BY <1>8, <3>2, SMTT(30) DEF Moves
    <3> QED
      BY <3>1, <3>2, SMTT(30)
  <2>2. \A u \in Thread : Waited(u)' = Waited(u) /\ Waited(u) \in Semaphore
    BY <2>1, SMTT(30) DEF Waited, Enqueues, Semaphore
  <2>3. \A u \in Thread :
          /\ thread'[u].pc \in {"set_flags", "read", "restore"} => thread'[u].flags = FALSE
          /\ thread'[u].pc \in {"read", "restore"} => sem'[Waited(u)'].nonblock = TRUE
    BY <1>0, <1>9, <2>1, <2>2, SMTT(30) DEF FlagsOwned
  <2>4. \A s \in Semaphore : sem'[s].nonblock = TRUE =>
          \E u \in Thread : thread'[u].pc \in {"read", "restore"} /\ Waited(u)' = s
    BY <1>0, <1>9, <2>1, <2>2, SMTT(30) DEF FlagsOwned
  <2> QED
    BY <2>3, <2>4, Zenon DEF FlagsOwned
<1>15. PermitsConserved'
  <2>1. Holds(thread[t]) = "nothing"
    BY <1>1 DEF Holds
  <2>2. CASE got = TRUE
    <3>1. Holds(thread'[t]) = IF Enqueues(t) THEN "place" ELSE "element"
      BY <1>6, <1>8, <2>2, Zenon DEF Holds, Enqueues
    <3>2. \A s \in Semaphore :
            sem'[s].value = IF s = Waited(t) THEN sem[s].value - 1 ELSE sem[s].value
      BY <1>9, <2>2
    <3> QED
      BY <1>0, <1>1, <1>8, <1>10, <2>1, <3>1, <3>2, PermitTaken, SMTT(30)
  <2>3. CASE got = FALSE
    <3>1. Holds(thread'[t]) = "nothing"
      BY <1>6, <1>8, <2>3, SMTT(30) DEF Holds
    <3>2. \A s \in Semaphore : sem'[s].value = sem[s].value
      BY <1>9, <2>3, SMTT(30)
    <3> QED
      BY <1>0, <1>1, <1>8, <1>10, <2>1, <3>1, <3>2, NothingChanges, SMTT(30)
  <2> QED
    BY <2>2, <2>3, Zenon
<1> QED
  BY <1>10, <1>12, <1>13, <1>14, <1>15, Zenon DEF QueueInv

\* semaphore_try_wait gives the descriptor its flags back; without a permit the
\* call is over and a removal unlocks the mutex.
LEMMA RestoreKeeps ==
  ASSUME Usage, QueueInv, NEW t \in Thread, restore_flags(t)
  PROVE  QueueInv'
<1>0. Types /\ CallsFollowed /\ RemovalsLocked /\ FlagsOwned /\ PermitsConserved
  BY DEF QueueInv
<1>1. /\ thread[t].pc = "restore" /\ list' = list /\ unused' = unused
      /\ thread[t].flags = FALSE /\ Waited(t) \in Semaphore
      /\ sem' = [sem EXCEPT ![Waited(t)].nonblock = thread[t].flags]
  BY <1>0 DEF restore_flags, FlagsOwned, Waited, Semaphore
<1>2. thread[t] \in Call
  BY <1>0 DEF Types
<1>3. PICK c : /\ thread' = [thread EXCEPT ![t] = c]
               /\ c = IF thread[t].rc THEN [thread[t] EXCEPT !.pc = "list"] ELSE Idle
  BY Zenon DEF restore_flags
<1>4. /\ c \in Call
      /\ thread[t].rc = TRUE => c.pc = "list" /\ c.op = thread[t].op /\ c.item = thread[t].item
      /\ thread[t].rc = FALSE => c.pc = "idle" /\ c.op = "dequeue"
  <2>1. CASE thread[t].rc = TRUE
    BY <1>2, <1>3, <2>1, SMTT(30) DEF Call, Places
  <2>2. CASE thread[t].rc = FALSE
    BY <1>3, <2>2, SMTT(30) DEF Call, Places, Idle, Operation
  <2> QED
    BY <1>2, <2>1, <2>2, Zenon DEF Call
<1>5. Moves(t) /\ thread'[t] = c
  BY <1>0, <1>3, <1>4, CallChanged, Zenon
<1>6. /\ sem' \in [Semaphore -> [value : Nat, nonblock : BOOLEAN]]
      /\ \A s \in Semaphore : sem'[s].value = sem[s].value
      /\ \A s \in Semaphore : s # Waited(t) => sem'[s].nonblock = sem[s].nonblock
      /\ sem'[Waited(t)].nonblock = FALSE
  <2>1. PICK b \in BOOLEAN : b = FALSE /\ sem' = [sem EXCEPT ![Waited(t)].nonblock = b]
    BY <1>1, Zenon
  <2> QED
    BY <1>0, <1>1, <2>1 DEF Types
<1>7. /\ thread[t].rc = TRUE => mutex' = mutex
      /\ mutex' = mutex \/ (mutex = t /\ mutex' = NoThread)
  BY <1>2 DEF restore_flags, Call
<1>8. Types'
  BY <1>0, <1>1, <1>5, <1>6, <1>7, SMTT(30) DEF Types, Moves
<1>9. thread[t].op \in Operations[t] \cap Trying
      /\ (thread[t].op \in {"enqueue", "try_enqueue"} => thread[t].item \in Item)
  BY <1>0, <1>1 DEF CallsFollowed, Enqueues
<1>10. thread[t].rc \in BOOLEAN
  BY <1>2, SMTT(30) DEF Call
<1>11. CallsFollowed'
  BY <1>0, <1>4, <1>5, <1>9, <1>10, CallsKept, SMTT(30)
<1>12. RemovalsLocked'
  <2>1. CASE thread[t].rc = TRUE
    <3>1. mutex' = mutex
      BY <1>7, <2>1, SMTT(30)
    <3> QED
      BY <1>0, <1>1, <1>4, <1>5, <2>1, <3>1, RemovalsKept, SMTT(30)
  <2>2. CASE thread[t].rc = FALSE
    <3>1. thread'[t].op # "try_remove"
      BY <1>4, <1>5, <2>2, SMTT(30)
    <3> QED
      BY <1>0, <1>1, <1>5, <1>7, <3>1, RemovalsElsewhere, SMTT(30)
  <2> QED
    BY <1>10, <2>1, <2>2, Zenon
<1>13. FlagsOwned'
  <2>1. \A u \in Thread : thread[u].pc \in {"set_flags", "read", "restore"} /\ Waited(u) = Waited(t) => u = t
    BY <1>0, <1>1, OnlyOneTries, SMTT(30)
  <2>2. thread'[t].pc \notin {"set_flags", "read", "restore"}
    BY <1>4, <1>5, <1>10, SMTT(30)
  <2>3. ASSUME NEW u \in Thread, u # t
        PROVE  thread'[u] = thread[u] /\ Waited(u)' = Waited(u) /\ Waited(u) \in Semaphore
    BY <1>5, <2>3, SMTT(30) DEF Moves, Waited, Enqueues, Semaphore
  <2>4. ASSUME NEW u \in Thread
        PROVE  /\ thread'[u].pc \in {"set_flags", "read", "restore"} => thread'[u].flags = FALSE
               /\ thread'[u].pc \in {"read", "restore"} => sem'[Waited(u)'].nonblock = TRUE
    <3>1. CASE u = t
      BY <2>2, <3>1
    <3>2. CASE u # t
      BY <1>0, <1>6, <2>1, <2>3, <3>2, SMTT(30) DEF FlagsOwned
    <3> QED
      BY <3>1, <3>2, Zenon
  <2>5. ASSUME NEW s \in Semaphore, sem'[s].nonblock = TRUE
        PROVE  \E u \in Thread : thread'[u].pc \in {"read", "restore"} /\ Waited(u)' = s
    <3>1. s # Waited(t) /\ sem[s].nonblock = TRUE
      BY <1>6, <2>5, SMTT(30)
    <3>2. PICK u \in Thread : thread[u].pc \in {"read", "restore"} /\ Waited(u) = s
      BY <1>0, <3>1, SMTT(30) DEF FlagsOwned
    <3>3. u # t
      BY <3>1, <3>2, SMTT(30)
    <3> QED
      BY <2>3, <3>2, <3>3, SMTT(30)
  <2> QED
    BY <2>4, <2>5, Zenon DEF FlagsOwned
<1>14. PermitsConserved'
  <2>1. Holds(thread'[t]) = Holds(thread[t])
    <3>1. CASE thread[t].rc = TRUE
      BY <1>1, <1>4, <1>5, <3>1 DEF Holds
    <3>2. CASE thread[t].rc = FALSE
      BY <1>1, <1>4, <1>5, <3>2, SMTT(30) DEF Holds
    <3> QED
      BY <1>10, <3>1, <3>2, Zenon
  <2> QED
    BY <1>0, <1>1, <1>5, <1>6, <1>8, <2>1, NothingChanges, SMTT(30)
<1> QED
  BY <1>8, <1>11, <1>12, <1>13, <1>14, Zenon DEF QueueInv

\* The post gives a permit for the element put or the place freed.
LEMMA PostKeeps ==
  ASSUME QueueInv, NEW t \in Thread, semaphore_post(t)
  PROVE  QueueInv'
<1>0. Types /\ CallsFollowed /\ RemovalsLocked /\ FlagsOwned /\ PermitsConserved
  BY DEF QueueInv
<1>1. /\ thread[t].pc = "post" /\ list' = list /\ mutex' = mutex /\ unused' = unused
      /\ Posted(t) \in Semaphore /\ thread' = [thread EXCEPT ![t] = Idle]
  BY DEF semaphore_post, Posted, Semaphore
<1>2. Idle \in Call /\ Idle.pc = "idle" /\ Idle.op = "dequeue"
  BY DEF Idle, Call, Places, Operation
<1>3. Moves(t) /\ thread'[t] = Idle
  BY <1>0, <1>1, <1>2, CallChanged, Zenon
<1>4. PICK v : v = sem[Posted(t)].value + 1
  OBVIOUS
<1>5. v \in Nat /\ sem' = [sem EXCEPT ![Posted(t)].value = v]
  BY <1>0, <1>1, <1>4 DEF semaphore_post, Types
<1>6. /\ sem' \in [Semaphore -> [value : Nat, nonblock : BOOLEAN]]
      /\ \A q \in Semaphore : /\ sem'[q].nonblock = sem[q].nonblock
                              /\ sem'[q].value = IF q = Posted(t) THEN v ELSE sem[q].value
  BY <1>0, <1>1, <1>5, CounterChanged, Zenon
<1>7. Types'
  BY <1>0, <1>1, <1>3, <1>6 DEF Types, Moves
<1>8. CallsFollowed'
  BY <1>0, <1>2, <1>3, CallsKept
<1>9. RemovalsLocked'
  BY <1>0, <1>1, <1>2, <1>3, RemovalsKept, SMTT(30)
<1>10. FlagsOwned'
  BY <1>0, <1>1, <1>2, <1>3, <1>6, FlagsKept, SMTT(30)
<1>11. PermitsConserved'
  <2>1. sem["enqueue_sem"].value \in Nat /\ sem["dequeue_sem"].value \in Nat /\ Len(list) \in Nat
    BY <1>0 DEF Types, Semaphore
  <2>2. Holds(thread'[t]) = "nothing"
    BY <1>2, <1>3, SMTT(30) DEF Holds
  <2>3. CASE Enqueues(t)
    <3>1. /\ sem'["dequeue_sem"].value = sem["dequeue_sem"].value + 1
          /\ sem'["enqueue_sem"].value = sem["enqueue_sem"].value
      BY <1>4, <1>6, <2>3, SMTT(30) DEF Posted, Semaphore
    <3>2. Holds(thread[t]) = "put"
      BY <1>1, <2>3, SMTT(30) DEF Holds, Enqueues
    <3> QED
      BY <1>0, <1>1, <1>3, <1>7, <2>1, <2>2, <3>1, <3>2, Accounts, SMTT(30) DEF One
  <2>4. CASE ~Enqueues(t)
    <3>1. /\ sem'["enqueue_sem"].value = sem["enqueue_sem"].value + 1
          /\ sem'["dequeue_sem"].value = sem["dequeue_sem"].value
      BY <1>4, <1>6, <2>4, SMTT(30) DEF Posted, Semaphore
    <3>2. Holds(thread[t]) = "taken"
      BY <1>1, <2>4, SMTT(30) DEF Holds, Enqueues
    <3> QED
      BY <1>0, <1>1, <1>3, <1>7, <2>1, <2>2, <3>1, <3>2, Accounts, SMTT(30) DEF One
  <2> QED
    BY <2>3, <2>4
<1> QED
  BY <1>7, <1>8, <1>9, <1>10, <1>11, Zenon DEF QueueInv

\* Somebody who holds something is counted.
LEMMA HolderCounts ==
  ASSUME NEW t \in Thread, NEW what, Holds(thread[t]) = what
  PROVE  Count(thread, what) \in Nat /\ Count(thread, what) >= 1
<1>1. t \in Holders(thread, what) /\ Holders(thread, what) \subseteq Thread
  BY DEF Holders
<1>2. PICK H : H = Holders(thread, what)
  OBVIOUS
<1>3. IsFiniteSet(H) /\ H # {}
  BY <1>1, <1>2, FS_Subset, FixedQueueAssumption, SMTT(30)
<1>4. Cardinality(H) \in Nat /\ Cardinality(H) # 0
  BY <1>3, FS_CardinalityType, FS_EmptySet, SMTT(30)
<1> QED
  BY <1>2, <1>4 DEF Count

\* The change of the list under the mutex: the permit stands for the place or the
\* element that is there, and the change is one the header allows.
LEMMA UpdateKeeps ==
  ASSUME QueueInv, NEW t \in Thread, update_list(t)
  PROVE  QueueInv' /\ Promise!Next
<1>0. Types /\ CallsFollowed /\ RemovalsLocked /\ FlagsOwned /\ PermitsConserved
  BY DEF QueueInv
<1>1. /\ thread[t].pc = "list" /\ mutex \in {NoThread, t} /\ mutex' = NoThread
      /\ sem' = sem /\ unused' = unused
  BY DEF update_list
<1>2. /\ thread[t] \in Call /\ thread[t].op \in Operation /\ list \in Seq(Item)
      /\ sem["enqueue_sem"].value \in Nat /\ sem["dequeue_sem"].value \in Nat
      /\ Len(list) \in Nat /\ Capacity \in Nat
  BY <1>0, FixedQueueAssumption, SMTT(30) DEF Types, Call, Semaphore
<1>3. Enqueues(t) => thread[t].item \in Item /\ Len(list) < Capacity
  <2>1. SUFFICES ASSUME Enqueues(t) PROVE thread[t].item \in Item /\ Len(list) < Capacity
    OBVIOUS
  <2>2. Holds(thread[t]) = "place"
    BY <1>1, <2>1, SMTT(30) DEF Holds, Enqueues
  <2>3. Count(thread, "place") \in Nat /\ Count(thread, "place") >= 1 /\ Count(thread, "taken") \in Nat
    BY <2>2, HolderCounts, CountChanges, SMTT(30)
  <2>4. sem["enqueue_sem"].value + Count(thread, "place") + Len(list) + Count(thread, "taken") = Capacity
    BY <1>0 DEF PermitsConserved
  <2>5. PICK p, q \in Nat : p = Count(thread, "place") /\ q = Count(thread, "taken")
    BY <2>3, Zenon
  <2>6. p >= 1 /\ sem["enqueue_sem"].value + p + Len(list) + q = Capacity
    BY <2>3, <2>4, <2>5, Zenon
  <2>7. Len(list) < Capacity
    BY <1>2, <2>6, SMTT(30)
  <2>8. thread[t].item \in Item
    BY <1>0, <1>1, <2>1 DEF CallsFollowed
  <2> QED
    BY <2>7, <2>8, SMTT(30)
<1>4. ~Enqueues(t) => list # <<>>
  <2>1. SUFFICES ASSUME ~Enqueues(t) PROVE Len(list) >= 1
    BY <1>2
  <2>2. Holds(thread[t]) = "element"
    BY <1>1, <2>1, SMTT(30) DEF Holds, Enqueues
  <2>3. Count(thread, "element") \in Nat /\ Count(thread, "element") >= 1 /\ Count(thread, "put") \in Nat
    BY <2>2, HolderCounts, CountChanges, SMTT(30)
  <2>4. sem["dequeue_sem"].value + Count(thread, "element") + Count(thread, "put") = Len(list)
    BY <1>0 DEF PermitsConserved
  <2>5. PICK p, q \in Nat : p = Count(thread, "element") /\ q = Count(thread, "put")
    BY <2>3, Zenon
  <2>6. p >= 1 /\ sem["dequeue_sem"].value + p + q = Len(list)
    BY <2>3, <2>4, <2>5, Zenon
  <2> QED
    BY <1>2, <2>6, SMTT(30)
<1>5. PICK c : c = [thread[t] EXCEPT !.pc = "post"]
  BY Zenon
<1>6. /\ c \in Call /\ c.pc = "post" /\ c.op = thread[t].op /\ c.item = thread[t].item
  BY <1>2, <1>5 DEF Call, Places
<1>7. thread' = [thread EXCEPT ![t] = c]
  BY <1>4, <1>5, Zenon DEF update_list, Goto
<1>8. Moves(t) /\ thread'[t] = c
  BY <1>0, <1>6, <1>7, CallChanged, Zenon
<1>9. /\ list' \in Seq(Item)
      /\ Enqueues(t) => Len(list') = Len(list) + 1
      /\ ~Enqueues(t) => Len(list') = Len(list) - 1
      /\ Promise!Next
  <2>1. CASE Enqueues(t)
    <3>1. list' = Append(list, thread[t].item)
      BY <2>1 DEF update_list, Enqueues
    <3>2. list' \in Seq(Item) /\ Len(list') = Len(list) + 1
      BY <1>2, <1>3, <2>1, <3>1, SMTT(30)
    <3>3. Promise!Put(thread[t].item)
      BY <1>3, <2>1, <3>1, SMTT(30) DEF Promise!Put
    <3> QED
      BY <1>3, <2>1, <3>2, <3>3, Zenon DEF Promise!Next
  <2>2. CASE thread[t].op = "try_remove"
    <3>1. list_remove(thread[t].item) /\ ~Enqueues(t)
      BY <2>2, SMTT(30) DEF update_list, Enqueues
    <3>2. PICK i \in 1 .. Len(list) :
            /\ list[i] = thread[t].item
            /\ list' = SubSeq(list, 1, i - 1) \o SubSeq(list, i + 1, Len(list))
      <4>1. DOMAIN list = 1 .. Len(list)
        BY <1>2
      <4> QED
        BY <3>1, <4>1, Zenon DEF list_remove
    <3>3. list' \in Seq(Item) /\ Len(list') = Len(list) - 1
      <4>1. PICK removed :
              removed = SubSeq(list, 1, i - 1) \o SubSeq(list, i + 1, Len(list))
        BY Zenon
      <4>2. list \in Seq(Item)
        BY <1>2, Zenon
      <4>3. removed \in Seq(Item) /\ Len(removed) = Len(list) - 1
        BY <4>1, <4>2, RemovedElement, Zenon
      <4> QED
        BY <3>2, <4>1, <4>3, Zenon
    <3>4. PICK e : e = thread[t].item
      OBVIOUS
    <3>5. Promise!Withdraw(e)
      BY <3>2, <3>4, Zenon DEF Promise!Withdraw
    <3>6. e \in Item
      BY <1>2, <3>2, <3>4
    <3>7. Promise!Next
      BY <3>5, <3>6, Zenon DEF Promise!Next
    <3> QED
      BY <3>1, <3>3, <3>7, Zenon
  <2>3. CASE thread[t].op \in {"dequeue", "try_dequeue"}
    <3>1. list' = Tail(list) /\ ~Enqueues(t) /\ list # <<>>
      BY <1>4, <2>3, SMTT(30) DEF update_list, Enqueues
    <3>2. list' \in Seq(Item) /\ Len(list') = Len(list) - 1
      BY <1>2, <3>1
    <3>3. Promise!Take
      BY <3>1 DEF Promise!Take
    <3> QED
      BY <3>1, <3>2, <3>3, Zenon DEF Promise!Next
  <2> QED
    BY <1>2, <2>1, <2>2, <2>3, SMTT(30) DEF Enqueues, Operation
<1>10. Types'
  BY <1>0, <1>1, <1>8, <1>9, SMTT(30) DEF Types, Moves
<1>11. CallsFollowed'
  <2>1. thread[t].op \in Operations[t]
        /\ (thread[t].op \in {"enqueue", "try_enqueue"} => thread[t].item \in Item)
    BY <1>0, <1>1, SMTT(30) DEF CallsFollowed, Enqueues
  <2> QED
    BY <1>0, <1>6, <1>8, <2>1, CallsKept, SMTT(30)
<1>12. RemovalsLocked'
  BY <1>0, <1>1, <1>6, <1>8, RemovalsElsewhere, SMTT(30)
<1>13. FlagsOwned'
  BY <1>0, <1>1, <1>6, <1>8, FlagsKept, SMTT(30)
<1>14. PermitsConserved'
  <2>1. CASE Enqueues(t)
    <3>1. Holds(thread[t]) = "place" /\ Holds(thread'[t]) = "put" /\ Len(list') = Len(list) + 1
      BY <1>1, <1>6, <1>8, <1>9, <2>1, SMTT(30) DEF Holds, Enqueues
    <3> QED
      BY <1>0, <1>1, <1>2, <1>8, <1>10, <3>1, Accounts, SMTT(30) DEF One
  <2>2. CASE ~Enqueues(t)
    <3>1. Holds(thread[t]) = "element" /\ Holds(thread'[t]) = "taken" /\ Len(list') = Len(list) - 1
      BY <1>1, <1>6, <1>8, <1>9, <2>2, SMTT(30) DEF Holds, Enqueues
    <3>2. /\ One("taken", "place") = 0 /\ One("taken", "taken") = 1
          /\ One("taken", "element") = 0 /\ One("taken", "put") = 0
          /\ One("element", "place") = 0 /\ One("element", "taken") = 0
          /\ One("element", "element") = 1 /\ One("element", "put") = 0
      BY DEF One
    <3>3. PICK v, w, m, n \in Nat :
            /\ v = sem["enqueue_sem"].value /\ w = sem["dequeue_sem"].value
            /\ m = Len(list) /\ n = Len(list')
      BY <1>0, <1>2, <1>10, SMTT(30) DEF Types
    <3>4. n = m - 1
      BY <3>1, <3>3, Zenon
    <3>5. v + 0 + n + 1 = v + 0 + m + 0 /\ w + 0 + 0 + m = w + 1 + 0 + n
      BY <3>4
    <3>6. /\ sem'["enqueue_sem"].value + One("taken", "place") + Len(list') + One("taken", "taken")
               = sem["enqueue_sem"].value + One("element", "place") + Len(list) + One("element", "taken")
          /\ sem'["dequeue_sem"].value + One("taken", "element") + One("taken", "put") + Len(list)
               = sem["dequeue_sem"].value + One("element", "element") + One("element", "put") + Len(list')
      BY <1>1, <3>2, <3>3, <3>5, Zenon
    <3> QED
      BY <1>0, <1>8, <1>10, <3>1, <3>6, Accounts, SMTT(30)
  <2> QED
    BY <2>1, <2>2
<1> QED
  BY <1>9, <1>10, <1>11, <1>12, <1>13, <1>14, Zenon DEF QueueInv

\* The beginning of a call.
LEMMA CallKeeps ==
  ASSUME QueueInv, NEW t \in Thread,
         \/ \E op \in Operation : call_enqueue(t, op) \/ call_dequeue(t, op)
         \/ call_try_remove(t)
  PROVE  QueueInv' /\ list' = list
<1>0. Types /\ CallsFollowed /\ RemovalsLocked /\ FlagsOwned /\ PermitsConserved
  BY SMTT(30) DEF QueueInv
<1>1. thread[t].pc = "idle" /\ list' = list /\ sem' = sem
  BY Zenon DEF call_enqueue, call_dequeue, call_try_remove
<1>2. PICK c :
        /\ thread' = [thread EXCEPT ![t] = c]
        /\ c \in Call /\ c.pc \in {"wait", "try_wait"} /\ c.op \in Operations[t]
        /\ c.pc = "wait" => c.op \notin Trying
        /\ c.pc = "try_wait" => c.op \in Trying
        /\ c.op \in {"enqueue", "try_enqueue"} => c.item \in Item
        /\ unused' \subseteq unused
        /\ \/ c.op # "try_remove" /\ mutex' = mutex
           \/ c.op = "try_remove" /\ mutex = NoThread /\ mutex' = t /\ c.item \in Range(list)
  <2>1. CASE \E op \in Operation : call_enqueue(t, op)
    <3>1. PICK op \in Operation : call_enqueue(t, op)
      BY <2>1
    <3>2. PICK x \in unused :
            /\ unused' = unused \ {x}
            /\ thread' = [thread EXCEPT
                 ![t] = [Idle EXCEPT !.op = op, !.item = x,
                                     !.pc = IF op = "enqueue" THEN "wait" ELSE "try_wait"]]
      BY <3>1, ZenonT(30) DEF call_enqueue
    <3>3. op \in Operations[t] \cap {"enqueue", "try_enqueue"} /\ mutex' = mutex /\ x \in Item
      BY <1>0, <3>1, Zenon DEF call_enqueue, Types
    <3>4. PICK pc \in {"wait", "try_wait"} : pc = IF op = "enqueue" THEN "wait" ELSE "try_wait"
      OBVIOUS
    <3>5. PICK c : c = [Idle EXCEPT !.op = op, !.item = x, !.pc = pc]
      OBVIOUS
    <3>6. thread' = [thread EXCEPT ![t] = c]
      BY <3>2, <3>4, <3>5, Zenon
    <3>7. c \in Call /\ c.pc = pc /\ c.op = op /\ c.item = x
      BY <3>3, <3>5, Zenon DEF Idle, Call, Places, Operation
    <3> QED
      BY <3>2, <3>3, <3>4, <3>6, <3>7, ZenonT(30) DEF Trying
  <2>2. CASE \E op \in Operation : call_dequeue(t, op)
    <3>1. PICK op \in Operation : call_dequeue(t, op)
      BY <2>2, SMTT(30)
    <3>2. /\ thread' = [thread EXCEPT
               ![t] = [Idle EXCEPT !.op = op, !.pc = IF op = "dequeue" THEN "wait" ELSE "try_wait"]]
          /\ op \in Operations[t] \cap {"dequeue", "try_dequeue"} /\ mutex' = mutex /\ unused' = unused
      BY <3>1, Zenon DEF call_dequeue
    <3>3. PICK pc \in {"wait", "try_wait"} : pc = IF op = "dequeue" THEN "wait" ELSE "try_wait"
      OBVIOUS
    <3>4. PICK c : c = [Idle EXCEPT !.op = op, !.pc = pc]
      OBVIOUS
    <3>5. thread' = [thread EXCEPT ![t] = c]
      BY <3>2, <3>3, <3>4, Zenon
    <3>6. c \in Call /\ c.pc = pc /\ c.op = op
      BY <3>2, <3>4, Zenon DEF Idle, Call, Places, Operation
    <3> QED
      BY <3>2, <3>3, <3>5, <3>6, Zenon DEF Trying
  <2>3. CASE call_try_remove(t)
    <3>1. PICK i \in DOMAIN list :
            thread' = [thread EXCEPT ![t] = [Idle EXCEPT !.op = "try_remove", !.item = list[i],
                                                         !.pc = "try_wait"]]
      BY <2>3, ZenonT(30) DEF call_try_remove
    <3>2. "try_remove" \in Operations[t] /\ mutex = NoThread /\ mutex' = t /\ unused' = unused
      BY <2>3, Zenon DEF call_try_remove
    <3>3. PICK e : e = list[i]
      OBVIOUS
    <3>4. e \in Item /\ e \in Range(list)
      BY <1>0, <3>3 DEF Types, Range
    <3>5. PICK c : c = [Idle EXCEPT !.op = "try_remove", !.item = e, !.pc = "try_wait"]
      OBVIOUS
    <3>6. thread' = [thread EXCEPT ![t] = c]
      BY <3>1, <3>3, <3>5, Zenon
    <3>7. c \in Call /\ c.pc = "try_wait" /\ c.op = "try_remove" /\ c.item = e
      BY <3>4, <3>5, Zenon DEF Idle, Call, Places, Operation
    <3> QED
      BY <3>2, <3>4, <3>6, <3>7, ZenonT(30) DEF Trying
  <2> QED
    BY <2>1, <2>2, <2>3, SMTT(30)
<1>3. Moves(t) /\ thread'[t] = c
  BY <1>0, <1>2, CallChanged, Zenon
<1>4. Types'
  BY <1>0, <1>1, <1>2, <1>3, SMTT(30) DEF Types, Moves
<1>5. CallsFollowed'
  BY <1>0, <1>2, <1>3, CallsKept, SMTT(30)
<1>6. RemovalsLocked'
  <2>1. CASE c.op # "try_remove" /\ mutex' = mutex
    BY <1>0, <1>1, <1>3, <2>1, RemovalsElsewhere, SMTT(30)
  <2>2. CASE c.op = "try_remove" /\ mutex = NoThread /\ mutex' = t /\ c.item \in Range(list)
    <3>1. thread'[t].item \in Range(list')
      BY <1>1, <1>3, <2>2, Zenon
    <3> QED
      BY <1>0, <1>3, <2>2, <3>1, RemovalsElsewhere, SMTT(30)
  <2> QED
    BY <1>2, <2>1, <2>2, SMTT(30)
<1>7. FlagsOwned'
  BY <1>0, <1>1, <1>2, <1>3, FlagsKept, SMTT(30)
<1>8. PermitsConserved'
  <2>1. Holds(thread[t]) = "nothing" /\ Holds(thread'[t]) = "nothing"
    BY <1>1, <1>2, <1>3, SMTT(30) DEF Holds
  <2> QED
    BY <1>0, <1>1, <1>3, <1>4, <2>1, NothingChanges, SMTT(30)
<1> QED
  BY <1>1, <1>4, <1>5, <1>6, <1>7, <1>8, Zenon DEF QueueInv

LEMMA StepKeeps ==
  ASSUME Usage, QueueInv, [Next]_vars
  PROVE  QueueInv' /\ [Promise!Next]_list
<1>1. CASE UNCHANGED vars
  <2>1. list' = list /\ mutex' = mutex /\ sem' = sem /\ thread' = thread /\ unused' = unused
    BY <1>1 DEF vars
  <2>2. Types' /\ CallsFollowed'
    BY <2>1 DEF QueueInv, Types, CallsFollowed, Enqueues
  <2>3. RemovalsLocked'
    BY <2>1, Zenon DEF QueueInv, RemovalsLocked, Range
  <2>4. FlagsOwned'
    BY <2>1, Zenon DEF QueueInv, FlagsOwned, Waited, Enqueues
  <2>5. PermitsConserved'
    BY <2>1, Zenon DEF QueueInv, PermitsConserved, Count, Holders
  <2> QED
    BY <2>1, <2>2, <2>3, <2>4, <2>5 DEF QueueInv
<1>2. CASE Next
  <2>1. PICK t \in Thread : \/ \E op \in Operation : call_enqueue(t, op) \/ call_dequeue(t, op)
                            \/ call_try_remove(t)
                            \/ step(t)
    BY <1>2 DEF Next
  <2>2. CASE \/ \E op \in Operation : call_enqueue(t, op) \/ call_dequeue(t, op)
             \/ call_try_remove(t)
    BY <2>2, CallKeeps
  <2>3. CASE semaphore_wait(t)
    BY <2>3, WaitKeeps, SMTT(30) DEF semaphore_wait
  <2>4. CASE wake(t)
    BY <2>4, WakeKeeps, Zenon DEF wake
  <2>5. CASE get_flags(t) \/ set_nonblock(t)
    BY <2>5, FlagsStepKeeps DEF get_flags, set_nonblock
  <2>6. CASE try_read(t)
    BY <2>6, TryReadKeeps, Zenon DEF try_read
  <2>7. CASE restore_flags(t)
    BY <2>7, RestoreKeeps, Zenon DEF restore_flags
  <2>8. CASE update_list(t)
    BY <2>8, UpdateKeeps
  <2>9. CASE semaphore_post(t)
    BY <2>9, PostKeeps, Zenon DEF semaphore_post
  <2> QED
    BY <2>1, <2>2, <2>3, <2>4, <2>5, <2>6, <2>7, <2>8, <2>9, SMTT(30) DEF step
<1> QED
  BY <1>1, <1>2

LEMMA Invariance ==
  ASSUME Usage PROVE Spec => []QueueInv
<1>1. Init => QueueInv
  BY InitQueue
<1>2. QueueInv /\ [Next]_vars => QueueInv'
  BY StepKeeps
<1> QED
  BY <1>1, <1>2, PTL DEF Spec

\* What fixed_queue.h promises of a dequeue and of the try functions: with its
\* permit a thread finds an element, and semaphore_try_wait does not block.
THEOREM PermitsAreGood ==
  ASSUME Usage PROVE Spec => []PermitMeansItem
<1>1. ASSUME QueueInv PROVE PermitMeansItem
  <2>1. \A t \in Thread : thread[t].pc \in Places
    BY <1>1 DEF QueueInv, Types, Call
  <2>2. \A t \in Thread : thread[t].pc \notin {"aborted", "try_blocked"}
    BY <2>1 DEF Places
  <2>3. \A t \in Thread : thread[t].pc = "list" /\ thread[t].op = "try_remove"
          => thread[t].item \in Range(list)
    BY <1>1 DEF QueueInv, RemovalsLocked
  <2> QED
    BY <2>2, <2>3, Zenon DEF PermitMeansItem
<1> QED
  BY <1>1, Invariance, PTL

\* fixed_queue.cc never holds more than its capacity.
THEOREM CapacityRespected ==
  ASSUME Usage PROVE Spec => []WithinCapacity
<1>1. ASSUME QueueInv PROVE WithinCapacity
  <2>1. /\ sem["enqueue_sem"].value \in Nat /\ Len(list) \in Nat /\ Capacity \in Nat
    BY <1>1, FixedQueueAssumption, SMTT(30) DEF QueueInv, Types, Semaphore
  <2>2. \A what : IsFiniteSet(Holders(thread, what))
    BY FS_Subset, FixedQueueAssumption, SMTT(30) DEF Holders
  <2>3. \A what : Count(thread, what) \in Nat
    BY <2>2, FS_CardinalityType DEF Count
  <2>4. PICK p, q \in Nat : p = Count(thread, "place") /\ q = Count(thread, "taken")
    BY <2>3, Zenon
  <2>5. sem["enqueue_sem"].value + p + Len(list) + q = Capacity
    BY <1>1, <2>4, SMTT(30) DEF QueueInv, PermitsConserved
  <2> QED
    BY <2>1, <2>5, SMTT(30) DEF WithinCapacity
<1> QED
  BY <1>1, Invariance, PTL

\* No permit of fixed_queue.cc is lost or made: with every thread idle or blocked
\* the semaphores count the free places and the elements.
THEOREM NoPermitLost ==
  ASSUME Usage PROVE Spec => []PermitsAgree
<1>1. ASSUME QueueInv, \A t \in Thread : thread[t].pc \in {"idle", "blocked"}
      PROVE  /\ sem["dequeue_sem"].value = Len(list)
             /\ sem["enqueue_sem"].value = Capacity - Len(list)
  <2>1. /\ sem["enqueue_sem"].value \in Nat /\ sem["dequeue_sem"].value \in Nat
        /\ Len(list) \in Nat /\ Capacity \in Nat
    BY <1>1, FixedQueueAssumption, SMTT(30) DEF QueueInv, Types, Semaphore
  <2>2. \A t \in Thread : Holds(thread[t]) = "nothing"
    BY <1>1 DEF Holds
  <2>3. /\ Holders(thread, "place") = {} /\ Holders(thread, "taken") = {}
        /\ Holders(thread, "element") = {} /\ Holders(thread, "put") = {}
    BY <2>2 DEF Holders
  <2>4. /\ Count(thread, "place") = 0 /\ Count(thread, "taken") = 0
        /\ Count(thread, "element") = 0 /\ Count(thread, "put") = 0
    BY <2>3, FS_EmptySet, SMTT(30) DEF Count
  <2>5. /\ sem["enqueue_sem"].value + 0 + Len(list) + 0 = Capacity
        /\ sem["dequeue_sem"].value + 0 + 0 = Len(list)
    BY <1>1, <2>4, SMTT(30) DEF QueueInv, PermitsConserved
  <2> QED
    BY <2>1, <2>5, SMTT(30)
<1>2. QueueInv => PermitsAgree
  BY <1>1 DEF PermitsAgree
<1> QED
  BY <1>2, Invariance, PTL

\* fixed_queue.cc over its semaphores implements the bounded queue of
\* fixed_queue.h: every step puts at the end, takes at the front, withdraws one
\* element, or leaves the queue alone.
THEOREM ImplementsBoundedQueue ==
  ASSUME Usage PROVE Spec => KeepsPromise
<1>1. Init => list = <<>>
  BY DEF Init
<1>2. QueueInv /\ [Next]_vars => [Promise!Next]_list
  BY StepKeeps
<1> QED
  BY <1>1, <1>2, Invariance, PTL DEF Spec, KeepsPromise, Promise!Spec
===============================================================================
