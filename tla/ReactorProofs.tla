----------------------------- MODULE ReactorProofs ----------------------------
(***************************************************************************)
(* Machine-checked proofs about Reactor, for any number of objects and     *)
(* unregistering threads and any number of registrations per address. They *)
(* assume that a callback unregisters no object but its own (Reach), as    *)
(* the callbacks of reactor_test.cc do.                                    *)
(***************************************************************************)
EXTENDS Reactor, TLAPS

Types ==
  /\ object \in [Object -> [status : {"free", "registered", "leaving", "removed"}, gen : Nat]]
  /\ epoll = {o \in Object : object[o].status = "registered"}
  /\ batch \subseteq [object : Object, gen : Nat, ready : Ready] \cup {Stop}
  /\ current \in [object : Object, gen : Nat, ready : Ready] \cup {Stop}
  /\ object_removed \in BOOLEAN
  /\ pc \in {"stopped", "clear", "wait", "batch", "read_ready", "write_ready"}
  /\ user \in [User -> [pc : {"outside", "append", "lock"}, object : Object \cup {NoObject}]]

\* What another thread unregisters is its own to free.
LeavingOwned ==
  /\ \A u \in User : user[u].pc # "outside" =>
       user[u].object \in Object /\ object[user[u].object].status = "leaving"
  /\ \A u, v \in User : u # v /\ user[u].pc # "outside" /\ user[v].pc # "outside" =>
       user[u].object # user[v].object

\* One event per object, and none left of the object that is being called.
BatchDistinct ==
  /\ \A e, f \in batch : e.object = f.object => e = f
  /\ Calling => current # Stop /\ \A e \in batch : e.object # current.object
  /\ pc \in {"stopped", "clear", "wait"} => batch = {}

\* An event whose object is not in the invalidation list is that of a live
\* registration, and nobody is about to free it.
BatchAllocated ==
  /\ \A e \in batch \ {Stop} : e.object \notin invalidation_list =>
       /\ object[e.object].status \in {"registered", "leaving"}
       /\ object[e.object].gen = e.gen
  /\ \A u \in User : user[u].pc = "lock" =>
       \A e \in batch : e.object = user[u].object => e.object \in invalidation_list

\* The object that is being called back stays until the callback returns.
CurrentAllocated ==
  /\ Calling => object[current.object].gen = current.gen
  /\ Calling /\ ~object_removed => object[current.object].status \in {"registered", "leaving"}
  /\ Calling /\ object_removed => object[current.object].status = "removed"

ReactorInv == Types /\ LeavingOwned /\ BatchDistinct /\ BatchAllocated /\ CurrentAllocated

-------------------------------------------------------------------------------
\* Nothing is registered and nothing runs before the first call.
LEMMA ReactorInit == Init => ReactorInv
<1> SUFFICES ASSUME Init
             PROVE  ReactorInv
  OBVIOUS
<1>1. Types
  BY Zenon DEF Init, Types
<1>2. LeavingOwned
  BY DEF Init, LeavingOwned
<1>3. BatchDistinct /\ BatchAllocated /\ CurrentAllocated
  BY DEF Init, LeavingOwned, BatchDistinct, BatchAllocated, CurrentAllocated, Calling
<1> QED
  BY <1>1, <1>2, <1>3 DEF ReactorInv

\* reactor_register, reactor_unregister and reactor_stop on other threads.
LEMMA UsersKeepInv ==
  ASSUME ReactorInv,
         \/ \E o \in Object : reactor_register(o)
         \/ reactor_stop
         \/ \E u \in User : \/ \E o \in Object : unregister(u, o)
                            \/ invalidate(u) \/ wait_and_free(u)
  PROVE  ReactorInv'
<1> USE DEF ReactorInv
<1>1. ASSUME NEW o \in Object, reactor_register(o)
      PROVE  ReactorInv'
  <2> USE <1>1 DEF reactor_register
  <2>1. Types'
    BY DEF Types
  <2>2. LeavingOwned'
    BY DEF Types, LeavingOwned
  <2>3. BatchDistinct' /\ BatchAllocated'
    BY DEF Types, BatchDistinct, BatchAllocated, Calling
  <2>4. CurrentAllocated'
    BY DEF Types, CurrentAllocated, Calling
  <2> QED
    BY <2>1, <2>2, <2>3, <2>4
<1>2. CASE reactor_stop
  BY <1>2 DEF reactor_stop, Types, LeavingOwned, BatchDistinct, BatchAllocated,
              CurrentAllocated, Calling
<1>3. ASSUME NEW u \in User, NEW o \in Object, unregister(u, o)
      PROVE  ReactorInv'
  <2> USE <1>3 DEF unregister
  <2>1. Types'
    BY DEF Types
  <2>2. LeavingOwned'
    BY DEF Types, LeavingOwned
  <2>3. BatchDistinct' /\ BatchAllocated'
    BY DEF Types, BatchDistinct, BatchAllocated, Calling
  <2>4. CurrentAllocated'
    BY DEF Types, CurrentAllocated, Calling
  <2> QED
    BY <2>1, <2>2, <2>3, <2>4
<1>4. ASSUME NEW u \in User, invalidate(u)
      PROVE  ReactorInv'
  <2> USE <1>4 DEF invalidate
  <2>1. Types'
    BY DEF Types
  <2>2. LeavingOwned'
    BY DEF Types, LeavingOwned
  <2>3. BatchDistinct' /\ BatchAllocated'
    BY DEF Types, BatchDistinct, BatchAllocated, Calling
  <2>4. CurrentAllocated'
    BY DEF Types, CurrentAllocated, Calling
  <2> QED
    BY <2>1, <2>2, <2>3, <2>4
<1>5. ASSUME NEW u \in User, wait_and_free(u)
      PROVE  ReactorInv'
  <2> USE <1>5 DEF wait_and_free, Freed
  <2>1. Types'
    BY DEF Types, LeavingOwned
  <2>2. LeavingOwned'
    BY DEF Types, LeavingOwned
  <2>3. BatchDistinct' /\ BatchAllocated'
    BY DEF Types, BatchDistinct, BatchAllocated, LeavingOwned, Calling
  <2>4. CurrentAllocated'
    BY DEF Types, CurrentAllocated, LeavingOwned, Calling, Locked
  <2> QED
    BY <2>1, <2>2, <2>3, <2>4
<1> QED
  BY <1>1, <1>2, <1>3, <1>4, <1>5

\* run_reactor, from one epoll_wait to the next, and the callbacks it makes.
LEMMA ReactorKeepsInv ==
  ASSUME Reach = "itself", ReactorInv,
         start \/ ReactorStep \/ \E o \in Object : unregister_in_callback(o)
  PROVE  ReactorInv'
<1> USE DEF ReactorInv
<1>1. CASE start
  BY <1>1 DEF start, Types, LeavingOwned, BatchDistinct, BatchAllocated,
              CurrentAllocated, Calling
<1>2. CASE clear_list
  BY <1>2 DEF clear_list, Types, LeavingOwned, BatchDistinct, BatchAllocated,
              CurrentAllocated, Calling
<1>3. CASE epoll_wait
  <2> USE <1>3 DEF epoll_wait
  <2>1. PICK some \in SUBSET epoll : \E ready \in [some -> Ready] :
          batch' = {[object |-> o, gen |-> object[o].gen, ready |-> ready[o]] : o \in some}
                   \cup (IF event_fd THEN {Stop} ELSE {})
    OBVIOUS
  <2>2. PICK ready \in [some -> Ready] :
          batch' = {[object |-> o, gen |-> object[o].gen, ready |-> ready[o]] : o \in some}
                   \cup (IF event_fd THEN {Stop} ELSE {})
    BY <2>1
  <2>3. some \subseteq Object /\ \A o \in some : object[o].status = "registered"
    BY DEF Types
  <2>4. \A e \in batch' : e = Stop \/ \E o \in some :
          e = [object |-> o, gen |-> object[o].gen, ready |-> ready[o]]
    BY <2>2
  <2>5. \A o \in some : [object |-> o, gen |-> object[o].gen, ready |-> ready[o]]
                          \in [object : Object, gen : Nat, ready : Ready]
    BY <2>3 DEF Types
  <2>6. Types'
    <3>1. batch' \subseteq [object : Object, gen : Nat, ready : Ready] \cup {Stop}
      BY <2>4, <2>5
    <3> QED
      BY <3>1 DEF Types
  <2>7. LeavingOwned'
    BY DEF LeavingOwned
  <2>8. BatchDistinct'
    BY <2>3, <2>4, ReactorAssumption DEF BatchDistinct, Calling, Stop
  <2>9. BatchAllocated'
    <3>1. \A e \in batch' : e # Stop =>
            /\ e.object \in some /\ e.gen = object[e.object].gen
      BY <2>4
    <3>2. \A u \in User : user[u].pc = "lock" => user[u].object \notin some \cup {NoObject}
      BY <2>3, ReactorAssumption DEF LeavingOwned
    <3> QED
      BY <2>3, <3>1, <3>2 DEF BatchAllocated, Stop
  <2>10. CurrentAllocated'
    BY DEF CurrentAllocated, Calling
  <2> QED
    BY <2>6, <2>7, <2>8, <2>9, <2>10
<1>4. CASE handle_stop
  BY <1>4 DEF handle_stop, Types, LeavingOwned, BatchDistinct, BatchAllocated,
              CurrentAllocated, Calling
<1>5. CASE next_turn
  BY <1>5 DEF next_turn, Types, LeavingOwned, BatchDistinct, BatchAllocated,
              CurrentAllocated, Calling
<1>6. ASSUME NEW e \in Event, dispatch(e)
      PROVE  ReactorInv'
  <2> USE <1>6 DEF dispatch
  <2>1. Types'
    BY Zenon DEF Types
  <2>2. LeavingOwned'
    BY DEF LeavingOwned
  <2>3. BatchDistinct'
    BY DEF BatchDistinct, Calling
  <2>4. BatchAllocated'
    BY DEF BatchAllocated
  <2>5. CurrentAllocated'
    BY DEF BatchAllocated, CurrentAllocated, Calling
  <2> QED
    BY <2>1, <2>2, <2>3, <2>4, <2>5
<1>7. CASE callback_returns
  <2> USE <1>7 DEF callback_returns, Freed
  <2>1. current # Stop /\ current.object \in Object
    BY DEF Types, BatchDistinct
  <2>2. Types'
    BY <2>1 DEF Types, CurrentAllocated
  <2>3. LeavingOwned'
    BY <2>1 DEF Types, LeavingOwned, CurrentAllocated
  <2>4. BatchDistinct'
    BY DEF BatchDistinct, Calling
  <2>5. BatchAllocated'
    BY <2>1 DEF Types, BatchDistinct, BatchAllocated
  <2>6. CurrentAllocated'
    BY <2>1 DEF Types, CurrentAllocated, Calling
  <2> QED
    BY <2>2, <2>3, <2>4, <2>5, <2>6
<1>8. ASSUME NEW o \in Object, unregister_in_callback(o)
      PROVE  ReactorInv'
  <2> USE <1>8 DEF unregister_in_callback
  <2>1. Types'
    BY DEF Types
  <2>2. LeavingOwned'
    BY DEF Types, LeavingOwned
  <2>3. BatchDistinct'
    BY DEF BatchDistinct, Calling
  <2>4. BatchAllocated'
    BY DEF Types, BatchDistinct, BatchAllocated
  <2>5. CurrentAllocated'
    BY DEF Types, CurrentAllocated, Calling
  <2> QED
    BY <2>1, <2>2, <2>3, <2>4, <2>5
<1> QED
  BY <1>1, <1>2, <1>3, <1>4, <1>5, <1>6, <1>7, <1>8 DEF ReactorStep

\* ReactorInv is an invariant of the reactor and the threads that use it.
LEMMA ReactorInvariant ==
  ASSUME Reach = "itself"
  PROVE  Spec => []ReactorInv
<1>1. ReactorInv /\ [Next]_vars => ReactorInv'
  <2> SUFFICES ASSUME ReactorInv, [Next]_vars
               PROVE  ReactorInv'
    OBVIOUS
  <2>1. CASE Next
    BY <2>1, UsersKeepInv, ReactorKeepsInv DEF Next
  <2>2. CASE UNCHANGED vars
    BY <2>2 DEF vars, ReactorInv, Types, LeavingOwned, BatchDistinct, BatchAllocated,
                CurrentAllocated, Calling
  <2> QED
    BY <2>1, <2>2
<1> QED
  BY <1>1, ReactorInit, PTL DEF Spec

\* Whatever run_reactor will still look at is allocated, and is the
\* registration that epoll_wait reported.
THEOREM ReactorSafe ==
  ASSUME Reach = "itself"
  PROVE  Spec => []ReferencedIsAllocated
<1>1. ReactorInv => ReferencedIsAllocated
  BY DEF ReactorInv, Types, BatchDistinct, BatchAllocated, CurrentAllocated,
         ReferencedIsAllocated
<1> QED
  BY <1>1, ReactorInvariant, PTL

\* No callback begins for an object once reactor_unregister has returned, from
\* whatever thread or callback it was called.
THEOREM NothingCalledAfterUnregister ==
  ASSUME Reach = "itself"
  PROVE  Spec => NoCallbackAfterUnregister
<1> DEFINE Live == pc' # pc /\ pc' \in {"read_ready", "write_ready"} =>
                     object[current'.object].status \in {"registered", "leaving"}
<1>1. ReactorInv /\ [Next]_vars => [Live]_vars
  <2> SUFFICES ASSUME ReactorInv, Next, pc' # pc, pc' \in {"read_ready", "write_ready"}
               PROVE  object[current'.object].status \in {"registered", "leaving"}
    OBVIOUS
  <2>1. CASE \E e \in Event : dispatch(e)
    BY <2>1 DEF dispatch, ReactorInv, BatchAllocated
  <2>2. CASE callback_returns
    BY <2>2 DEF callback_returns, ReactorInv, CurrentAllocated, Calling
  <2> QED
    BY <2>1, <2>2 DEF Next, ReactorStep, reactor_register, unregister_in_callback, reactor_stop,
       start, unregister, invalidate, wait_and_free, clear_list, epoll_wait, handle_stop, next_turn
<1> QED
  BY <1>1, ReactorInvariant, PTL DEF Spec, NoCallbackAfterUnregister
===============================================================================
