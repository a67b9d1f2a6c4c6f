-------------------------------- MODULE Reactor -------------------------------
(***************************************************************************)
(* osi/src/reactor.cc: a thread waits for descriptors and calls back the   *)
(* objects registered for them, while other threads register and           *)
(* unregister objects. An object is its address: memory that is freed may  *)
(* be given to a later registration, which `gen` tells apart.              *)
(*                                                                         *)
(* Object mutexes are held by the reactor alone for longer than a step, so *)
(* the mutex of `current` is the one that is held; the list's mutex makes  *)
(* the check of the invalidation list and the taking of the object's mutex *)
(* one step.                                                               *)
(***************************************************************************)
EXTENDS Integers, FiniteSets

CONSTANTS
  Object,
  User,           \* threads that unregister objects
  MaxGen,         \* bound: registrations per address
  Reach,          \* the objects a callback unregisters: "itself" or "any"
  NoObject

ASSUME ReactorAssumption ==
  MaxGen \in Nat \ {0} /\ NoObject \notin Object /\ Reach \in {"itself", "any"}

VARIABLES
  object,              \* per address: its registration
  epoll,               \* the addresses in the epoll set
  event_fd,            \* reactor_stop has been called
  invalidation_list,
  batch,               \* events[]: what epoll_wait reported and is not handled
  current,             \* the event that is being handled
  object_removed,
  pc,                  \* where the reactor's thread is
  user                 \* per user: where it is in reactor_unregister

vars == <<object, epoll, event_fd, invalidation_list, batch, current, object_removed, pc, user>>

Ready == {"read", "write", "both"}
Stop == [object |-> NoObject, gen |-> 0, ready |-> "read"]
Event == [object : Object, gen : 1 .. MaxGen, ready : Ready]

Init ==
  /\ object = [o \in Object |-> [status |-> "free", gen |-> 0]]
  /\ epoll = {} /\ event_fd = FALSE
  /\ invalidation_list = {}
  /\ batch = {} /\ current = Stop
  /\ object_removed = FALSE
  /\ pc = "stopped"
  /\ user = [u \in User |-> [pc |-> "outside", object |-> NoObject]]

Calling == pc \in {"read_ready", "write_ready"}
\* The address whose mutex the reactor holds.
Locked(o) == Calling /\ current.object = o

\* delete object->mutex; osi_free(object)
Freed(o) == [object EXCEPT ![o].status = "free"]
-----------------------------------------------------------------------------
(* Other threads.                                                          *)

reactor_register(o) ==
  /\ object[o].status = "free" /\ object[o].gen < MaxGen
  /\ object' = [object EXCEPT ![o] = [status |-> "registered", gen |-> @.gen + 1]]
  /\ epoll' = epoll \cup {o}
  /\ UNCHANGED <<event_fd, invalidation_list, batch, current, object_removed, pc, user>>

reactor_stop ==
  /\ ~event_fd
  /\ event_fd' = TRUE
  /\ UNCHANGED <<object, epoll, invalidation_list, batch, current, object_removed, pc, user>>

\* reactor_unregister from another thread: out of the epoll set,
unregister(u, o) ==
  /\ user[u].pc = "outside" /\ object[o].status = "registered"
  /\ object' = [object EXCEPT ![o].status = "leaving"]
  /\ epoll' = epoll \ {o}
  /\ user' = [user EXCEPT ![u] = [pc |-> "append", object |-> o]]
  /\ UNCHANGED <<event_fd, invalidation_list, batch, current, object_removed, pc>>

invalidate_missing(u) ==
  /\ user[u].pc = "append"
  /\ user' = [user EXCEPT ![u].pc = "lock"]
  /\ UNCHANGED <<object, epoll, event_fd, invalidation_list, batch, current, object_removed, pc>>

\* into the invalidation list,
invalidate(u) ==
  /\ user[u].pc = "append"
  /\ invalidation_list' = invalidation_list \cup {user[u].object}
  /\ user' = [user EXCEPT ![u].pc = "lock"]
  /\ UNCHANGED <<object, epoll, event_fd, batch, current, object_removed, pc>>

\* wait until no callback of the object runs, and free it.
wait_and_free(u) ==
  /\ user[u].pc = "lock" /\ ~Locked(user[u].object)
  /\ object' = Freed(user[u].object)
  /\ user' = [user EXCEPT ![u] = [pc |-> "outside", object |-> NoObject]]
  /\ UNCHANGED <<epoll, event_fd, invalidation_list, batch, current, object_removed, pc>>
-----------------------------------------------------------------------------
(* The reactor's thread: run_reactor.                                      *)

\* reactor_start
start ==
  /\ pc = "stopped"
  /\ pc' = "clear"
  /\ UNCHANGED <<object, epoll, event_fd, invalidation_list, batch, current, object_removed, user>>

clear_list ==
  /\ pc = "clear"
  /\ invalidation_list' = {}
  /\ pc' = "wait"
  /\ UNCHANGED <<object, epoll, event_fd, batch, current, object_removed, user>>

\* epoll_wait reports at least one descriptor, each with what is ready.
epoll_wait ==
  /\ pc = "wait"
  /\ \E some \in SUBSET epoll : \E ready \in [some -> Ready] :
       batch' = {[object |-> o, gen |-> object[o].gen, ready |-> ready[o]] : o \in some}
                \cup (IF event_fd THEN {Stop} ELSE {})
  /\ batch' # {}
  /\ pc' = "batch"
  /\ UNCHANGED <<object, epoll, event_fd, invalidation_list, current, object_removed, user>>

\* The events of one turn, in any order. The stop event leaves the rest.
handle_stop ==
  /\ pc = "batch" /\ Stop \in batch
  /\ event_fd' = FALSE
  /\ batch' = {}
  /\ pc' = "stopped"
  /\ UNCHANGED <<object, epoll, invalidation_list, current, object_removed, user>>

\* An object that is not in the invalidation list is locked and called back.
dispatch(e) ==
  /\ pc = "batch" /\ e \in batch \ {Stop}
  /\ batch' = batch \ {e}
  /\ IF e.object \in invalidation_list
     THEN UNCHANGED <<current, object_removed, pc>>
     ELSE /\ current' = e /\ object_removed' = FALSE
          /\ pc' = IF e.ready = "write" THEN "write_ready" ELSE "read_ready"
  /\ UNCHANGED <<object, epoll, event_fd, invalidation_list, user>>

\* The end of the events of one turn.
next_turn ==
  /\ pc = "batch" /\ batch = {}
  /\ pc' = "clear"
  /\ UNCHANGED <<object, epoll, event_fd, invalidation_list, batch, current, object_removed, user>>

unregister_in_callback_waits(o) ==
  /\ Calling /\ object[o].status = "registered"
  /\ Reach = "itself" => o = current.object
  /\ object' = [object EXCEPT ![o].status = "removed"]
  /\ epoll' = epoll \ {o}
  /\ invalidation_list' = invalidation_list \cup {o}
  /\ pc' = IF Locked(o) THEN "waits for itself" ELSE pc
  /\ UNCHANGED <<event_fd, batch, current, object_removed, user>>

\* reactor_unregister from a callback: the object is left to run_reactor.
unregister_in_callback(o) ==
  /\ Calling /\ object[o].status = "registered"
  /\ Reach = "itself" => o = current.object
  /\ object' = [object EXCEPT ![o].status = "removed"]
  /\ epoll' = epoll \ {o}
  /\ object_removed' = TRUE
  /\ UNCHANGED <<event_fd, invalidation_list, batch, current, pc, user>>

callback_returns_unchecked ==
  LET writes == pc = "read_ready" /\ current.ready = "both"
  IN /\ Calling
     /\ pc' = IF writes THEN "write_ready" ELSE "batch"
     /\ object' = IF ~writes /\ object_removed THEN Freed(current.object) ELSE object
     /\ UNCHANGED <<epoll, event_fd, invalidation_list, batch, current, object_removed, user>>

\* read_ready or write_ready returns; the object is freed if it was removed.
callback_returns ==
  LET writes == pc = "read_ready" /\ current.ready = "both" /\ ~object_removed
  IN /\ Calling
     /\ pc' = IF writes THEN "write_ready" ELSE "batch"
     /\ object' = IF ~writes /\ object_removed THEN Freed(current.object) ELSE object
     /\ UNCHANGED <<epoll, event_fd, invalidation_list, batch, current, object_removed, user>>
-----------------------------------------------------------------------------
ReactorStep ==
  \/ clear_list \/ epoll_wait \/ handle_stop \/ next_turn \/ callback_returns
  \/ \E e \in Event : dispatch(e)

Next ==
  \/ \E o \in Object : reactor_register(o) \/ unregister_in_callback(o)
  \/ reactor_stop \/ start
  \/ \E u \in User : \/ \E o \in Object : unregister(u, o)
                     \/ invalidate(u) \/ wait_and_free(u)
  \/ ReactorStep

Spec == Init /\ [][Next]_vars

\* Threads are scheduled and callbacks return. A mutex need not be fair.
FairSpec ==
  /\ Spec
  /\ WF_vars(ReactorStep)
  /\ \A u \in User : WF_vars(invalidate(u)) /\ WF_vars(wait_and_free(u))
-----------------------------------------------------------------------------
\* Only what is registered is watched, and a user waits for its own object.
TypeOK ==
  /\ epoll = {o \in Object : object[o].status = "registered"}
  /\ \A u \in User : user[u].pc # "outside" => object[user[u].object].status = "leaving"

\* "we know that the object won't be referenced": whatever the reactor will
\* still look at is allocated, and is the registration that epoll_wait
\* reported, although reactor_unregister frees objects at any moment and
\* their addresses are used again.
ReferencedIsAllocated ==
  /\ \A e \in batch \ {Stop} :
       e.object \notin invalidation_list =>
         object[e.object].status # "free" /\ object[e.object].gen = e.gen
  /\ Calling => object[current.object].status # "free"
                /\ object[current.object].gen = current.gen

\* "|obj| is invalid after calling this function": no callback begins for an
\* object after reactor_unregister has returned.
NoCallbackAfterUnregister ==
  [][pc' # pc /\ pc' \in {"read_ready", "write_ready"} =>
       object[current'.object].status \in {"registered", "leaving"}]_vars

\* reactor_unregister returns to a thread that waits for the object's mutex:
\* the object is out of the epoll set, so that the reactor takes the mutex at
\* most once more. And a reactor that is stopped from any thread or callback
\* leaves its loop ("This function blocks the caller until |reactor_stop| is
\* called"), however many descriptors stay ready and whatever its callbacks
\* unregister.
CallsReturn ==
  /\ \A u \in User : user[u].pc # "outside" ~> user[u].pc = "outside"
  /\ event_fd /\ pc # "stopped" ~> pc = "stopped"
=============================================================================
