-------------------------------- MODULE Alarm --------------------------------
(***************************************************************************)
(* The alarm service of osi/src/alarm.cc: the sorted list of alarms, the   *)
(* two POSIX timers behind it, the dispatcher thread that moves expired    *)
(* alarms to the default callback queue or to the main message loop, the   *)
(* two threads that run the callbacks, cancellation from any thread, and   *)
(* alarm_cleanup.                                                          *)
(*                                                                         *)
(* Times are relative to now and stop at 0 (expired): the code compares    *)
(* deadlines only with each other and with now(), so nothing is lost, and  *)
(* the clock needs no bound. Every action is one critical section of       *)
(* alarms_mutex, or the code between two of them.                          *)
(***************************************************************************)
EXTENDS Integers, Sequences, Functions

CONSTANTS
  Alarms, NoAlarm,
  PeriodicAlarms,   \* made by alarm_new_periodic
  Target,           \* per alarm: "default" (alarm_set) or "mloop" (alarm_set_on_mloop)
  Clients,          \* threads that use alarms and run no callbacks
  Users,            \* per alarm: the threads that set, cancel or free it
  Periods,          \* the intervals alarms are set to
  TIMER_INTERVAL_FOR_WAKELOCK_IN_MS,
  MaxSignals,       \* bound on alarm_expired outside the dispatcher
  MayFree,          \* are alarms freed?
  MayCleanup,       \* is alarm_cleanup called?
  WakelockMayFail,  \* may wakelock_acquire fail?
  MloopMayStop,     \* may the main message loop go away?
  Off               \* a disarmed timer

CallbackThreads == {"default", "mloop"}
Threads == Clients \cup CallbackThreads

ASSUME AlarmAssumption ==
  /\ NoAlarm \notin Alarms
  /\ PeriodicAlarms \subseteq Alarms
  /\ Target \in [Alarms -> CallbackThreads]
  /\ Users \in [Alarms -> SUBSET Threads]
  /\ Clients \cap CallbackThreads = {}
ASSUME TimeAssumption ==
  /\ Periods \subseteq Nat \ {0}
  /\ TIMER_INTERVAL_FOR_WAKELOCK_IN_MS \in Nat
  /\ MaxSignals \in Nat \ {0}
  /\ Off \notin Nat
ASSUME SwitchAssumption ==
  {MayFree, MayCleanup, WakelockMayFail, MloopMayStop} \subseteq BOOLEAN

VARIABLES
  alarms,         \* the list, earliest deadline first
  callback,       \* alarm->callback: "set", or "null"
  left,           \* alarm->deadline, relative to now
  period,         \* alarm->period
  phase,          \* periodic: (now - alarm->creation_time) % alarm->period
  timer, wakeup_timer, \* time to expiry, or Off
  timer_set,
  wakelock,       \* external: "held" or "released"
  alarm_expired,  \* the semaphore
  dispatcher,     \* dispatcher_thread: "waiting", "woken" or "exited"
  queue,          \* default_callback_queue
  message_loop,   \* get_message_loop(): "up", or "gone"
  posted,         \* live closures in the main message loop
  cb,             \* the callback threads
  op,             \* per thread: the alarm_cancel or alarm_free it is in
  alarms_mutex,   \* "free", or the thread that keeps it across steps
  cleanup,        \* where alarm_cleanup is
  freed,          \* the alarms that alarm_free released
  due,            \* history: expiries not yet followed by a callback, up to 2
  ahead           \* history: per alarm, those that must be called before it

recordVars == <<callback, left, period, phase>>
timerVars == <<timer, wakeup_timer, timer_set, wakelock, alarm_expired>>
pendingVars == <<queue, posted>>
threadVars == <<message_loop, dispatcher, cb, op, alarms_mutex, cleanup>>
historyVars == <<freed, due, ahead>>
vars == <<alarms, recordVars, timerVars, pendingVars, threadVars, historyVars>>

cb_idle == [pc |-> "idle", alarm |-> NoAlarm, call |-> "none"]
no_op == [pc |-> "none", alarm |-> NoAlarm]

\* lazy_initialize
Init ==
  /\ alarms = <<>>
  /\ callback = [a \in Alarms |-> "null"]
  /\ left = [a \in Alarms |-> 0]
  /\ period = [a \in Alarms |-> 0]
  /\ phase = [a \in Alarms |-> 0]
  /\ timer = Off
  /\ wakeup_timer = Off
  /\ timer_set = "no"
  /\ wakelock = "released"
  /\ alarm_expired = 0
  /\ dispatcher = "waiting"
  /\ queue = <<>>
  /\ message_loop = "up"
  /\ posted = <<>>
  /\ cb = [t \in CallbackThreads |-> cb_idle]
  /\ op = [t \in Threads |-> no_op]
  /\ alarms_mutex = "free"
  /\ cleanup = "no"
  /\ freed = {}
  /\ due = [a \in Alarms |-> 0]
  /\ ahead = [a \in Alarms |-> {}]

-------------------------------------------------------------------------------
(* The list and the timers *)

\* list_remove: the first instance of |a| leaves the list. (Of the queue
\* remove_pending_alarm removes every instance, in case there are several: there
\* is at most one.)
Without(s, a) ==
  IF a \notin Range(s) THEN s
  ELSE LET i == CHOOSE i \in DOMAIN s : s[i] = a /\ \A j \in 1 .. i - 1 : s[j] # a
       IN [j \in 1 .. Len(s) - 1 |-> IF j < i THEN s[j] ELSE s[j + 1]]

\* |a| becomes the list's element after the first |n|.
insert_after(list, n, a) ==
  [j \in 1 .. Len(list) + 1 |->
     IF j <= n THEN list[j] ELSE IF j = n + 1 THEN a ELSE list[j - 1]]

\* Mutant: an alarm goes before the ones with the same deadline.
insert_sorted_before(list, a, time) ==
  insert_after(list, CHOOSE n \in 0 .. Len(list) :
                       /\ n = Len(list) \/ time[list[n + 1]] >= time[a]
                       /\ \A i \in 1 .. n : time[list[i]] < time[a], a)

\* schedule_next_instance: the list position of |a|, before the first alarm with
\* a later deadline.
insert_sorted(list, a, time) ==
  insert_after(list, CHOOSE n \in 0 .. Len(list) :
                       /\ n = Len(list) \/ time[list[n + 1]] > time[a]
                       /\ \A i \in 1 .. n : time[list[i]] <= time[a], a)

\* Mutant: the wakeup timer is not armed for a distant deadline.
reschedule_root_alarm_unarmed(list, time, signals) ==
  LET near == list # <<>> /\ time[Head(list)] < TIMER_INTERVAL_FOR_WAKELOCK_IN_MS
  IN /\ timer' = IF near THEN time[Head(list)] ELSE Off
     /\ timer_set' = IF near THEN "yes" ELSE "no"
     /\ wakelock' = IF near THEN "held" ELSE "released"
     /\ wakeup_timer' = IF near THEN Off ELSE wakeup_timer
     /\ alarm_expired' = IF near /\ time[Head(list)] = 0 THEN signals + 1 ELSE signals

\* Mutant: the workaround for a deadline that has already passed is missing,
\* and so is the timer that would expire for it.
reschedule_root_alarm_unsignalled(list, time, signals) ==
  LET near == list # <<>> /\ time[Head(list)] < TIMER_INTERVAL_FOR_WAKELOCK_IN_MS
      past == near /\ time[Head(list)] = 0
  IN /\ timer' = IF near /\ ~past THEN time[Head(list)] ELSE Off
     /\ timer_set' = IF near THEN "yes" ELSE "no"
     /\ wakelock' = IF near THEN "held" ELSE "released"
     /\ wakeup_timer' = IF near THEN Off
                        ELSE IF list # <<>> THEN time[Head(list)] ELSE wakeup_timer
     /\ alarm_expired' = signals

\* reschedule_root_alarm. A near deadline takes the wake lock and the plain
\* timer, a distant one the wakeup timer; a deadline already passed signals
\* the dispatcher at once. |signals| is the semaphore before the call.
reschedule_root_alarm(list, time, signals) ==
  LET near == list # <<>> /\ time[Head(list)] < TIMER_INTERVAL_FOR_WAKELOCK_IN_MS
  IN \/ /\ near
        /\ wakelock' = IF timer_set = "no" THEN "held" ELSE wakelock
        /\ timer_set' = "yes"
        /\ timer' = time[Head(list)]
        /\ wakeup_timer' = Off
        /\ alarm_expired' = IF time[Head(list)] = 0 THEN signals + 1 ELSE signals
     \/ /\ WakelockMayFail
        /\ near /\ timer_set = "no"
        /\ timer' = Off
        /\ alarm_expired' = signals
        /\ UNCHANGED <<timer_set, wakelock, wakeup_timer>>
     \/ /\ ~near
        /\ wakeup_timer' = IF list = <<>> THEN wakeup_timer ELSE time[Head(list)]
        /\ wakelock' = IF timer_set = "yes" THEN "released" ELSE wakelock
        /\ timer_set' = "no"
        /\ timer' = Off
        /\ alarm_expired' = signals

\* remove_pending_alarm, the instances already expired: the closure of a
\* message loop alarm is cancelled, others leave the callback queue.
remove_pending_alarm(a) ==
  IF Target[a] = "mloop"
  THEN posted' = Without(posted, a) /\ UNCHANGED queue
  ELSE queue' = Without(queue, a) /\ UNCHANGED posted

-------------------------------------------------------------------------------
(* alarm_set, alarm_cancel and alarm_free, on any thread *)

\* A client, a callback, or a task of the message loop may use |a|, unless it
\* is freed or being freed.
MayUse(t, a) ==
  /\ t \in Users[a]
  /\ a \notin freed
  /\ cleanup = "no"
  /\ op[t] = no_op
  /\ \A u \in Threads : op[u] # [pc |-> "free", alarm |-> a]
  /\ t \in CallbackThreads =>
       cb[t].pc = "running" \/ (t = "mloop" /\ message_loop = "up" /\ cb[t].pc = "idle")
  /\ alarm_expired < MaxSignals

Locked == alarms_mutex = "free"

\* History: |a| no longer has to be called before the others.
Dropped(a) == [b \in Alarms |-> ahead[b] \ {a}]

alarm_set(t, a, p) ==
  /\ MayUse(t, a) /\ Locked
  /\ LET rest == Without(alarms, a)
         time == [left EXCEPT ![a] = p]
         list == insert_sorted(rest, a, time)
     IN /\ alarms' = list
        /\ left' = time
        /\ IF Head(list) = a \/ (alarms # <<>> /\ Head(alarms) = a)
           THEN reschedule_root_alarm(list, time, alarm_expired)
           ELSE UNCHANGED timerVars
  /\ remove_pending_alarm(a)
  /\ callback' = [callback EXCEPT ![a] = "set"]
  /\ period' = [period EXCEPT ![a] = p]
  /\ phase' = [phase EXCEPT ![a] = 0]
  /\ due' = [due EXCEPT ![a] = 0]
  /\ ahead' = [Dropped(a) EXCEPT ![a] =
       {b \in Alarms \ (PeriodicAlarms \cup {a}) :
          Target[b] = Target[a] /\ callback[b] = "set" /\ left[b] <= p}]
  /\ UNCHANGED <<threadVars, freed>>

\* alarm_cancel_internal: the alarm leaves the list and its queue, and the root
\* timer is set again if it was the root alarm.
alarm_cancel_internal(a) ==
  /\ alarms' = Without(alarms, a)
  /\ remove_pending_alarm(a)
  /\ callback' = [callback EXCEPT ![a] = "null"]
  /\ left' = [left EXCEPT ![a] = 0]
  /\ due' = [due EXCEPT ![a] = 0]
  /\ ahead' = [Dropped(a) EXCEPT ![a] = {}]
  /\ IF alarms # <<>> /\ Head(alarms) = a
     THEN reschedule_root_alarm(Without(alarms, a), left, alarm_expired)
     ELSE UNCHANGED timerVars

\* alarm_cancel, the critical section.
alarm_cancel(t, a) ==
  /\ MayUse(t, a) /\ Locked
  /\ alarm_cancel_internal(a)
  /\ op' = [op EXCEPT ![t] = [pc |-> "cancel", alarm |-> a]]
  /\ UNCHANGED <<period, phase, message_loop, dispatcher, cb, alarms_mutex, cleanup, freed>>

\* The callback mutex of |a| is free, or |t| itself holds it.
CallbackMutexFree(t, a) ==
  \A u \in CallbackThreads \ {t} : ~(cb[u].pc = "running" /\ cb[u].alarm = a)

\* Mutant: alarm_cancel returns without taking the callback mutex.
alarm_cancel_returns_unsynced(t) ==
  /\ op[t].pc \in {"cancel", "free"}
  /\ freed' = IF op[t].pc = "free" THEN freed \cup {op[t].alarm} ELSE freed
  /\ op' = [op EXCEPT ![t] = no_op]
  /\ UNCHANGED <<alarms, recordVars, timerVars, pendingVars, message_loop, dispatcher, cb,
                 alarms_mutex, cleanup, due, ahead>>

\* alarm_cancel waits for a running callback and returns; alarm_free goes on
\* to release the alarm.
alarm_cancel_returns(t) ==
  /\ op[t].pc \in {"cancel", "free"}
  /\ CallbackMutexFree(t, op[t].alarm)
  /\ freed' = IF op[t].pc = "free" THEN freed \cup {op[t].alarm} ELSE freed
  /\ op' = [op EXCEPT ![t] = no_op]
  /\ UNCHANGED <<alarms, recordVars, timerVars, pendingVars, message_loop, dispatcher, cb,
                 alarms_mutex, cleanup, due, ahead>>

\* alarm_free of an alarm that is not scheduled: no lock is taken. It is not
\* called from the alarm's own callback (alarm.h).
alarm_free_idle(t, a) ==
  /\ MayFree /\ MayUse(t, a)
  /\ t \in CallbackThreads => cb[t].alarm # a
  /\ callback[a] = "null"
  /\ freed' = freed \cup {a}
  /\ UNCHANGED <<alarms, recordVars, timerVars, pendingVars, threadVars, due, ahead>>

\* Mutant: a scheduled alarm is freed without being cancelled.
alarm_free_scheduled_uncancelled(t, a) ==
  /\ MayFree /\ MayUse(t, a)
  /\ t \in CallbackThreads => cb[t].alarm # a
  /\ callback[a] = "set"
  /\ freed' = freed \cup {a}
  /\ UNCHANGED <<alarms, recordVars, timerVars, pendingVars, threadVars, due, ahead>>

\* alarm_free of a scheduled alarm: alarm_cancel first.
alarm_free_scheduled(t, a) ==
  /\ MayFree /\ MayUse(t, a) /\ Locked
  /\ t \in CallbackThreads => cb[t].alarm # a
  /\ callback[a] = "set"
  /\ alarm_cancel_internal(a)
  /\ op' = [op EXCEPT ![t] = [pc |-> "free", alarm |-> a]]
  /\ UNCHANGED <<period, phase, message_loop, dispatcher, cb, alarms_mutex, cleanup, freed>>

-------------------------------------------------------------------------------
(* The clock, external, and timer_callback *)

Elapse(time) == IF time \in {Off, 0} THEN time ELSE time - 1

tick ==
  /\ left' = [a \in Alarms |-> Elapse(left[a])]
  /\ phase' = [a \in Alarms |-> IF a \notin PeriodicAlarms \/ period[a] = 0 THEN 0
                                ELSE (phase[a] + 1) % period[a]]
  /\ timer' = Elapse(timer)
  /\ wakeup_timer' = Elapse(wakeup_timer)
  /\ UNCHANGED <<alarms, callback, period, timer_set, wakelock, alarm_expired,
                 pendingVars, threadVars, historyVars>>

\* A timer expires and timer_callback posts alarm_expired.
timer_callback ==
  /\ alarm_expired < MaxSignals
  /\ \/ timer = 0 /\ timer' = Off /\ UNCHANGED wakeup_timer
     \/ wakeup_timer = 0 /\ wakeup_timer' = Off /\ UNCHANGED timer
  /\ alarm_expired' = alarm_expired + 1
  /\ UNCHANGED <<alarms, recordVars, timer_set, wakelock, pendingVars,
                 threadVars, historyVars>>

-------------------------------------------------------------------------------
(* dispatcher_thread *)

\* semaphore_wait returns; alarm_cleanup ends the loop.
dispatcher_wakes ==
  /\ dispatcher = "waiting"
  /\ alarm_expired > 0
  /\ alarm_expired' = alarm_expired - 1
  /\ dispatcher' = IF cleanup = "no" THEN "woken" ELSE "exited"
  /\ UNCHANGED <<alarms, recordVars, timer, wakeup_timer, timer_set, wakelock,
                 pendingVars, message_loop, cb, op, alarms_mutex, cleanup,
                 historyVars>>

\* Mutant: the deadline of the root alarm is not compared with now.
Expired_any == alarms # <<>>

\* The root alarm is due.
Expired == alarms # <<>> /\ left[Head(alarms)] = 0

\* callback_dispatch, nothing expired: the signal was stale or early.
dispatch_none ==
  /\ dispatcher = "woken" /\ Locked
  /\ ~Expired
  /\ reschedule_root_alarm(alarms, left, alarm_expired)
  /\ dispatcher' = "waiting"
  /\ UNCHANGED <<alarms, recordVars, pendingVars, message_loop, cb, op,
                 alarms_mutex, cleanup, historyVars>>

\* callback_dispatch: the root alarm leaves the list (a periodic one is set
\* again, which withdraws an instance still pending) and goes to its thread. It
\* is dropped when there is no message loop.
dispatch_root ==
  /\ dispatcher = "woken" /\ Locked
  /\ Expired
  /\ LET a == Head(alarms)
         time == IF a \in PeriodicAlarms
                 THEN [left EXCEPT ![a] = period[a] - phase[a]] ELSE left
         list == IF a \in PeriodicAlarms
                 THEN insert_sorted(Tail(alarms), a, time) ELSE Tail(alarms)
     IN /\ alarms' = list
        /\ left' = time
        /\ reschedule_root_alarm(list, time, alarm_expired)
        /\ IF Target[a] = "mloop"
           THEN /\ posted' = IF message_loop = "gone" THEN posted
                             ELSE Append(Without(posted, a), a)
                /\ UNCHANGED queue
           ELSE /\ queue' = Append(IF a \in PeriodicAlarms THEN Without(queue, a)
                                   ELSE queue, a)
                /\ UNCHANGED posted
        /\ due' = [due EXCEPT ![a] = IF left[a] > 0 THEN @ ELSE IF @ < 2 THEN @ + 1 ELSE 2]
  /\ dispatcher' = "waiting"
  /\ UNCHANGED <<callback, period, phase, message_loop, cb, op, alarms_mutex,
                 cleanup, freed, ahead>>

-------------------------------------------------------------------------------
(* The default callback thread and the main message loop *)

\* The reactor of the default thread sees the queue ready.
queue_readable ==
  /\ cb["default"].pc = "idle"
  /\ queue # <<>>
  /\ cb' = [cb EXCEPT !["default"] = [pc |-> "picked", alarm |-> NoAlarm, call |-> "none"]]
  /\ UNCHANGED <<alarms, recordVars, timerVars, pendingVars, message_loop, dispatcher, op,
                 alarms_mutex, cleanup, historyVars>>

\* The message loop starts the next closure that is not cancelled.
closure_runs ==
  /\ message_loop = "up"
  /\ cb["mloop"] = cb_idle /\ op["mloop"] = no_op
  /\ posted # <<>>
  /\ cb' = [cb EXCEPT !["mloop"] = [pc |-> "picked", alarm |-> Head(posted), call |-> "none"]]
  /\ posted' = Tail(posted)
  /\ UNCHANGED <<alarms, recordVars, timerVars, queue, message_loop, dispatcher, op,
                 alarms_mutex, cleanup, historyVars>>

\* alarm_ready_generic up to the callback mutex, alarms_mutex held: a one-shot
\* alarm is reset. The kind of call is history.
alarm_ready_generic(t, a) ==
  /\ cb' = [cb EXCEPT ![t] =
       [pc |-> "cleared", alarm |-> a,
        call |-> IF callback[a] = "null" THEN "null"
                 ELSE IF due[a] = 0 THEN "early" ELSE "due"]]
  /\ IF a \in PeriodicAlarms
     THEN UNCHANGED <<callback, left>>
     ELSE /\ callback' = [callback EXCEPT ![a] = "null"]
          /\ left' = [left EXCEPT ![a] = 0]
  /\ alarms_mutex' = t
  /\ due' = [due EXCEPT ![a] = IF @ = 0 THEN 0 ELSE @ - 1]
  /\ ahead' = [Dropped(a) EXCEPT ![a] = {}]

\* alarm_queue_ready: the alarm may have been cancelled in the meantime.
alarm_queue_ready ==
  /\ cb["default"].pc = "picked" /\ Locked
  /\ \/ /\ queue = <<>>
        /\ cb' = [cb EXCEPT !["default"] = cb_idle]
        /\ UNCHANGED <<queue, callback, left, alarms_mutex, due, ahead>>
     \/ /\ queue # <<>>
        /\ queue' = Tail(queue)
        /\ alarm_ready_generic("default", Head(queue))
  /\ UNCHANGED <<alarms, period, phase, timerVars, posted, message_loop, dispatcher,
                 op, cleanup, freed>>

alarm_ready_mloop ==
  /\ cb["mloop"].pc = "picked" /\ Locked
  /\ alarm_ready_generic("mloop", cb["mloop"].alarm)
  /\ UNCHANGED <<alarms, period, phase, timerVars, queue, posted, message_loop,
                 dispatcher, op, cleanup, freed>>

\* External: the main message loop ends and drops its closures.
message_loop_stops ==
  /\ MloopMayStop /\ message_loop = "up"
  /\ cb["mloop"] = cb_idle /\ op["mloop"] = no_op
  /\ message_loop' = "gone"
  /\ posted' = <<>>
  /\ UNCHANGED <<alarms, recordVars, timerVars, queue, dispatcher, cb, op,
                 alarms_mutex, cleanup, historyVars>>

\* The callback mutex is referenced and taken, alarms_mutex released, and the
\* callback called.
callback_begins(t) ==
  /\ cb[t].pc = "cleared"
  /\ CallbackMutexFree(t, cb[t].alarm)
  /\ cb' = [cb EXCEPT ![t].pc = "running"]
  /\ alarms_mutex' = "free"
  /\ UNCHANGED <<alarms, recordVars, timerVars, pendingVars, message_loop, dispatcher, op,
                 cleanup, historyVars>>

callback_returns(t) ==
  /\ cb[t].pc = "running"
  /\ op[t] = no_op
  /\ cb' = [cb EXCEPT ![t] = cb_idle]
  /\ UNCHANGED <<alarms, recordVars, timerVars, pendingVars, message_loop, dispatcher, op,
                 alarms_mutex, cleanup, historyVars>>

-------------------------------------------------------------------------------
(* alarm_cleanup, on a client thread that no longer uses alarms *)

cleanup_begins ==
  /\ MayCleanup
  /\ cleanup = "no"
  /\ \A t \in Threads : op[t] = no_op
  /\ cleanup' = "join_dispatcher"
  /\ alarm_expired' = alarm_expired + 1
  /\ UNCHANGED <<alarms, recordVars, timer, wakeup_timer, timer_set, wakelock,
                 pendingVars, message_loop, dispatcher, cb, op, alarms_mutex,
                 historyVars>>

\* thread_free(dispatcher_thread) returns and alarms_mutex is taken.
cleanup_locks ==
  /\ cleanup = "join_dispatcher"
  /\ dispatcher = "exited"
  /\ Locked
  /\ cleanup' = "locked"
  /\ alarms_mutex' = "cleanup"
  /\ UNCHANGED <<alarms, recordVars, timerVars, pendingVars, message_loop, dispatcher, cb,
                 op, historyVars>>

\* fixed_queue_free waits until the reactor callback of the queue is over, and
\* thread_free joins its thread; then the timers and the list are deleted.
cleanup_ends ==
  /\ cleanup = "locked"
  /\ cb["default"].pc = "idle"
  /\ cleanup' = "done"
  /\ alarms' = <<>> /\ queue' = <<>>
  /\ timer' = Off /\ wakeup_timer' = Off
  /\ alarms_mutex' = "free"
  /\ UNCHANGED <<recordVars, timer_set, wakelock, alarm_expired, posted,
                 message_loop, dispatcher, cb, op, historyVars>>

-------------------------------------------------------------------------------

Use == \E t \in Threads, a \in Alarms :
         \/ \E p \in Periods : alarm_set(t, a, p)
         \/ alarm_cancel(t, a)
         \/ alarm_free_idle(t, a)
         \/ alarm_free_scheduled(t, a)
Return == \E t \in Threads : alarm_cancel_returns(t)
Dispatcher == dispatcher_wakes \/ dispatch_none \/ dispatch_root
DefaultThread ==
  queue_readable \/ alarm_queue_ready \/ callback_begins("default")
    \/ callback_returns("default")
MessageLoop ==
  closure_runs \/ alarm_ready_mloop \/ callback_begins("mloop")
    \/ callback_returns("mloop")
Cleanup == cleanup_begins \/ cleanup_locks \/ cleanup_ends

Next == Use \/ Return \/ message_loop_stops \/ tick \/ timer_callback \/ Dispatcher
          \/ DefaultThread \/ MessageLoop \/ Cleanup

Spec == Init /\ [][Next]_vars

\* Time passes, timers expire, every thread is scheduled, and a thread that
\* waits for alarms_mutex or a callback mutex gets it in the end.
Fairness ==
  /\ WF_vars(tick) /\ WF_vars(timer_callback)
  /\ WF_vars(Dispatcher) /\ WF_vars(DefaultThread) /\ WF_vars(MessageLoop)
  /\ SF_vars(dispatch_none \/ dispatch_root)
  /\ SF_vars(alarm_queue_ready) /\ SF_vars(alarm_ready_mloop)
  /\ \A t \in Threads : SF_vars(alarm_cancel_returns(t))
  /\ SF_vars(cleanup_locks) /\ WF_vars(cleanup_ends)

FairSpec == Spec /\ Fairness

-------------------------------------------------------------------------------
(* Properties *)

ListType == alarms \in Seq(Alarms) /\ queue \in Seq(Alarms) /\ posted \in Seq(Alarms)

RecordType ==
  /\ callback \in [Alarms -> {"set", "null"}]
  /\ left \in [Alarms -> Nat] /\ period \in [Alarms -> Nat] /\ phase \in [Alarms -> Nat]

TimerType ==
  /\ timer \in Nat \cup {Off} /\ wakeup_timer \in Nat \cup {Off}
  /\ timer_set \in {"no", "yes"} /\ wakelock \in {"held", "released"}
  /\ alarm_expired \in Nat

ThreadType ==
  /\ message_loop \in {"up", "gone"}
  /\ dispatcher \in {"waiting", "woken", "exited"}
  /\ cb \in [CallbackThreads ->
               [pc : {"idle", "picked", "cleared", "running"},
                alarm : Alarms \cup {NoAlarm},
                call : {"none", "due", "early", "null"}]]
  /\ op \in [Threads -> [pc : {"none", "cancel", "free"},
                         alarm : Alarms \cup {NoAlarm}]]
  /\ alarms_mutex \in {"free", "cleanup"} \cup CallbackThreads
  /\ cleanup \in {"no", "join_dispatcher", "locked", "done"}

HistoryType ==
  /\ freed \subseteq Alarms
  /\ due \in [Alarms -> 0 .. 2]
  /\ ahead \in [Alarms -> SUBSET Alarms]

\* Every variable has its type.
TypeOK == ListType /\ RecordType /\ TimerType /\ ThreadType /\ HistoryType

\* A callback is called only for an expiry of the alarm as it was last set:
\* never before the deadline, never for an alarm that was cancelled or set
\* again after it expired, never through a null pointer. This is the promise
\* of alarm_cancel that the callback "will not be called".
OnlyDueCallbacks ==
  \A t \in CallbackThreads : cb[t].pc \in {"cleared", "running"} => cb[t].call = "due"

\* When alarm_free is done with an alarm, neither the list nor a queue refers
\* to it, and no callback thread is about to look at it.
FreedIsForgotten ==
  \A a \in freed :
    /\ a \notin Range(alarms) \cup Range(queue) \cup Range(posted)
    /\ \A t \in CallbackThreads : cb[t].pc = "picked" => cb[t].alarm # a

\* alarm_ready_generic never touches an alarm that alarm_free has released.
FreedNotTouched ==
  \A t \in CallbackThreads : cb[t].pc = "cleared" => cb[t].alarm \notin freed

\* One-shot alarms set for the same deadline or an earlier one are called
\* first, in the order they were set.
CalledInOrder ==
  [][\A t \in CallbackThreads, a \in Alarms :
       cb[t].pc = "picked" /\ cb'[t].pc = "cleared" /\ cb'[t].alarm = a =>
         ahead[a] = {}]_vars

\* The root alarm always has something that will wake the dispatcher in time:
\* a signal, the plain timer with the wake lock held, or the wakeup timer. And
\* the wake lock is held only for it: with no alarm set, and the dispatcher
\* asleep with no signal, the device may suspend.
RootIsArmed ==
  cleanup = "no" =>
    /\ alarms # <<>> =>
         \/ alarm_expired > 0 \/ dispatcher = "woken"
         \/ timer = left[Head(alarms)] /\ wakelock = "held"
         \/ wakeup_timer = left[Head(alarms)]
    /\ alarms = <<>> /\ alarm_expired = 0 /\ dispatcher = "waiting" =>
         wakelock = "released"

\* Once nobody sets or cancels alarms any more, every one-shot alarm fires.
EveryAlarmFires ==
  <>[][~Use]_vars =>
    \A a \in Alarms \ PeriodicAlarms : <>[](callback[a] = "null")

\* alarm_cleanup terminates.
CleanupCompletes == (cleanup # "no") ~> (cleanup = "done")
-------------------------------------------------------------------------------
(* Alarm implements AlarmSpec *)

\* Between the reset of an alarm and the call, alarms_mutex is held and the
\* alarm counts as still expired.
Committed(a) == \E t \in CallbackThreads : cb[t].pc = "cleared" /\ cb[t].alarm = a

\* What a user can tell of an alarm, of a callback thread and of its own calls.
Status == [a \in Alarms |-> IF callback[a] = "set" \/ Committed(a) THEN "scheduled" ELSE "idle"]
Fires == [a \in Alarms |-> IF Committed(a) THEN due[a] + 1 ELSE due[a]]
Calling == [t \in CallbackThreads |-> IF cb[t].pc = "running" THEN cb[t].alarm ELSE NoAlarm]
Waiting == [t \in Threads |-> op[t].alarm]

Promise == INSTANCE AlarmSpec WITH
  status <- Status, fires <- Fires, calling <- Calling, waiting <- Waiting

\* Seen through its interface, the service behaves as AlarmSpec: the list, the
\* timers, the dispatcher and the queues add no early, late, repeated or
\* cancelled call, and alarm_cancel synchronises with the callback.
KeepsPromise == Promise!Spec
===============================================================================
