------------------------------ MODULE AlarmSpec ------------------------------
(***************************************************************************)
(* What the alarm service promises its users (osi/include/alarm.h), with   *)
(* no list, timers, queues or dispatcher: an alarm that is set expires at  *)
(* some later time, an expired alarm is called on its callback thread, and *)
(* alarm_cancel withdraws both and returns when no callback is in progress *)
(* on another thread. Alarm implements it.                                 *)
(***************************************************************************)
EXTENDS Naturals

CONSTANTS Alarms, NoAlarm, PeriodicAlarms, Target, Threads, CallbackThreads

VARIABLES
  status,    \* per alarm: "idle" or "scheduled"
  fires,     \* per alarm: expiries not yet called, at most 2 are told apart
  calling,   \* per callback thread: the alarm whose callback is in progress
  waiting    \* per thread: the alarm it is cancelling

vars == <<status, fires, calling, waiting>>

Init ==
  /\ status = [a \in Alarms |-> "idle"]
  /\ fires = [a \in Alarms |-> 0]
  /\ calling = [t \in CallbackThreads |-> NoAlarm]
  /\ waiting = [t \in Threads |-> NoAlarm]

\* Setting an alarm replaces what it was set to before.
Set(a) ==
  /\ status' = [status EXCEPT ![a] = "scheduled"]
  /\ fires' = [fires EXCEPT ![a] = 0]
  /\ UNCHANGED <<calling, waiting>>

\* A one-shot alarm expires once, a periodic one again and again.
Expire(a) ==
  /\ status[a] = "scheduled"
  /\ a \notin PeriodicAlarms => fires[a] = 0
  /\ fires' = [fires EXCEPT ![a] = IF @ < 2 THEN @ + 1 ELSE 2]
  /\ UNCHANGED <<status, calling, waiting>>

Call(a) ==
  /\ status[a] = "scheduled"
  /\ fires[a] > 0
  /\ calling[Target[a]] = NoAlarm
  /\ calling' = [calling EXCEPT ![Target[a]] = a]
  /\ fires' = [fires EXCEPT ![a] = @ - 1]
  /\ status' = IF a \in PeriodicAlarms THEN status ELSE [status EXCEPT ![a] = "idle"]
  /\ UNCHANGED waiting

Return(t) ==
  /\ calling[t] # NoAlarm
  /\ calling' = [calling EXCEPT ![t] = NoAlarm]
  /\ UNCHANGED <<status, fires, waiting>>

Cancel(t, a) ==
  /\ waiting[t] = NoAlarm
  /\ status' = [status EXCEPT ![a] = "idle"]
  /\ fires' = [fires EXCEPT ![a] = 0]
  /\ waiting' = [waiting EXCEPT ![t] = a]
  /\ UNCHANGED calling

CancelReturns(t) ==
  /\ waiting[t] # NoAlarm
  /\ \A u \in CallbackThreads \ {t} : calling[u] # waiting[t]
  /\ waiting' = [waiting EXCEPT ![t] = NoAlarm]
  /\ UNCHANGED <<status, fires, calling>>

Next ==
  \/ \E a \in Alarms : Set(a) \/ Expire(a) \/ Call(a)
  \/ \E t \in CallbackThreads : Return(t)
  \/ \E t \in Threads : CancelReturns(t) \/ \E a \in Alarms : Cancel(t, a)

Spec == Init /\ [][Next]_vars
==============================================================================
