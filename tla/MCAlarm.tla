------------------------------- MODULE MCAlarm -------------------------------
(* Instances of Alarm for TLC. *)
EXTENDS Alarm

CONSTANTS a1, a2

BothDefault == [a \in Alarms |-> "default"]
OneEach == [a \in Alarms |-> IF a = a1 THEN "default" ELSE "mloop"]
BothMloop == [a \in Alarms |-> "mloop"]

\* Default-queue alarms are used from every thread, message loop alarms from
\* the message loop only.
Disciplined == [a \in Alarms |-> IF Target[a] = "mloop" THEN {"mloop"} ELSE Threads]
AnyThread == [a \in Alarms |-> Threads]
==============================================================================
