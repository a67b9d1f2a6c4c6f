--------------------------- MODULE HciCommandProofs ---------------------------
(***************************************************************************)
(* Machine-checked proofs about HciCommand, for every set of commands,     *)
(* every opcode assignment and every bound.                                *)
(***************************************************************************)
EXTENDS HciCommand, SequenceTheorems, FiniteSetTheorems, WellFoundedInduction, TLAPS

\* What the threads' program counters say about the entries they hold.
EntriesHeld ==
  /\ hci.pc = "send" => hci.entry \in Commands
  /\ rx.pc = "timer" => /\ rx.entry \in Commands
                        /\ rx.event.type \in {"complete", "status"}

\* A command waits in command_queue only while there is no credit to send it.
QueuedOnlyWithoutCredit == command_queue # <<>> => command_credits <= 0

TypeInv == TypeOK /\ EntriesHeld

\* list_remove with an index of the sequence gives a sequence one shorter.
LEMMA ListRemoveProperties ==
  ASSUME NEW S, NEW s \in Seq(S), NEW i \in 1 .. Len(s)
  PROVE  /\ list_remove(s, i) \in Seq(S)
         /\ Len(list_remove(s, i)) = Len(s) - 1
<1>1. /\ SubSeq(s, 1, i - 1) \in Seq(S)
      /\ Len(SubSeq(s, 1, i - 1)) = i - 1
  BY SubSeqProperties, LenProperties, ElementOfSeq
<1>2. /\ SubSeq(s, i + 1, Len(s)) \in Seq(S)
      /\ Len(SubSeq(s, i + 1, Len(s))) = Len(s) - i
  BY SubSeqProperties, LenProperties, ElementOfSeq
<1>3. Len(s) \in Nat
  BY LenProperties
<1>4. PICK a \in Seq(S), b \in Seq(S) :
        /\ a = SubSeq(s, 1, i - 1) /\ b = SubSeq(s, i + 1, Len(s))
        /\ Len(a) = i - 1 /\ Len(b) = Len(s) - i
  BY <1>1, <1>2, Zenon
<1>5. a \o b \in Seq(S) /\ Len(a \o b) = Len(a) + Len(b)
  BY ConcatProperties
<1>6. PICK r \in Seq(S) : r = a \o b /\ Len(r) = Len(a) + Len(b)
  BY <1>5, Zenon
<1>7. list_remove(s, i) = r
  BY <1>4, <1>6 DEF list_remove
<1>8. Len(r) = (i - 1) + (Len(s) - i)
  BY <1>4, <1>6, Zenon
<1>9. (i - 1) + (Len(s) - i) = Len(s) - 1
  BY <1>3
<1> QED
  BY <1>7, <1>8, <1>9, Zenon

\* The indexes get_waiting_command returns are indexes of the pending list.
LEMMA WaitingCommandIsPending ==
  ASSUME NEW s \in Seq(Commands), NEW opcode,
         NEW i \in get_waiting_command(s, opcode)
  PROVE  i \in 1 .. Len(s)
  BY LenProperties DEF get_waiting_command

\* process_command_credits splits command_queue at the number it posts.
LEMMA SplitQueue ==
  ASSUME NEW S, NEW s \in Seq(S), NEW n \in 0 .. Len(s)
  PROVE  /\ SubSeq(s, 1, n) \in Seq(S)
         /\ SubSeq(s, n + 1, Len(s)) \in Seq(S)
         /\ Len(SubSeq(s, 1, n)) = n
         /\ Len(SubSeq(s, n + 1, Len(s))) = Len(s) - n
         /\ SubSeq(s, 1, n) \o SubSeq(s, n + 1, Len(s)) = s
<1>1. /\ SubSeq(s, 1, n) \in Seq(S)
      /\ Len(SubSeq(s, 1, n)) = n
  BY SubSeqProperties, LenProperties, ElementOfSeq
<1>2. /\ SubSeq(s, n + 1, Len(s)) \in Seq(S)
      /\ Len(SubSeq(s, n + 1, Len(s))) = Len(s) - n
  BY SubSeqProperties, LenProperties, ElementOfSeq
<1>3. /\ Len(s) \in Nat
      /\ 1 \in 1 .. Len(s) + 1
      /\ n \in 1 - 1 .. Len(s)
      /\ Len(s) \in n .. Len(s)
  BY LenProperties
<1>4. SubSeq(s, 1, n) \o SubSeq(s, n + 1, Len(s)) = SubSeq(s, 1, Len(s))
  BY <1>3, ConcatAdjacentSubSeq, Zenon
<1> QED
  BY <1>1, <1>2, <1>4, SubSeqFull, Zenon

\* process_command_credits moves a prefix of command_queue to the message loop,
\* and leaves a credit over only when the queue is empty.
LEMMA PostedCommands ==
  ASSUME HostType, RxThreadType, process_command_credits
  PROVE  \E n \in 0 .. Len(command_queue) :
           /\ tasks' = tasks \o SubSeq(command_queue, 1, n)
           /\ command_queue' = SubSeq(command_queue, n + 1, Len(command_queue))
           /\ command_credits' \in Int
           /\ command_credits' =
                (rx.event.credits - Len(commands_pending_response)) - n
           /\ n = Len(command_queue) \/ command_credits' <= 0
           /\ n # 0 => command_credits' >= 0
           /\ UNCHANGED commands_pending_response
<1> DEFINE credits == rx.event.credits - Len(commands_pending_response)
           posted == IF credits <= 0 THEN 0
                     ELSE IF credits <= Len(command_queue) THEN credits
                     ELSE Len(command_queue)
<1>1. /\ Len(command_queue) \in Nat
      /\ credits \in Int
  BY LenProperties, BoundAssumption, SMTT(30) DEF HostType, RxThreadType, Event
<1>2. /\ tasks' = tasks \o SubSeq(command_queue, 1, posted)
      /\ command_queue' = SubSeq(command_queue, posted + 1, Len(command_queue))
      /\ command_credits' = credits - posted
      /\ UNCHANGED commands_pending_response
  BY DEF process_command_credits
<1>3. posted \in 0 .. Len(command_queue)
  BY <1>1
<1>4. /\ posted = Len(command_queue) \/ credits - posted <= 0
      /\ posted # 0 => credits - posted >= 0
      /\ credits - posted \in Int
  BY <1>1
<1> HIDE DEF credits, posted
<1> WITNESS posted \in 0 .. Len(command_queue)
<1> QED
  BY <1>2, <1>4 DEF credits

-------------------------------------------------------------------------------

\* TypeOK holds initially and is preserved by every action; together with
\* EntriesHeld it is inductive.
LEMMA TypeInit == Init => TypeInv
<1> SUFFICES ASSUME Init
             PROVE  TypeInv
  OBVIOUS
<1>1. HostType /\ HciThreadType /\ EntriesHeld
  BY DEF Init, HostType, HciThreadType, EntriesHeld, hci_idle, rx_idle
<1>2. RxThreadType
  BY BoundAssumption DEF Init, RxThreadType, rx_idle, NoEvent, Event, OpcodesUsed
<1>3. TimerType
  BY DEF Init, TimerType
<1>4. StatsType
  BY TimeoutAssumption DEF Init, StatsType, no_stats
<1>5. ControllerType
  BY BoundAssumption DEF Init, ControllerType
<1>6. HistoryType
  BY DEF Init, HistoryType
<1> QED
  BY <1>1, <1>2, <1>3, <1>4, <1>5, <1>6 DEF TypeInv, TypeOK

\* The types an alarm thread step does not touch (except the watchdog's own).
LEMMA OtherTypes ==
  ASSUME TypeInv,
         UNCHANGED <<hostVars, hci, rx, controllerVars, submitted, transmitted,
                     outcome>>
  PROVE  /\ HostType' /\ HciThreadType' /\ RxThreadType' /\ ControllerType'
         /\ HistoryType' /\ EntriesHeld'
         /\ UNCHANGED cmd_stats => StatsType'
<1>1. HostType' /\ HciThreadType' /\ RxThreadType'
  BY DEF TypeInv, TypeOK, HostType, HciThreadType, RxThreadType, hostVars
<1>2. ControllerType' /\ HistoryType' /\ EntriesHeld'
  BY DEF TypeInv, TypeOK, ControllerType, HistoryType, EntriesHeld, controllerVars
<1>3. UNCHANGED cmd_stats => StatsType'
  BY DEF TypeInv, TypeOK, StatsType
<1> QED
  BY <1>1, <1>2, <1>3, SMTT(30)

\* The monitor's counters keep their types, whoever updates them.
LEMMA MonitorUpdated ==
  ASSUME NEW pending, update_command_response_timer(pending)
  PROVE  StatsType'
  BY TimeoutAssumption DEF StatsType, update_command_response_timer, no_stats

LEMMA MonitorCounts ==
  ASSUME StatsType, hci_event_received
  PROVE  StatsType'
<1>1. CASE cmd_stats.monitor = "on"
  <2>1. cmd_stats' = [cmd_stats EXCEPT !.rx = cmd_stats.rx + 1]
    BY <1>1 DEF hci_event_received
  <2> QED
    BY <2>1 DEF StatsType
<1>2. CASE cmd_stats.monitor # "on"
  BY <1>2 DEF StatsType, hci_event_received
<1> QED
  BY <1>1, <1>2

LEMMA MonitorExtends ==
  ASSUME StatsType, command_timed_out
  PROVE  StatsType'
<1>1. CASE UNCHANGED cmd_stats
  BY <1>1 DEF StatsType
<1>2. CASE /\ Extendable
           /\ cmd_stats' = [monitor |-> "on",
                            lapsed |-> cmd_stats.lapsed + extended_timeout,
                            rx |-> cmd_stats.rx, prev |-> cmd_stats.rx]
  <2>1. /\ cmd_stats.lapsed \in 0 .. MAX_CMD_TIMEOUT
        /\ cmd_stats.rx \in Nat /\ cmd_stats.prev \in Nat
    BY DEF StatsType
  <2>2. extended_timeout \in 0 .. (MAX_CMD_TIMEOUT - cmd_stats.lapsed)
    BY <1>2, <2>1, TimeoutAssumption, SMTT(30) DEF extended_timeout, Extendable
  <2>3. cmd_stats.lapsed + extended_timeout \in 0 .. MAX_CMD_TIMEOUT
    BY <2>1, <2>2, TimeoutAssumption, SMTT(30)
  <2> QED
    BY <1>2, <2>1, <2>3, SMTT(30) DEF StatsType
<1> QED
  BY <1>1, <1>2 DEF command_timed_out

LEMMA EnqueueKeepsHostType ==
  ASSUME HostType, NEW c \in Commands, enqueue_command(c)
  PROVE  HostType'
<1>1. /\ Append(tasks, c) \in Seq(Commands)
      /\ Append(command_queue, c) \in Seq(Commands)
  BY AppendProperties DEF HostType
<1>2. UNCHANGED commands_pending_response
  BY DEF enqueue_command
<1>3. CASE command_credits > 0
  <2>1. /\ tasks' = Append(tasks, c) /\ command_queue' = command_queue
        /\ command_credits' = command_credits - 1
    BY <1>3 DEF enqueue_command, HostType
  <2> QED
    BY <1>1, <1>2, <2>1, SMTT(30) DEF HostType
<1>4. CASE command_credits <= 0
  <2>1. /\ tasks' = tasks /\ command_queue' = Append(command_queue, c)
        /\ command_credits' = command_credits
    BY <1>4, SMTT(30) DEF enqueue_command, HostType
  <2> QED
    BY <1>1, <1>2, <2>1, SMTT(30) DEF HostType
<1> QED
  BY <1>3, <1>4 DEF HostType

LEMMA TypeStep == TypeInv /\ [Next]_vars => TypeInv'
<1> SUFFICES ASSUME TypeInv, [Next]_vars
             PROVE  TypeInv'
  BY SMTT(30)
<1> USE CommandAssumption, FlagAssumption, BoundAssumption, TimeoutAssumption
<1> USE DEF TypeInv, TypeOK
<1>1. ASSUME NEW c \in Commands, enqueue_command(c)
      PROVE  TypeInv'
  <2>0. HostType'
    BY <1>1, EnqueueKeepsHostType, SMTT(30)
  <2>1. HistoryType'
    BY <1>1, AppendProperties, SMTT(30) DEF enqueue_command, HistoryType
  <2>2. UNCHANGED <<hci, rx, alarm, timerVars, controllerVars, process>>
    BY <1>1 DEF enqueue_command
  <2>3. HciThreadType' /\ RxThreadType' /\ EntriesHeld'
    BY <2>2 DEF HciThreadType, RxThreadType, EntriesHeld
  <2>4. TimerType' /\ StatsType' /\ ControllerType'
    BY <2>2 DEF TimerType, StatsType, ControllerType, timerVars, controllerVars
  <2> QED
    BY <2>0, <2>1, <2>3, <2>4, SMTT(30)
<1>2. CASE event_command_ready
  <2>1. HostType' /\ HciThreadType' /\ EntriesHeld'
    BY <1>2, HeadTailProperties, AppendProperties, SMTT(30)
    DEF event_command_ready, HostType, HciThreadType, EntriesHeld
  <2>2. UNCHANGED <<rx, alarm, timerVars, controllerVars, process, submitted,
                    transmitted, outcome>>
    BY <1>2, SMTT(30) DEF event_command_ready
  <2>3. RxThreadType' /\ HistoryType'
    BY <2>2, SMTT(30) DEF RxThreadType, HistoryType
  <2>4. TimerType' /\ StatsType' /\ ControllerType'
    BY <2>2, SMTT(30) DEF TimerType, StatsType, ControllerType, timerVars, controllerVars
  <2> QED
    BY <2>1, <2>3, <2>4, SMTT(30)
<1>3. CASE transmit_fragment
  <2>0. HciThreadType' /\ EntriesHeld'
    BY <1>3 DEF transmit_fragment, HciThreadType, EntriesHeld
  <2>1. HistoryType'
    <3>1. Append(transmitted, hci.entry) \in Seq(Commands)
      BY <1>3, AppendProperties DEF transmit_fragment, HistoryType, EntriesHeld
    <3> QED
      BY <1>3, <3>1, Zenon DEF transmit_fragment, HistoryType
  <2>2. TimerType' /\ ControllerType'
    BY <1>3
    DEF transmit_fragment, TimerType, ControllerType, EntriesHeld, timerVars
  <2>3. UNCHANGED <<hostVars, rx, cmd_stats>>
    BY <1>3 DEF transmit_fragment, timerVars
  <2>4. HostType' /\ RxThreadType' /\ StatsType'
    BY <2>3 DEF HostType, RxThreadType, StatsType, hostVars
  <2> QED
    BY <2>0, <2>1, <2>2, <2>4, SMTT(30)
<1>4. CASE event_command_sent
  <2>1. HciThreadType' /\ EntriesHeld'
    BY <1>4, SMTT(30) DEF event_command_sent, HciThreadType, EntriesHeld, hci_idle
  <2>2. TimerType'
    BY <1>4 DEF event_command_sent, update_command_response_timer, TimerType
  <2>9. StatsType'
    BY <1>4, MonitorUpdated, SMTT(30) DEF event_command_sent
  <2>3. UNCHANGED <<hostVars, rx, controllerVars, submitted, transmitted, outcome>>
    BY <1>4 DEF event_command_sent
  <2>4. HostType' /\ RxThreadType' /\ ControllerType' /\ HistoryType'
    BY <2>3 DEF HostType, RxThreadType, ControllerType, HistoryType, hostVars,
                controllerVars
  <2> QED
    BY <2>1, <2>2, <2>4, <2>9, SMTT(30)
<1>5. CASE hci_event_received
  <2>1. Head(events) \in Event /\ Tail(events) \in Seq(Event)
    BY <1>5, HeadTailProperties DEF hci_event_received, ControllerType
  <2>2. RxThreadType' /\ EntriesHeld' /\ ControllerType'
    BY <1>5, <2>1, SMTT(30)
    DEF hci_event_received, RxThreadType, EntriesHeld, ControllerType
  <2>3. StatsType'
    BY <1>5, MonitorCounts, SMTT(30)
  <2>4. UNCHANGED <<hostVars, hci, alarm, response_timer, abort_timer,
                    firmware_log, process, submitted, transmitted, outcome>>
    BY <1>5 DEF hci_event_received
  <2>5. HostType' /\ HciThreadType' /\ TimerType' /\ HistoryType'
    BY <2>4 DEF HostType, HciThreadType, TimerType, HistoryType, hostVars
  <2> QED
    BY <2>2, <2>3, <2>5, SMTT(30)
<1>6. CASE filter_incoming_event
  <2>1. ASSUME NEW i \in get_waiting_command(commands_pending_response, rx.event.opcode)
        PROVE  /\ commands_pending_response[i] \in Commands
               /\ list_remove(commands_pending_response, i) \in Seq(Commands)
    BY WaitingCommandIsPending, ListRemoveProperties, ElementOfSeq, SMTT(30) DEF HostType
  <2>2. rx_idle \in [pc : {"idle", "filter", "timer", "credits"},
                     entry : Commands \cup {NoCommand}, event : Event]
    BY SMTT(30) DEF rx_idle, NoEvent, Event, OpcodesUsed
  <2>3. HostType' /\ RxThreadType' /\ EntriesHeld'
    BY <1>6, <2>1, <2>2, ZenonT(30)
    DEF filter_incoming_event, HostType, RxThreadType, EntriesHeld, rx_idle
  <2>4. TimerType'
    BY <1>6, ZenonT(30) DEF filter_incoming_event, TimerType
  <2>5. UNCHANGED <<hci, cmd_stats, controllerVars, submitted, transmitted, outcome>>
    BY <1>6, Zenon DEF filter_incoming_event
  <2>6. HciThreadType' /\ StatsType' /\ ControllerType' /\ HistoryType'
    BY <2>5 DEF HciThreadType, StatsType, ControllerType, HistoryType, controllerVars
  <2> QED
    BY <2>3, <2>4, <2>6, SMTT(30)
<1>7. CASE command_answered
  <2>1. RxThreadType' /\ EntriesHeld'
    BY <1>7 DEF command_answered, RxThreadType, EntriesHeld
  <2>2. HistoryType'
    BY <1>7 DEF command_answered, HistoryType, EntriesHeld
  <2>3. TimerType'
    BY <1>7 DEF command_answered, update_command_response_timer, TimerType
  <2>9. StatsType'
    BY <1>7, MonitorUpdated, SMTT(30) DEF command_answered
  <2>4. UNCHANGED <<hostVars, hci, controllerVars>>
    BY <1>7 DEF command_answered
  <2>5. HostType' /\ HciThreadType' /\ ControllerType'
    BY <2>4 DEF HostType, HciThreadType, ControllerType, hostVars, controllerVars
  <2> QED
    BY <2>1, <2>2, <2>3, <2>5, <2>9, SMTT(30)
<1>8. CASE process_command_credits
  <2>1. HostType'
    <3>1. PICK n \in 0 .. Len(command_queue) :
            /\ tasks' = tasks \o SubSeq(command_queue, 1, n)
            /\ command_queue' = SubSeq(command_queue, n + 1, Len(command_queue))
            /\ command_credits' \in Int
            /\ UNCHANGED commands_pending_response
      BY <1>8, PostedCommands, ZenonT(30)
    <3>2. /\ SubSeq(command_queue, 1, n) \in Seq(Commands)
          /\ SubSeq(command_queue, n + 1, Len(command_queue)) \in Seq(Commands)
      BY SplitQueue, SMTT(30) DEF HostType
    <3> QED
      BY <3>1, <3>2, ConcatProperties, SMTT(30) DEF HostType
  <2>2. RxThreadType' /\ EntriesHeld'
    BY <1>8, SMTT(30)
    DEF process_command_credits, RxThreadType, EntriesHeld, rx_idle, NoEvent,
        Event, OpcodesUsed
  <2>3. UNCHANGED <<hci, alarm, timerVars, controllerVars, process, submitted,
                    transmitted, outcome>>
    BY <1>8, SMTT(30) DEF process_command_credits
  <2>4. HciThreadType' /\ HistoryType'
    BY <2>3, SMTT(30) DEF HciThreadType, HistoryType
  <2>5. TimerType' /\ StatsType' /\ ControllerType'
    BY <2>3 DEF TimerType, StatsType, ControllerType, timerVars, controllerVars
  <2> QED
    BY <2>1, <2>2, <2>4, <2>5, SMTT(30)
<1>9. CASE response_timer_expires
  <2>1. TimerType'
    BY <1>9 DEF response_timer_expires, TimerType
  <2>2. UNCHANGED <<hostVars, hci, rx, cmd_stats, controllerVars, submitted,
                    transmitted, outcome>>
    BY <1>9, SMTT(30) DEF response_timer_expires
  <2> QED
    BY <2>1, <2>2, OtherTypes, SMTT(30)
<1>10. CASE command_timed_out
  <2>1. TimerType'
    BY <1>10, SMTT(30) DEF command_timed_out, TimerType
  <2>2. StatsType'
    BY <1>10, MonitorExtends
  <2>3. UNCHANGED <<hostVars, hci, rx, controllerVars, submitted, transmitted,
                    outcome>>
    BY <1>10, SMTT(30) DEF command_timed_out
  <2> QED
    BY <2>1, <2>2, <2>3, OtherTypes, SMTT(30)
<1>11. CASE request_firmware_dump
  <2>1. TimerType'
    BY <1>11, SMTT(30) DEF request_firmware_dump, TimerType
  <2>2. UNCHANGED <<hostVars, hci, rx, cmd_stats, controllerVars, submitted,
                    transmitted, outcome>>
    BY <1>11, SMTT(30) DEF request_firmware_dump
  <2> QED
    BY <2>1, <2>2, OtherTypes
<1>12. CASE hci_timeout_abort
  <2>1. TimerType'
    BY <1>12 DEF hci_timeout_abort, TimerType
  <2>2. UNCHANGED <<hostVars, hci, rx, cmd_stats, controllerVars, submitted,
                    transmitted, outcome>>
    BY <1>12, SMTT(30) DEF hci_timeout_abort
  <2> QED
    BY <2>1, <2>2, OtherTypes
<1>13. CASE Controller
  <2>1. ASSUME NEW type \in {"complete", "status", "debug", "other"},
               NEW opcode \in OpcodesUsed, NEW credits \in 0 .. MaxCredits,
               SendEvent(type, opcode, credits)
        PROVE  events' \in Seq(Event)
    <3>1. [type |-> type, opcode |-> opcode, credits |-> credits] \in Event
      BY DEF Event
    <3> QED
      BY <2>1, <3>1, AppendProperties, SMTT(30) DEF SendEvent, ControllerType
  <2>2. /\ \A c \in Commands : OpcodeOf[c] \in OpcodesUsed
        /\ HCI_COMMAND_NONE \in OpcodesUsed
    BY SMTT(30) DEF OpcodesUsed
  <2>3. ControllerType'
    <3>1. ASSUME NEW c \in inbox, NEW credits \in 0 .. MaxCredits,
                 controller_answers(c, credits)
          PROVE  ControllerType'
      BY <3>1, <2>1, <2>2, SMTT(30) DEF controller_answers, ControllerType
    <3>2. ASSUME NEW credits \in 1 .. MaxCredits, controller_grants(credits)
          PROVE  ControllerType'
      BY <3>2, <2>1, <2>2, SMTT(30) DEF controller_grants, ControllerType
    <3>3. ASSUME NEW type \in {"debug", "other"}, controller_notifies(type)
          PROVE  ControllerType'
      BY <3>3, <2>1, <2>2, SMTT(30) DEF controller_notifies, ControllerType
    <3> QED
      BY <1>13, <3>1, <3>2, <3>3, SMTT(30) DEF Controller
  <2>4. UNCHANGED <<hostVars, hci, rx, alarm, timerVars, process, submitted,
                    transmitted, outcome>>
    BY <1>13, SMTT(30)
    DEF Controller, controller_answers, controller_grants, controller_notifies
  <2>5. HostType' /\ HciThreadType' /\ RxThreadType' /\ EntriesHeld'
    BY <2>4, SMTT(30) DEF HostType, HciThreadType, RxThreadType, EntriesHeld, hostVars
  <2>6. TimerType' /\ StatsType' /\ HistoryType'
    BY <2>4, SMTT(30) DEF TimerType, StatsType, HistoryType, timerVars
  <2> QED
    BY <2>3, <2>5, <2>6, SMTT(30)
<1>14. CASE UNCHANGED vars
  <2>1. TimerType' /\ StatsType'
    BY <1>14, SMTT(30) DEF vars, timerVars, TimerType, StatsType
  <2>2. UNCHANGED <<hostVars, hci, rx, controllerVars, submitted, transmitted,
                    outcome>>
    BY <1>14 DEF vars
  <2> QED
    BY <2>1, <2>2, OtherTypes, SMTT(30)
<1> QED
  BY <1>1, <1>2, <1>3, <1>4, <1>5, <1>6, <1>7, <1>8, <1>9, <1>10, <1>11, <1>12,
     <1>13, <1>14, Zenon DEF Next, Clients, HciThread, RxThread, AlarmThread

\* The model is type correct; in particular no timeout is ever extended beyond
\* MAX_CMD_TIMEOUT (command_timed_out).
THEOREM TypeCorrect == Spec => []TypeOK
<1>1. TypeInv => TypeOK
  BY DEF TypeInv
<1> QED
  BY <1>1, TypeInit, TypeStep, PTL DEF Spec

-------------------------------------------------------------------------------

\* The inductive invariant for CommandsInOrder. QueuedOnlyWithoutCredit is the
\* strengthening: without it a new command could be posted past queued ones.
OrderInv == TypeInv /\ CommandsInOrder /\ QueuedOnlyWithoutCredit

LEMMA ConcatAppend ==
  ASSUME NEW S, NEW s \in Seq(S), NEW t \in Seq(S), NEW e \in S
  PROVE  s \o Append(t, e) = Append(s \o t, e)
<1>1. <<e>> \in Seq(S) /\ s \o t \in Seq(S)
  BY ConcatProperties
<1>2. Append(t, e) = t \o <<e>> /\ Append(s \o t, e) = (s \o t) \o <<e>>
  BY <1>1, AppendIsConcat, SMTT(30)
<1> QED
  BY <1>1, <1>2, ConcatAssociative, SMTT(30)

LEMMA HeadConcatTail ==
  ASSUME NEW S, NEW s \in Seq(S), s # <<>>
  PROVE  <<Head(s)>> \o Tail(s) = s
<1>1. /\ Len(s) \in Nat \ {0}
      /\ Tail(s) \in Seq(S) /\ Head(s) \in S
      /\ Len(Tail(s)) = Len(s) - 1
      /\ \A i \in 1 .. Len(Tail(s)) : Tail(s)[i] = s[i + 1]
      /\ <<Head(s)>> \in Seq(S) /\ Len(<<Head(s)>>) = 1
      /\ Head(s) = s[1]
  BY EmptySeq, HeadTailProperties, SMTT(30)
<1> DEFINE t == <<Head(s)>> \o Tail(s)
<1>2. /\ t \in Seq(S) /\ Len(t) = 1 + (Len(s) - 1)
      /\ \A i \in 1 .. 1 + (Len(s) - 1) :
           t[i] = IF i <= 1 THEN <<Head(s)>>[i] ELSE Tail(s)[i - 1]
  BY <1>1, ConcatProperties, SMTT(30)
<1>3. Len(t) = Len(s)
  BY <1>1, <1>2, SMTT(30)
<1>4. \A i \in 1 .. Len(s) : t[i] = s[i]
  BY <1>1, <1>2, SMTT(30)
<1> QED
  BY <1>2, <1>3, <1>4, SeqEqual, SMTT(30)

LEMMA MoveHead ==
  ASSUME NEW S, NEW t \in Seq(S), NEW s \in Seq(S), s # <<>>
  PROVE  (t \o <<Head(s)>>) \o Tail(s) = t \o s
<1>1. <<Head(s)>> \in Seq(S) /\ Tail(s) \in Seq(S)
  BY HeadTailProperties
<1>2. \A u, v \in Seq(S) : (t \o u) \o v = t \o (u \o v)
  BY ConcatAssociative, SMTT(30)
<1> QED
  BY <1>1, <1>2, HeadConcatTail, SMTT(30)

LEMMA InHandType ==
  ASSUME TypeInv
  PROVE  /\ InHand \in Seq(Commands)
         /\ transmitted \o InHand \in Seq(Commands)
         /\ (transmitted \o InHand) \o tasks \in Seq(Commands)
<1>1. InHand \in Seq(Commands)
  BY DEF InHand, TypeInv, EntriesHeld
<1> QED
  BY <1>1, ConcatProperties DEF TypeInv, TypeOK, HostType, HistoryType

LEMMA OrderInit == Init => OrderInv
<1> SUFFICES ASSUME Init
             PROVE  OrderInv
  OBVIOUS
<1>1. TypeInv
  BY TypeInit
<1>2. CommandsInOrder /\ QueuedOnlyWithoutCredit
  BY ConcatEmptySeq
  DEF Init, CommandsInOrder, QueuedOnlyWithoutCredit, InHand, hci_idle
<1> QED
  BY <1>1, <1>2 DEF OrderInv

LEMMA OrderStep == OrderInv /\ [Next]_vars => OrderInv'
<1> SUFFICES ASSUME OrderInv, [Next]_vars
             PROVE  CommandsInOrder' /\ QueuedOnlyWithoutCredit'
  BY TypeStep DEF OrderInv
<1>0. /\ TypeInv /\ CommandsInOrder /\ QueuedOnlyWithoutCredit
      /\ command_queue \in Seq(Commands) /\ tasks \in Seq(Commands)
      /\ submitted \in Seq(Commands) /\ transmitted \in Seq(Commands)
      /\ command_credits \in Int
      /\ InHand \in Seq(Commands)
      /\ transmitted \o InHand \in Seq(Commands)
      /\ (transmitted \o InHand) \o tasks \in Seq(Commands)
  BY InHandType DEF OrderInv, TypeInv, TypeOK, HostType, HistoryType
<1> DEFINE sent == transmitted \o InHand
<1>1. ASSUME NEW c \in Commands, enqueue_command(c)
      PROVE  CommandsInOrder' /\ QueuedOnlyWithoutCredit'
  <2>1. /\ submitted' = Append((sent \o tasks) \o command_queue, c)
        /\ transmitted' = transmitted /\ InHand' = InHand
    BY <1>0, <1>1, SMTT(30) DEF enqueue_command, CommandsInOrder, InHand
  <2>2. CASE command_credits > 0
    <3>1. /\ command_queue = <<>> /\ command_queue' = <<>>
          /\ tasks' = Append(tasks, c)
      BY <1>0, <1>1, <2>2, SMTT(30) DEF enqueue_command, QueuedOnlyWithoutCredit
    <3>2. /\ submitted' = Append(sent \o tasks, c)
          /\ (sent \o tasks') \o command_queue' = sent \o Append(tasks, c)
      BY <1>0, <2>1, <3>1, ConcatEmptySeq, AppendProperties, ConcatProperties, SMTT(30)
    <3>3. sent \o Append(tasks, c) = Append(sent \o tasks, c)
      BY <1>0, ConcatAppend, SMTT(30)
    <3> QED
      BY <2>1, <3>1, <3>2, <3>3, SMTT(30) DEF CommandsInOrder, QueuedOnlyWithoutCredit
  <2>3. CASE command_credits <= 0
    <3>1. /\ command_queue' = Append(command_queue, c)
          /\ tasks' = tasks /\ command_credits' = command_credits
      BY <1>0, <1>1, <2>3, SMTT(30) DEF enqueue_command
    <3>2. (sent \o tasks) \o Append(command_queue, c)
            = Append((sent \o tasks) \o command_queue, c)
      BY <1>0, ConcatAppend, SMTT(30)
    <3> QED
      BY <2>1, <2>3, <3>1, <3>2 DEF CommandsInOrder, QueuedOnlyWithoutCredit
  <2> QED
    BY <1>0, <2>2, <2>3, SMTT(30)
<1>2. CASE event_command_ready
  <2>1. /\ InHand = <<>> /\ InHand' = <<Head(tasks)>>
        /\ tasks # <<>> /\ tasks' = Tail(tasks)
        /\ UNCHANGED <<transmitted, submitted, command_queue, command_credits>>
    BY <1>2, SMTT(30) DEF event_command_ready, InHand
  <2>3. (transmitted \o <<Head(tasks)>>) \o Tail(tasks) = transmitted \o tasks
    BY <1>0, <2>1, MoveHead, Zenon
  <2>4. sent = transmitted
    BY <1>0, <2>1, ConcatEmptySeq, SMTT(30)
  <2> QED
    BY <1>0, <2>1, <2>3, <2>4, Zenon DEF CommandsInOrder, QueuedOnlyWithoutCredit
<1>3. CASE transmit_fragment
  <2>1. UNCHANGED <<tasks, submitted, command_queue, command_credits>>
    BY <1>3, SMTT(30) DEF transmit_fragment, hostVars
  <2>2. CASE UNCHANGED <<transmitted, hci>>
    BY <1>0, <2>1, <2>2, SMTT(30) DEF CommandsInOrder, QueuedOnlyWithoutCredit, InHand
  <2>3. CASE /\ transmitted' = Append(transmitted, hci.entry)
             /\ hci' = [hci EXCEPT !.pc = "timer"]
    <3>1. InHand = <<hci.entry>> /\ InHand' = <<>> /\ hci.entry \in Commands
      BY <1>0, <1>3, <2>3, SMTT(30)
      DEF transmit_fragment, InHand, TypeInv, TypeOK, EntriesHeld, HciThreadType
    <3>2. transmitted' = sent /\ transmitted' \o InHand' = sent
      BY <1>0, <2>3, <3>1, AppendIsConcat, ConcatEmptySeq, SMTT(30)
    <3> QED
      BY <1>0, <2>1, <3>2, SMTT(30) DEF CommandsInOrder, QueuedOnlyWithoutCredit
  <2> QED
    BY <1>3, <2>2, <2>3, SMTT(30) DEF transmit_fragment
<1>4. CASE process_command_credits
  <2>1. PICK n \in 0 .. Len(command_queue) :
          /\ tasks' = tasks \o SubSeq(command_queue, 1, n)
          /\ command_queue' = SubSeq(command_queue, n + 1, Len(command_queue))
          /\ n = Len(command_queue) \/ command_credits' <= 0
    BY <1>0, <1>4, PostedCommands, ZenonT(30) DEF TypeInv, TypeOK
  <2>2. Len(SubSeq(command_queue, n + 1, Len(command_queue))) = Len(command_queue) - n
    BY <1>0, SplitQueue
  <2>3. (sent \o tasks') \o command_queue' = (sent \o tasks) \o command_queue
    <3>1. PICK x \in Seq(Commands), u \in Seq(Commands), v \in Seq(Commands) :
            /\ x = sent
            /\ u = SubSeq(command_queue, 1, n)
            /\ v = SubSeq(command_queue, n + 1, Len(command_queue))
      BY <1>0, SplitQueue, Zenon
    <3>2. u \o v = command_queue
      BY <1>0, <3>1, SplitQueue, Zenon
    <3>3. PICK k \in Seq(Commands) : k = tasks
      BY <1>0
    <3>4. (x \o (k \o u)) \o v = (x \o k) \o (u \o v)
      BY SMTT(60)
    <3> QED
      BY <2>1, <3>1, <3>2, <3>3, <3>4, Zenon
  <2>4. UNCHANGED <<transmitted, submitted, InHand>>
    BY <1>4, Zenon DEF process_command_credits, InHand
  <2>5. CommandsInOrder'
    BY <1>0, <2>3, <2>4, Zenon DEF CommandsInOrder
  <2>6. QueuedOnlyWithoutCredit'
    <3>1. CASE n = Len(command_queue)
      BY <1>0, <2>1, <2>2, <3>1, EmptySeq, LenProperties, SMTT(30) DEF QueuedOnlyWithoutCredit
    <3>2. CASE command_credits' <= 0
      BY <3>2 DEF QueuedOnlyWithoutCredit
    <3> QED
      BY <2>1, <3>1, <3>2
  <2> QED
    BY <2>5, <2>6, SMTT(30)
<1>5. ASSUME UNCHANGED <<command_credits, command_queue, tasks, transmitted,
                         submitted, InHand>>
      PROVE  CommandsInOrder' /\ QueuedOnlyWithoutCredit'
  BY <1>0, <1>5, SMTT(30) DEF CommandsInOrder, QueuedOnlyWithoutCredit
<1>6. CASE event_command_sent
  BY <1>5, <1>6, SMTT(30) DEF event_command_sent, hostVars, InHand, hci_idle
<1>7. CASE hci_event_received \/ filter_incoming_event \/ command_answered
  BY <1>5, <1>7, ZenonT(30)
  DEF hci_event_received, filter_incoming_event, command_answered, hostVars, InHand
<1>8. CASE AlarmThread
  BY <1>5, <1>8, SMTT(30)
  DEF AlarmThread, response_timer_expires, command_timed_out,
      request_firmware_dump, hci_timeout_abort, hostVars, InHand
<1>9. CASE Controller
  BY <1>5, <1>9, SMTT(30)
  DEF Controller, controller_answers, controller_grants, controller_notifies,
      hostVars, InHand
<1>10. CASE UNCHANGED vars
  BY <1>5, <1>10, SMTT(30) DEF vars, hostVars, InHand
<1> QED
  BY <1>1, <1>2, <1>3, <1>4, <1>6, <1>7, <1>8, <1>9, <1>10, SMTT(30)
  DEF Next, Clients, HciThread, RxThread

\* Commands reach the transport in the order enqueue_command accepted them,
\* none lost, duplicated or overtaken, whatever the controller reports.
THEOREM TransmittedInOrder == Spec => []CommandsInOrder
<1>1. Init => OrderInv
  BY OrderInit
<1>2. OrderInv => CommandsInOrder
  BY DEF OrderInv
<1> QED
  BY <1>1, <1>2, OrderStep, PTL DEF Spec

-------------------------------------------------------------------------------

\* The watch is handed over without a gap: a thread that makes the pending list
\* longer or shorter is on its way to update_command_response_timer, and an
\* expired timer is in the hands of command_timed_out. With the types of the
\* flags it is inductive as it stands.
WatchInv == TypeInv /\ PendingIsWatched

LEMMA WatchStep == WatchInv /\ [Next]_vars => WatchInv'
<1> SUFFICES ASSUME WatchInv, [Next]_vars
             PROVE  PendingIsWatched'
  BY TypeStep, Zenon DEF WatchInv
<1>0. PendingIsWatched /\ TimerType /\ process \in {"up", "killed"}
  BY Zenon DEF WatchInv, TypeInv, TypeOK, TimerType
<1>1. ASSUME UNCHANGED <<commands_pending_response, hci, response_timer,
                         abort_timer, firmware_log, alarm, process>>,
             rx.pc # "timer"
      PROVE  PendingIsWatched'
  BY <1>0, <1>1, Zenon DEF PendingIsWatched, alive
<1>2. ASSUME NEW c \in Commands, enqueue_command(c)
      PROVE  PendingIsWatched'
  BY <1>0, <1>2, Zenon DEF enqueue_command, timerVars, PendingIsWatched, alive
<1>3. CASE event_command_ready
  <2>1. hci'.pc # "idle"
    BY <1>3 DEF event_command_ready
  <2> QED
    BY <2>1, Zenon DEF PendingIsWatched
<1>4. CASE transmit_fragment
  <2>1. hci'.pc # "idle" \/ ~alive'
    BY <1>4 DEF transmit_fragment, alive, WatchInv, TypeInv, TypeOK, HciThreadType
  <2> QED
    BY <2>1, Zenon DEF PendingIsWatched
<1>5. ASSUME update_command_response_timer(commands_pending_response),
             UNCHANGED hostVars
      PROVE  PendingIsWatched'
  <2>1. \/ commands_pending_response' = <<>>
        \/ response_timer' = "set"
    BY <1>5 DEF update_command_response_timer, hostVars
  <2> QED
    BY <2>1, Zenon DEF PendingIsWatched
<1>6. CASE event_command_sent
  BY <1>5, <1>6, Zenon DEF event_command_sent
<1>7. CASE hci_event_received
  <2>1. rx.pc = "idle" /\ UNCHANGED <<commands_pending_response, hci, response_timer,
                         abort_timer, firmware_log, alarm, process>>
    BY <1>7, Zenon DEF hci_event_received, hostVars
  <2> QED
    BY <1>1, <2>1, Zenon
<1>8. CASE filter_incoming_event
  <2>1. CASE rx'.pc = "timer"
    BY <2>1, Zenon DEF PendingIsWatched
  <2>2. CASE /\ UNCHANGED commands_pending_response
             /\ firmware_log' \in {firmware_log, "open"}
    <3>1. rx.pc # "timer" /\ UNCHANGED <<hci, response_timer, abort_timer, alarm, process>>
      BY <1>8, Zenon DEF filter_incoming_event
    <3> QED
      BY <1>0, <2>2, <3>1, Zenon DEF PendingIsWatched, alive
  <2>3. ASSUME NEW x PROVE [rx EXCEPT !.pc = "timer", !.entry = x].pc = "timer"
    BY DEF WatchInv, TypeInv, TypeOK, RxThreadType
  <2> QED
    BY <1>8, <2>1, <2>2, <2>3, Zenon DEF filter_incoming_event
<1>9. CASE command_answered
  BY <1>5, <1>9, Zenon DEF command_answered
<1>10. CASE process_command_credits
  <2>1. rx.pc = "credits" /\ UNCHANGED <<commands_pending_response, hci, alarm, timerVars,
                 process>>
    BY <1>10, Zenon DEF process_command_credits
  <2> QED
    BY <1>1, <2>1, Zenon DEF timerVars
<1>11. CASE response_timer_expires
  <2>1. alarm' # "idle"
    BY <1>11 DEF response_timer_expires
  <2> QED
    BY <2>1, Zenon DEF PendingIsWatched
<1>12. CASE command_timed_out
  <2>1. \/ commands_pending_response' = <<>>
        \/ response_timer' = "set"
        \/ alarm' # "idle"
    BY <1>12 DEF command_timed_out, hostVars
  <2> QED
    BY <2>1, Zenon DEF PendingIsWatched
<1>13. CASE request_firmware_dump
  <2>1. abort_timer' = "set" \/ firmware_log' = "open" \/ ~alive'
    BY <1>13 DEF request_firmware_dump, alive
  <2> QED
    BY <2>1, Zenon DEF PendingIsWatched
<1>14. CASE hci_timeout_abort
  <2>1. ~alive'
    BY <1>14 DEF hci_timeout_abort, alive
  <2> QED
    BY <2>1, Zenon DEF PendingIsWatched
<1>15. ASSUME UNCHANGED <<hostVars, hci, rx, alarm, timerVars, process>>
      PROVE  PendingIsWatched'
  BY <1>0, <1>15, Zenon DEF hostVars, timerVars, PendingIsWatched, alive
<1>16. CASE Controller
  BY <1>15, <1>16, Zenon
  DEF Controller, controller_answers, controller_grants, controller_notifies
<1>17. CASE UNCHANGED vars
  BY <1>15, <1>17, Zenon DEF vars
<1> QED
  BY <1>2, <1>3, <1>4, <1>6, <1>7, <1>8, <1>9, <1>10, <1>11, <1>12, <1>13, <1>14,
     <1>16, <1>17, Zenon DEF Next, Clients, HciThread, RxThread, AlarmThread

\* No command is ever left pending with nothing to time it out, however the
\* timer's expiry, the answers and new commands interleave: command_timed_out,
\* update_command_response_timer and the abort timer leave no gap.
THEOREM PendingAlwaysWatched == Spec => []PendingIsWatched
<1>1. Init => WatchInv
  <2>1. Init => PendingIsWatched
    BY DEF Init, PendingIsWatched
  <2> QED
    BY <2>1, TypeInit, Zenon DEF WatchInv
<1>2. WatchInv => PendingIsWatched
  BY Zenon DEF WatchInv
<1> QED
  BY <1>1, <1>2, WatchStep, PTL DEF Spec

-------------------------------------------------------------------------------
(* Sequences without repetition, and how many of their elements carry an
   opcode *)

LEMMA AppendElements ==
  ASSUME NEW S, NEW s \in Seq(S), NEW e \in S
  PROVE  /\ Range(Append(s, e)) = Range(s) \cup {e}
         /\ IsInjective(s) /\ e \notin Range(s) => IsInjective(Append(s, e))
<1>1. PICK t \in Seq(S) : t = Append(s, e)
  BY AppendProperties, Zenon
<1>2. /\ Len(s) \in Nat /\ DOMAIN s = 1 .. Len(s)
      /\ Len(t) = Len(s) + 1 /\ DOMAIN t = 1 .. Len(s) + 1
      /\ \A i \in 1 .. Len(s) : t[i] = s[i]
      /\ t[Len(s) + 1] = e
  BY <1>1, AppendProperties, LenProperties, SMTT(30)
<1>3. Range(t) = Range(s) \cup {e}
  BY <1>2, SMTT(30) DEF Range
<1>4. IsInjective(s) /\ e \notin Range(s) => IsInjective(t)
  BY <1>2, SMTT(30) DEF Range, IsInjective
<1> QED
  BY <1>1, <1>3, <1>4, Zenon

\* Taking one of distinct elements out leaves the others, the last one last.
LEMMA RemovedFromDistinct ==
  ASSUME NEW S, NEW s \in Seq(S), IsInjective(s), NEW i \in 1 .. Len(s)
  PROVE  /\ Range(list_remove(s, i)) = Range(s) \ {s[i]}
         /\ IsInjective(list_remove(s, i))
         /\ i # Len(s) => /\ list_remove(s, i) # <<>>
                          /\ list_remove(s, i)[Len(list_remove(s, i))] = s[Len(s)]
<1>1. PICK r : r = list_remove(s, i)
  BY Zenon
<1>2. r \in Seq(S) /\ Len(r) = Len(s) - 1
  BY <1>1, ListRemoveProperties, Zenon
<1>3. Len(s) \in Nat /\ DOMAIN s = 1 .. Len(s) /\ DOMAIN r = 1 .. Len(s) - 1
  BY <1>2, LenProperties, SMTT(30)
<1>4. PICK a, b : a = SubSeq(s, 1, i - 1) /\ b = SubSeq(s, i + 1, Len(s))
  BY Zenon
<1>5. /\ a \in Seq(S) /\ Len(a) = i - 1 /\ \A j \in 1 .. i - 1 : a[j] = s[j]
      /\ b \in Seq(S) /\ Len(b) = Len(s) - i
      /\ \A j \in 1 .. Len(s) - i : b[j] = s[i + j]
  <2>1. \A j \in 1 .. Len(s) : s[j] \in S
    BY ElementOfSeq, Zenon
  <2>2. i \in Nat /\ i >= 1 /\ i <= Len(s)
    BY <1>3
  <2>3. a \in Seq(S) /\ Len(a) = i - 1 /\ \A j \in 1 .. i - 1 : a[j] = s[j]
    <3>1. \A j \in 1 .. i - 1 : s[j] \in S
      BY <1>3, <2>1, <2>2, SMTT(30)
    <3>2. /\ a \in Seq(S) /\ Len(a) = IF 1 <= i - 1 THEN (i - 1) - 1 + 1 ELSE 0
          /\ \A j \in 1 .. (i - 1) - 1 + 1 : a[j] = s[1 + j - 1]
      BY <1>4, <2>2, <3>1, SubSeqProperties, SMTT(30)
    <3> QED
      BY <2>2, <3>2, SMTT(30)
  <2>4. /\ b \in Seq(S) /\ Len(b) = Len(s) - i
        /\ \A j \in 1 .. Len(s) - i : b[j] = s[i + j]
    <3>1. \A j \in i + 1 .. Len(s) : s[j] \in S
      BY <1>3, <2>1, <2>2, SMTT(30)
    <3>2. /\ b \in Seq(S) /\ Len(b) = IF i + 1 <= Len(s) THEN Len(s) - (i + 1) + 1 ELSE 0
          /\ \A j \in 1 .. Len(s) - (i + 1) + 1 : b[j] = s[(i + 1) + j - 1]
      BY <1>3, <1>4, <2>2, <3>1, SubSeqProperties, SMTT(30)
    <3>3. \A j \in 1 .. Len(s) - i : (i + 1) + j - 1 = i + j
      BY <1>3, <2>2, SMTT(30)
    <3>4. Len(s) - (i + 1) + 1 = Len(s) - i
      BY <1>3, <2>2, SMTT(30)
    <3>5. Len(b) = Len(s) - i
      <4>1. PICK n : n = Len(s)
        BY Zenon
      <4>2. n \in Nat /\ i <= n /\ Len(b) = IF i + 1 <= n THEN n - (i + 1) + 1 ELSE 0
        BY <1>3, <2>2, <3>2, <4>1, Zenon
      <4>3. Len(b) = n - i
        BY <2>2, <4>2
      <4> QED
        BY <4>1, <4>3, Zenon
    <3> QED
      BY <3>2, <3>3, <3>4, <3>5, Zenon
  <2> QED
    BY <2>3, <2>4, Zenon
<1>6. r = a \o b
  BY <1>1, <1>4, Zenon DEF list_remove
<1>7. \A j \in 1 .. Len(s) - 1 : r[j] = IF j < i THEN s[j] ELSE s[j + 1]
  <2>1. \A j \in 1 .. Len(a) + Len(b) :
          (a \o b)[j] = IF j <= Len(a) THEN a[j] ELSE b[j - Len(a)]
    BY <1>5, ConcatProperties, Zenon
  <2>2. Len(a) + Len(b) = Len(s) - 1
    BY <1>3, <1>5, SMTT(30)
  <2> SUFFICES ASSUME NEW j \in 1 .. Len(s) - 1
               PROVE  r[j] = IF j < i THEN s[j] ELSE s[j + 1]
    OBVIOUS
  <2>3. r[j] = IF j <= Len(a) THEN a[j] ELSE b[j - Len(a)]
    BY <1>6, <2>1, <2>2, Zenon
  <2>4. j \in Int /\ i \in Int /\ (j < i <=> j <= Len(a)) /\ j - Len(a) = (j - i) + 1
    BY <1>3, <1>5, SMTT(30)
  <2>5. CASE j < i
    <3>1. j \in 1 .. i - 1
      BY <2>5, <1>3, SMTT(30)
    <3> QED
      BY <1>5, <2>3, <2>4, <2>5, <3>1, Zenon
  <2>6. CASE ~(j < i)
    <3>1. PICK k : k = (j - i) + 1
      BY Zenon
    <3>2. k \in 1 .. Len(s) - i /\ i + k = j + 1
      BY <1>3, <2>4, <2>6, <3>1, SMTT(30)
    <3>3. b[k] = s[i + k]
      BY <1>5, <3>2, Zenon
    <3> QED
      BY <2>3, <2>4, <2>6, <3>1, <3>2, <3>3, Zenon
  <2> QED
    BY <2>5, <2>6, Zenon
<1>8. Range(r) = Range(s) \ {s[i]}
  <2>1. ASSUME NEW j \in 1 .. Len(s) - 1
        PROVE  r[j] \in Range(s) \ {s[i]}
    BY <1>3, <1>7, SMTT(30) DEF Range, IsInjective
  <2>2. ASSUME NEW k \in 1 .. Len(s), k # i
        PROVE  s[k] \in Range(r)
    <3>1. CASE k < i
      BY <1>3, <1>7, <3>1, SMTT(30) DEF Range
    <3>2. CASE k > i
      <4>1. k - 1 \in 1 .. Len(s) - 1 /\ r[k - 1] = s[k]
        BY <1>3, <1>7, <3>2, SMTT(30)
      <4> QED
        BY <1>3, <4>1, Zenon DEF Range
    <3> QED
      BY <2>2, <3>1, <3>2, <1>3, SMTT(30)
  <2>3. Range(r) \subseteq Range(s) \ {s[i]}
    BY <1>3, <2>1, Zenon DEF Range
  <2>4. Range(s) \ {s[i]} \subseteq Range(r)
    BY <1>3, <2>2, Zenon DEF Range
  <2> QED
    BY <2>3, <2>4, Zenon
<1>9. IsInjective(r)
  BY <1>3, <1>7, SMTT(30) DEF IsInjective
<1>10. i # Len(s) => r # <<>> /\ r[Len(r)] = s[Len(s)]
  BY <1>2, <1>3, <1>7, SMTT(30)
<1> QED
  BY <1>1, <1>8, <1>9, <1>10, Zenon

LEMMA DistinctParts ==
  ASSUME NEW S, NEW s \in Seq(S), NEW t \in Seq(S), IsInjective(s \o t)
  PROVE  IsInjective(s) /\ Range(s) \cap Range(t) = {}
<1>1. PICK u \in Seq(S) : u = s \o t
  BY ConcatProperties, Zenon
<1>2. /\ Len(s) \in Nat /\ DOMAIN s = 1 .. Len(s)
      /\ Len(t) \in Nat /\ DOMAIN t = 1 .. Len(t)
      /\ DOMAIN u = 1 .. Len(s) + Len(t)
      /\ \A i \in 1 .. Len(s) + Len(t) : u[i] = IF i <= Len(s) THEN s[i] ELSE t[i - Len(s)]
  BY <1>1, ConcatProperties, LenProperties, SMTT(30)
<1>3. \A i \in 1 .. Len(s) : i \in DOMAIN u /\ u[i] = s[i]
  BY <1>2, SMTT(30)
<1>4. \A j \in 1 .. Len(t) : /\ Len(s) + j \in DOMAIN u /\ u[Len(s) + j] = t[j]
                             /\ \A i \in 1 .. Len(s) : i # Len(s) + j
  BY <1>2, SMTT(30)
<1>5. IsInjective(u)
  BY <1>1, Zenon
<1>6. IsInjective(s)
  BY <1>2, <1>3, <1>5, Zenon DEF IsInjective
<1>7. \A i \in 1 .. Len(s), j \in 1 .. Len(t) : s[i] # t[j]
  BY <1>3, <1>4, <1>5, Zenon DEF IsInjective
<1> QED
  BY <1>2, <1>6, <1>7, Zenon DEF Range

LEMMA RangeIsFinite ==
  ASSUME NEW S, NEW s \in Seq(S)
  PROVE  IsFiniteSet(Range(s))
<1>1. Len(s) \in Nat /\ DOMAIN s = 1 .. Len(s) /\ s \in [1 .. Len(s) -> S]
  BY LenProperties
<1>2. IsFiniteSet(1 .. Len(s))
  BY <1>1, FS_Interval, SMTT(30)
<1>3. s \in [1 .. Len(s) -> Range(s)]
  BY <1>1, SMTT(30) DEF Range
<1>4. s \in Surjection(1 .. Len(s), Range(s))
  BY <1>1, <1>3, SMTT(30) DEF Surjection, Range
<1> QED
  BY <1>2, <1>4, FS_Surjection, Zenon

\* The positions of the events with this opcode.
Positions(s, o) == {i \in 1 .. Len(s) : s[i].opcode = o}

LEMMA PositionsOfAppend ==
  ASSUME NEW s \in Seq(Event), NEW e \in Event, NEW o
  PROVE  /\ IsFiniteSet(Positions(s, o)) /\ Cardinality(Positions(s, o)) \in Nat
         /\ e.opcode = o =>
              Cardinality(Positions(Append(s, e), o)) = Cardinality(Positions(s, o)) + 1
         /\ e.opcode # o => Positions(Append(s, e), o) = Positions(s, o)
<1>1. /\ Len(s) \in Nat /\ Len(Append(s, e)) = Len(s) + 1
      /\ \A i \in 1 .. Len(s) : Append(s, e)[i] = s[i]
      /\ Append(s, e)[Len(s) + 1] = e
  BY AppendProperties, LenProperties, SMTT(30)
<1>2. IsFiniteSet(Positions(s, o)) /\ Cardinality(Positions(s, o)) \in Nat
  <2>1. IsFiniteSet(1 .. Len(s))
    BY <1>1, FS_Interval, SMTT(30)
  <2>2. Positions(s, o) \in SUBSET (1 .. Len(s))
    BY Zenon DEF Positions
  <2>3. IsFiniteSet(Positions(s, o))
    BY <2>1, <2>2, FS_Subset, Zenon
  <2> QED
    BY <2>3, FS_CardinalityType, Zenon
<1>3. PICK t : t = Append(s, e)
  BY Zenon
<1>4. CASE e.opcode = o
  <2>1. /\ Positions(t, o) = Positions(s, o) \cup {Len(s) + 1}
        /\ Len(s) + 1 \notin Positions(s, o)
    BY <1>1, <1>3, <1>4, SMTT(30) DEF Positions
  <2>2. Cardinality(Positions(s, o) \cup {Len(s) + 1}) = Cardinality(Positions(s, o)) + 1
    BY <1>2, <2>1, FS_AddElement, Zenon
  <2> QED
    BY <1>2, <1>3, <1>4, <2>1, <2>2, Zenon
<1>5. CASE e.opcode # o
  <2>1. Positions(t, o) = Positions(s, o)
    BY <1>1, <1>3, <1>5, SMTT(30) DEF Positions
  <2> QED
    BY <1>2, <1>3, <1>5, <2>1, Zenon
<1> QED
  BY <1>4, <1>5, Zenon

LEMMA PositionsOfTail ==
  ASSUME NEW s \in Seq(Event), s # <<>>, NEW o
  PROVE  /\ Head(s).opcode = o =>
              Cardinality(Positions(s, o)) = Cardinality(Positions(Tail(s), o)) + 1
         /\ Head(s).opcode # o =>
              Cardinality(Positions(s, o)) = Cardinality(Positions(Tail(s), o))
<1>1. PICK t \in Seq(Event) : t = Tail(s)
  BY HeadTailProperties, Zenon
<1>2. /\ Len(s) \in Nat /\ Len(s) >= 1 /\ Len(t) = Len(s) - 1 /\ Head(s) = s[1]
      /\ \A i \in 1 .. Len(s) - 1 : t[i] = s[i + 1]
  BY <1>1, EmptySeq, LenProperties, HeadTailProperties, SMTT(30)
<1> DEFINE P == Positions(t, o)
           Q == Positions(s, o) \ {1}
           f == [i \in P |-> i + 1]
<1>3. IsFiniteSet(P) /\ IsFiniteSet(Positions(s, o))
  <2>1. PICK e : e \in Event
    BY <1>2, SMTT(30)
  <2> QED
    BY <2>1, PositionsOfAppend, Zenon
<1>4. f \in Bijection(P, Q)
  <2>1. \A i \in P : i + 1 \in Q /\ i \in Int
    BY <1>2, SMTT(30) DEF Positions
  <2>2. f \in [P -> Q]
    BY <2>1, Zenon
  <2>3. \A k \in Q : k - 1 \in P /\ (k - 1) + 1 = k
    BY <1>2, SMTT(30) DEF Positions
  <2>4. \A k \in Q : \E i \in P : f[i] = k
    <3> SUFFICES ASSUME NEW k \in Q
                 PROVE  \E i \in P : f[i] = k
      OBVIOUS
    <3>1. PICK i : i = k - 1
      BY Zenon
    <3>2. i \in P /\ i + 1 = k
      BY <2>3, <3>1, Zenon
    <3>3. f[i] = k
      BY <3>2, Zenon
    <3> QED
      BY <3>2, <3>3, Zenon
  <2>5. \A i, j \in P : f[i] = f[j] => i = j
    BY <2>1, SMTT(30)
  <2> QED
    BY <2>2, <2>4, <2>5, Zenon DEF Bijection, Injection, Surjection, IsInjective
<1>5. Cardinality(Q) = Cardinality(P)
  BY <1>3, <1>4, FS_Bijection, Zenon DEF ExistsBijection
<1>6. /\ Head(s).opcode = o => 1 \in Positions(s, o)
      /\ Head(s).opcode # o => 1 \notin Positions(s, o)
  BY <1>2, SMTT(30) DEF Positions
<1>7. Cardinality(Positions(s, o)) \in Nat
  BY <1>3, FS_CardinalityType, Zenon
<1>8. Cardinality(Q) = IF 1 \in Positions(s, o) THEN Cardinality(Positions(s, o)) - 1
                       ELSE Cardinality(Positions(s, o))
  BY <1>3, FS_RemoveElement, Zenon
<1>9. PICK m, n : m = Cardinality(P) /\ n = Cardinality(Positions(s, o))
  BY Zenon
<1>10. /\ Head(s).opcode = o => n = m + 1
       /\ Head(s).opcode # o => n = m
  BY <1>5, <1>6, <1>7, <1>8, <1>9, SMTT(30)
<1> QED
  BY <1>1, <1>9, <1>10, Zenon

-------------------------------------------------------------------------------

\* get_waiting_command looks for the least index of a set of indexes; there is
\* one.
LEMMA LeastIndex ==
  ASSUME NEW X \in SUBSET Nat, X # {}
  PROVE  \E i \in X : \A j \in X : i <= j
<1>1. \E i \in X : \A j \in X : ~(<<j, i>> \in OpToRel(<, Nat))
  BY NatLessThanWellFounded, WFMin, Zenon
<1>2. PICK i \in X : \A j \in X : ~(<<j, i>> \in OpToRel(<, Nat))
  BY <1>1, Zenon
<1>3. \A j \in X : ~(j < i)
  <2>1. \A j \in X : /\ <<j, i>> \in Nat \X Nat
                     /\ <<j, i>>[1] = j /\ <<j, i>>[2] = i
    BY SMTT(30)
  <2> QED
    BY <1>2, <2>1, Zenon DEF OpToRel
<1> QED
  BY <1>3, SMTT(30)

\* The opcodes that only an answer to such a command carries.
Answerable == {OpcodeOf[c] : c \in Commands} \ VendorOpcodes

\* For those opcodes get_waiting_command finds the first command that carries it,
\* and for other opcodes it does not disturb them.
LEMMA WaitingCommandMatches ==
  ASSUME NEW s \in Seq(Commands), NEW opcode,
         NEW i \in get_waiting_command(s, opcode), NEW o \in Answerable
  PROVE  /\ i \in 1 .. Len(s)
         /\ opcode # o => OpcodeOf[s[i]] # o
         /\ opcode = o => /\ OpcodeOf[s[i]] = o
                          /\ \A j \in 1 .. Len(s) : OpcodeOf[s[j]] = o => i <= j
<1> DEFINE exact == {j \in DOMAIN s : OpcodeOf[s[j]] = opcode}
           vendor == {j \in DOMAIN s : OpcodeOf[s[j]] \in VendorOpcodes}
           found == IF exact # {} THEN exact
                    ELSE IF opcode \in VendorOpcodes \cup {HCI_COMMAND_NONE} THEN vendor
                    ELSE {}
<1>1. DOMAIN s = 1 .. Len(s)
  BY LenProperties
<1>2. i \in found /\ \A j \in found : i <= j
  BY Zenon DEF get_waiting_command
<1>3. o \notin VendorOpcodes /\ o # HCI_COMMAND_NONE
  BY CommandAssumption, Zenon DEF Answerable
<1>4. i \in 1 .. Len(s)
  BY <1>1, WaitingCommandIsPending, Zenon
<1>5. ASSUME opcode # o PROVE OpcodeOf[s[i]] # o
  BY <1>2, <1>3, <1>5, Zenon
<1>6. ASSUME opcode = o
      PROVE  /\ OpcodeOf[s[i]] = o
             /\ \A j \in 1 .. Len(s) : OpcodeOf[s[j]] = o => i <= j
  <2>1. found = exact
    <3>1. opcode \notin VendorOpcodes \cup {HCI_COMMAND_NONE}
      BY <1>3, <1>6, Zenon
    <3> QED
      BY <3>1, Zenon
  <2> QED
    BY <1>1, <1>2, <1>6, <2>1, Zenon
<1> QED
  BY <1>4, <1>5, <1>6, Zenon

LEMMA WaitingCommandFound ==
  ASSUME NEW s \in Seq(Commands), NEW j \in 1 .. Len(s)
  PROVE  get_waiting_command(s, OpcodeOf[s[j]]) # {}
<1>1. Len(s) \in Nat /\ DOMAIN s = 1 .. Len(s)
  BY LenProperties
<1>2. PICK exact : exact = {k \in DOMAIN s : OpcodeOf[s[k]] = OpcodeOf[s[j]]}
  BY Zenon
<1>3. exact \in SUBSET Nat /\ exact # {}
  BY <1>1, <1>2, SMTT(30)
<1>4. PICK i \in exact : \A k \in exact : i <= k
  BY <1>3, LeastIndex, Zenon
<1>5. PICK o : o = OpcodeOf[s[j]]
  BY Zenon
<1>6. exact = {k \in DOMAIN s : OpcodeOf[s[k]] = o}
  BY <1>2, <1>5, Zenon
<1>7. get_waiting_command(s, o) = {k \in exact : \A m \in exact : k <= m}
  BY <1>3, <1>6, SMTT(30) DEF get_waiting_command
<1>8. i \in get_waiting_command(s, o)
  BY <1>4, <1>7, Zenon
<1> QED
  BY <1>5, <1>8, Zenon

-------------------------------------------------------------------------------
(* The inductive invariant for AnswersAccounted *)

Held(o) == {c \in inbox : OpcodeOf[c] = o}
Awaiting(o) == {c \in Range(commands_pending_response) : OpcodeOf[c] = o}
Filtered(o) == IF rx.pc = "filter" /\ rx.event.opcode = o THEN 1 ELSE 0
Sending(o) == IF hci.pc = "send" /\ OpcodeOf[hci.entry] = o THEN 1 ELSE 0

\* Why an answer never takes the entry hci_thread is about to transmit: for each
\* opcode that only answers carry there are exactly as many pending commands as
\* commands the controller holds, answers on their way, an answer in the hands
\* of rx and a command not yet sent.
Fit(o) ==
  Cardinality(Held(o)) + Cardinality(Positions(events, o)) + Filtered(o) + Sending(o)
    = Cardinality(Awaiting(o))

\* The entry in hand is the last one on the list, since only hci_thread appends.
LastInHand ==
  hci.pc = "send" /\ OpcodeOf[hci.entry] \notin VendorOpcodes =>
    /\ commands_pending_response # <<>>
    /\ commands_pending_response[Len(commands_pending_response)] = hci.entry

\* An event that carries a command's opcode answers it.
AnswersNamed ==
  \A e \in Range(events) \cup {rx.event} :
    e.opcode # HCI_COMMAND_NONE => e.type \in {"complete", "status"}

InboxSent == inbox \subseteq Range(transmitted) /\ IsFiniteSet(inbox)

Hand == IF hci.pc = "send" THEN {hci.entry} ELSE {}

\* AnswersAccounted in terms of sets, but for the entry in hand.
Accounted ==
  LET pending == Range(commands_pending_response)
  IN /\ IsInjective(commands_pending_response)
     /\ pending \cup Matched \cup Resolved = Range(transmitted) \cup Hand
     /\ pending \cap Matched = {}
     /\ (pending \cup Matched) \cap Resolved = {}

AnswerInv ==
  /\ OrderInv
  /\ IsInjective(submitted)
  /\ Accounted
  /\ LastInHand
  /\ AnswersNamed
  /\ InboxSent
  /\ \A o \in Answerable : Fit(o)

LEMMA HandIsInHand ==
  ASSUME TypeInv
  PROVE  /\ Range(transmitted \o InHand) = Range(transmitted) \cup Hand
         /\ Range(InHand) = Hand
<1>1. /\ transmitted \in Seq(Commands) /\ InHand \in Seq(Commands)
  BY InHandType DEF TypeInv, TypeOK, HistoryType
<1>2. Range(InHand) = Hand
  <2>1. CASE hci.pc = "send"
    <3>1. PICK e : e = hci.entry
      BY Zenon
    <3>2. Range(<<e>>) = {e}
      BY SMTT(30) DEF Range
    <3> QED
      BY <2>1, <3>1, <3>2, Zenon DEF InHand, Hand
  <2>2. CASE hci.pc # "send"
    <3>1. Range(<<>>) = {}
      BY SMTT(30) DEF Range
    <3> QED
      BY <2>2, <3>1, Zenon DEF InHand, Hand
  <2> QED
    BY <2>1, <2>2, Zenon
<1>3. Range(transmitted \o InHand) = Range(transmitted) \cup Range(InHand)
  BY <1>1, RangeConcatenation, ZenonT(30)
<1> QED
  BY <1>2, <1>3, Zenon

LEMMA AnswerInvSuffices ==
  ASSUME AnswerInv
  PROVE  AnswersAccounted
<1>1. TypeInv /\ commands_pending_response \in Seq(Commands)
  BY Zenon DEF AnswerInv, OrderInv, TypeInv, TypeOK, HostType
<1>2. Range(transmitted \o InHand) = Range(transmitted) \cup Hand
  BY <1>1, HandIsInHand, Zenon
<1>3. ASSUME hci.pc = "send", OpcodeOf[hci.entry] \notin VendorOpcodes
      PROVE  hci.entry \in Range(commands_pending_response)
  <2>1. PICK n : n = Len(commands_pending_response)
    BY Zenon
  <2>2. n \in DOMAIN commands_pending_response
    BY <1>1, <1>3, <2>1, EmptySeq, LenProperties, SMTT(30) DEF AnswerInv, LastInHand
  <2>3. commands_pending_response[n] = hci.entry
    BY <1>3, <2>1, Zenon DEF AnswerInv, LastInHand
  <2> QED
    BY <2>2, <2>3, Zenon DEF Range
<1> QED
  BY <1>2, <1>3, Zenon DEF AnswerInv, Accounted, AnswersAccounted

\* submitted has no repetition, and it is made of the four parts CommandsInOrder
\* names: what is in one of them is in no other.
LEMMA FreshCommands ==
  ASSUME AnswerInv
  PROVE  /\ hci.pc = "send" => hci.entry \notin Range(transmitted)
         /\ tasks # <<>> => /\ Head(tasks) \in Commands
                            /\ Head(tasks) \notin Range(transmitted) \cup Hand
<1>1. /\ TypeInv /\ CommandsInOrder /\ IsInjective(submitted)
      /\ transmitted \in Seq(Commands) /\ tasks \in Seq(Commands)
      /\ command_queue \in Seq(Commands)
  BY Zenon DEF AnswerInv, OrderInv, TypeInv, TypeOK, HostType, HistoryType
<1>2. /\ InHand \in Seq(Commands) /\ transmitted \o InHand \in Seq(Commands)
      /\ (transmitted \o InHand) \o tasks \in Seq(Commands)
  BY <1>1, InHandType, Zenon
<1>3. IsInjective(((transmitted \o InHand) \o tasks) \o command_queue)
  BY <1>1, Zenon DEF CommandsInOrder
<1>4. IsInjective((transmitted \o InHand) \o tasks)
  BY <1>1, <1>2, <1>3, DistinctParts, Zenon
<1>5. /\ IsInjective(transmitted \o InHand)
      /\ Range(transmitted \o InHand) \cap Range(tasks) = {}
  BY <1>1, <1>2, <1>4, DistinctParts, Zenon
<1>6. Range(transmitted) \cap Range(InHand) = {}
  BY <1>1, <1>2, <1>5, DistinctParts, Zenon
<1>7. /\ Range(transmitted \o InHand) = Range(transmitted) \cup Hand
      /\ Range(InHand) = Hand
  BY <1>1, HandIsInHand, Zenon
<1>8. tasks # <<>> => Head(tasks) \in Range(tasks) /\ Head(tasks) \in Commands
  BY <1>1, SMTT(30) DEF Range
<1> QED
  BY <1>5, <1>6, <1>7, <1>8, Zenon DEF Hand

\* What counts for Fit is finite.
LEMMA FitFinite ==
  ASSUME AnswerInv, NEW o
  PROVE  /\ IsFiniteSet(Held(o)) /\ Cardinality(Held(o)) \in Nat
         /\ IsFiniteSet(Awaiting(o)) /\ Cardinality(Awaiting(o)) \in Nat
         /\ Cardinality(Positions(events, o)) \in Nat
         /\ Filtered(o) \in {0, 1} /\ Sending(o) \in {0, 1}
<1>1. /\ commands_pending_response \in Seq(Commands) /\ IsFiniteSet(inbox)
      /\ events \in Seq(Event) /\ rx.event \in Event
  BY DEF AnswerInv, OrderInv, TypeInv, TypeOK, HostType, InboxSent, ControllerType, RxThreadType
<1>2. IsFiniteSet(Range(commands_pending_response))
  BY <1>1, RangeIsFinite, Zenon
<1>3. /\ Held(o) \in SUBSET inbox
      /\ Awaiting(o) \in SUBSET Range(commands_pending_response)
  BY Zenon DEF Held, Awaiting
<1>4. IsFiniteSet(Held(o)) /\ IsFiniteSet(Awaiting(o))
  BY <1>1, <1>2, <1>3, FS_Subset, Zenon
<1>5. Cardinality(Held(o)) \in Nat /\ Cardinality(Awaiting(o)) \in Nat
  BY <1>4, FS_CardinalityType, Zenon
<1>6. Cardinality(Positions(events, o)) \in Nat
  BY <1>1, PositionsOfAppend, Zenon
<1>7. Filtered(o) \in {0, 1} /\ Sending(o) \in {0, 1}
  BY Zenon DEF Filtered, Sending
<1> QED
  BY <1>4, <1>5, <1>6, <1>7, Zenon

-------------------------------------------------------------------------------
(* What get_waiting_command finds, given AnswerInv *)

LEMMA AnswerFindsCommand ==
  ASSUME AnswerInv, rx.pc = "filter", rx.event.opcode \in Answerable
  PROVE  get_waiting_command(commands_pending_response, rx.event.opcode) # {}
<1>1. PICK o \in Answerable : o = rx.event.opcode
  BY Zenon
<1>2. Fit(o) /\ Filtered(o) = 1
  BY <1>1, Zenon DEF AnswerInv, Filtered
<1>3. PICK h, p, s, w : /\ h = Cardinality(Held(o)) /\ p = Cardinality(Positions(events, o))
                        /\ s = Sending(o) /\ w = Cardinality(Awaiting(o))
  BY Zenon
<1>4. h \in Nat /\ p \in Nat /\ s \in {0, 1} /\ w \in Nat
  BY <1>3, FitFinite, Zenon
<1>5. h + p + 1 + s = w
  BY <1>2, <1>3, Zenon DEF Fit
<1>6. w # 0
  BY <1>4, <1>5
<1>7. Awaiting(o) # {}
  BY <1>3, <1>6, FS_EmptySet, Zenon
<1>8. PICK j \in DOMAIN commands_pending_response : OpcodeOf[commands_pending_response[j]] = o
  BY <1>7, Zenon DEF Awaiting, Range
<1>9. commands_pending_response \in Seq(Commands)
  BY Zenon DEF AnswerInv, OrderInv, TypeInv, TypeOK, HostType
<1>10. j \in 1 .. Len(commands_pending_response)
  BY <1>9, LenProperties, Zenon
<1> QED
  BY <1>1, <1>8, <1>9, <1>10, WaitingCommandFound, Zenon

LEMMA EntryInHandStays ==
  ASSUME AnswerInv, rx.pc = "filter",
         NEW i \in get_waiting_command(commands_pending_response, rx.event.opcode),
         hci.pc = "send", OpcodeOf[hci.entry] \notin VendorOpcodes
  PROVE  i # Len(commands_pending_response)
<1> SUFFICES ASSUME i = Len(commands_pending_response)
             PROVE  FALSE
  OBVIOUS
<1>1. /\ commands_pending_response \in Seq(Commands) /\ hci.entry \in Commands
      /\ commands_pending_response[i] = hci.entry
  BY Zenon DEF AnswerInv, OrderInv, TypeInv, TypeOK, HostType, EntriesHeld, LastInHand
<1>2. PICK o \in Answerable : o = OpcodeOf[hci.entry]
  BY <1>1, Zenon DEF Answerable
<1>3. /\ rx.event.opcode = o
      /\ \A j \in 1 .. Len(commands_pending_response) :
           OpcodeOf[commands_pending_response[j]] = o => i <= j
  <2>1. PICK s, opcode : s = commands_pending_response /\ opcode = rx.event.opcode
    BY Zenon
  <2>2. s \in Seq(Commands) /\ i \in get_waiting_command(s, opcode) /\ OpcodeOf[s[i]] = o
    BY <1>1, <1>2, <2>1, Zenon
  <2>3. opcode = o /\ \A j \in 1 .. Len(s) : OpcodeOf[s[j]] = o => i <= j
    BY <2>2, WaitingCommandMatches, SMTT(30)
  <2> QED
    BY <2>1, <2>3, Zenon
<1>4. Fit(o) /\ Filtered(o) = 1 /\ Sending(o) = 1
  BY <1>2, <1>3, Zenon DEF AnswerInv, Filtered, Sending
<1>5. PICK h, p, w : /\ h = Cardinality(Held(o)) /\ p = Cardinality(Positions(events, o))
                     /\ w = Cardinality(Awaiting(o))
  BY Zenon
<1>6. h \in Nat /\ p \in Nat /\ w \in Nat /\ IsFiniteSet(Awaiting(o))
  BY <1>5, FitFinite, Zenon
<1>7. h + p + 1 + 1 = w
  BY <1>4, <1>5, Zenon DEF Fit
<1>8. Cardinality(Awaiting(o) \ {hci.entry}) \in {w, w - 1}
  BY <1>5, <1>6, FS_RemoveElement, Zenon
<1>9. w # 0 /\ w - 1 # 0
  BY <1>6, <1>7
<1>10. Awaiting(o) \ {hci.entry} # {}
  BY <1>8, <1>9, FS_EmptySet, Zenon
<1>11. PICK y \in Awaiting(o) : y # hci.entry
  BY <1>10, Zenon
<1>12. PICK j \in DOMAIN commands_pending_response :
         y = commands_pending_response[j] /\ OpcodeOf[commands_pending_response[j]] = o
  BY <1>11, Zenon DEF Awaiting, Range
<1>13. j \in 1 .. Len(commands_pending_response)
  BY <1>1, LenProperties, Zenon
<1>14. i <= j
  BY <1>3, <1>12, <1>13, Zenon
<1>15. j = i
  BY <1>1, <1>13, <1>14, LenProperties, SMTT(30)
<1> QED
  BY <1>1, <1>11, <1>12, <1>15, Zenon

\* What filter_incoming_event does with an answer, with the pending list as a set.
LEMMA FilterEffect ==
  ASSUME AnswerInv, filter_incoming_event
  PROVE  \/ /\ UNCHANGED commands_pending_response
            /\ rx'.pc \in {"idle", "credits"}
            /\ rx.event.opcode \notin Answerable
         \/ \E i \in 1 .. Len(commands_pending_response) :
              /\ i \in get_waiting_command(commands_pending_response, rx.event.opcode)
              /\ commands_pending_response' = list_remove(commands_pending_response, i)
              /\ rx'.pc = "timer" /\ rx'.entry = commands_pending_response[i]
<1>1. /\ commands_pending_response \in Seq(Commands) /\ RxThreadType
      /\ rx.pc = "filter" /\ AnswersNamed
  BY Zenon DEF AnswerInv, OrderInv, TypeInv, TypeOK, HostType, filter_incoming_event
<1>2. PICK found : found = get_waiting_command(commands_pending_response, rx.event.opcode)
  BY Zenon
<1>3. /\ [rx EXCEPT !.pc = "credits"].pc = "credits"
      /\ \A x : /\ [rx EXCEPT !.pc = "timer", !.entry = x].pc = "timer"
                /\ [rx EXCEPT !.pc = "timer", !.entry = x].entry = x
      /\ rx_idle.pc = "idle"
  BY <1>1, SMTT(30) DEF RxThreadType, rx_idle
<1>4. CASE /\ found = {} /\ rx' = [rx EXCEPT !.pc = "credits"]
           /\ UNCHANGED commands_pending_response
  BY <1>1, <1>2, <1>3, <1>4, AnswerFindsCommand, Zenon
<1>5. CASE \E i \in found :
             /\ rx' = [rx EXCEPT !.pc = "timer", !.entry = commands_pending_response[i]]
             /\ commands_pending_response' = list_remove(commands_pending_response, i)
  <2>1. PICK i \in found :
             /\ rx' = [rx EXCEPT !.pc = "timer", !.entry = commands_pending_response[i]]
             /\ commands_pending_response' = list_remove(commands_pending_response, i)
    BY <1>5, Zenon
  <2>2. i \in 1 .. Len(commands_pending_response)
    BY <1>1, <1>2, WaitingCommandIsPending, Zenon
  <2> QED
    BY <1>2, <1>3, <2>1, <2>2, Zenon
<1>6. CASE /\ rx.event.type \in {"debug", "other"} /\ rx' = rx_idle
           /\ UNCHANGED commands_pending_response
  <2>1. rx.event.type \notin {"complete", "status"}
    BY <1>6
  <2>2. rx.event.opcode \notin Answerable
    BY <1>1, <2>1, CommandAssumption, Zenon DEF AnswersNamed, Answerable
  <2> QED
    BY <1>3, <1>6, <2>2, Zenon
<1> QED
  BY <1>2, <1>4, <1>5, <1>6, Zenon DEF filter_incoming_event

-------------------------------------------------------------------------------
(* The parts of AnswerInv, step by step *)

LEMMA AccountedStep ==
  ASSUME AnswerInv, TypeInv', Next
  PROVE  Accounted'
<1>0. /\ TypeInv /\ Accounted
      /\ commands_pending_response \in Seq(Commands) /\ tasks \in Seq(Commands)
      /\ transmitted \in Seq(Commands)
      /\ outcome \in [Commands -> {"none", "complete", "status"}]
      /\ EntriesHeld /\ HciThreadType /\ RxThreadType
  BY Zenon DEF AnswerInv, OrderInv, TypeInv, TypeOK, HostType, HistoryType
<1>1. ASSUME UNCHANGED <<commands_pending_response, Matched, Resolved, transmitted, Hand>>
      PROVE  Accounted'
  BY <1>0, <1>1, Zenon DEF Accounted
<1>2. CASE event_command_ready
  <2>1. PICK c : c = Head(tasks)
    BY Zenon
  <2>2. /\ c \in Commands /\ c \notin Range(transmitted) \cup Hand
    BY <1>2, <2>1, FreshCommands, Zenon DEF event_command_ready
  <2>3. /\ commands_pending_response' = Append(commands_pending_response, c)
        /\ hci.pc = "idle" /\ hci' = [pc |-> "send", entry |-> c]
        /\ UNCHANGED <<rx, outcome, transmitted>>
    BY <1>2, <2>1, Zenon DEF event_command_ready
  <2>4. Hand = {} /\ Hand' = {c}
    BY <2>3 DEF Hand
  <2>5. UNCHANGED <<Matched, Resolved>>
    BY <2>3, Zenon DEF Matched, Resolved
  <2>6. /\ Range(commands_pending_response') = Range(commands_pending_response) \cup {c}
        /\ c \notin Range(commands_pending_response) => IsInjective(commands_pending_response')
    BY <1>0, <2>2, <2>3, AppendElements, ZenonT(30) DEF Accounted
  <2> QED
    BY <1>0, <2>2, <2>3, <2>4, <2>5, <2>6, Zenon DEF Accounted
<1>3. CASE transmit_fragment
  <2>1. UNCHANGED <<commands_pending_response, rx, outcome>> /\ hci.pc = "send"
    BY <1>3, Zenon DEF transmit_fragment, hostVars
  <2>2. UNCHANGED <<Matched, Resolved>>
    BY <2>1, Zenon DEF Matched, Resolved
  <2>3. CASE UNCHANGED <<transmitted, hci>>
    BY <1>1, <2>1, <2>2, <2>3, Zenon DEF Hand
  <2>4. CASE /\ transmitted' = Append(transmitted, hci.entry)
             /\ hci' = [hci EXCEPT !.pc = "timer"]
    <3>1. Hand = {hci.entry} /\ Hand' = {} /\ hci.entry \in Commands
      BY <1>0, <2>1, <2>4, SMTT(30) DEF Hand, HciThreadType, EntriesHeld
    <3>2. Range(transmitted') = Range(transmitted) \cup {hci.entry}
      BY <1>0, <2>4, <3>1, AppendElements, SMTT(30)
    <3> QED
      BY <1>0, <2>1, <2>2, <3>1, <3>2, Zenon DEF Accounted
  <2> QED
    BY <1>3, <2>3, <2>4, Zenon DEF transmit_fragment
<1>4. CASE filter_incoming_event
  <2>1. rx.pc = "filter" /\ UNCHANGED <<hci, outcome, transmitted>>
    BY <1>4, Zenon DEF filter_incoming_event
  <2>2. UNCHANGED <<Resolved, Hand>> /\ Matched = {}
    BY <2>1, Zenon DEF Resolved, Hand, Matched
  <2>3. CASE UNCHANGED commands_pending_response /\ rx'.pc \in {"idle", "credits"}
    <3>1. Matched' = {}
      BY <2>3 DEF Matched
    <3> QED
      BY <1>1, <2>1, <2>2, <2>3, <3>1, Zenon
  <2>4. ASSUME NEW i \in 1 .. Len(commands_pending_response),
               commands_pending_response' = list_remove(commands_pending_response, i),
               rx'.pc = "timer", rx'.entry = commands_pending_response[i]
        PROVE  Accounted'
    <3>1. PICK x : x = commands_pending_response[i]
      BY Zenon
    <3>2. /\ Range(commands_pending_response') = Range(commands_pending_response) \ {x}
          /\ IsInjective(commands_pending_response')
      BY <1>0, <2>4, <3>1, RemovedFromDistinct, Zenon DEF Accounted
    <3>3. x \in Range(commands_pending_response)
      BY <1>0, <2>4, <3>1, LenProperties, Zenon DEF Range
    <3>4. Matched' = {x}
      BY <2>4, <3>1, Zenon DEF Matched
    <3> QED
      BY <1>0, <2>1, <2>2, <3>2, <3>3, <3>4, Zenon DEF Accounted
  <2> QED
    BY <1>4, <2>3, <2>4, FilterEffect, Zenon
<1>5. CASE command_answered
  <2>1. /\ rx.pc = "timer" /\ rx' = [rx EXCEPT !.pc = "credits"]
        /\ outcome' = [outcome EXCEPT ![rx.entry] = rx.event.type]
        /\ UNCHANGED <<commands_pending_response, hci, transmitted>>
    BY <1>5, Zenon DEF command_answered, hostVars
  <2>2. Matched = {rx.entry} /\ Matched' = {} /\ UNCHANGED Hand
    BY <1>0, <2>1, SMTT(30) DEF Matched, Hand, RxThreadType
  <2>3. Resolved' = Resolved \cup {rx.entry}
    BY <1>0, <2>1, SMTT(30) DEF Resolved, EntriesHeld
  <2> QED
    BY <1>0, <2>1, <2>2, <2>3, Zenon DEF Accounted
<1>6. ASSUME UNCHANGED <<commands_pending_response, hci, rx, outcome, transmitted>>
      PROVE  Accounted'
  BY <1>1, <1>6, Zenon DEF Matched, Resolved, Hand
<1>7. CASE Clients
  BY <1>6, <1>7, Zenon DEF Clients, enqueue_command
<1>8. CASE event_command_sent
  <2>1. hci.pc = "timer" /\ hci' = hci_idle
        /\ UNCHANGED <<commands_pending_response, rx, outcome, transmitted>>
    BY <1>8, Zenon DEF event_command_sent, hostVars
  <2>2. UNCHANGED Hand
    BY <2>1 DEF Hand, hci_idle
  <2> QED
    BY <1>1, <2>1, <2>2, Zenon DEF Matched, Resolved
<1>9. CASE hci_event_received \/ process_command_credits
  <2>1. rx.pc # "timer" /\ rx'.pc # "timer"
    BY <1>9 DEF hci_event_received, process_command_credits, rx_idle
  <2>2. UNCHANGED <<commands_pending_response, hci, outcome, transmitted>>
    BY <1>9, Zenon DEF hci_event_received, process_command_credits, hostVars
  <2> QED
    BY <1>1, <2>1, <2>2, Zenon DEF Matched, Resolved, Hand
<1>10. CASE AlarmThread
  BY <1>6, <1>10, Zenon
  DEF AlarmThread, response_timer_expires, command_timed_out,
      request_firmware_dump, hci_timeout_abort, hostVars
<1>11. CASE Controller
  BY <1>6, <1>11, Zenon
  DEF Controller, controller_answers, controller_grants, controller_notifies, hostVars
<1> QED
  BY <1>2, <1>3, <1>4, <1>5, <1>7, <1>8, <1>9, <1>10, <1>11, Zenon
  DEF Next, HciThread, RxThread

LEMMA SubmittedOnceStep ==
  ASSUME AnswerInv, Next
  PROVE  IsInjective(submitted)'
<1>1. IsInjective(submitted) /\ submitted \in Seq(Commands)
  BY Zenon DEF AnswerInv, OrderInv, TypeInv, TypeOK, HistoryType
<1>2. ASSUME NEW c \in Commands, enqueue_command(c)
      PROVE  IsInjective(submitted)'
  BY <1>1, <1>2, AppendElements, Zenon DEF enqueue_command
<1>3. CASE HciThread \/ RxThread \/ AlarmThread \/ Controller
  <2>1. UNCHANGED submitted
    <3>1. CASE HciThread
      BY <3>1, Zenon DEF HciThread, event_command_ready, transmit_fragment, event_command_sent
    <3>2. CASE RxThread
      BY <3>2, Zenon DEF RxThread, hci_event_received, filter_incoming_event,
                         command_answered, process_command_credits
    <3>3. CASE AlarmThread
      BY <3>3, Zenon DEF AlarmThread, response_timer_expires, command_timed_out,
                         request_firmware_dump, hci_timeout_abort
    <3>4. CASE Controller
      BY <3>4, Zenon DEF Controller, controller_answers, controller_grants,
                         controller_notifies
    <3> QED
      BY <1>3, <3>1, <3>2, <3>3, <3>4, Zenon
  <2> QED
    BY <1>1, <2>1, Zenon
<1> QED
  BY <1>2, <1>3, Zenon DEF Next, Clients

LEMMA LastInHandStep ==
  ASSUME AnswerInv, Next
  PROVE  LastInHand'
<1>0. /\ LastInHand /\ HciThreadType /\ IsInjective(commands_pending_response)
      /\ commands_pending_response \in Seq(Commands) /\ tasks \in Seq(Commands)
  BY Zenon DEF AnswerInv, OrderInv, TypeInv, TypeOK, HostType, Accounted
<1>1. ASSUME UNCHANGED <<commands_pending_response, hci>>
      PROVE  LastInHand'
  BY <1>0, <1>1, Zenon DEF LastInHand
<1>2. ASSUME hci'.pc # "send"
      PROVE  LastInHand'
  BY <1>2, Zenon DEF LastInHand
<1>3. CASE event_command_ready
  <2>1. PICK c \in Commands : c = Head(tasks)
    BY <1>0, <1>3, HeadTailProperties, Zenon DEF event_command_ready
  <2>2. /\ commands_pending_response' = Append(commands_pending_response, c)
        /\ hci'.entry = c
    BY <1>3, <2>1 DEF event_command_ready
  <2>3. PICK n : n = Len(commands_pending_response)
    BY Zenon
  <2>4. /\ Append(commands_pending_response, c) # <<>>
        /\ Len(Append(commands_pending_response, c)) = n + 1
        /\ Append(commands_pending_response, c)[n + 1] = c
    BY <1>0, <2>3, AppendProperties, Zenon
  <2> QED
    BY <2>2, <2>4, Zenon DEF LastInHand
<1>4. CASE transmit_fragment
  <2>1. UNCHANGED commands_pending_response
    BY <1>4, Zenon DEF transmit_fragment, hostVars
  <2>2. UNCHANGED hci \/ hci'.pc # "send"
    BY <1>0, <1>4, SMTT(30) DEF transmit_fragment, HciThreadType
  <2> QED
    BY <1>1, <1>2, <2>1, <2>2, Zenon
<1>5. CASE event_command_sent
  <2>1. hci'.pc # "send"
    BY <1>5 DEF event_command_sent, hci_idle
  <2> QED
    BY <1>2, <2>1, Zenon
<1>6. CASE filter_incoming_event
  <2>1. UNCHANGED hci /\ rx.pc = "filter"
    BY <1>6, Zenon DEF filter_incoming_event
  <2>2. CASE UNCHANGED commands_pending_response
    BY <1>1, <2>1, <2>2, Zenon
  <2>3. ASSUME NEW i \in 1 .. Len(commands_pending_response),
               i \in get_waiting_command(commands_pending_response, rx.event.opcode),
               commands_pending_response' = list_remove(commands_pending_response, i)
        PROVE  LastInHand'
    <3> SUFFICES ASSUME hci.pc = "send", OpcodeOf[hci.entry] \notin VendorOpcodes
                 PROVE  /\ commands_pending_response' # <<>>
                        /\ commands_pending_response'[Len(commands_pending_response')]
                             = hci.entry
      BY <2>1, Zenon DEF LastInHand
    <3>1. i # Len(commands_pending_response)
      BY <2>1, <2>3, EntryInHandStays, Zenon
    <3>2. PICK s, r : s = commands_pending_response /\ r = list_remove(s, i)
      BY Zenon
    <3>3. r # <<>> /\ r[Len(r)] = s[Len(s)]
      BY <1>0, <2>3, <3>1, <3>2, RemovedFromDistinct, Zenon
    <3> QED
      BY <1>0, <2>3, <3>2, <3>3, Zenon DEF LastInHand
  <2> QED
    BY <1>6, <2>2, <2>3, FilterEffect, Zenon
<1>7. CASE Clients
  BY <1>1, <1>7, Zenon DEF Clients, enqueue_command
<1>8. CASE hci_event_received \/ command_answered \/ process_command_credits
  BY <1>1, <1>8, Zenon
  DEF hci_event_received, command_answered, process_command_credits, hostVars
<1>9. CASE AlarmThread
  BY <1>1, <1>9, Zenon
  DEF AlarmThread, response_timer_expires, command_timed_out,
      request_firmware_dump, hci_timeout_abort, hostVars
<1>10. CASE Controller
  BY <1>1, <1>10, Zenon
  DEF Controller, controller_answers, controller_grants, controller_notifies, hostVars
<1> QED
  BY <1>3, <1>4, <1>5, <1>6, <1>7, <1>8, <1>9, <1>10, Zenon DEF Next, HciThread, RxThread

\* The controller's events: an answer carries an opcode, and the rest none.
LEMMA SendEventEffect ==
  ASSUME AnswerInv, NEW type, NEW opcode, NEW credits \in 0 .. MaxCredits,
         opcode \in OpcodesUsed, type \in {"complete", "status", "debug", "other"},
         SendEvent(type, opcode, credits)
  PROVE  \E e \in Event : /\ e.opcode = opcode /\ e.type = type
                          /\ events' = Append(events, e)
                          /\ Range(events') = Range(events) \cup {e}
<1>1. PICK e : e = [type |-> type, opcode |-> opcode, credits |-> credits]
  BY Zenon
<1>2. e \in Event /\ e.opcode = opcode /\ e.type = type
  BY <1>1 DEF Event
<1>3. events' = Append(events, e) /\ events \in Seq(Event)
  BY <1>1, Zenon DEF SendEvent, AnswerInv, OrderInv, TypeInv, TypeOK, ControllerType
<1>4. Range(Append(events, e)) = Range(events) \cup {e}
  <2>1. PICK s \in Seq(Event) : s = events
    BY <1>3, Zenon
  <2>2. Range(Append(s, e)) = Range(s) \cup {e}
    BY <1>2, AppendElements, SMTT(30)
  <2> QED
    BY <2>1, <2>2, Zenon
<1> QED
  BY <1>2, <1>3, <1>4, Zenon

LEMMA ControllerEffect ==
  ASSUME AnswerInv, Controller
  PROVE  \E e \in Event :
           /\ events' = Append(events, e)
           /\ Range(events') = Range(events) \cup {e}
           /\ e.opcode # HCI_COMMAND_NONE => e.type \in {"complete", "status"}
           /\ \/ \E c \in inbox : inbox' = inbox \ {c} /\ e.opcode = OpcodeOf[c]
              \/ UNCHANGED inbox /\ e.opcode = HCI_COMMAND_NONE
           /\ UNCHANGED <<hostVars, hci, rx, transmitted>>
<1>0. /\ \A c \in Commands : OpcodeOf[c] \in OpcodesUsed
      /\ HCI_COMMAND_NONE \in OpcodesUsed /\ inbox \subseteq Commands /\ 0 \in 0 .. MaxCredits
      /\ \A n \in 1 .. MaxCredits : n \in 0 .. MaxCredits
  BY BoundAssumption DEF OpcodesUsed, AnswerInv, OrderInv, TypeInv, TypeOK, ControllerType
<1>1. ASSUME NEW c \in inbox, NEW credits \in 0 .. MaxCredits,
             controller_answers(c, credits)
      PROVE  \E e \in Event :
               /\ events' = Append(events, e)
               /\ Range(events') = Range(events) \cup {e}
               /\ e.opcode # HCI_COMMAND_NONE => e.type \in {"complete", "status"}
               /\ inbox' = inbox \ {c} /\ e.opcode = OpcodeOf[c]
  <2>1. PICK type \in {"complete", "status"} : SendEvent(type, OpcodeOf[c], credits)
    BY <1>1, Zenon DEF controller_answers
  <2>2. OpcodeOf[c] \in OpcodesUsed /\ type \in {"complete", "status", "debug", "other"}
    BY <1>0, Zenon
  <2>3. PICK e \in Event : /\ e.opcode = OpcodeOf[c] /\ e.type = type
                           /\ events' = Append(events, e)
                           /\ Range(events') = Range(events) \cup {e}
    BY <2>1, <2>2, SendEventEffect, SMTT(30)
  <2>4. inbox' = inbox \ {c}
    BY <1>1, Zenon DEF controller_answers
  <2> QED
    BY <2>3, <2>4, Zenon
<1>2. ASSUME NEW credits \in 1 .. MaxCredits, controller_grants(credits)
      PROVE  \E e \in Event :
               /\ events' = Append(events, e)
               /\ Range(events') = Range(events) \cup {e}
               /\ UNCHANGED inbox /\ e.opcode = HCI_COMMAND_NONE
  <2>1. SendEvent("complete", HCI_COMMAND_NONE, credits) /\ UNCHANGED inbox
    BY <1>2, Zenon DEF controller_grants
  <2> QED
    BY <1>0, <2>1, SendEventEffect, SMTT(30)
<1>3. ASSUME NEW type \in {"debug", "other"}, controller_notifies(type)
      PROVE  \E e \in Event :
               /\ events' = Append(events, e)
               /\ Range(events') = Range(events) \cup {e}
               /\ UNCHANGED inbox /\ e.opcode = HCI_COMMAND_NONE
  <2>1. SendEvent(type, HCI_COMMAND_NONE, 0) /\ UNCHANGED inbox
    BY <1>3, Zenon DEF controller_notifies
  <2> QED
    BY <1>0, <2>1, SendEventEffect, SMTT(30)
<1>4. UNCHANGED <<hostVars, hci, rx, transmitted>>
  BY Zenon DEF Controller, controller_answers, controller_grants, controller_notifies
<1> QED
  BY <1>1, <1>2, <1>3, <1>4, Zenon DEF Controller

LEMMA AnswersNamedStep ==
  ASSUME AnswerInv, Next
  PROVE  AnswersNamed'
<1>0. AnswersNamed /\ RxThreadType /\ events \in Seq(Event)
  BY Zenon DEF AnswerInv, OrderInv, TypeInv, TypeOK, ControllerType
<1>1. ASSUME Range(events') \subseteq Range(events),
             rx'.event \in Range(events) \cup {rx.event, NoEvent}
      PROVE  AnswersNamed'
  <2>1. NoEvent.opcode = HCI_COMMAND_NONE
    BY Zenon DEF NoEvent
  <2> QED
    BY <1>0, <1>1, <2>1, Zenon DEF AnswersNamed
<1>2. ASSUME UNCHANGED <<events, rx>>
      PROVE  AnswersNamed'
  BY <1>0, <1>2, Zenon DEF AnswersNamed
<1>3. CASE hci_event_received
  <2>1. /\ Range(Tail(events)) \subseteq Range(events) /\ Head(events) \in Range(events)
    BY <1>0, <1>3, SMTT(30) DEF hci_event_received, Range
  <2>2. rx'.event = Head(events) /\ events' = Tail(events)
    BY <1>3 DEF hci_event_received
  <2> QED
    BY <1>1, <2>1, <2>2, Zenon
<1>4. CASE filter_incoming_event \/ command_answered \/ process_command_credits
  <2>1. UNCHANGED events
    BY <1>4, Zenon
    DEF filter_incoming_event, command_answered, process_command_credits, controllerVars
  <2>2. /\ rx_idle.event = NoEvent /\ [rx EXCEPT !.pc = "credits"].event = rx.event
        /\ \A x : [rx EXCEPT !.pc = "timer", !.entry = x].event = rx.event
    BY <1>0, SMTT(30) DEF rx_idle, RxThreadType
  <2>3. rx'.event \in {rx.event, NoEvent}
    BY <1>4, <2>2, Zenon
    DEF filter_incoming_event, command_answered, process_command_credits
  <2> QED
    BY <1>1, <2>1, <2>3, Zenon
<1>5. CASE Controller
  <2>1. PICK e \in Event : /\ Range(events') = Range(events) \cup {e}
                           /\ e.opcode # HCI_COMMAND_NONE => e.type \in {"complete", "status"}
                           /\ UNCHANGED rx
    BY <1>5, ControllerEffect, Zenon
  <2> QED
    BY <1>0, <2>1, Zenon DEF AnswersNamed
<1>6. CASE Clients \/ HciThread \/ AlarmThread
  BY <1>2, <1>6, Zenon
  DEF Clients, enqueue_command, HciThread, event_command_ready, transmit_fragment,
      event_command_sent, AlarmThread, response_timer_expires, command_timed_out,
      request_firmware_dump, hci_timeout_abort, controllerVars
<1> QED
  BY <1>3, <1>4, <1>5, <1>6, Zenon DEF Next, RxThread

LEMMA InboxSentStep ==
  ASSUME AnswerInv, Next
  PROVE  InboxSent'
<1>0. /\ InboxSent /\ transmitted \in Seq(Commands)
      /\ hci.pc = "send" => hci.entry \in Commands
  BY Zenon DEF AnswerInv, OrderInv, TypeInv, TypeOK, HistoryType, EntriesHeld
<1>1. ASSUME UNCHANGED <<inbox, transmitted>>
      PROVE  InboxSent'
  BY <1>0, <1>1, Zenon DEF InboxSent
<1>2. CASE transmit_fragment
  <2>1. CASE /\ inbox' = inbox \cup {hci.entry}
             /\ transmitted' = Append(transmitted, hci.entry)
    <3>1. PICK e \in Commands : e = hci.entry
      BY <1>0, <1>2, Zenon DEF transmit_fragment
    <3>2. Range(Append(transmitted, e)) = Range(transmitted) \cup {e}
      BY <1>0, AppendElements, SMTT(30)
    <3>3. IsFiniteSet(inbox \cup {e})
      BY <1>0, FS_AddElement, Zenon DEF InboxSent
    <3> QED
      BY <1>0, <2>1, <3>1, <3>2, <3>3, Zenon DEF InboxSent
  <2> QED
    BY <1>1, <1>2, <2>1, Zenon DEF transmit_fragment
<1>3. CASE Controller
  <2>1. /\ UNCHANGED transmitted
        /\ UNCHANGED inbox \/ \E c \in inbox : inbox' = inbox \ {c}
    BY <1>3, ControllerEffect, Zenon
  <2>2. IsFiniteSet(inbox') /\ inbox' \subseteq inbox
    BY <1>0, <2>1, FS_RemoveElement, Zenon DEF InboxSent
  <2> QED
    BY <1>0, <2>1, <2>2, Zenon DEF InboxSent
<1>4. CASE \/ Clients \/ event_command_ready \/ event_command_sent \/ RxThread
           \/ AlarmThread
  BY <1>1, <1>4, Zenon
  DEF Clients, enqueue_command, event_command_ready, event_command_sent,
      RxThread, hci_event_received, filter_incoming_event, command_answered,
      process_command_credits, AlarmThread, response_timer_expires,
      command_timed_out, request_firmware_dump, hci_timeout_abort, controllerVars
<1> QED
  BY <1>2, <1>3, <1>4, Zenon DEF Next, HciThread

\* Fit, given what each of the five numbers becomes.
LEMMA FitFrom ==
  ASSUME NEW o, NEW h, NEW p, NEW f, NEW s, NEW w,
         Cardinality(Held(o)') = h, Cardinality(Positions(events', o)) = p,
         Filtered(o)' = f, Sending(o)' = s, Cardinality(Awaiting(o)') = w,
         h + p + f + s = w
  PROVE  Fit(o)'
  BY Zenon DEF Fit

LEMMA FitStep ==
  ASSUME AnswerInv, Next, NEW o \in Answerable
  PROVE  Fit(o)'
<1>0. /\ commands_pending_response \in Seq(Commands) /\ events \in Seq(Event)
      /\ HciThreadType /\ RxThreadType /\ inbox \subseteq Commands
      /\ IsFiniteSet(Held(o)) /\ IsFiniteSet(Awaiting(o))
  BY FitFinite, Zenon DEF AnswerInv, OrderInv, TypeInv, TypeOK, HostType, ControllerType
<1>1. PICK h, p, f, s, w :
        /\ h = Cardinality(Held(o)) /\ p = Cardinality(Positions(events, o))
        /\ f = Filtered(o) /\ s = Sending(o) /\ w = Cardinality(Awaiting(o))
  BY Zenon
<1>2. /\ h \in Nat /\ p \in Nat /\ f \in {0, 1} /\ s \in {0, 1} /\ w \in Nat
      /\ h + p + f + s = w
  BY <1>1, FitFinite, Zenon DEF AnswerInv, Fit
<1>3. o # HCI_COMMAND_NONE
  BY CommandAssumption, Zenon DEF Answerable
\* The parts of Fit, when what they are made of does not change.
<1>4. /\ UNCHANGED inbox => Cardinality(Held(o)') = h
      /\ UNCHANGED events => Cardinality(Positions(events', o)) = p
      /\ UNCHANGED rx => Filtered(o)' = f
      /\ UNCHANGED hci => Sending(o)' = s
      /\ UNCHANGED commands_pending_response => Cardinality(Awaiting(o)') = w
  BY <1>1, Zenon DEF Held, Filtered, Sending, Awaiting
<1>5. /\ hci.pc # "send" => s = 0
      /\ rx.pc # "filter" => f = 0
      /\ hci'.pc # "send" => Sending(o)' = 0
      /\ rx'.pc # "filter" => Filtered(o)' = 0
  BY <1>1, Zenon DEF Filtered, Sending
<1>6. ASSUME UNCHANGED <<inbox, events, commands_pending_response>>,
             Filtered(o)' = f, Sending(o)' = s
      PROVE  Fit(o)'
  BY <1>2, <1>4, <1>6, FitFrom, Zenon
<1>7. CASE event_command_ready
  <2>1. PICK c \in Commands : c = Head(tasks)
    BY <1>7, FreshCommands, Zenon DEF event_command_ready
  <2>2. /\ commands_pending_response' = Append(commands_pending_response, c)
        /\ hci'.entry = c /\ hci'.pc = "send" /\ hci.pc # "send"
        /\ UNCHANGED <<rx, inbox, events>>
    BY <1>7, <2>1 DEF event_command_ready, controllerVars
  <2>3. c \notin Range(commands_pending_response)
    BY <1>7, <2>1, FreshCommands, Zenon DEF event_command_ready, AnswerInv, Accounted
  <2>4. Range(Append(commands_pending_response, c))
          = Range(commands_pending_response) \cup {c}
    BY <1>0, AppendElements, SMTT(30)
  <2>5. CASE OpcodeOf[c] = o
    <3>1. Awaiting(o)' = Awaiting(o) \cup {c} /\ c \notin Awaiting(o)
      BY <2>2, <2>3, <2>4, <2>5, Zenon DEF Awaiting
    <3>2. Cardinality(Awaiting(o)') = w + 1
      BY <1>0, <1>1, <3>1, FS_AddElement, Zenon
    <3>3. Sending(o)' = 1 /\ s = 0
      BY <1>5, <2>2, <2>5, Zenon DEF Sending
    <3>4. h + p + f + 1 = w + 1
      BY <1>2, <3>3
    <3> QED
      BY <1>4, <2>2, <3>2, <3>3, <3>4, FitFrom, Zenon
  <2>6. CASE OpcodeOf[c] # o
    <3>1. Awaiting(o)' = Awaiting(o)
      BY <2>2, <2>4, <2>6, Zenon DEF Awaiting
    <3>2. Sending(o)' = 0 /\ s = 0
      BY <1>5, <2>2, <2>6, Zenon DEF Sending
    <3> QED
      BY <1>1, <1>2, <1>4, <2>2, <3>1, <3>2, FitFrom, Zenon
  <2> QED
    BY <2>5, <2>6, Zenon
<1>8. CASE transmit_fragment
  <2>1. /\ hci.pc = "send" /\ UNCHANGED <<rx, events, commands_pending_response>>
    BY <1>8, Zenon DEF transmit_fragment, hostVars
  <2>2. CASE /\ inbox' = inbox \cup {hci.entry}
             /\ hci' = [hci EXCEPT !.pc = "timer"]
    <3>1. PICK e : e = hci.entry
      BY Zenon
    <3>2. e \notin inbox
      BY <2>1, <3>1, FreshCommands, Zenon DEF AnswerInv, InboxSent
    <3>3. Sending(o)' = 0
      <4>1. hci'.pc # "send"
        BY <1>0, <2>2, SMTT(30) DEF HciThreadType
      <4> QED
        BY <1>5, <4>1, Zenon
    <3>4. CASE OpcodeOf[e] = o
      <4>1. Held(o)' = Held(o) \cup {e} /\ e \notin Held(o)
        BY <2>2, <3>1, <3>2, <3>4, Zenon DEF Held
      <4>2. Cardinality(Held(o)') = h + 1
        BY <1>0, <1>1, <4>1, FS_AddElement, Zenon
      <4>3. s = 1
        BY <1>1, <2>1, <3>1, <3>4, Zenon DEF Sending
      <4>4. (h + 1) + p + f + 0 = w
        BY <1>2, <4>3
      <4> QED
        BY <1>4, <2>1, <3>3, <4>2, <4>4, FitFrom, Zenon
    <3>5. CASE OpcodeOf[e] # o
      <4>1. Held(o)' = Held(o)
        BY <2>2, <3>1, <3>5, Zenon DEF Held
      <4>2. s = 0
        BY <1>1, <3>1, <3>5, Zenon DEF Sending
      <4> QED
        BY <1>1, <1>2, <1>4, <2>1, <3>3, <4>1, <4>2, FitFrom, Zenon
    <3> QED
      BY <3>4, <3>5, Zenon
  <2>3. CASE UNCHANGED <<inbox, hci>>
    BY <1>4, <1>6, <2>1, <2>3, Zenon
  <2> QED
    BY <1>8, <2>2, <2>3, Zenon DEF transmit_fragment
<1>9. CASE event_command_sent
  <2>1. hci.pc # "send" /\ hci'.pc # "send"
    BY <1>9 DEF event_command_sent, hci_idle
  <2>2. UNCHANGED <<inbox, events, commands_pending_response, rx>>
    BY <1>9, Zenon DEF event_command_sent, hostVars, controllerVars
  <2> QED
    BY <1>4, <1>5, <1>6, <2>1, <2>2, Zenon
<1>10. CASE hci_event_received
  <2>1. PICK e, t : e = Head(events) /\ t = Tail(events)
    BY Zenon
  <2>2. /\ rx.pc # "filter" /\ rx'.pc = "filter" /\ rx'.event = e /\ events' = t
        /\ events # <<>> /\ UNCHANGED <<inbox, commands_pending_response, hci>>
    BY <1>10, <2>1 DEF hci_event_received, hostVars
  <2>3. PICK q : q = Cardinality(Positions(t, o))
    BY Zenon
  <2>4. q \in Nat
    BY <1>0, <2>1, <2>2, <2>3, HeadTailProperties, PositionsOfAppend, Zenon
  <2>5. CASE e.opcode = o
    <3>1. p = q + 1 /\ f = 0 /\ Filtered(o)' = 1
      BY <1>0, <1>1, <1>5, <2>1, <2>2, <2>3, <2>5, PositionsOfTail, Zenon DEF Filtered
    <3>2. h + q + 1 + s = w
      BY <1>2, <2>4, <3>1
    <3> QED
      BY <1>4, <2>2, <2>3, <3>1, <3>2, FitFrom, Zenon
  <2>6. CASE e.opcode # o
    <3>1. p = q /\ f = 0 /\ Filtered(o)' = 0
      BY <1>0, <1>1, <1>5, <2>1, <2>2, <2>3, <2>6, PositionsOfTail, Zenon DEF Filtered
    <3> QED
      BY <1>2, <1>4, <2>2, <2>3, <3>1, FitFrom, Zenon
  <2> QED
    BY <2>5, <2>6, Zenon
<1>11. CASE filter_incoming_event
  <2>1. UNCHANGED <<inbox, events, hci>> /\ rx.pc = "filter"
    BY <1>11, Zenon DEF filter_incoming_event, controllerVars
  <2>2. CASE /\ UNCHANGED commands_pending_response
             /\ rx'.pc \in {"idle", "credits"}
             /\ rx.event.opcode \notin Answerable
    <3>1. rx'.pc # "filter"
      BY <2>2
    <3>2. f = 0
      BY <1>1, <2>2, Zenon DEF Filtered
    <3> QED
      BY <1>4, <1>5, <1>6, <2>1, <2>2, <3>1, <3>2, Zenon
  <2>3. ASSUME NEW i \in 1 .. Len(commands_pending_response),
               i \in get_waiting_command(commands_pending_response, rx.event.opcode),
               commands_pending_response' = list_remove(commands_pending_response, i),
               rx'.pc = "timer"
        PROVE  Fit(o)'
    <3>1. PICK list, opcode, c :
            /\ list = commands_pending_response /\ opcode = rx.event.opcode /\ c = list[i]
      BY Zenon
    <3>2. /\ list \in Seq(Commands) /\ IsInjective(list)
          /\ i \in 1 .. Len(list) /\ i \in get_waiting_command(list, opcode)
      BY <1>0, <2>3, <3>1, Zenon DEF AnswerInv, Accounted
    <3>3. Range(list_remove(list, i)) = Range(list) \ {c} /\ c \in Range(list)
      <4>1. DOMAIN list = 1 .. Len(list)
        BY <3>2, LenProperties, Zenon
      <4>2. c \in Range(list)
        BY <3>1, <3>2, <4>1, Zenon DEF Range
      <4>3. Range(list_remove(list, i)) = Range(list) \ {list[i]}
        BY <3>2, RemovedFromDistinct, SMTT(30)
      <4> QED
        BY <3>1, <4>2, <4>3, Zenon
    <3>4. /\ opcode # o => OpcodeOf[c] # o
          /\ opcode = o => OpcodeOf[c] = o
      BY <3>1, <3>2, WaitingCommandMatches, SMTT(30)
    <3>5. Filtered(o)' = 0
      <4>1. rx'.pc # "filter"
        BY <2>3
      <4> QED
        BY <1>5, <4>1, Zenon
    <3>6. CASE opcode = o
      <4>1. f = 1
        BY <1>1, <2>1, <3>1, <3>6, Zenon DEF Filtered
      <4>2. Awaiting(o)' = Awaiting(o) \ {c} /\ c \in Awaiting(o)
        BY <2>3, <3>1, <3>3, <3>4, <3>6, Zenon DEF Awaiting
      <4>3. Cardinality(Awaiting(o)') = w - 1
        BY <1>0, <1>1, <4>2, FS_RemoveElement, Zenon
      <4>4. h + p + 0 + s = w - 1
        BY <1>2, <4>1
      <4> QED
        BY <1>4, <2>1, <3>5, <4>3, <4>4, FitFrom, Zenon
    <3>7. CASE opcode # o
      <4>1. f = 0
        BY <1>1, <3>1, <3>7, Zenon DEF Filtered
      <4>2. Awaiting(o)' = Awaiting(o)
        BY <2>3, <3>1, <3>3, <3>4, <3>7, Zenon DEF Awaiting
      <4> QED
        BY <1>1, <1>2, <1>4, <2>1, <3>5, <4>1, <4>2, FitFrom, Zenon
    <3> QED
      BY <3>6, <3>7, Zenon
  <2> QED
    BY <1>11, <2>2, <2>3, FilterEffect, Zenon
<1>12. CASE command_answered \/ process_command_credits
  <2>1. rx.pc # "filter" /\ rx'.pc # "filter"
    BY <1>0, <1>12, SMTT(30)
    DEF command_answered, process_command_credits, RxThreadType, rx_idle
  <2>2. UNCHANGED <<inbox, events, commands_pending_response, hci>>
    BY <1>12, Zenon DEF command_answered, process_command_credits, hostVars, controllerVars
  <2> QED
    BY <1>4, <1>5, <1>6, <2>1, <2>2, Zenon
<1>13. CASE Controller
  <2>1. PICK e \in Event :
           /\ events' = Append(events, e)
           /\ \/ \E c \in inbox : inbox' = inbox \ {c} /\ e.opcode = OpcodeOf[c]
              \/ UNCHANGED inbox /\ e.opcode = HCI_COMMAND_NONE
           /\ UNCHANGED <<hostVars, hci, rx>>
    BY <1>13, ControllerEffect, Zenon
  <2>2. UNCHANGED commands_pending_response
    BY <2>1, Zenon DEF hostVars
  <2>3. CASE e.opcode = o
    <3>1. PICK c \in inbox : inbox' = inbox \ {c} /\ OpcodeOf[c] = o
      BY <1>3, <2>1, <2>3, Zenon
    <3>2. Held(o)' = Held(o) \ {c} /\ c \in Held(o)
      BY <3>1, Zenon DEF Held
    <3>3. Cardinality(Held(o)') = h - 1
      BY <1>0, <1>1, <3>2, FS_RemoveElement, Zenon
    <3>4. Cardinality(Positions(events', o)) = p + 1
      BY <1>0, <1>1, <2>1, <2>3, PositionsOfAppend, Zenon
    <3>5. (h - 1) + (p + 1) + f + s = w
      BY <1>2
    <3> QED
      BY <1>4, <2>1, <2>2, <3>3, <3>4, <3>5, FitFrom, Zenon
  <2>4. CASE e.opcode # o
    <3>1. Held(o)' = Held(o)
      BY <2>1, <2>4, Zenon DEF Held
    <3>2. Cardinality(Positions(events', o)) = p
      BY <1>0, <1>1, <2>1, <2>4, PositionsOfAppend, Zenon
    <3> QED
      BY <1>1, <1>2, <1>4, <2>1, <2>2, <3>1, <3>2, FitFrom, Zenon
  <2> QED
    BY <2>3, <2>4, Zenon
<1>14. CASE Clients \/ AlarmThread
  <2>1. UNCHANGED <<inbox, events, commands_pending_response, hci, rx>>
    BY <1>14, Zenon
    DEF Clients, enqueue_command, AlarmThread, response_timer_expires,
        command_timed_out, request_firmware_dump, hci_timeout_abort,
        controllerVars, hostVars
  <2> QED
    BY <1>4, <1>6, <2>1, Zenon
<1> QED
  BY <1>7, <1>8, <1>9, <1>10, <1>11, <1>12, <1>13, <1>14, Zenon
  DEF Next, HciThread, RxThread

-------------------------------------------------------------------------------

LEMMA AnswerInit == Init => AnswerInv
<1> SUFFICES ASSUME Init
             PROVE  AnswerInv
  OBVIOUS
<1>1. OrderInv
  BY OrderInit
<1>2. /\ Range(<<>>) = {} /\ IsInjective(<<>>) /\ hci.pc # "send" /\ rx.pc = "idle"
      /\ rx.event.opcode = HCI_COMMAND_NONE
  BY SMTT(30) DEF Init, Range, IsInjective, hci_idle, rx_idle, NoEvent
<1>3. Hand = {} /\ Matched = {} /\ Resolved = {}
  BY <1>2 DEF Init, Hand, Matched, Resolved
<1>4. Accounted
  BY <1>2, <1>3, Zenon DEF Init, Accounted
<1>5. LastInHand
  BY <1>2, Zenon DEF LastInHand
<1>6. AnswersNamed
  BY <1>2, Zenon DEF Init, AnswersNamed
<1>7. InboxSent
  BY <1>2, FS_EmptySet, Zenon DEF Init, InboxSent
<1>8. ASSUME NEW o \in Answerable
      PROVE  Fit(o)
  <2>1. Held(o) = {} /\ Awaiting(o) = {} /\ Filtered(o) = 0 /\ Sending(o) = 0
    BY <1>2 DEF Init, Held, Awaiting, Filtered, Sending
  <2>2. Positions(events, o) = {}
    BY DEF Init, Positions
  <2>3. Cardinality({}) = 0
    BY FS_EmptySet, Zenon
  <2>4. 0 + 0 + 0 + 0 = 0
    OBVIOUS
  <2> QED
    BY <2>1, <2>2, <2>3, <2>4, Zenon DEF Fit
<1> QED
  BY <1>1, <1>2, <1>4, <1>5, <1>6, <1>7, <1>8, Zenon DEF AnswerInv, Init

LEMMA AnswerStep == AnswerInv /\ [Next]_vars => AnswerInv'
<1> SUFFICES ASSUME AnswerInv, [Next]_vars
             PROVE  AnswerInv'
  OBVIOUS
<1>1. OrderInv'
  BY OrderStep, Zenon DEF AnswerInv
<1>2. CASE Next
  <2>1. TypeInv'
    BY <1>1, Zenon DEF OrderInv
  <2>2. Accounted'
    BY <1>2, <2>1, AccountedStep, Zenon
  <2>3. IsInjective(submitted)' /\ LastInHand' /\ AnswersNamed' /\ InboxSent'
    BY <1>2, SubmittedOnceStep, LastInHandStep, AnswersNamedStep, InboxSentStep, Zenon
  <2>4. \A o \in Answerable : Fit(o)'
    BY <1>2, FitStep, Zenon
  <2>5. Answerable' = Answerable
    BY Zenon DEF Answerable
  <2> QED
    BY <1>1, <2>2, <2>3, <2>4, <2>5, Zenon DEF AnswerInv
<1>3. CASE UNCHANGED vars
  <2>1. UNCHANGED <<commands_pending_response, hci, rx, inbox, events, submitted,
                    transmitted, outcome>>
    BY <1>3, Zenon DEF vars, hostVars, controllerVars
  <2>2. IsInjective(submitted)' /\ LastInHand' /\ AnswersNamed' /\ InboxSent'
    BY <2>1, Zenon DEF AnswerInv, LastInHand, AnswersNamed, InboxSent
  <2>3. Accounted'
    BY <2>1, Zenon DEF AnswerInv, Accounted, Hand, Matched, Resolved
  <2>4. \A o \in Answerable : Fit(o)'
    BY <2>1, Zenon DEF AnswerInv, Fit, Held, Awaiting, Filtered, Sending
  <2> QED
    BY <1>1, <2>2, <2>3, <2>4, Zenon DEF AnswerInv, Answerable
<1> QED
  BY <1>2, <1>3, Zenon

\* Every command handed to the transport is in exactly one place: on
\* commands_pending_response, in the hands of the rx thread (get_waiting_command
\* found it), or resolved; and no answer takes the entry event_command_ready has
\* listed but not yet sent, unless it is vendor-specific. For any commands and
\* opcodes, however many commands share an opcode, and whatever order the
\* controller answers in.
THEOREM EveryAnswerAccounted == Spec => []AnswersAccounted
<1>1. Init => AnswerInv
  BY AnswerInit, Zenon
<1>2. AnswerInv /\ [Next]_vars => AnswerInv'
  BY AnswerStep, Zenon
<1>3. AnswerInv => AnswersAccounted
  BY AnswerInvSuffices, Zenon
<1> QED
  BY <1>1, <1>2, <1>3, PTL DEF Spec
===============================================================================
