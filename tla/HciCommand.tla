------------------------------ MODULE HciCommand ------------------------------
(***************************************************************************)
(* The command path of the HCI layer (hci/src/hci_layer.cc) while the      *)
(* layer is up: command flow control, matching of answers, and the command *)
(* response watchdog.                                                      *)
(*                                                                         *)
(* Four actors run concurrently:                                           *)
(*   clients     call transmit_command and transmit_command_futured;       *)
(*   hci_thread  runs the closures of message_loop_ in FIFO order;         *)
(*   rx          the transport's callback thread, one event at a time;     *)
(*   alarm       the alarm callback thread (command_timed_out, abort).     *)
(* Every action is one critical section of the code, or the code between   *)
(* two of them, so interleavings at lock boundaries are all explored.      *)
(***************************************************************************)
EXTENDS Integers, Sequences, Functions

CONSTANTS
  Commands,        \* the command instances the upper layers may submit
  OpcodeOf,        \* the opcode each of them carries
  VendorOpcodes,   \* the opcodes of group HCI_GRP_VENDOR_SPECIFIC
  StatusCommands,  \* commands the controller answers with Command Status
  HCI_COMMAND_NONE,\* opcode of an event that answers no command
  NoCommand,       \* a null waiting_command_t*
  MaxCredits,      \* largest Num_HCI_Command_Packets the controller reports
  SpuriousNop,     \* may the controller send credits without having said 0?
  DebugEvents,     \* may firmware debug events arrive?
  MaxUnsolicited,  \* bound on events that answer no command
  COMMAND_PENDING_TIMEOUT_MS, MAX_CMD_TIMEOUT, INC_TIMEOUT_THRESHOLD

ASSUME CommandAssumption ==
  /\ NoCommand \notin Commands
  /\ StatusCommands \subseteq Commands
  /\ HCI_COMMAND_NONE \notin {OpcodeOf[c] : c \in Commands}
  /\ HCI_COMMAND_NONE \notin VendorOpcodes
ASSUME FlagAssumption == SpuriousNop \in BOOLEAN /\ DebugEvents \in BOOLEAN
ASSUME BoundAssumption == MaxCredits \in Nat \ {0} /\ MaxUnsolicited \in Nat
ASSUME TimeoutAssumption ==
  /\ COMMAND_PENDING_TIMEOUT_MS \in Nat \ {0}
  /\ INC_TIMEOUT_THRESHOLD \in Nat \ {0}
  /\ MAX_CMD_TIMEOUT \in Nat
  /\ COMMAND_PENDING_TIMEOUT_MS <= MAX_CMD_TIMEOUT

VARIABLES
  command_credits, \* commands the host believes it may still issue
  command_queue,   \* closures waiting for a credit
  tasks,           \* command closures posted to message_loop_, not yet run
  commands_pending_response,
  hci,             \* hci_thread: where it is in event_command_ready
  rx,              \* rx thread: where it is in filter_incoming_event
  alarm,           \* alarm thread: where it is in command_timed_out
  response_timer,  \* command_response_timer: "set" while scheduled
  abort_timer,     \* hci_timeout_abort_timer: "set" once created
  cmd_stats,       \* struct monitor_command
  firmware_log,    \* hci_firmware_log_fd: "open" or "closed"
  inbox,           \* external: commands the controller holds unanswered
  events,          \* external: events on their way to the host
  reported,        \* external: the last credit count reported
  unsolicited,     \* external: events sent so far that answer no command
  process,         \* "up", or "killed"
  submitted,       \* history: commands in the order enqueue_command took them
  transmitted,     \* history: commands in the order the transport got them
  outcome          \* history: how each command was resolved

hostVars == <<command_credits, command_queue, tasks, commands_pending_response>>
timerVars == <<response_timer, abort_timer, cmd_stats, firmware_log>>
controllerVars == <<inbox, events, reported, unsolicited>>
vars == <<hostVars, hci, rx, alarm, timerVars, controllerVars, process,
          submitted, transmitted, outcome>>

OpcodesUsed == {OpcodeOf[c] : c \in Commands} \cup {HCI_COMMAND_NONE}

Event == [type : {"complete", "status", "debug", "other"},
          opcode : OpcodesUsed, credits : 0 .. MaxCredits]

NoEvent == [type |-> "other", opcode |-> HCI_COMMAND_NONE, credits |-> 0]

alive == process = "up"

hci_idle == [pc |-> "idle", entry |-> NoCommand]
rx_idle == [pc |-> "idle", entry |-> NoCommand, event |-> NoEvent]
no_stats == [monitor |-> "off", lapsed |-> 0, rx |-> 0, prev |-> 0]

Init ==
  /\ command_credits = 1
  /\ command_queue = <<>>
  /\ tasks = <<>>
  /\ commands_pending_response = <<>>
  /\ hci = hci_idle
  /\ rx = rx_idle
  /\ alarm = "idle"
  /\ response_timer = "off"
  /\ abort_timer = "off"
  /\ cmd_stats = no_stats
  /\ firmware_log = "closed"
  /\ inbox = {}
  /\ events = <<>>
  /\ reported = 1
  /\ unsolicited = 0
  /\ process = "up"
  /\ submitted = <<>>
  /\ transmitted = <<>>
  /\ outcome = [c \in Commands |-> "none"]

-------------------------------------------------------------------------------
(* Clients *)

\* enqueue_command(c): posted at once while there are credits, queued otherwise.
enqueue_command(c) ==
  /\ alive
  /\ c \notin Range(submitted)
  /\ submitted' = Append(submitted, c)
  /\ \/ /\ command_credits > 0
        /\ tasks' = Append(tasks, c)
        /\ command_credits' = command_credits - 1
        /\ UNCHANGED command_queue
     \/ /\ command_credits <= 0
        /\ command_queue' = Append(command_queue, c)
        /\ UNCHANGED <<tasks, command_credits>>
  /\ UNCHANGED <<commands_pending_response, hci, rx, alarm, timerVars,
                 controllerVars, process, transmitted, outcome>>

-------------------------------------------------------------------------------
(* hci_thread *)

\* update_command_response_timer: the timer and the packet monitor follow the
\* pending list, whose value after the step is |pending|.
update_command_response_timer(pending) ==
  /\ response_timer' = IF pending = <<>> THEN "off" ELSE "set"
  /\ cmd_stats' = IF pending = <<>>
                  THEN no_stats
                  ELSE [monitor |-> "on", lapsed |-> COMMAND_PENDING_TIMEOUT_MS,
                        rx |-> 0, prev |-> 0]

\* event_command_ready, first critical section: append to the pending list.
event_command_ready ==
  /\ alive /\ hci.pc = "idle"
  /\ tasks # <<>>
  /\ commands_pending_response' = Append(commands_pending_response, Head(tasks))
  /\ tasks' = Tail(tasks)
  /\ hci' = [pc |-> "send", entry |-> Head(tasks)]
  /\ UNCHANGED <<command_credits, command_queue, rx, alarm, timerVars,
                 controllerVars, process, submitted, transmitted, outcome>>

\* event_command_ready, the transmission: the transport takes the command, or
\* its daemon has died and the process kills itself.
transmit_fragment ==
  /\ alive /\ hci.pc = "send"
  /\ \/ /\ inbox' = inbox \cup {hci.entry}
        /\ transmitted' = Append(transmitted, hci.entry)
        /\ hci' = [hci EXCEPT !.pc = "timer"]
        /\ UNCHANGED process
     \/ /\ process' = "killed"
        /\ UNCHANGED <<inbox, transmitted, hci>>
  /\ UNCHANGED <<hostVars, rx, alarm, timerVars, events, reported,
                 unsolicited, submitted, outcome>>

\* Mutant: the response timer is not started after the transmission.
event_command_sent_untimed ==
  /\ alive /\ hci.pc = "timer"
  /\ hci' = hci_idle
  /\ UNCHANGED <<hostVars, rx, alarm, timerVars, controllerVars, process,
                 submitted, transmitted, outcome>>

\* event_command_ready, last critical section: start the response timer.
event_command_sent ==
  /\ alive /\ hci.pc = "timer"
  /\ update_command_response_timer(commands_pending_response)
  /\ hci' = hci_idle
  /\ UNCHANGED <<hostVars, rx, alarm, abort_timer, firmware_log,
                 controllerVars, process, submitted, transmitted, outcome>>

-------------------------------------------------------------------------------
(* rx thread *)

\* hci_event_received: take the next event and count it if monitoring is on.
hci_event_received ==
  /\ alive /\ rx.pc = "idle"
  /\ events # <<>>
  /\ rx' = [pc |-> "filter", entry |-> NoCommand, event |-> Head(events)]
  /\ events' = Tail(events)
  /\ cmd_stats' = [cmd_stats EXCEPT !.rx = IF cmd_stats.monitor = "on" THEN @ + 1 ELSE @]
  /\ UNCHANGED <<hostVars, hci, alarm, response_timer, abort_timer,
                 firmware_log, inbox, reported, unsolicited, process,
                 submitted, transmitted, outcome>>

\* get_waiting_command: the index of the first pending command with this
\* opcode; failing that, of the first vendor-specific one when the event itself
\* is vendor-specific or carries no opcode. A set, empty when there is none.
get_waiting_command(pending, opcode) ==
  LET exact == {i \in DOMAIN pending : OpcodeOf[pending[i]] = opcode}
      vendor == {i \in DOMAIN pending : OpcodeOf[pending[i]] \in VendorOpcodes}
      found == IF exact # {} THEN exact
               ELSE IF opcode \in VendorOpcodes \cup {HCI_COMMAND_NONE} THEN vendor
               ELSE {}
  IN {i \in found : \A j \in found : i <= j}

\* list_remove, of the element at |i|.
list_remove(list, i) == SubSeq(list, 1, i - 1) \o SubSeq(list, i + 1, Len(list))

\* Mutant: the matched command stays on the pending list.
filter_incoming_event_keeps_entry ==
  /\ alive /\ rx.pc = "filter"
  /\ LET found == get_waiting_command(commands_pending_response, rx.event.opcode)
     IN IF rx.event.type \in {"debug", "other"} THEN rx' = rx_idle
        ELSE \/ found = {} /\ rx' = [rx EXCEPT !.pc = "credits"]
             \/ \E i \in found :
                  rx' = [rx EXCEPT !.pc = "timer",
                                   !.entry = commands_pending_response[i]]
  /\ UNCHANGED <<hostVars, hci, alarm, timerVars, controllerVars, process,
                 submitted, transmitted, outcome>>

\* Mutant: the credits of an event that matches no command are ignored.
filter_incoming_event_drops_credits ==
  /\ alive /\ rx.pc = "filter"
  /\ LET found == get_waiting_command(commands_pending_response, rx.event.opcode)
     IN IF rx.event.type \in {"debug", "other"} \/ found = {}
        THEN rx' = rx_idle /\ UNCHANGED commands_pending_response
        ELSE \E i \in found :
               /\ rx' = [rx EXCEPT !.pc = "timer",
                                   !.entry = commands_pending_response[i]]
               /\ commands_pending_response' = list_remove(commands_pending_response, i)
  /\ UNCHANGED <<command_credits, command_queue, tasks, hci, alarm, timerVars,
                 controllerVars, process, submitted, transmitted, outcome>>

\* filter_incoming_event up to get_waiting_command. A debug event opens the
\* firmware log (opening may fail); any other event goes to the upper layers.
filter_incoming_event ==
  /\ alive /\ rx.pc = "filter"
  /\ \/ /\ rx.event.type \in {"complete", "status"}
        /\ LET found == get_waiting_command(commands_pending_response, rx.event.opcode)
           IN \/ /\ found = {}
                 /\ rx' = [rx EXCEPT !.pc = "credits"]
                 /\ UNCHANGED commands_pending_response
              \/ \E i \in found :
                   /\ rx' = [rx EXCEPT !.pc = "timer",
                                       !.entry = commands_pending_response[i]]
                   /\ commands_pending_response' = list_remove(commands_pending_response, i)
        /\ UNCHANGED firmware_log
     \/ /\ rx.event.type = "debug"
        /\ firmware_log' \in {firmware_log, "open"}
        /\ rx' = rx_idle
        /\ UNCHANGED commands_pending_response
     \/ /\ rx.event.type = "other"
        /\ rx' = rx_idle
        /\ UNCHANGED <<firmware_log, commands_pending_response>>
  /\ UNCHANGED <<command_credits, command_queue, tasks, hci, alarm,
                 response_timer, abort_timer, cmd_stats, controllerVars, process,
                 submitted, transmitted, outcome>>

\* filter_incoming_event, a command was matched: refresh the watchdog, then
\* run the command's callback or make its future ready.
command_answered ==
  /\ alive /\ rx.pc = "timer"
  /\ update_command_response_timer(commands_pending_response)
  /\ outcome' = [outcome EXCEPT ![rx.entry] = rx.event.type]
  /\ rx' = [rx EXCEPT !.pc = "credits"]
  /\ UNCHANGED <<hostVars, hci, alarm, abort_timer, firmware_log,
                 controllerVars, process, submitted, transmitted>>

\* Mutant: the new credits do not release queued commands.
process_command_credits_no_drain ==
  /\ alive /\ rx.pc = "credits"
  /\ command_credits' = rx.event.credits - Len(commands_pending_response)
  /\ rx' = rx_idle
  /\ UNCHANGED <<command_queue, tasks, commands_pending_response, hci, alarm,
                 timerVars, controllerVars, process, submitted, transmitted, outcome>>

\* process_command_credits: replace the credits by the reported number less
\* the pending commands, and post queued commands while credits remain.
process_command_credits ==
  /\ alive /\ rx.pc = "credits"
  /\ LET credits == rx.event.credits - Len(commands_pending_response)
         posted == IF credits <= 0 THEN 0
                   ELSE IF credits <= Len(command_queue) THEN credits
                   ELSE Len(command_queue)
     IN /\ tasks' = tasks \o SubSeq(command_queue, 1, posted)
        /\ command_queue' = SubSeq(command_queue, posted + 1, Len(command_queue))
        /\ command_credits' = credits - posted
  /\ rx' = rx_idle
  /\ UNCHANGED <<commands_pending_response, hci, alarm, timerVars,
                 controllerVars, process, submitted, transmitted, outcome>>

-------------------------------------------------------------------------------
(* alarm thread *)

\* The alarm callback thread takes the expired command_response_timer.
response_timer_expires ==
  /\ alive /\ alarm = "idle"
  /\ response_timer = "set"
  /\ response_timer' = "off"
  /\ alarm' = "timed_out"
  /\ UNCHANGED <<hostVars, hci, rx, abort_timer, cmd_stats, firmware_log,
                 controllerVars, process, submitted, transmitted, outcome>>

\* Mutant: the timeout is extended even when no packet arrived.
Extendable_always == cmd_stats.monitor = "on" /\ cmd_stats.lapsed < MAX_CMD_TIMEOUT

\* May the timeout be extended because packets keep arriving?
Extendable ==
  /\ cmd_stats.monitor = "on"
  /\ cmd_stats.rx > cmd_stats.prev
  /\ cmd_stats.lapsed < MAX_CMD_TIMEOUT

\* Mutant: the extension is not clamped to MAX_CMD_TIMEOUT.
extended_timeout_unclamped == (cmd_stats.rx - cmd_stats.prev) * INC_TIMEOUT_THRESHOLD

\* The extension: proportional to the packets seen, within MAX_CMD_TIMEOUT.
extended_timeout ==
  LET remaining == MAX_CMD_TIMEOUT - cmd_stats.lapsed
      wanted == (cmd_stats.rx - cmd_stats.prev) * INC_TIMEOUT_THRESHOLD
  IN IF wanted > remaining THEN remaining ELSE wanted

\* command_timed_out, under commands_pending_response_mutex.
command_timed_out ==
  /\ alive /\ alarm = "timed_out"
  /\ \/ /\ commands_pending_response = <<>>
        /\ alarm' = "idle"
        /\ UNCHANGED <<response_timer, cmd_stats>>
     \/ /\ commands_pending_response # <<>>
        /\ Extendable
        /\ cmd_stats' = [monitor |-> "on",
                         lapsed |-> cmd_stats.lapsed + extended_timeout,
                         rx |-> cmd_stats.rx, prev |-> cmd_stats.rx]
        /\ response_timer' = "set"
        /\ alarm' = "idle"
     \/ /\ commands_pending_response # <<>>
        /\ ~Extendable
        /\ alarm' = "dump"
        /\ UNCHANGED <<response_timer, cmd_stats>>
  /\ UNCHANGED <<hostVars, hci, rx, abort_timer, firmware_log,
                 controllerVars, process, submitted, transmitted, outcome>>

\* command_timed_out after lock.unlock(): at most one firmware dump, then the
\* abort timer. The dump command bypasses the credits and the pending list.
request_firmware_dump ==
  /\ alive /\ alarm = "dump"
  /\ alarm' = "idle"
  /\ \/ /\ abort_timer = "set" \/ firmware_log = "open"
        /\ UNCHANGED <<firmware_log, abort_timer, process>>
     \/ /\ abort_timer = "off" /\ firmware_log = "closed"
        /\ \/ /\ firmware_log' \in {"closed", "open"}
              /\ abort_timer' = "set"
              /\ UNCHANGED process
           \/ /\ process' = "killed"
              /\ UNCHANGED <<firmware_log, abort_timer>>
  /\ UNCHANGED <<hostVars, hci, rx, response_timer, cmd_stats, controllerVars,
                 submitted, transmitted, outcome>>

\* hci_timeout_abort: the process kills itself.
hci_timeout_abort ==
  /\ alive /\ alarm = "idle"
  /\ abort_timer = "set"
  /\ abort_timer' = "off"
  /\ process' = "killed"
  /\ UNCHANGED <<hostVars, hci, rx, alarm, response_timer, cmd_stats,
                 firmware_log, controllerVars, submitted, transmitted, outcome>>

-------------------------------------------------------------------------------
(* The controller, external: it answers the commands it holds in any order. *)

SendEvent(type, opcode, credits) ==
  events' = Append(events, [type |-> type, opcode |-> opcode, credits |-> credits])

controller_answers(c, credits) ==
  /\ c \in inbox
  /\ inbox' = inbox \ {c}
  /\ SendEvent(IF c \in StatusCommands THEN "status" ELSE "complete",
               OpcodeOf[c], credits)
  /\ reported' = credits
  /\ UNCHANGED <<hostVars, hci, rx, alarm, timerVars, unsolicited, process,
                 submitted, transmitted, outcome>>

\* A Command Complete event for no command, to report credits again.
controller_grants(credits) ==
  /\ reported = 0 \/ (SpuriousNop /\ unsolicited < MaxUnsolicited)
  /\ unsolicited' = IF reported = 0 THEN unsolicited ELSE unsolicited + 1
  /\ SendEvent("complete", HCI_COMMAND_NONE, credits)
  /\ reported' = credits
  /\ UNCHANGED <<hostVars, hci, rx, alarm, timerVars, inbox, process,
                 submitted, transmitted, outcome>>

\* Firmware debug events, and every event the command path does not consume.
controller_notifies(type) ==
  /\ unsolicited < MaxUnsolicited
  /\ type = "debug" => DebugEvents
  /\ unsolicited' = unsolicited + 1
  /\ SendEvent(type, HCI_COMMAND_NONE, 0)
  /\ UNCHANGED <<hostVars, hci, rx, alarm, timerVars, inbox, reported,
                 process, submitted, transmitted, outcome>>

Controller ==
  /\ alive
  /\ \/ \E c \in inbox, credits \in 0 .. MaxCredits : controller_answers(c, credits)
     \/ \E credits \in 1 .. MaxCredits : controller_grants(credits)
     \/ \E type \in {"debug", "other"} : controller_notifies(type)

-------------------------------------------------------------------------------

Clients == \E c \in Commands : enqueue_command(c)
HciThread == event_command_ready \/ transmit_fragment \/ event_command_sent
RxThread ==
  hci_event_received \/ filter_incoming_event \/ command_answered
    \/ process_command_credits
AlarmThread ==
  response_timer_expires \/ command_timed_out \/ request_firmware_dump
    \/ hci_timeout_abort

Next == Clients \/ HciThread \/ RxThread \/ AlarmThread \/ Controller

Spec == Init /\ [][Next]_vars

\* Every thread of the host is scheduled; nothing is assumed of the controller.
HostFairness == WF_vars(HciThread) /\ WF_vars(RxThread) /\ WF_vars(AlarmThread)

\* The controller answers what it holds and grants credits it withheld.
ControllerFairness ==
  /\ WF_vars(\E c \in inbox, credits \in 0 .. MaxCredits :
               alive /\ controller_answers(c, credits))
  /\ WF_vars(\E credits \in 1 .. MaxCredits : alive /\ controller_grants(credits))

FairSpec == Spec /\ HostFairness

-------------------------------------------------------------------------------
(* Properties *)

HostType ==
  /\ command_credits \in Int
  /\ command_queue \in Seq(Commands)
  /\ tasks \in Seq(Commands)
  /\ commands_pending_response \in Seq(Commands)

HciThreadType ==
  hci \in [pc : {"idle", "send", "timer"}, entry : Commands \cup {NoCommand}]

RxThreadType ==
  rx \in [pc : {"idle", "filter", "timer", "credits"},
          entry : Commands \cup {NoCommand}, event : Event]

TimerType ==
  /\ alarm \in {"idle", "timed_out", "dump"}
  /\ response_timer \in {"off", "set"}
  /\ abort_timer \in {"off", "set"}
  /\ firmware_log \in {"closed", "open"}
  /\ process \in {"up", "killed"}

StatsType ==
  cmd_stats \in [monitor : {"off", "on"}, lapsed : 0 .. MAX_CMD_TIMEOUT,
                 rx : Nat, prev : Nat]

ControllerType ==
  /\ inbox \subseteq Commands
  /\ events \in Seq(Event)
  /\ reported \in 0 .. MaxCredits
  /\ unsolicited \in Nat

HistoryType ==
  /\ submitted \in Seq(Commands)
  /\ transmitted \in Seq(Commands)
  /\ outcome \in [Commands -> {"none", "complete", "status"}]

\* Every variable has its type; in particular the total timeout of a pending
\* command never exceeds MAX_CMD_TIMEOUT however often it is extended.
TypeOK ==
  /\ HostType
  /\ HciThreadType
  /\ RxThreadType
  /\ TimerType
  /\ StatsType
  /\ ControllerType
  /\ HistoryType

\* The command hci_thread has appended to the pending list but not yet sent.
InHand == IF hci.pc = "send" THEN <<hci.entry>> ELSE <<>>

\* The command rx has taken off the pending list but not yet resolved.
Matched == IF rx.pc = "timer" THEN {rx.entry} ELSE {}

Resolved == {c \in Commands : outcome[c] # "none"}

\* Commands reach the transport in the order enqueue_command took them: none is
\* lost, duplicated or overtaken on its way through command_queue, the message
\* loop and hci_thread, although credits are updated by another thread.
CommandsInOrder ==
  submitted = transmitted \o InHand \o tasks \o command_queue

\* Every command handed to the transport is in exactly one place: pending an
\* answer, matched by rx, or resolved; answers resolve nothing else. The entry
\* hci_thread is about to transmit is still pending, even when an older command
\* with the same opcode is answered meanwhile. (An event for no command, which
\* get_waiting_command takes for the answer to any vendor-specific one, can match
\* a vendor-specific command that early.)
AnswersAccounted ==
  LET pending == Range(commands_pending_response)
  IN /\ IsInjective(commands_pending_response)
     /\ pending \cup Matched \cup Resolved = Range(transmitted \o InHand)
     /\ pending \cap Matched = {}
     /\ (pending \cup Matched) \cap Resolved = {}
     /\ hci.pc = "send" /\ OpcodeOf[hci.entry] \notin VendorOpcodes =>
          hci.entry \in pending

\* The watchdog never sleeps on a pending command: the response timer or the
\* abort timer is set, or a thread is on its way to update_command_response_timer
\* or through command_timed_out. (A firmware log that a debug event has opened
\* makes command_timed_out give up the watch.)
PendingIsWatched ==
  alive /\ commands_pending_response # <<>> =>
    \/ response_timer = "set" \/ abort_timer = "set" \/ firmware_log = "open"
    \/ hci.pc # "idle" \/ rx.pc = "timer" \/ alarm # "idle"

\* The timeout of a pending command is extended a bounded number of times and
\* then the process is aborted: no command (there are finitely many) stays
\* pending forever, unless a debug event has opened the firmware log.
AbortsUnanswered ==
  []<>(commands_pending_response = <<>> \/ ~alive \/ firmware_log = "open")

\* A controller that answers and grants credits resolves every command that was
\* submitted: no command is stranded in command_queue with nothing in flight.
EveryCommandResolved ==
  ControllerFairness => []<>(Range(submitted) \subseteq Resolved \/ ~alive)

\* process_command_credits posts a command only while the commands in flight
\* stay within the number of commands the controller just said it accepts.
WithinReportedCredits ==
  [][process_command_credits =>
       \/ tasks' = tasks
       \/ Len(tasks') + Len(commands_pending_response') <= rx.event.credits]_vars
===============================================================================
