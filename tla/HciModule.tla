------------------------------ MODULE HciModule ------------------------------
(***************************************************************************)
(* The life cycle of the HCI layer (hci/src/hci_layer.cc): start_up, the   *)
(* asynchronous initialisation, the startup timer, shut_down and the next  *)
(* session, with commands submitted at any time. It is composed with the   *)
(* alarm service as AlarmSpec describes it, and models the locks that the  *)
(* threads of both sides hold while they wait for each other:              *)
(*   main   runs start_up, awaits its future and runs shut_down;           *)
(*   hci    hci_thread, the message loop;                                  *)
(*   rx     the transport's callback thread;                               *)
(*   default  the alarm callback thread.                                   *)
(***************************************************************************)
EXTENDS Integers, Sequences, Functions

CONSTANTS
  Commands,      \* the commands clients may submit
  MaxSessions,   \* bound on calls of start_up
  ThreadMayFail  \* may thread_new return NULL?

ASSUME SessionAssumption == MaxSessions \in Nat \ {0} /\ ThreadMayFail \in BOOLEAN
ASSUME CommandAssumption == Commands \cap {"initialize", "finish", "quit"} = {}

Timers == {"startup_timer", "command_response_timer", "hci_timeout_abort_timer"}
PendingList == "commands_pending_response"
NoAlarm == "no_alarm"
AlarmThread == "default"
HciThreads == {"main", "hci", "rx", AlarmThread}
TimerTarget == [a \in Timers |-> AlarmThread]

VARIABLES
  at,              \* per thread: where it is
  session,         \* history: the number of calls of start_up
  mutex,           \* commands_pending_response_mutex: its owner, or "free"
  allocated,       \* the timers and the list that are not NULL
  message_loop_,   \* "null" or "running"
  tasks,           \* closures posted to message_loop_
  hal,             \* external: "closed", "opening", "complete"
  startup_future,  \* "null", or "pending"
  result,          \* what the future of this session was made ready with
  command_credits, command_queue,
  commands_pending_response, \* the list's elements
  process,         \* "up", "killed", "crashed" by a failed CHECK, or
                   \* "null_loop", a NULL message loop dereferenced
  issued,          \* history: per command, the session it was submitted in
  sent,            \* history: per command, the session it was sent in
  status, fires, calling, waiting  \* the alarm service

alarmVars == <<status, fires, calling, waiting>>
commandVars == <<command_credits, command_queue, commands_pending_response>>
startupVars == <<hal, startup_future, result>>
loopVars == <<message_loop_, tasks>>
vars == <<at, session, mutex, allocated, loopVars, startupVars, commandVars,
          process, issued, sent, alarmVars>>

A == INSTANCE AlarmSpec WITH
       Alarms <- Timers, PeriodicAlarms <- {}, Target <- TimerTarget,
       Threads <- HciThreads, CallbackThreads <- {AlarmThread}

Init ==
  /\ at = [t \in HciThreads |->
             IF t = "main" THEN "down" ELSE IF t = "hci" THEN "none" ELSE "idle"]
  /\ session = 0
  /\ mutex = "free"
  /\ allocated = {}
  /\ message_loop_ = "null"
  /\ tasks = <<>>
  /\ hal = "closed"
  /\ startup_future = "null"
  /\ result = "none"
  /\ command_credits = 1
  /\ command_queue = <<>>
  /\ commands_pending_response = <<>>
  /\ process = "up"
  /\ issued = [c \in Commands |-> 0]
  /\ sent = [c \in Commands |-> 0]
  /\ A!Init

Goto(t, pc) == at' = [at EXCEPT ![t] = pc]

\* main goes on and hci_thread begins, or has ended.
GotoBoth(main, hci) == at' = [[at EXCEPT !["main"] = main] EXCEPT !["hci"] = hci]

\* A step of |t| at |pc|; one that takes the mutex; one that releases it; one
\* that is a whole critical section.
Step(t, pc) == process = "up" /\ at[t] = pc /\ UNCHANGED mutex
Acquire(t, pc) == process = "up" /\ at[t] = pc /\ mutex = "free" /\ mutex' = t
Release(t, pc) == process = "up" /\ at[t] = pc /\ mutex = t /\ mutex' = "free"
Section(t, pc) == Step(t, pc) /\ mutex = "free"

-------------------------------------------------------------------------------
(* if (alarm_is_scheduled(a)) alarm_cancel(a): three steps, since neither the
   check nor the wait for a callback in progress is covered by a lock of the
   alarm service *)

alarm_is_scheduled(t, a, pc, yes, no) ==
  /\ Step(t, pc)
  /\ Goto(t, IF status[a] = "scheduled" THEN yes ELSE no)
  /\ UNCHANGED <<session, allocated, loopVars, startupVars, commandVars, process,
                 issued, sent, alarmVars>>

alarm_cancel(t, a, pc, next) ==
  /\ Step(t, pc)
  /\ A!Cancel(t, a)
  /\ Goto(t, next)
  /\ UNCHANGED <<session, allocated, loopVars, startupVars, commandVars, process,
                 issued, sent>>

alarm_cancel_returns(t, pc, next) ==
  /\ Step(t, pc)
  /\ A!CancelReturns(t)
  /\ Goto(t, next)
  /\ UNCHANGED <<session, allocated, loopVars, startupVars, commandVars, process,
                 issued, sent>>

CancelIfScheduled(t, a, pcs, next) ==
  \/ alarm_is_scheduled(t, a, pcs.check, pcs.cancel, next)
  \/ alarm_cancel(t, a, pcs.cancel, pcs.wait)
  \/ alarm_cancel_returns(t, pcs.wait, next)

Finish == [check |-> "finish_check", cancel |-> "finish_cancel", wait |-> "finish_wait"]
Update == [check |-> "update_check", cancel |-> "update_cancel", wait |-> "update_wait"]
FreeResponse == [check |-> "response_check", cancel |-> "response_cancel",
                 wait |-> "response_wait"]
FreeStartup == [check |-> "startup_check", cancel |-> "startup_cancel",
                wait |-> "startup_wait"]
FreeAbort == [check |-> "abort_check", cancel |-> "abort_cancel", wait |-> "abort_wait"]

-------------------------------------------------------------------------------
(* main: module_start_up and module_shut_down of HCI_MODULE *)

\* Mutant: the startup timer is not set.
hci_module_start_up_untimed ==
  /\ Step("main", "down")
  /\ session < MaxSessions
  /\ session' = session + 1
  /\ command_credits' = 1
  /\ allocated' = allocated \cup {"startup_timer", "command_response_timer", PendingList}
  /\ startup_future' = "pending"
  /\ result' = "pending"
  /\ GotoBoth("await", "spawned")
  /\ UNCHANGED <<loopVars, hal, command_queue, commands_pending_response, process,
                 issued, sent, alarmVars>>

\* hci_module_start_up. command_queue keeps what the last session left in it.
hci_module_start_up ==
  /\ Step("main", "down")
  /\ session < MaxSessions
  /\ session' = session + 1
  /\ command_credits' = 1
  /\ allocated' = allocated \cup {"startup_timer", "command_response_timer", PendingList}
  /\ startup_future' = "pending"
  /\ result' = "pending"
  /\ A!Set("startup_timer")
  /\ GotoBoth("await", "spawned")
  /\ UNCHANGED <<loopVars, hal, command_queue, commands_pending_response, process,
                 issued, sent>>

\* hci_module_start_up, no thread: the timers exist, and the error path runs
\* hci_module_shut_down, whose hci_close finds no transport.
start_up_error ==
  /\ ThreadMayFail
  /\ Step("main", "down")
  /\ session < MaxSessions
  /\ session' = session + 1
  /\ command_credits' = 1
  /\ allocated' = allocated \cup {"startup_timer", "command_response_timer"}
  /\ result' = "fail"
  /\ Goto("main", "free_lock")
  /\ UNCHANGED <<loopVars, hal, startup_future, command_queue,
                 commands_pending_response, process, issued, sent, alarmVars>>

\* future_await returns: bte_main_enable kills the process on a failure.
start_up_awaited ==
  /\ Step("main", "await")
  /\ result # "pending"
  /\ Goto("main", "up")
  /\ process' = IF result = "success" THEN "up" ELSE "killed"
  /\ UNCHANGED <<session, allocated, loopVars, startupVars, commandVars, issued,
                 sent, alarmVars>>

\* hci_module_shut_down up to hci_close, which returns when no callback of the
\* transport is in progress.
hci_close ==
  /\ Step("main", "up")
  /\ at["rx"] = "idle"
  /\ hal' = "closed"
  /\ Goto("main", "free_lock")
  /\ UNCHANGED <<session, allocated, loopVars, startup_future, result, commandVars,
                 process, issued, sent, alarmVars>>

shut_down_locks ==
  /\ Acquire("main", "free_lock")
  /\ Goto("main", FreeResponse.check)
  /\ UNCHANGED <<session, allocated, loopVars, startupVars, commandVars, process,
                 issued, sent, alarmVars>>

\* The two alarm_free calls are done: both timers are NULL.
shut_down_unlocks ==
  /\ Release("main", "free_unlock")
  /\ allocated' = allocated \ {"startup_timer", "command_response_timer"}
  /\ Goto("main", "quit")
  /\ UNCHANGED <<session, loopVars, startupVars, commandVars, process, issued,
                 sent, alarmVars>>

shut_down_quits ==
  /\ Step("main", "quit")
  /\ IF message_loop_ = "null"
     THEN process' = "null_loop" /\ UNCHANGED tasks
     ELSE tasks' = Append(tasks, "quit") /\ UNCHANGED process
  /\ Goto("main", "join")
  /\ UNCHANGED <<session, allocated, message_loop_, startupVars, commandVars,
                 issued, sent, alarmVars>>

\* Mutant: the thread is not joined.
shut_down_joins_not ==
  /\ Section("main", "join")
  /\ Goto("main", "free_abort")
  /\ allocated' = allocated \ {PendingList}
  /\ commands_pending_response' = <<>>
  /\ UNCHANGED <<session, loopVars, startupVars, command_credits, command_queue,
                 process, issued, sent, alarmVars>>

\* thread_join, then the list is freed.
shut_down_joins ==
  /\ Section("main", "join")
  /\ at["hci"] = "exited"
  /\ GotoBoth("free_abort", "none")
  /\ allocated' = allocated \ {PendingList}
  /\ commands_pending_response' = <<>>
  /\ UNCHANGED <<session, loopVars, startupVars, command_credits, command_queue,
                 process, issued, sent, alarmVars>>

\* The abort timer is looked at without a lock.
shut_down_finds_abort_timer ==
  /\ Step("main", "free_abort")
  /\ Goto("main", IF "hci_timeout_abort_timer" \in allocated
                  THEN FreeAbort.check ELSE "down")
  /\ UNCHANGED <<session, allocated, loopVars, startupVars, commandVars, process,
                 issued, sent, alarmVars>>

shut_down_frees_abort_timer ==
  /\ Step("main", "abort_free")
  /\ allocated' = allocated \ {"hci_timeout_abort_timer"}
  /\ Goto("main", "down")
  /\ UNCHANGED <<session, loopVars, startupVars, commandVars, process, issued,
                 sent, alarmVars>>

hci_module_shut_down ==
  \/ hci_close
  \/ shut_down_locks
  \/ CancelIfScheduled("main", "command_response_timer", FreeResponse, FreeStartup.check)
  \/ CancelIfScheduled("main", "startup_timer", FreeStartup, "free_unlock")
  \/ shut_down_unlocks
  \/ shut_down_quits
  \/ shut_down_joins
  \/ shut_down_finds_abort_timer
  \/ CancelIfScheduled("main", "hci_timeout_abort_timer", FreeAbort, "abort_free")
  \/ shut_down_frees_abort_timer

-------------------------------------------------------------------------------
(* hci_thread *)

message_loop_run ==
  /\ Step("hci", "spawned")
  /\ message_loop_' = "running"
  /\ tasks' = <<"initialize">>
  /\ Goto("hci", "loop")
  /\ UNCHANGED <<session, allocated, startupVars, commandVars, process, issued,
                 sent, alarmVars>>

NextTask(task, pc) ==
  /\ Step("hci", "loop")
  /\ tasks # <<>> /\ Head(tasks) = task
  /\ tasks' = Tail(tasks)
  /\ Goto("hci", pc)

\* hci_initialize: the transport starts its own initialisation, or its daemon
\* has died.
hci_initialize ==
  /\ NextTask("initialize", "loop")
  /\ hal' \in {"opening", "closed"}
  /\ UNCHANGED <<session, allocated, message_loop_, startup_future, result,
                 commandVars, process, issued, sent, alarmVars>>

event_finish_startup ==
  /\ NextTask("finish", "finish_lock")
  /\ UNCHANGED <<session, allocated, message_loop_, startupVars, commandVars,
                 process, issued, sent, alarmVars>>

finish_startup_locks ==
  /\ Acquire("hci", "finish_lock")
  /\ Goto("hci", Finish.check)
  /\ UNCHANGED <<session, allocated, loopVars, startupVars, commandVars, process,
                 issued, sent, alarmVars>>

\* Mutant: the future is made ready without looking whether it was before.
finish_startup_ready_unchecked ==
  /\ Release("hci", "finish_ready")
  /\ startup_future' = "null"
  /\ result' = "success"
  /\ Goto("hci", "loop")
  /\ UNCHANGED <<session, allocated, loopVars, hal, commandVars, process, issued,
                 sent, alarmVars>>

finish_startup_ready ==
  /\ Release("hci", "finish_ready")
  /\ startup_future' = "null"
  /\ result' = IF startup_future = "pending" THEN "success" ELSE result
  /\ Goto("hci", "loop")
  /\ UNCHANGED <<session, allocated, loopVars, hal, commandVars, process, issued,
                 sent, alarmVars>>

\* event_command_ready up to its first critical section.
event_command_ready(c) ==
  /\ mutex = "free"
  /\ NextTask(c, "send")
  /\ commands_pending_response' = Append(commands_pending_response, c)
  /\ UNCHANGED <<session, allocated, message_loop_, startupVars, command_credits,
                 command_queue, process, issued, sent, alarmVars>>

\* transmit_fragment: a closed transport drops the command, a dead one kills.
transmit_fragment ==
  /\ Step("hci", "send")
  /\ \/ /\ hal # "closed"
        /\ LET c == commands_pending_response[Len(commands_pending_response)]
           IN sent' = [sent EXCEPT ![c] = session]
        /\ UNCHANGED process
     \/ /\ hal = "closed"
        /\ UNCHANGED <<sent, process>>
     \/ /\ hal # "closed"
        /\ process' = "killed"
        /\ UNCHANGED sent
  /\ Goto("hci", "update_lock")
  /\ UNCHANGED <<session, allocated, loopVars, startupVars, commandVars, issued,
                 alarmVars>>

\* The quit closure ends the run loop; what is still posted is deleted.
message_loop_ends ==
  /\ NextTask("quit", "ending")
  /\ UNCHANGED <<session, allocated, message_loop_, startupVars, commandVars,
                 process, issued, sent, alarmVars>>

message_loop_deleted ==
  /\ Step("hci", "ending")
  /\ message_loop_' = "null"
  /\ tasks' = <<>>
  /\ Goto("hci", "exited")
  /\ UNCHANGED <<session, allocated, startupVars, commandVars, process, issued,
                 sent, alarmVars>>

-------------------------------------------------------------------------------
(* update_command_response_timer, on hci_thread and on the rx thread *)

After(t) == IF t = "hci" THEN "loop" ELSE "credits"

\* No timer, or commands pending: one critical section. alarm_set waits for no
\* callback.
update_command_response_timer(t) ==
  /\ Section(t, "update_lock")
  /\ \/ /\ "command_response_timer" \notin allocated
        /\ UNCHANGED alarmVars
     \/ /\ "command_response_timer" \in allocated
        /\ commands_pending_response # <<>>
        /\ A!Set("command_response_timer")
  /\ Goto(t, After(t))
  /\ UNCHANGED <<session, allocated, loopVars, startupVars, commandVars, process,
                 issued, sent>>

\* Nothing pending: the timer is cancelled with the mutex held.
update_command_response_timer_locks(t) ==
  /\ "command_response_timer" \in allocated
  /\ commands_pending_response = <<>>
  /\ Acquire(t, "update_lock")
  /\ Goto(t, Update.check)
  /\ UNCHANGED <<session, allocated, loopVars, startupVars, commandVars, process,
                 issued, sent, alarmVars>>

update_command_response_timer_unlocks(t) ==
  /\ Release(t, "update_unlock")
  /\ Goto(t, After(t))
  /\ UNCHANGED <<session, allocated, loopVars, startupVars, commandVars, process,
                 issued, sent, alarmVars>>

UpdateTimer(t) ==
  \/ update_command_response_timer(t)
  \/ update_command_response_timer_locks(t)
  \/ CancelIfScheduled(t, "command_response_timer", Update, "update_unlock")
  \/ update_command_response_timer_unlocks(t)

hci_thread ==
  \/ message_loop_run
  \/ hci_initialize
  \/ event_finish_startup
  \/ finish_startup_locks
  \/ CancelIfScheduled("hci", "startup_timer", Finish, "finish_ready")
  \/ finish_startup_ready
  \/ \E c \in Commands : event_command_ready(c)
  \/ transmit_fragment
  \/ UpdateTimer("hci")
  \/ message_loop_ends
  \/ message_loop_deleted

-------------------------------------------------------------------------------
(* The transport and the rx thread *)

\* The transport reports that it is initialised; a transport that failed, or
\* never answers, is one that stays "opening".
initialization_complete ==
  /\ process = "up"
  /\ hal = "opening"
  /\ hal' = "complete"
  /\ tasks' = Append(tasks, "finish")
  /\ UNCHANGED <<at, mutex, session, allocated, message_loop_, startup_future,
                 result, commandVars, process, issued, sent, alarmVars>>

\* filter_incoming_event: the controller's answer to c takes c off the list.
filter_incoming_event(c) ==
  /\ Section("rx", "idle")
  /\ hal # "closed"
  /\ sent[c] = session
  /\ c \in Range(commands_pending_response)
  /\ commands_pending_response' = SelectSeq(commands_pending_response, LAMBDA d : d # c)
  /\ Goto("rx", "update_lock")
  /\ UNCHANGED <<session, allocated, loopVars, startupVars, command_credits,
                 command_queue, process, issued, sent, alarmVars>>

\* process_command_credits, for a controller that reports one credit.
process_command_credits ==
  /\ Section("rx", "credits")
  /\ IF message_loop_ = "null" THEN UNCHANGED <<command_credits, command_queue, tasks>>
     ELSE LET credits == 1 - Len(commands_pending_response)
              post == credits > 0 /\ command_queue # <<>>
          IN /\ tasks' = IF post THEN Append(tasks, Head(command_queue)) ELSE tasks
             /\ command_queue' = IF post THEN Tail(command_queue) ELSE command_queue
             /\ command_credits' = IF post THEN credits - 1 ELSE credits
  /\ Goto("rx", "idle")
  /\ UNCHANGED <<session, allocated, message_loop_, startupVars,
                 commands_pending_response, process, issued, sent, alarmVars>>

-------------------------------------------------------------------------------
(* Clients. They are started after the layer is up and stopped after it is
   shut down (bte_main_enable, bte_main_disable) *)

enqueue_command(c) ==
  /\ process = "up"
  /\ session > 0 /\ at["main"] # "await"
  /\ issued[c] = 0
  /\ issued' = [issued EXCEPT ![c] = session]
  /\ \/ /\ command_credits > 0 /\ message_loop_ = "running"
        /\ tasks' = Append(tasks, c)
        /\ command_credits' = command_credits - 1
        /\ UNCHANGED command_queue
     \/ /\ command_credits > 0 /\ message_loop_ = "null"
        /\ UNCHANGED <<tasks, command_credits, command_queue>>
     \/ /\ command_credits <= 0
        /\ command_queue' = Append(command_queue, c)
        /\ UNCHANGED <<tasks, command_credits>>
  /\ UNCHANGED <<at, mutex, session, allocated, message_loop_, startupVars,
                 commands_pending_response, process, sent, alarmVars>>

-------------------------------------------------------------------------------
(* The alarm callback thread *)

alarm_expires(a) ==
  /\ process = "up"
  /\ A!Expire(a)
  /\ UNCHANGED <<at, mutex, session, allocated, loopVars, startupVars, commandVars,
                 process, issued, sent>>

\* The callback of |a| starts; it has the name of the alarm here.
callback_begins(a) ==
  /\ Step(AlarmThread, "idle")
  /\ A!Call(a)
  /\ Goto(AlarmThread, a)
  /\ UNCHANGED <<session, allocated, loopVars, startupVars, commandVars, process,
                 issued, sent>>

callback_returns ==
  /\ Step(AlarmThread, "return")
  /\ A!Return(AlarmThread)
  /\ Goto(AlarmThread, "idle")
  /\ UNCHANGED <<session, allocated, loopVars, startupVars, commandVars, process,
                 issued, sent>>

startup_timer_expired ==
  /\ Section(AlarmThread, "startup_timer")
  /\ startup_future' = "null"
  /\ result' = IF startup_future = "pending" THEN "fail" ELSE result
  /\ Goto(AlarmThread, "return")
  /\ UNCHANGED <<session, allocated, loopVars, hal, commandVars, process, issued,
                 sent, alarmVars>>

\* command_timed_out, its critical section: nothing pending, more time, or a
\* dump. A NULL list fails list_length's CHECK, a NULL timer alarm_set's.
command_timed_out ==
  /\ Section(AlarmThread, "command_response_timer")
  /\ \/ /\ PendingList \notin allocated
        /\ process' = "crashed"
        /\ UNCHANGED <<at, alarmVars>>
     \/ /\ PendingList \in allocated
        /\ commands_pending_response = <<>>
        /\ Goto(AlarmThread, "return")
        /\ UNCHANGED <<process, alarmVars>>
     \/ /\ commands_pending_response # <<>>
        /\ "command_response_timer" \in allocated
        /\ A!Set("command_response_timer")
        /\ Goto(AlarmThread, "return")
        /\ UNCHANGED process
     \/ /\ commands_pending_response # <<>>
        /\ "command_response_timer" \notin allocated
        /\ process' = "crashed"
        /\ UNCHANGED <<at, alarmVars>>
     \/ /\ commands_pending_response # <<>>
        /\ Goto(AlarmThread, "dump")
        /\ UNCHANGED <<process, alarmVars>>
  /\ UNCHANGED <<session, allocated, loopVars, startupVars, commandVars, issued, sent>>

\* The rest of command_timed_out, the mutex released: unless a dump is under
\* way, the abort timer is created and set.
request_firmware_dump ==
  /\ Step(AlarmThread, "dump")
  /\ IF "hci_timeout_abort_timer" \in allocated
     THEN UNCHANGED <<allocated, alarmVars>>
     ELSE /\ allocated' = allocated \cup {"hci_timeout_abort_timer"}
          /\ A!Set("hci_timeout_abort_timer")
  /\ Goto(AlarmThread, "return")
  /\ UNCHANGED <<session, loopVars, startupVars, commandVars, process, issued, sent>>

hci_timeout_abort ==
  /\ Step(AlarmThread, "hci_timeout_abort_timer")
  /\ process' = "killed"
  /\ UNCHANGED <<at, session, allocated, loopVars, startupVars, commandVars,
                 issued, sent, alarmVars>>

alarm_thread ==
  \/ \E a \in Timers : callback_begins(a)
  \/ callback_returns
  \/ startup_timer_expired
  \/ command_timed_out
  \/ request_firmware_dump
  \/ hci_timeout_abort

-------------------------------------------------------------------------------

rx_thread == UpdateTimer("rx") \/ process_command_credits

Next ==
  \/ hci_module_start_up
  \/ start_up_error
  \/ start_up_awaited
  \/ hci_module_shut_down
  \/ hci_thread
  \/ initialization_complete
  \/ \E c \in Commands : filter_incoming_event(c) \/ enqueue_command(c)
  \/ rx_thread
  \/ \E a \in Timers : alarm_expires(a)
  \/ alarm_thread

Spec == Init /\ [][Next]_vars

\* Threads that can step do, a set alarm expires, and a thread waiting for the
\* mutex gets it in the end. Nothing is assumed of the transport or clients.
Fairness ==
  /\ SF_vars(start_up_awaited)
  /\ SF_vars(hci_thread)
  /\ SF_vars(rx_thread)
  /\ SF_vars(alarm_thread)
  /\ \A a \in Timers : WF_vars(alarm_expires(a))

FairSpec == Spec /\ Fairness

-------------------------------------------------------------------------------

\* Every variable has its type: program counters, timers and the startup result.
TypeOK ==
  /\ session \in 0 .. MaxSessions
  /\ mutex \in {"free", "main", "hci", "rx"}
  /\ allocated \subseteq Timers \cup {PendingList}
  /\ message_loop_ \in {"null", "running"}
  /\ Range(tasks) \subseteq Commands \cup {"initialize", "finish", "quit"}
  /\ hal \in {"closed", "opening", "complete"}
  /\ startup_future \in {"null", "pending"}
  /\ result \in {"none", "pending", "success", "fail"}
  /\ command_credits \in Int
  /\ Range(command_queue) \cup Range(commands_pending_response) \subseteq Commands
  /\ process \in {"up", "killed", "crashed", "null_loop"}
  /\ issued \in [Commands -> 0 .. MaxSessions]
  /\ sent \in [Commands -> 0 .. MaxSessions]

\* The startup future is made ready once per session, whether the transport's
\* answer or the startup timer comes first: event_finish_startup and
\* startup_timer_expired race, and future_ready fails its CHECK the second time.
StartupReadyOnce ==
  [][result' # result => \/ result = "pending" /\ result' \in {"success", "fail"}
                         \/ /\ session' = session + 1
                            /\ result' = "pending" <=> startup_future' = "pending"]_vars

\* Between two sessions the layer is at rest: no thread, no message loop, no
\* closure left to run in the next session, no startup or response timer set.
RestsBetweenSessions ==
  (at["main"] = "down" /\ process = "up") =>
    /\ at["hci"] = "none" /\ message_loop_ = "null" /\ tasks = <<>>
    /\ at["rx"] = "idle" /\ mutex = "free" /\ waiting["main"] = NoAlarm
    /\ \A a \in Timers \ {"hci_timeout_abort_timer"} : status[a] = "idle"

\* shut_down always finds the message loop it posts the quit closure to, which
\* hci_module_shut_down does not test for NULL: a start_up that failed before
\* hci_thread made the loop never gets to shut_down, if its thread exists.
QuitFindsLoop == process # "null_loop"

\* A transport that does not complete its initialisation is reported: start_up
\* does not wait for ever for it.
SilentTransportReported ==
  at["main"] = "await" ~> (at["main"] # "await" \/ process # "up" \/ hal = "complete")

\* start_up returns in a bounded time, whatever the transport does
\* (hci_module_start_up, "Make sure we run in a bounded amount of time").
StartupBounded == at["main"] = "await" ~> (at["main"] # "await" \/ process # "up")

\* A command is sent in the session it was submitted in: what is submitted to
\* a layer that is shut down is freed (enqueue_command), not kept for the next.
SentInItsSession == \A c \in Commands : sent[c] # 0 => sent[c] = issued[c]

\* list_length is never given a NULL list (its CHECK), nor alarm_set a NULL
\* alarm: command_timed_out does not outlive the list and the timer it uses.
TimeoutFindsItsState == process # "crashed"

\* shut_down cleans up the abort timer if it exists: a session never starts
\* with the abort timer of the one before.
AbortTimerCleanedUp ==
  (at["main"] = "down" /\ process = "up") => "hci_timeout_abort_timer" \notin allocated
==============================================================================
