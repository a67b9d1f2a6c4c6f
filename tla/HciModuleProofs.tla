--------------------------- MODULE HciModuleProofs ---------------------------
(***************************************************************************)
(* Machine-checked proofs about HciModule, for any commands and any number *)
(* of sessions.                                                            *)
(***************************************************************************)
EXTENDS HciModule, SequenceTheorems, TLAPS

MainLocked ==
  {"response_check", "response_cancel", "response_wait",
   "startup_check", "startup_cancel", "startup_wait", "free_unlock"}
UpdateLocked == {"update_check", "update_cancel", "update_wait", "update_unlock"}
HciLocked == {"finish_check", "finish_cancel", "finish_wait", "finish_ready"} \cup UpdateLocked

\* hci_module_shut_down after hci_close: hci_thread may still be there; and when
\* it has been joined, up to the next start_up.
Closing == {"free_lock", "quit", "join"} \cup MainLocked
Over == {"free_abort", "abort_check", "abort_cancel", "abort_wait", "abort_free", "down"}

Places ==
  Closing \cup Over \cup HciLocked \cup Timers
    \cup {"await", "up", "none", "spawned", "loop", "finish_lock", "send", "update_lock",
          "ending", "exited", "idle", "credits", "dump", "return"}

Tasks == Commands \cup {"initialize", "finish", "quit"}

Types ==
  /\ at \in [HciThreads -> Places]
  /\ mutex \in {"free", "main", "hci", "rx"}
  /\ tasks \in Seq(Tasks)
  /\ status \in [Timers -> {"idle", "scheduled"}]
  /\ waiting \in [HciThreads -> Timers \cup {NoAlarm}]

\* The owner of commands_pending_response_mutex is in a critical section.
MutexInv ==
  /\ at["main"] \in MainLocked <=> mutex = "main"
  /\ mutex = "hci" => at["hci"] \in HciLocked
  /\ mutex = "rx" => at["rx"] \in UpdateLocked

\* From hci_close on the transport is closed and the rx thread idle.
TransportInv == at["main"] \in Closing \cup Over => hal = "closed" /\ at["rx"] = "idle"

\* Without a running hci_thread there is no loop, no closure and no transport;
\* hci_thread ends only for shut_down's quit closure, and shut_down waits for it.
LoopInv ==
  /\ at["hci"] \in {"none", "spawned", "exited"} =>
       message_loop_ = "null" /\ tasks = <<>> /\ hal = "closed"
  /\ at["main"] \in Over => at["hci"] = "none"
  /\ "quit" \in Range(tasks) \/ at["hci"] \in {"ending", "exited"} => at["main"] = "join"

\* hci_initialize is the first closure hci_thread runs, and start_up has not
\* succeeded before it.
InitializeFirst(ts) ==
  "initialize" \in Range(ts) => Head(ts) = "initialize" /\ "initialize" \notin Range(Tail(ts))
InitializeInv ==
  /\ InitializeFirst(tasks)
  /\ "initialize" \in Range(tasks) => at["hci"] = "loop"
  /\ "initialize" \in Range(tasks) \/ at["hci"] = "spawned" =>
       at["main"] = "await" /\ result # "success"

\* The future of start_up exists until it is made ready, and start_up awaits it.
FutureInv ==
  /\ startup_future = "pending" <=> result = "pending"
  /\ result = "pending" => at["main"] = "await"

\* A timer that shut_down has cancelled is not set again.
TimerInv ==
  /\ waiting["main"] # NoAlarm => at["main"] \in {"response_wait", "startup_wait", "abort_wait"}
  /\ at["main"] \in {"startup_wait", "free_unlock", "quit", "join"} \cup Over =>
       status["startup_timer"] = "idle"
  /\ at["main"] \in {"response_wait", "startup_check", "startup_cancel", "startup_wait",
                     "free_unlock", "quit", "join"} \cup Over =>
       status["command_response_timer"] = "idle"
  /\ at["main"] \in {"quit", "join"} \cup Over => "command_response_timer" \notin allocated

QueueType == command_queue \in Seq(Commands)

HciInv ==
  process = "up" =>
    /\ Types /\ MutexInv /\ TransportInv /\ LoopInv /\ InitializeInv /\ FutureInv /\ TimerInv

-------------------------------------------------------------------------------

LEMMA Moves ==
  ASSUME Types, NEW t \in HciThreads, NEW pc \in Places, Goto(t, pc)
  PROVE  at' \in [HciThreads -> Places]
  BY Zenon DEF Types, Goto

LEMMA MovesBoth ==
  ASSUME Types, NEW p \in Places, NEW q \in Places, GotoBoth(p, q)
  PROVE  at' \in [HciThreads -> Places]
  BY DEF Types, GotoBoth, HciThreads, AlarmThread

LEMMA AppendTask ==
  ASSUME NEW ts \in Seq(Tasks), NEW x \in Tasks, x # "initialize", InitializeFirst(ts)
  PROVE  /\ Append(ts, x) \in Seq(Tasks) /\ InitializeFirst(Append(ts, x))
         /\ Range(Append(ts, x)) = Range(ts) \cup {x}
<1>1. PICK t : t = Append(ts, x)
  BY Zenon
<1>2. /\ t \in Seq(Tasks) /\ Len(ts) \in Nat /\ DOMAIN ts = 1 .. Len(ts)
      /\ Len(t) = Len(ts) + 1 /\ DOMAIN t = 1 .. Len(ts) + 1
      /\ \A i \in 1 .. Len(ts) : t[i] = ts[i]
      /\ t[Len(ts) + 1] = x
  BY <1>1, AppendProperties, LenProperties, SMTT(30)
<1>3. Range(t) = Range(ts) \cup {x}
  BY <1>2, SMTT(30) DEF Range
<1>4. ASSUME "initialize" \in Range(t)
      PROVE  Head(t) = "initialize" /\ "initialize" \notin Range(Tail(t))
  <2>1. /\ "initialize" \in Range(ts) /\ Head(ts) = "initialize"
        /\ "initialize" \notin Range(Tail(ts))
    BY <1>3, <1>4, Zenon DEF InitializeFirst
  <2>2. ts # <<>> /\ Len(ts) > 0
    BY <1>2, <2>1, EmptySeq, SMTT(30) DEF Range
  <2>3. Head(t) = Head(ts)
    BY <1>2, <2>2, HeadTailProperties, EmptySeq, SMTT(30)
  <2>4. /\ DOMAIN Tail(ts) = 1 .. Len(ts) - 1 /\ \A i \in 1 .. Len(ts) - 1 : Tail(ts)[i] = ts[i + 1]
        /\ DOMAIN Tail(t) = 1 .. Len(ts) /\ \A i \in 1 .. Len(ts) : Tail(t)[i] = t[i + 1]
    BY <1>2, <2>2, HeadTailProperties, LenProperties, EmptySeq, SMTT(30)
  <2>5. \A i \in 1 .. Len(ts) - 1 : ts[i + 1] # "initialize"
    BY <2>1, <2>4, Zenon DEF Range
  <2>6. \A i \in 1 .. Len(ts) : t[i + 1] # "initialize"
    BY <1>2, <2>2, <2>5, SMTT(30)
  <2>7. "initialize" \notin Range(Tail(t))
    BY <2>4, <2>6, SMTT(30) DEF Range
  <2> QED
    BY <2>1, <2>3, <2>7, Zenon
<1> QED
  BY <1>1, <1>2, <1>3, <1>4, Zenon DEF InitializeFirst

LEMMA TakeTask ==
  ASSUME NEW ts \in Seq(Tasks), ts # <<>>, InitializeFirst(ts)
  PROVE  /\ Tail(ts) \in Seq(Tasks) /\ Range(Tail(ts)) \subseteq Range(ts)
         /\ Head(ts) \in Range(ts) /\ "initialize" \notin Range(Tail(ts))
<1>1. PICK t : t = Tail(ts)
  BY Zenon
<1>2. /\ t \in Seq(Tasks) /\ Len(ts) \in Nat \ {0} /\ DOMAIN ts = 1 .. Len(ts)
      /\ Head(ts) = ts[1] /\ DOMAIN t = 1 .. Len(ts) - 1
      /\ \A i \in 1 .. Len(ts) - 1 : t[i] = ts[i + 1]
  BY <1>1, HeadTailProperties, LenProperties, EmptySeq, SMTT(30)
<1>3. Range(t) \subseteq Range(ts) /\ Head(ts) \in Range(ts)
  BY <1>2, SMTT(30) DEF Range
<1>4. "initialize" \notin Range(t)
  BY <1>1, <1>3, Zenon DEF InitializeFirst
<1> QED
  BY <1>1, <1>2, <1>3, <1>4, Zenon

LEMMA NoTask == Range(<<>>) = {}
  BY SMTT(30) DEF Range

LEMMA PlacesStep ==
  ASSUME Types, Next
  PROVE  at' \in [HciThreads -> Places]
<1> USE DEF HciThreads, AlarmThread
<1>1. CASE \/ hci_module_start_up \/ start_up_error \/ start_up_awaited \/ hci_module_shut_down
  <2>1. ASSUME NEW pcs \in {FreeResponse, FreeStartup, FreeAbort}
        PROVE  {pcs.check, pcs.cancel, pcs.wait} \subseteq Places
    BY SMTT(30) DEF FreeResponse, FreeStartup, FreeAbort, Places, Closing, Over, MainLocked
  <2>2. {"await", "spawned", "free_lock", "up", "free_unlock", "quit", "join", "free_abort",
         "none", "abort_free", "down"} \subseteq Places
    BY SMTT(30) DEF Places, Closing, Over, MainLocked
  <2>3. ASSUME NEW a, NEW pcs \in {FreeResponse, FreeStartup, FreeAbort}, NEW p \in Places,
               CancelIfScheduled("main", a, pcs, p)
        PROVE  \E q \in Places : Goto("main", q)
    BY <2>1, <2>3, Zenon
    DEF CancelIfScheduled, alarm_is_scheduled, alarm_cancel, alarm_cancel_returns
  <2>4. CASE hci_module_shut_down /\ ~shut_down_joins
    <3>1. \/ \E q \in Places : Goto("main", q)
          \/ CancelIfScheduled("main", "command_response_timer", FreeResponse, FreeStartup.check)
          \/ CancelIfScheduled("main", "startup_timer", FreeStartup, "free_unlock")
          \/ CancelIfScheduled("main", "hci_timeout_abort_timer", FreeAbort, "abort_free")
      BY <2>1, <2>2, <2>4, Zenon
      DEF hci_module_shut_down, hci_close, shut_down_locks, shut_down_unlocks, shut_down_quits,
          shut_down_finds_abort_timer, shut_down_frees_abort_timer
    <3> QED
      BY <2>1, <2>2, <2>3, <3>1, Moves, Zenon
  <2>5. CASE start_up_error \/ start_up_awaited
    BY <2>2, <2>5, Moves, Zenon DEF start_up_error, start_up_awaited
  <2>6. CASE hci_module_start_up \/ shut_down_joins
    BY <2>2, <2>6, MovesBoth, Zenon DEF hci_module_start_up, shut_down_joins
  <2> QED
    BY <1>1, <2>4, <2>5, <2>6, Zenon
<1>2. CASE hci_thread
  <2>1. ASSUME NEW pcs \in {Finish, Update}
        PROVE  {pcs.check, pcs.cancel, pcs.wait} \subseteq Places
    BY SMTT(30) DEF Finish, Update, Places, HciLocked, UpdateLocked
  <2>2. {"loop", "finish_lock", "finish_ready", "send", "update_lock", "update_unlock",
         "ending", "exited"} \subseteq Places /\ After("hci") \in Places
    BY SMTT(30) DEF Places, HciLocked, UpdateLocked, After
  <2>3. ASSUME NEW a, NEW pcs \in {Finish, Update}, NEW p \in Places,
               CancelIfScheduled("hci", a, pcs, p)
        PROVE  \E q \in Places : Goto("hci", q)
    BY <2>1, <2>3, Zenon
    DEF CancelIfScheduled, alarm_is_scheduled, alarm_cancel, alarm_cancel_returns
  <2>4. \/ \E q \in Places : Goto("hci", q)
        \/ CancelIfScheduled("hci", "startup_timer", Finish, "finish_ready")
        \/ CancelIfScheduled("hci", "command_response_timer", Update, "update_unlock")
    BY <1>2, <2>1, <2>2, Zenon
    DEF hci_thread, message_loop_run, hci_initialize, event_finish_startup, finish_startup_locks,
        finish_startup_ready, event_command_ready, transmit_fragment, UpdateTimer,
        update_command_response_timer, update_command_response_timer_locks,
        update_command_response_timer_unlocks, message_loop_ends, message_loop_deleted, NextTask
  <2> QED
    BY <2>2, <2>3, <2>4, Moves, Zenon
<1>3. CASE rx_thread \/ \E c \in Commands : filter_incoming_event(c)
  <2>1. {Update.check, Update.cancel, Update.wait} \subseteq Places
    BY SMTT(30) DEF Update, Places, HciLocked, UpdateLocked
  <2>2. {"update_lock", "update_unlock", "idle"} \subseteq Places /\ After("rx") \in Places
    BY SMTT(30) DEF Places, HciLocked, UpdateLocked, After
  <2>3. \E q \in Places : Goto("rx", q)
    BY <1>3, <2>1, <2>2, Zenon
    DEF rx_thread, filter_incoming_event, process_command_credits, UpdateTimer,
        CancelIfScheduled, alarm_is_scheduled, alarm_cancel, alarm_cancel_returns,
        update_command_response_timer, update_command_response_timer_locks,
        update_command_response_timer_unlocks
  <2> QED
    BY <2>3, Moves, Zenon
<1>4. CASE alarm_thread
  <2>1. UNCHANGED at \/ \E p \in Places : Goto(AlarmThread, p)
    BY <1>4, SMTT(30)
    DEF alarm_thread, callback_begins, callback_returns, startup_timer_expired,
        command_timed_out, request_firmware_dump, hci_timeout_abort, Places, Goto
  <2> QED
    BY <2>1, Moves DEF Types
<1>5. CASE \/ initialization_complete \/ \E c \in Commands : enqueue_command(c)
           \/ \E a \in Timers : alarm_expires(a)
  BY <1>5, Zenon DEF initialization_complete, enqueue_command, alarm_expires, Types
<1> QED
  BY <1>1, <1>2, <1>3, <1>4, <1>5, Zenon DEF Next

-------------------------------------------------------------------------------
(* The invariant, thread by thread *)

\* main, apart from the timers it cancels.
LEMMA MainStep ==
  ASSUME HciInv, at' \in [HciThreads -> Places],
         \/ hci_module_start_up \/ start_up_error \/ start_up_awaited \/ hci_close
         \/ shut_down_locks \/ shut_down_unlocks \/ shut_down_quits \/ shut_down_joins
         \/ shut_down_finds_abort_timer \/ shut_down_frees_abort_timer
  PROVE  HciInv'
<1> USE DEF HciInv, Types, MutexInv, TransportInv, LoopInv, InitializeInv, FutureInv, TimerInv,
            HciThreads, AlarmThread, Timers, MainLocked, UpdateLocked, HciLocked, Closing, Over,
            Goto, loopVars, startupVars, alarmVars
<1>1. CASE hci_module_start_up
  BY <1>1, NoTask, SMTT(30) DEF hci_module_start_up, Step, GotoBoth, A!Set, InitializeFirst
<1>2. CASE start_up_error
  BY <1>2, SMTT(30) DEF start_up_error, Step
<1>3. CASE start_up_awaited
  BY <1>3, SMTT(30) DEF start_up_awaited, Step
<1>4. CASE hci_close
  BY <1>4, SMTT(30) DEF hci_close, Step
<1>5. CASE shut_down_locks
  BY <1>5, SMTT(30) DEF shut_down_locks, Acquire, FreeResponse
<1>6. CASE shut_down_unlocks
  BY <1>6, SMTT(30) DEF shut_down_unlocks, Release
<1>7. CASE shut_down_quits
  <2>1. CASE message_loop_ = "null"
    BY <1>7, <2>1 DEF shut_down_quits
  <2>2. CASE message_loop_ # "null"
    <3>1. tasks' = Append(tasks, "quit") /\ "quit" \in Tasks /\ tasks \in Seq(Tasks)
      BY <1>7, <2>2 DEF shut_down_quits, Step, Tasks
    <3>2. InitializeFirst(tasks)
      BY <1>7 DEF shut_down_quits, Step
    <3>3. /\ tasks' \in Seq(Tasks) /\ InitializeFirst(tasks')
          /\ Range(tasks') = Range(tasks) \cup {"quit"}
      BY <3>1, <3>2, AppendTask
    <3> QED
      BY <1>7, <2>2, <3>3, SMTT(30) DEF shut_down_quits, Step
  <2> QED
    BY <2>1, <2>2, Zenon
<1>8. CASE shut_down_joins
  BY <1>8, NoTask, SMTT(30) DEF shut_down_joins, Section, Step, GotoBoth
<1>9. CASE shut_down_finds_abort_timer
  BY <1>9, SMTT(30) DEF shut_down_finds_abort_timer, Step, FreeAbort
<1>10. CASE shut_down_frees_abort_timer
  BY <1>10, SMTT(30) DEF shut_down_frees_abort_timer, Step
<1> QED
  BY <1>1, <1>2, <1>3, <1>4, <1>5, <1>6, <1>7, <1>8, <1>9, <1>10, Zenon

\* main cancels the timers it frees.
LEMMA MainCancels ==
  ASSUME HciInv, at' \in [HciThreads -> Places],
         \/ CancelIfScheduled("main", "command_response_timer", FreeResponse, FreeStartup.check)
         \/ CancelIfScheduled("main", "startup_timer", FreeStartup, "free_unlock")
         \/ CancelIfScheduled("main", "hci_timeout_abort_timer", FreeAbort, "abort_free")
  PROVE  HciInv'
<1> USE DEF HciInv, Types, MutexInv, TransportInv, LoopInv, InitializeInv, FutureInv, TimerInv,
            HciThreads, AlarmThread, Timers, MainLocked, UpdateLocked, HciLocked, Closing, Over,
            Goto, Step, loopVars, startupVars, alarmVars, CancelIfScheduled, alarm_is_scheduled,
            alarm_cancel, alarm_cancel_returns, A!Cancel, A!CancelReturns
<1>1. CASE CancelIfScheduled("main", "command_response_timer", FreeResponse, FreeStartup.check)
  BY <1>1, SMTT(30) DEF FreeResponse, FreeStartup
<1>2. CASE CancelIfScheduled("main", "startup_timer", FreeStartup, "free_unlock")
  BY <1>2, SMTT(30) DEF FreeStartup
<1>3. CASE CancelIfScheduled("main", "hci_timeout_abort_timer", FreeAbort, "abort_free")
  BY <1>3, SMTT(30) DEF FreeAbort
<1> QED
  BY <1>1, <1>2, <1>3, Zenon

\* hci_thread between the closures of its loop: it changes no closure.
LEMMA HciRuns ==
  ASSUME HciInv, at' \in [HciThreads -> Places],
         \/ finish_startup_locks \/ finish_startup_ready \/ transmit_fragment
         \/ CancelIfScheduled("hci", "startup_timer", Finish, "finish_ready")
  PROVE  HciInv'
<1> USE DEF HciInv, Types, MutexInv, TransportInv, LoopInv, InitializeInv, FutureInv, TimerInv,
            HciThreads, AlarmThread, Timers, MainLocked, UpdateLocked, HciLocked, Closing, Over,
            Goto, loopVars, startupVars, alarmVars
<1>1. CASE finish_startup_locks
  BY <1>1, SMTT(30) DEF finish_startup_locks, Acquire, Finish
<1>2. CASE finish_startup_ready
  BY <1>2, SMTT(30) DEF finish_startup_ready, Release
<1>3. CASE transmit_fragment
  BY <1>3, SMTT(30) DEF transmit_fragment, Step
<1>4. CASE CancelIfScheduled("hci", "startup_timer", Finish, "finish_ready")
  BY <1>4, SMTT(30)
  DEF CancelIfScheduled, alarm_is_scheduled, alarm_cancel, alarm_cancel_returns, A!Cancel,
      A!CancelReturns, Step, Finish
<1> QED
  BY <1>1, <1>2, <1>3, <1>4, Zenon

\* hci_thread makes its loop, takes a closure, and ends.
LEMMA HciLoop ==
  ASSUME HciInv, at' \in [HciThreads -> Places],
         \/ message_loop_run \/ hci_initialize \/ event_finish_startup
         \/ \E c \in Commands : event_command_ready(c)
         \/ message_loop_ends \/ message_loop_deleted
  PROVE  HciInv'
<1> USE DEF HciInv, Types, MutexInv, TransportInv, LoopInv, InitializeInv, FutureInv, TimerInv,
            HciThreads, AlarmThread, Timers, MainLocked, UpdateLocked, HciLocked, Closing, Over,
            Goto, Step, loopVars, startupVars, alarmVars
<1>1. CASE message_loop_run
  <2>1. PICK ts : ts = <<"initialize">>
    BY Zenon
  <2>2. /\ ts \in Seq(Tasks) /\ Range(ts) = {"initialize"} /\ InitializeFirst(ts)
    <3>1. /\ Len(ts) = 1 /\ ts[1] = "initialize" /\ DOMAIN ts = {1} /\ "initialize" \in Tasks
          /\ Head(ts) = "initialize" /\ Tail(ts) = <<>>
      BY <2>1, SMTT(30) DEF Tasks
    <3>2. Range(ts) = {"initialize"} /\ Range(Tail(ts)) = {}
      BY <3>1, NoTask, SMTT(30) DEF Range
    <3>3. ts \in Seq(Tasks)
      BY <2>1, <3>1, SMTT(30)
    <3> QED
      BY <3>1, <3>2, <3>3, Zenon DEF InitializeFirst
  <2>3. tasks' = ts
    BY <1>1, <2>1, Zenon DEF message_loop_run
  <2> QED
    BY <1>1, <2>2, <2>3, SMTT(30) DEF message_loop_run
<1>2. ASSUME NEW task, NEW pc, NextTask(task, pc)
      PROVE  /\ tasks' \in Seq(Tasks) /\ Range(tasks') \subseteq Range(tasks)
             /\ "initialize" \notin Range(tasks') /\ task \in Range(tasks)
             /\ InitializeFirst(tasks')
  <2>1. process = "up" /\ tasks # <<>> /\ Head(tasks) = task /\ tasks' = Tail(tasks)
    BY <1>2, Zenon DEF NextTask
  <2>2. tasks \in Seq(Tasks) /\ InitializeFirst(tasks)
    BY <2>1, Zenon
  <2>3. /\ tasks' \in Seq(Tasks) /\ Range(tasks') \subseteq Range(tasks)
        /\ "initialize" \notin Range(tasks') /\ task \in Range(tasks)
    BY <2>1, <2>2, TakeTask, Zenon
  <2> QED
    BY <2>3, Zenon DEF InitializeFirst
<1>3. CASE hci_initialize
  <2>1. /\ tasks' \in Seq(Tasks) /\ Range(tasks') \subseteq Range(tasks)
        /\ "initialize" \notin Range(tasks') /\ InitializeFirst(tasks') /\ "initialize" \in Range(tasks)
    BY <1>2, <1>3, Zenon DEF hci_initialize
  <2> QED
    BY <1>3, <2>1, SMTT(30) DEF hci_initialize, NextTask
<1>4. CASE event_finish_startup
  <2>1. /\ tasks' \in Seq(Tasks) /\ Range(tasks') \subseteq Range(tasks)
        /\ "initialize" \notin Range(tasks') /\ InitializeFirst(tasks') /\ "finish" \in Range(tasks)
    BY <1>2, <1>4, Zenon DEF event_finish_startup
  <2> QED
    BY <1>4, <2>1, SMTT(30) DEF event_finish_startup, NextTask
<1>5. CASE \E c \in Commands : event_command_ready(c)
  <2>1. /\ tasks' \in Seq(Tasks) /\ Range(tasks') \subseteq Range(tasks)
        /\ "initialize" \notin Range(tasks') /\ InitializeFirst(tasks')
    BY <1>2, <1>5, Zenon DEF event_command_ready
  <2> QED
    BY <1>5, <2>1, SMTT(30) DEF event_command_ready, NextTask
<1>6. CASE message_loop_ends
  <2>1. /\ tasks' \in Seq(Tasks) /\ Range(tasks') \subseteq Range(tasks)
        /\ "initialize" \notin Range(tasks') /\ InitializeFirst(tasks') /\ "quit" \in Range(tasks)
    BY <1>2, <1>6, Zenon DEF message_loop_ends
  <2> QED
    BY <1>6, <2>1, SMTT(30) DEF message_loop_ends, NextTask
<1>7. CASE message_loop_deleted
  BY <1>7, NoTask, SMTT(30) DEF message_loop_deleted, InitializeFirst
<1> QED
  BY <1>1, <1>3, <1>4, <1>5, <1>6, <1>7, Zenon

\* update_command_response_timer: the timer is set only while main has not
\* freed it.
LEMMA TimerStep ==
  ASSUME HciInv, at' \in [HciThreads -> Places], NEW t \in {"hci", "rx"}, UpdateTimer(t)
  PROVE  HciInv'
<1> USE DEF HciInv, Types, MutexInv, TransportInv, LoopInv, InitializeInv, FutureInv, TimerInv,
            HciThreads, AlarmThread, Timers, MainLocked, UpdateLocked, HciLocked, Closing, Over,
            Goto, Step, loopVars, startupVars, alarmVars, Update, After
<1>1. CASE update_command_response_timer(t)
  BY <1>1, SMTT(30) DEF update_command_response_timer, Section, A!Set
<1>2. CASE update_command_response_timer_locks(t)
  BY <1>2, SMTT(30) DEF update_command_response_timer_locks, Acquire
<1>3. CASE CancelIfScheduled(t, "command_response_timer", Update, "update_unlock")
  BY <1>3, SMTT(30)
  DEF CancelIfScheduled, alarm_is_scheduled, alarm_cancel, alarm_cancel_returns, A!Cancel,
      A!CancelReturns
<1>4. CASE update_command_response_timer_unlocks(t)
  BY <1>4, SMTT(30) DEF update_command_response_timer_unlocks, Release
<1> QED
  BY <1>1, <1>2, <1>3, <1>4, Zenon DEF UpdateTimer

\* The alarm callback thread.
LEMMA AlarmThreadStep ==
  ASSUME HciInv, at' \in [HciThreads -> Places],
         alarm_thread \/ \E a \in Timers : alarm_expires(a)
  PROVE  HciInv'
<1> USE DEF HciInv, Types, MutexInv, TransportInv, LoopInv, InitializeInv, FutureInv, TimerInv,
            HciThreads, AlarmThread, Timers, MainLocked, UpdateLocked, HciLocked, Closing, Over,
            Goto, Step, Section, loopVars, startupVars, alarmVars
<1>1. CASE \E a \in Timers : callback_begins(a)
  BY <1>1, SMTT(30) DEF callback_begins, A!Call
<1>2. CASE callback_returns
  BY <1>2, SMTT(30) DEF callback_returns, A!Return
<1>3. CASE startup_timer_expired
  BY <1>3, SMTT(30) DEF startup_timer_expired
<1>4. CASE command_timed_out
  BY <1>4, SMTT(30) DEF command_timed_out, A!Set
<1>5. CASE request_firmware_dump
  BY <1>5, SMTT(30) DEF request_firmware_dump, A!Set
<1>6. CASE hci_timeout_abort
  BY <1>6, SMTT(30) DEF hci_timeout_abort
<1>7. CASE \E a \in Timers : alarm_expires(a)
  BY <1>7, SMTT(30) DEF alarm_expires, A!Expire
<1> QED
  BY <1>1, <1>2, <1>3, <1>4, <1>5, <1>6, <1>7, Zenon DEF alarm_thread

\* The transport, the rx thread and the clients.
LEMMA TransportStep ==
  ASSUME HciInv, QueueType, at' \in [HciThreads -> Places],
         \/ initialization_complete \/ process_command_credits
         \/ \E c \in Commands : filter_incoming_event(c) \/ enqueue_command(c)
  PROVE  HciInv'
<1> USE DEF HciInv, Types, MutexInv, TransportInv, LoopInv, InitializeInv, FutureInv, TimerInv,
            HciThreads, AlarmThread, Timers, MainLocked, UpdateLocked, HciLocked, Closing, Over,
            Goto, Step, Section, loopVars, startupVars, alarmVars
<1>0. process = "up" /\ tasks \in Seq(Tasks) /\ InitializeFirst(tasks)
  BY Zenon DEF initialization_complete, process_command_credits, filter_incoming_event,
               enqueue_command
<1>1. ASSUME NEW c \in Commands \cup {"finish"}, tasks' = Append(tasks, c)
      PROVE  /\ tasks' \in Seq(Tasks) /\ InitializeFirst(tasks')
             /\ "initialize" \in Range(tasks') <=> "initialize" \in Range(tasks)
             /\ "quit" \in Range(tasks') <=> "quit" \in Range(tasks)
  <2>1. c \in Tasks /\ c # "initialize" /\ c # "quit"
    BY CommandAssumption, SMTT(30) DEF Tasks
  <2>2. /\ tasks' \in Seq(Tasks) /\ InitializeFirst(tasks') /\ Range(tasks') = Range(tasks) \cup {c}
    BY <1>0, <1>1, <2>1, AppendTask, Zenon
  <2> QED
    BY <2>1, <2>2
<1>2. CASE initialization_complete
  <2>1. /\ tasks' \in Seq(Tasks) /\ InitializeFirst(tasks')
        /\ "initialize" \in Range(tasks') <=> "initialize" \in Range(tasks)
        /\ "quit" \in Range(tasks') <=> "quit" \in Range(tasks)
    BY <1>1, <1>2, Zenon DEF initialization_complete
  <2> QED
    BY <1>2, <2>1, SMTT(30) DEF initialization_complete
<1>3. CASE process_command_credits
  <2>1. at["rx"] = "credits" /\ UNCHANGED <<message_loop_, hal, startup_future, result, status,
                                            waiting, allocated, process, mutex>>
    BY <1>3, Zenon DEF process_command_credits
  <2>2. \/ UNCHANGED tasks
        \/ message_loop_ # "null" /\ \E c \in Commands : tasks' = Append(tasks, c)
    <3>1. command_queue # <<>> => Head(command_queue) \in Commands
      BY HeadTailProperties, Zenon DEF QueueType
    <3>2. \/ UNCHANGED tasks
          \/ /\ message_loop_ # "null" /\ command_queue # <<>>
             /\ tasks' = Append(tasks, Head(command_queue))
      BY <1>3 DEF process_command_credits
    <3> QED
      BY <3>1, <3>2, Zenon
  <2>3. CASE UNCHANGED tasks
    BY <1>3, <2>1, <2>3, SMTT(30) DEF process_command_credits
  <2>4. CASE message_loop_ # "null" /\ \E c \in Commands : tasks' = Append(tasks, c)
    <3>1. /\ tasks' \in Seq(Tasks) /\ InitializeFirst(tasks')
          /\ "initialize" \in Range(tasks') <=> "initialize" \in Range(tasks)
          /\ "quit" \in Range(tasks') <=> "quit" \in Range(tasks)
      BY <1>1, <2>4, Zenon
    <3> QED
      BY <1>3, <2>1, <2>4, <3>1, SMTT(30) DEF process_command_credits
  <2> QED
    BY <2>2, <2>3, <2>4, Zenon
<1>4. ASSUME NEW c \in Commands, enqueue_command(c)
      PROVE  HciInv'
  <2>1. /\ UNCHANGED <<at, mutex, message_loop_, hal, startup_future, result, status, waiting,
                       allocated>>
        /\ UNCHANGED tasks \/ (message_loop_ # "null" /\ tasks' = Append(tasks, c))
    BY <1>4 DEF enqueue_command
  <2>2. CASE UNCHANGED tasks
    BY <1>0, <2>1, <2>2, SMTT(30)
  <2>3. CASE message_loop_ # "null" /\ tasks' = Append(tasks, c)
    <3>1. /\ tasks' \in Seq(Tasks) /\ InitializeFirst(tasks')
          /\ "initialize" \in Range(tasks') <=> "initialize" \in Range(tasks)
          /\ "quit" \in Range(tasks') <=> "quit" \in Range(tasks)
      BY <1>1, <2>3, Zenon
    <3> QED
      BY <1>0, <2>1, <2>3, <3>1, SMTT(30)
  <2> QED
    BY <2>1, <2>2, <2>3, Zenon
<1>5. ASSUME NEW c \in Commands, filter_incoming_event(c)
      PROVE  HciInv'
  <2>1. /\ UNCHANGED <<mutex, message_loop_, tasks, hal, startup_future, result, status, waiting,
                       allocated, process>>
        /\ mutex = "free" /\ hal # "closed" /\ Goto("rx", "update_lock")
    BY <1>5, Zenon DEF filter_incoming_event
  <2> QED
    BY <1>0, <2>1, SMTT(30)
<1> QED
  BY <1>2, <1>3, <1>4, <1>5, Zenon

LEMMA QueueStep ==
  ASSUME QueueType, [Next]_vars
  PROVE  QueueType'
<1>1. CASE \E c \in Commands : enqueue_command(c)
  <2>1. PICK c \in Commands : UNCHANGED command_queue \/ command_queue' = Append(command_queue, c)
    BY <1>1 DEF enqueue_command
  <2> QED
    BY <2>1, AppendProperties DEF QueueType
<1>2. CASE process_command_credits
  <2>1. command_queue # <<>> => Tail(command_queue) \in Seq(Commands)
    BY HeadTailProperties, Zenon DEF QueueType
  <2>2. UNCHANGED command_queue \/ (command_queue # <<>> /\ command_queue' = Tail(command_queue))
    BY <1>2 DEF process_command_credits
  <2> QED
    BY <2>1, <2>2, Zenon DEF QueueType
<1>3. ASSUME ~ \E c \in Commands : enqueue_command(c), ~process_command_credits
      PROVE  UNCHANGED command_queue
  <2>1. CASE \/ hci_module_start_up \/ start_up_error \/ start_up_awaited \/ hci_module_shut_down
    BY <2>1, Zenon
    DEF hci_module_start_up, start_up_error, start_up_awaited, hci_module_shut_down,
        hci_close, shut_down_locks, CancelIfScheduled, alarm_is_scheduled, alarm_cancel,
        alarm_cancel_returns, shut_down_unlocks, shut_down_quits, shut_down_joins,
        shut_down_finds_abort_timer, shut_down_frees_abort_timer, commandVars
  <2>2. CASE hci_thread \/ UpdateTimer("rx")
    BY <2>2, Zenon
    DEF hci_thread, message_loop_run, hci_initialize, event_finish_startup, finish_startup_locks,
        CancelIfScheduled, alarm_is_scheduled, alarm_cancel, alarm_cancel_returns,
        finish_startup_ready, event_command_ready, transmit_fragment, UpdateTimer,
        update_command_response_timer, update_command_response_timer_locks,
        update_command_response_timer_unlocks, message_loop_ends, message_loop_deleted,
        commandVars
  <2>3. CASE alarm_thread \/ \E a \in Timers : alarm_expires(a)
    BY <2>3, Zenon
    DEF alarm_thread, callback_begins, callback_returns, startup_timer_expired,
        command_timed_out, request_firmware_dump, hci_timeout_abort, alarm_expires, commandVars
  <2>4. CASE initialization_complete \/ \E c \in Commands : filter_incoming_event(c)
    BY <2>4, Zenon DEF initialization_complete, filter_incoming_event, commandVars
  <2>5. CASE UNCHANGED vars
    BY <2>5, Zenon DEF vars, commandVars
  <2> QED
    BY <1>3, <2>1, <2>2, <2>3, <2>4, <2>5, Zenon DEF Next, rx_thread
<1> QED
  BY <1>1, <1>2, <1>3, Zenon DEF QueueType

LEMMA HciStep ==
  ASSUME HciInv, QueueType, [Next]_vars
  PROVE  HciInv'
<1>1. CASE Next /\ process = "up"
  <2>1. at' \in [HciThreads -> Places]
    BY <1>1, PlacesStep, Zenon DEF HciInv
  <2>2. CASE \/ hci_module_start_up \/ start_up_error \/ start_up_awaited \/ hci_module_shut_down
    BY <2>1, <2>2, MainStep, MainCancels, Zenon DEF hci_module_shut_down
  <2>3. CASE hci_thread \/ rx_thread
    <3>1. CASE UpdateTimer("hci") \/ UpdateTimer("rx")
      BY <2>1, <3>1, TimerStep, Zenon
    <3>2. CASE ~(UpdateTimer("hci") \/ UpdateTimer("rx"))
      BY <2>1, <2>3, <3>2, HciRuns, HciLoop, TransportStep, Zenon DEF hci_thread, rx_thread
    <3> QED
      BY <3>1, <3>2, Zenon
  <2>4. CASE alarm_thread \/ \E a \in Timers : alarm_expires(a)
    BY <2>1, <2>4, AlarmThreadStep, Zenon
  <2>5. CASE \/ initialization_complete
             \/ \E c \in Commands : filter_incoming_event(c) \/ enqueue_command(c)
    BY <2>1, <2>5, TransportStep, Zenon
  <2> QED
    BY <1>1, <2>2, <2>3, <2>4, <2>5, Zenon DEF Next
<1>2. CASE UNCHANGED vars
  <2>1. UNCHANGED <<at, mutex, message_loop_, tasks, hal, startup_future, result, status, waiting,
                    allocated, process>>
    BY <1>2, Zenon DEF vars, loopVars, startupVars, alarmVars
  <2> QED
    BY <2>1, SMTT(30)
    DEF HciInv, Types, MutexInv, TransportInv, LoopInv, InitializeInv, InitializeFirst, FutureInv,
        TimerInv
<1>3. Next => process = "up"
  <2>1. CASE \/ hci_module_start_up \/ start_up_error \/ start_up_awaited \/ hci_module_shut_down
    BY <2>1, Zenon
    DEF hci_module_start_up, start_up_error, start_up_awaited, hci_module_shut_down,
        hci_close, shut_down_locks, CancelIfScheduled, alarm_is_scheduled, alarm_cancel,
        alarm_cancel_returns, shut_down_unlocks, shut_down_quits, shut_down_joins,
        shut_down_finds_abort_timer, shut_down_frees_abort_timer, Step, Section, Acquire, Release
  <2>2. CASE hci_thread \/ rx_thread
    BY <2>2, Zenon
    DEF hci_thread, rx_thread, message_loop_run, hci_initialize, event_finish_startup,
        finish_startup_locks, CancelIfScheduled, alarm_is_scheduled, alarm_cancel,
        alarm_cancel_returns, finish_startup_ready, event_command_ready, transmit_fragment,
        UpdateTimer, update_command_response_timer, update_command_response_timer_locks,
        update_command_response_timer_unlocks, message_loop_ends, message_loop_deleted,
        process_command_credits, NextTask, Step, Section, Acquire, Release
  <2>3. CASE \/ alarm_thread \/ initialization_complete \/ \E a \in Timers : alarm_expires(a)
             \/ \E c \in Commands : filter_incoming_event(c) \/ enqueue_command(c)
    BY <2>3, Zenon
    DEF alarm_thread, callback_begins, callback_returns, startup_timer_expired,
        command_timed_out, request_firmware_dump, hci_timeout_abort, alarm_expires,
        initialization_complete, filter_incoming_event, enqueue_command, Step, Section
  <2> QED
    BY <2>1, <2>2, <2>3, Zenon DEF Next
<1> QED
  BY <1>1, <1>2, <1>3, Zenon

LEMMA HciInitially == Init => HciInv /\ QueueType
<1> SUFFICES ASSUME Init
             PROVE  HciInv /\ QueueType
  OBVIOUS
<1>1. tasks \in Seq(Tasks) /\ command_queue \in Seq(Commands) /\ Range(tasks) = {}
  BY NoTask, SMTT(30) DEF Init
<1>2. at \in [HciThreads -> Places]
  BY SMTT(30) DEF Init, Places, Over
<1>3. at["main"] = "down" /\ at["hci"] = "none" /\ at["rx"] = "idle"
  BY SMTT(30) DEF Init, HciThreads
<1>4. /\ status \in [Timers -> {"idle", "scheduled"}]
      /\ waiting \in [HciThreads -> Timers \cup {NoAlarm}]
      /\ \A a \in Timers : status[a] = "idle"
      /\ waiting["main"] = NoAlarm
  BY SMTT(30) DEF Init, A!Init, HciThreads
<1> QED
  BY <1>1, <1>2, <1>3, <1>4, SMTT(30)
  DEF Init, HciInv, QueueType, Types, MutexInv, TransportInv, LoopInv, InitializeInv,
      InitializeFirst, FutureInv, TimerInv, MainLocked, UpdateLocked, HciLocked, Closing, Over,
      Timers

LEMMA HciInvariance == Spec => [](HciInv /\ QueueType)
<1>1. HciInv /\ QueueType /\ [Next]_vars => (HciInv /\ QueueType)'
  BY HciStep, QueueStep, Zenon
<1> QED
  BY <1>1, HciInitially, PTL DEF Spec

-------------------------------------------------------------------------------

\* Whatever the interleaving of start_up, the transport, the timers and clients,
\* hci_module_shut_down leaves nothing behind that could act in the next session.
THEOREM SessionsAreSeparate == Spec => []RestsBetweenSessions
<1>1. HciInv => RestsBetweenSessions
  <2> SUFFICES ASSUME HciInv, at["main"] = "down", process = "up"
               PROVE  /\ at["hci"] = "none" /\ message_loop_ = "null" /\ tasks = <<>>
                      /\ at["rx"] = "idle" /\ mutex = "free" /\ waiting["main"] = NoAlarm
                      /\ \A a \in Timers \ {"hci_timeout_abort_timer"} : status[a] = "idle"
    BY Zenon DEF RestsBetweenSessions
  <2>1. at["hci"] = "none" /\ message_loop_ = "null" /\ tasks = <<>> /\ at["rx"] = "idle"
    BY DEF HciInv, LoopInv, TransportInv, Over
  <2>2. mutex = "free"
    BY <2>1, SMTT(30) DEF HciInv, Types, MutexInv, MainLocked, HciLocked, UpdateLocked
  <2>3. waiting["main"] = NoAlarm
    BY DEF HciInv, TimerInv
  <2>4. status["startup_timer"] = "idle" /\ status["command_response_timer"] = "idle"
    BY DEF HciInv, TimerInv, Over
  <2> QED
    BY <2>1, <2>2, <2>3, <2>4 DEF Timers
<1> QED
  BY <1>1, HciInvariance, PTL

\* event_finish_startup and startup_timer_expired race to make the future of
\* start_up ready: exactly one of them does, once per session.
THEOREM FutureReadyOnce == Spec => StartupReadyOnce
<1>1. ASSUME HciInv, Next, result' # result
      PROVE  \/ result = "pending" /\ result' \in {"success", "fail"}
             \/ /\ session' = session + 1
                /\ result' = "pending" <=> startup_future' = "pending"
  <2>1. \/ hci_module_start_up \/ start_up_error \/ finish_startup_ready \/ startup_timer_expired
    <3>1. CASE start_up_awaited \/ hci_module_shut_down
      BY <1>1, <3>1, Zenon
      DEF start_up_awaited, hci_module_shut_down,
          hci_close, shut_down_locks, CancelIfScheduled, alarm_is_scheduled, alarm_cancel,
          alarm_cancel_returns, shut_down_unlocks, shut_down_quits, shut_down_joins,
          shut_down_finds_abort_timer, shut_down_frees_abort_timer, startupVars
    <3>2. CASE hci_thread \/ rx_thread
      BY <1>1, <3>2, Zenon
      DEF hci_thread, rx_thread, message_loop_run, hci_initialize, event_finish_startup,
          finish_startup_locks, CancelIfScheduled, alarm_is_scheduled, alarm_cancel,
          alarm_cancel_returns, event_command_ready, transmit_fragment,
          UpdateTimer, update_command_response_timer, update_command_response_timer_locks,
          update_command_response_timer_unlocks, message_loop_ends, message_loop_deleted,
          process_command_credits, startupVars
    <3>3. CASE \/ alarm_thread \/ initialization_complete \/ \E a \in Timers : alarm_expires(a)
               \/ \E c \in Commands : filter_incoming_event(c) \/ enqueue_command(c)
      BY <1>1, <3>3, Zenon
      DEF alarm_thread, callback_begins, callback_returns, command_timed_out,
          request_firmware_dump, hci_timeout_abort, alarm_expires, initialization_complete,
          filter_incoming_event, enqueue_command, startupVars
    <3> QED
      BY <1>1, <3>1, <3>2, <3>3, Zenon DEF Next
  <2>2. CASE hci_module_start_up
    BY <2>2 DEF hci_module_start_up
  <2>3. CASE start_up_error
    <3>1. startup_future # "pending"
      BY <1>1, <2>3 DEF start_up_error, Step, HciInv, FutureInv
    <3> QED
      BY <2>3, <3>1 DEF start_up_error
  <2>4. CASE finish_startup_ready
    BY <1>1, <2>4 DEF finish_startup_ready, Release, HciInv, FutureInv
  <2>5. CASE startup_timer_expired
    BY <1>1, <2>5 DEF startup_timer_expired, Section, Step, HciInv, FutureInv
  <2> QED
    BY <2>1, <2>2, <2>3, <2>4, <2>5, Zenon
<1>2. HciInv /\ [Next]_vars =>
        [result' # result => \/ result = "pending" /\ result' \in {"success", "fail"}
                             \/ /\ session' = session + 1
                                /\ result' = "pending" <=> startup_future' = "pending"]_vars
  BY <1>1, Zenon
<1> QED
  BY <1>2, HciInvariance, PTL DEF Spec, StartupReadyOnce
==============================================================================
