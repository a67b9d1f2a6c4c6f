----------------------------- MODULE StackManager -----------------------------
(***************************************************************************)
(* Turning the stack on and off: btif/src/stack_manager.cc and the chain   *)
(* of threads it drives (btif_core.cc, btu_init.cc, btu_task.cc,           *)
(* bta_sys_main.cc, the enable and disable paths of bta_dm_act.cc,         *)
(* btm_devctl.cc, module.cc, future.cc).                                   *)
(*                                                                         *)
(*   caller      the HAL client: init, enable, disable, cleanup            *)
(*   management  one event at a time; waits on hack_future                 *)
(*   JNI         bt_jni_workqueue, a message loop between init and cleanup *)
(*   bt_workqueue  lives from BTU_StartUp to BTU_ShutDown                  *)
(*   main        "btu message loop": a new thread per session, which       *)
(*               nobody joins                                              *)
(*   lifecycle   "module_wrapper", runs the controller module's start_up   *)
(* All of them meet in one global future: whoever completes a step makes   *)
(* the current hack_future ready, whatever it was created for.             *)
(***************************************************************************)
EXTENDS Integers, Sequences, SequencesExt

CONSTANTS
  MaxCalls,     \* bound on the calls of the HAL client
  MaxLinks,     \* bound on the ACL links that come up
  MaxErrors,    \* bound on the hardware errors the controller reports
  Failures      \* threads whose creation may fail: subset of {"jni", "wq"}

ASSUME StackAssumption ==
  /\ MaxCalls \in Nat /\ MaxLinks \in Nat /\ MaxErrors \in Nat
  /\ Failures \subseteq {"jni", "wq"}

Sessions == 1 .. MaxCalls

VARIABLES
  caller,       \* "ready", or "waiting" on the semaphore of init or cleanup
  interface_ready, \* bt_hal_cbacks is set
  calls,        \* events posted so far
  mgmt_queue,   \* events posted to management_thread
  mgmt,         \* the management thread's call stack, innermost first
  stack_is_initialized, stack_is_running,
  hack_future,  \* what it waits for, its state and who made it ready
  jni,          \* JNI thread: its message loop, its tasks, where it is
  wq,           \* bt_workqueue_thread: exists or not, its tasks
  lifecycle,    \* controller start-ups in progress
  main,         \* per session: the main thread, its tasks, pending actions
  message_loop_,\* session whose loop get_message_loop() returns; 0 for NULL
  modules,      \* metadata of module.cc
  bta_sys_cb,   \* state, sys_hw_module_active, sys_hw_cback
  bta_dm_cb,    \* is_bta_dm_active, disabling, bta_dm_hw_status, timer
  p_rln_cmpl_cb,\* is the local name being read?
  acl,          \* number of ACL links
  faults,       \* external: links and hardware errors so far
  process,      \* "up", "killed", or "aborted" by a failed CHECK
  reported,     \* history: the last adapter_state_changed_cb; was one repeated?
  wanted,       \* history: what the client asked for last
  overlap       \* history: a main loop started before its predecessor ended

mgmtVars == <<mgmt, mgmt_queue, stack_is_initialized, stack_is_running>>
callVars == <<caller, interface_ready, calls, wanted>>
btaVars == <<bta_sys_cb, bta_dm_cb, p_rln_cmpl_cb, acl, faults>>
vars == <<callVars, mgmtVars, hack_future, jni, wq, lifecycle, main,
          message_loop_, modules, btaVars, process, reported, overlap>>

no_dm == [active |-> FALSE, disabling |-> FALSE, hw |-> "OFF", timer |-> "off"]
no_sys == [state |-> "OFF", active |-> FALSE, cback |-> FALSE]
no_modules == [m \in {"BTIF_CONFIG", "HCI", "CONTROLLER", "BTE_LOGMSG"} |-> "NONE"]

Init ==
  /\ caller = "ready" /\ interface_ready = FALSE /\ calls = 0 /\ wanted = "OFF"
  /\ mgmt = <<>> /\ mgmt_queue = <<>>
  /\ stack_is_initialized = FALSE /\ stack_is_running = FALSE
  /\ hack_future = [state |-> "null", for |-> "none", by |-> "none"]
  /\ jni = [loop |-> "none", tasks |-> <<>>, pc |-> "idle"]
  /\ wq = [thread |-> "none", tasks |-> <<>>]
  /\ lifecycle = 0
  /\ main = [s \in Sessions |-> [state |-> "none", tasks |-> <<>>, acts |-> <<>>]]
  /\ message_loop_ = 0
  /\ modules = no_modules
  /\ bta_sys_cb = no_sys /\ bta_dm_cb = no_dm /\ p_rln_cmpl_cb = FALSE
  /\ acl = 0 /\ faults = [links |-> 0, errors |-> 0]
  /\ process = "up" /\ overlap = FALSE
  /\ reported = [state |-> "OFF", repeated |-> FALSE]

alive == process = "up"

-----------------------------------------------------------------------------
(* Posting to the message loops; a loop that does not exist drops the task. *)

\* do_in_jni_thread
ToJni(tasks) ==
  [jni EXCEPT !.tasks = IF jni.loop = "running" THEN @ \o tasks ELSE @]

\* bta_sys_sendmsg: the loops after |msg| was sent when they were |loops|.
bta_sys_sendmsg(loops, msg) ==
  IF message_loop_ = 0 THEN loops
  ELSE [loops EXCEPT ![message_loop_].tasks = Append(@, msg)]

(* Futures (future.cc).                                                     *)

future_new(for) == [state |-> "waiting", for |-> for, by |-> "none"]

\* future_ready on the global future: the CHECKs, then the result.
future_ready(by, result) ==
  IF hack_future.state = "waiting"
  THEN hack_future' = [hack_future EXCEPT !.state = result, !.by = by]
       /\ UNCHANGED process
  ELSE process' = "aborted" /\ UNCHANGED hack_future

\* future_await returns and frees the future; the pointer stays.
Awaited == hack_future.state \in {"success", "fail"}
future_freed == [hack_future EXCEPT !.state = "freed"]

(* Modules (module.cc). HCI and CONTROLLER have no init function.           *)

Check(holds) == process' = IF holds THEN process ELSE "aborted"

module_shut_down(m) == IF modules[m] = "STARTED" THEN "INITIALIZED" ELSE modules[m]

-----------------------------------------------------------------------------
(* The HAL client (bluetooth.cc).                                           *)

CallEvent(event) ==
  /\ alive /\ caller = "ready" /\ calls < MaxCalls
  /\ calls' = calls + 1
  /\ mgmt_queue' = Append(mgmt_queue, event)
  /\ UNCHANGED <<mgmt, stack_is_initialized, stack_is_running, hack_future, jni, wq,
                 lifecycle, main, message_loop_, modules, btaVars, process, reported,
                 overlap>>

\* init: does nothing once the callbacks are registered, even after cleanup.
init ==
  /\ ~interface_ready
  /\ interface_ready' = TRUE /\ caller' = "waiting"
  /\ CallEvent("init")
  /\ UNCHANGED wanted

enable ==
  /\ interface_ready
  /\ wanted' = "ON"
  /\ CallEvent("start")
  /\ UNCHANGED <<interface_ready, caller>>

disable ==
  /\ interface_ready
  /\ wanted' = "OFF"
  /\ CallEvent("shut")
  /\ UNCHANGED <<interface_ready, caller>>

cleanup ==
  /\ wanted' = "OFF" /\ caller' = "waiting"
  /\ CallEvent("clean")
  /\ UNCHANGED interface_ready

-----------------------------------------------------------------------------
(* The management thread.                                                   *)

At(pc) == alive /\ mgmt # <<>> /\ Head(mgmt) = pc
Goto(pc) == mgmt' = <<pc>> \o Tail(mgmt)
Call(pc, then) == mgmt' = <<pc, then>> \o Tail(mgmt)

\* Return to the caller's frame; the outermost init and cleanup post the
\* semaphore of the client.
Return ==
  /\ mgmt' = Tail(mgmt)
  /\ caller' = IF Len(mgmt) = 1 /\ Head(mgmt) \notin {"start", "start_await", "shut", "down_await"}
               THEN "ready" ELSE caller

management_takes ==
  /\ alive /\ mgmt = <<>> /\ mgmt_queue # <<>>
  /\ mgmt' = <<Head(mgmt_queue)>>
  /\ mgmt_queue' = Tail(mgmt_queue)
  /\ UNCHANGED <<callVars, stack_is_initialized, stack_is_running, hack_future, jni, wq,
                 lifecycle, main, message_loop_, modules, btaVars, process, reported,
                 overlap>>

\* event_init_stack up to future_await, with btif_init_bluetooth, whose
\* failure to create the JNI thread is not looked at.
event_init_stack ==
  /\ At("init")
  /\ IF stack_is_initialized
     THEN Return /\ UNCHANGED <<hack_future, jni, modules, process>>
     ELSE /\ Check(modules["BTIF_CONFIG"] = "NONE")
          /\ modules' = [modules EXCEPT !["BTIF_CONFIG"] = "INITIALIZED"]
          /\ hack_future' = future_new("init")
          /\ \/ jni' = [jni EXCEPT !.loop = "created"]
             \/ "jni" \in Failures /\ UNCHANGED jni
          /\ Goto("init_await")
          /\ UNCHANGED caller
  /\ UNCHANGED <<interface_ready, calls, wanted, mgmt_queue, stack_is_initialized,
                 stack_is_running, wq, lifecycle, main, message_loop_, btaVars, reported,
                 overlap>>

init_awaited ==
  /\ At("init_await") /\ Awaited
  /\ hack_future' = future_freed
  /\ stack_is_initialized' = TRUE
  /\ Return
  /\ UNCHANGED <<interface_ready, calls, wanted, mgmt_queue, stack_is_running, jni, wq,
                 lifecycle, main, message_loop_, modules, btaVars, process, reported,
                 overlap>>

\* Mutant: a start-up of a stack that was cleaned up is ignored.
event_start_up_stack_not_ensured ==
  /\ At("start")
  /\ \/ /\ stack_is_running
        /\ Return
        /\ UNCHANGED <<hack_future, modules, process>>
     \/ /\ ~stack_is_running /\ ~stack_is_initialized
        /\ Return
        /\ UNCHANGED <<hack_future, modules, process>>
     \/ /\ ~stack_is_running /\ stack_is_initialized
        /\ hack_future' = future_new("up")
        /\ Check(modules["BTIF_CONFIG"] = "INITIALIZED")
        /\ modules' = [modules EXCEPT !["BTIF_CONFIG"] = "STARTED"]
        /\ Goto("enable")
        /\ UNCHANGED caller
  /\ UNCHANGED <<interface_ready, calls, wanted, mgmt_queue, stack_is_initialized,
                 stack_is_running, jni, wq, lifecycle, main, message_loop_, btaVars,
                 reported, overlap>>

\* Mutant: the early return reports the state again.
event_start_up_stack_reports ==
  /\ At("start")
  /\ \/ /\ stack_is_running
        /\ Return
        /\ jni' = ToJni(<<"signal_up">>)
        /\ UNCHANGED <<hack_future, modules, process>>
     \/ /\ ~stack_is_running /\ ~stack_is_initialized
        /\ Call("init", "start")
        /\ UNCHANGED <<caller, hack_future, jni, modules, process>>
     \/ /\ ~stack_is_running /\ stack_is_initialized
        /\ hack_future' = future_new("up")
        /\ Check(modules["BTIF_CONFIG"] = "INITIALIZED")
        /\ modules' = [modules EXCEPT !["BTIF_CONFIG"] = "STARTED"]
        /\ Goto("enable")
        /\ UNCHANGED <<caller, jni>>
  /\ UNCHANGED <<interface_ready, calls, wanted, mgmt_queue, stack_is_initialized,
                 stack_is_running, wq, lifecycle, main, message_loop_, btaVars,
                 reported, overlap>>

\* event_start_up_stack up to bte_main_enable.
event_start_up_stack ==
  /\ At("start")
  /\ \/ /\ stack_is_running
        /\ Return
        /\ UNCHANGED <<hack_future, modules, process>>
     \/ /\ ~stack_is_running /\ ~stack_is_initialized
        /\ Call("init", "start")
        /\ UNCHANGED <<caller, hack_future, modules, process>>
     \/ /\ ~stack_is_running /\ stack_is_initialized
        /\ hack_future' = future_new("up")
        /\ Check(modules["BTIF_CONFIG"] = "INITIALIZED")
        /\ modules' = [modules EXCEPT !["BTIF_CONFIG"] = "STARTED"]
        /\ Goto("enable")
        /\ UNCHANGED caller
  /\ UNCHANGED <<interface_ready, calls, wanted, mgmt_queue, stack_is_initialized,
                 stack_is_running, jni, wq, lifecycle, main, message_loop_, btaVars,
                 reported, overlap>>

\* bte_main_enable: the HCI module starts or the process kills itself; then
\* BTU_StartUp, which shuts BTU down again when it gets no thread (there is
\* no loop to quit then, and nothing to join).
bte_main_enable ==
  /\ At("enable")
  /\ Goto("start_await")
  /\ \/ /\ modules' = [modules EXCEPT !["HCI"] = "STARTED"]
        /\ \/ wq' = [thread |-> "running", tasks |-> <<"start_up">>]
           \/ "wq" \in Failures /\ UNCHANGED wq
        /\ UNCHANGED process
     \/ /\ process' = "killed"
        /\ UNCHANGED <<modules, wq>>
  /\ UNCHANGED <<callVars, mgmt_queue, stack_is_initialized, stack_is_running,
                 hack_future, jni, lifecycle, main, message_loop_, btaVars, reported,
                 overlap>>

\* The end of event_start_up_stack. A failed start-up is shut down at once.
start_awaited ==
  /\ At("start_await") /\ Awaited
  /\ hack_future' = future_freed
  /\ stack_is_running' = TRUE
  /\ \/ /\ hack_future.state = "success"
        /\ jni' = ToJni(<<"signal_up">>)
        /\ Return
     \/ /\ hack_future.state = "fail"
        /\ Goto("shut")
        /\ UNCHANGED <<jni, caller>>
  /\ UNCHANGED <<interface_ready, calls, wanted, mgmt_queue, stack_is_initialized, wq,
                 lifecycle, main, message_loop_, modules, btaVars, process, reported,
                 overlap>>

\* event_shut_down_stack up to the first future_await.
event_shut_down_stack ==
  /\ At("shut")
  /\ \/ /\ ~stack_is_running
        /\ Return
        /\ UNCHANGED <<hack_future, stack_is_running, main, modules>>
     \/ /\ stack_is_running
        /\ hack_future' = future_new("down")
        /\ stack_is_running' = FALSE
        /\ main' = bta_sys_sendmsg(main, "dm_disable")
        /\ modules' = [modules EXCEPT !["BTIF_CONFIG"] = module_shut_down("BTIF_CONFIG")]
        /\ Goto("shut_await")
        /\ UNCHANGED caller
  /\ UNCHANGED <<interface_ready, calls, wanted, mgmt_queue, stack_is_initialized, jni, wq,
                 lifecycle, message_loop_, btaVars, process, reported, overlap>>

\* BTA is down: CONTROLLER becomes restartable, and the client is told.
shut_awaited ==
  /\ At("shut_await") /\ Awaited
  /\ modules' = [modules EXCEPT !["CONTROLLER"] = module_shut_down("CONTROLLER")]
  /\ hack_future' = future_new("signal")
  /\ jni' = ToJni(<<"signal_down">>)
  /\ Goto("down_await")
  /\ UNCHANGED <<callVars, mgmt_queue, stack_is_initialized, stack_is_running, wq,
                 lifecycle, main, message_loop_, btaVars, process, reported, overlap>>

down_awaited ==
  /\ At("down_await") /\ Awaited
  /\ hack_future' = future_freed
  /\ Return
  /\ UNCHANGED <<interface_ready, calls, wanted, mgmt_queue, stack_is_initialized,
                 stack_is_running, jni, wq, lifecycle, main, message_loop_, modules, btaVars,
                 process, reported, overlap>>

\* event_clean_up_stack up to thread_free(bt_jni_workqueue_thread).
event_clean_up_stack ==
  /\ At("clean")
  /\ \/ /\ ~stack_is_initialized
        /\ Return
        /\ UNCHANGED <<stack_is_initialized, jni>>
     \/ /\ stack_is_initialized /\ stack_is_running
        /\ Call("shut", "clean")
        /\ UNCHANGED <<caller, stack_is_initialized, jni>>
     \/ /\ stack_is_initialized /\ ~stack_is_running
        /\ stack_is_initialized' = FALSE
        /\ jni' = ToJni(<<"quit">>)
        /\ Goto("clean_join")
        /\ UNCHANGED caller
  /\ UNCHANGED <<interface_ready, calls, wanted, mgmt_queue, stack_is_running, hack_future,
                 wq, lifecycle, main, message_loop_, modules, btaVars, process, reported,
                 overlap>>

\* The JNI thread is joined; module_clean_up of the configuration, and
\* module_management_stop.
clean_joined ==
  /\ At("clean_join") /\ jni.loop = "none"
  /\ Check(modules["BTIF_CONFIG"] \in {"NONE", "INITIALIZED"})
  /\ modules' = no_modules
  /\ Return
  /\ UNCHANGED <<interface_ready, calls, wanted, mgmt_queue, stack_is_initialized,
                 stack_is_running, hack_future, jni, wq, lifecycle, main, message_loop_,
                 btaVars, reported, overlap>>

Management ==
  \/ management_takes \/ event_init_stack \/ init_awaited \/ event_start_up_stack
  \/ bte_main_enable \/ start_awaited \/ event_shut_down_stack \/ shut_awaited
  \/ down_awaited \/ event_clean_up_stack \/ clean_joined

-----------------------------------------------------------------------------
(* The JNI thread.                                                          *)

\* run_message_loop up to Run.
run_message_loop ==
  /\ alive /\ jni.loop = "created"
  /\ jni' = [loop |-> "running", tasks |-> <<>>, pc |-> "idle"]
  /\ future_ready("init", "success")
  /\ UNCHANGED <<callVars, mgmtVars, wq, lifecycle, main, message_loop_, modules,
                 btaVars, reported, overlap>>

JniRuns(task) ==
  /\ alive /\ jni.loop = "running" /\ jni.pc = "idle"
  /\ jni.tasks # <<>> /\ Head(jni.tasks) = task

jni_next == [jni EXCEPT !.tasks = Tail(@)]

\* btif_init_ok: BTA_EnableBluetooth, whose refusal is not looked at.
btif_init_ok ==
  /\ JniRuns("init_ok")
  /\ jni' = jni_next
  /\ main' = IF bta_dm_cb.disabling THEN main ELSE bta_sys_sendmsg(main, "dm_enable")
  /\ UNCHANGED <<callVars, mgmtVars, hack_future, wq, lifecycle, message_loop_,
                 modules, btaVars, process, reported, overlap>>

\* BTA_DM_ENABLE_EVT, btif_enable_bluetooth_evt
btif_enable_bluetooth_evt ==
  /\ \/ JniRuns("enable_success") /\ future_ready("up", "success")
     \/ JniRuns("enable_failure") /\ future_ready("up", "fail")
  /\ jni' = jni_next
  /\ UNCHANGED <<callVars, mgmtVars, wq, lifecycle, main, message_loop_, modules,
                 btaVars, reported, overlap>>

\* BTA_DM_DISABLE_EVT, btif_disable_bluetooth_evt, bte_main_disable: HCI is
\* shut down, the main loop is asked to quit, the control blocks are freed
\* and bt_workqueue_thread is stopped; thread_free waits for it.
btif_disable_bluetooth_evt ==
  /\ JniRuns("disable_evt")
  /\ jni' = [jni_next EXCEPT !.pc = "join"]
  /\ main' = bta_sys_sendmsg(main, "quit")
  /\ Check(modules["BTE_LOGMSG"] \in {"NONE", "INITIALIZED"})
  /\ modules' = [modules EXCEPT !["HCI"] = module_shut_down("HCI"), !["BTE_LOGMSG"] = "NONE"]
  /\ UNCHANGED <<callVars, mgmtVars, hack_future, wq, lifecycle, message_loop_, btaVars,
                 reported, overlap>>

workqueue_joined ==
  /\ alive /\ jni.pc = "join"
  /\ wq.tasks = <<>>
  /\ wq' = [thread |-> "none", tasks |-> <<>>]
  /\ jni' = [jni EXCEPT !.pc = "idle"]
  /\ future_ready("down", "success")
  /\ UNCHANGED <<callVars, mgmtVars, lifecycle, main, message_loop_, modules, btaVars,
                 reported, overlap>>

\* BTA_DM_HW_ERROR_EVT: the process kills itself.
hw_error_evt ==
  /\ JniRuns("hw_error")
  /\ process' = "killed"
  /\ UNCHANGED <<callVars, mgmtVars, hack_future, jni, wq, lifecycle, main,
                 message_loop_, modules, btaVars, reported, overlap>>

adapter_state_changed_cb(state) ==
  reported' = [state |-> state,
               repeated |-> reported.repeated \/ reported.state = state]

event_signal_stack_up ==
  /\ JniRuns("signal_up")
  /\ jni' = jni_next
  /\ adapter_state_changed_cb("ON")
  /\ UNCHANGED <<callVars, mgmtVars, hack_future, wq, lifecycle, main, message_loop_,
                 modules, btaVars, process, overlap>>

event_signal_stack_down ==
  /\ JniRuns("signal_down")
  /\ jni' = jni_next
  /\ adapter_state_changed_cb("OFF")
  /\ future_ready("signal", "success")
  /\ UNCHANGED <<callVars, mgmtVars, wq, lifecycle, main, message_loop_, modules,
                 btaVars, overlap>>

\* QuitClosure: what is still queued is deleted with the loop.
jni_loop_ends ==
  /\ JniRuns("quit")
  /\ jni' = [loop |-> "none", tasks |-> <<>>, pc |-> "idle"]
  /\ UNCHANGED <<callVars, mgmtVars, hack_future, wq, lifecycle, main, message_loop_,
                 modules, btaVars, process, reported, overlap>>

Jni ==
  \/ run_message_loop \/ btif_init_ok \/ btif_enable_bluetooth_evt
  \/ btif_disable_bluetooth_evt \/ workqueue_joined \/ hw_error_evt
  \/ event_signal_stack_up \/ event_signal_stack_down \/ jni_loop_ends

-----------------------------------------------------------------------------
(* bt_workqueue_thread, and the module wrapper's lifecycle thread.          *)

WqRuns(task) == alive /\ wq.tasks # <<>> /\ Head(wq.tasks) = task

\* btu_task_start_up: control blocks are reset (btm_init, bta_sys_init), and
\* a thread is created for the main loop of a new session.
btu_task_start_up ==
  /\ WqRuns("start_up")
  /\ wq' = [wq EXCEPT !.tasks = Tail(@)]
  /\ bta_sys_cb' = no_sys /\ p_rln_cmpl_cb' = FALSE /\ acl' = 0
  /\ Check(modules["BTE_LOGMSG"] = "NONE")
  /\ modules' = [modules EXCEPT !["BTE_LOGMSG"] = "INITIALIZED"]
  /\ \E s \in Sessions :
       /\ main[s].state = "none" /\ \A t \in 1 .. s - 1 : main[t].state # "none"
       /\ main' = [main EXCEPT ![s].state = "created"]
  /\ UNCHANGED <<callVars, mgmtVars, hack_future, jni, lifecycle, message_loop_,
                 bta_dm_cb, faults, reported, overlap>>

\* run_wrapped_start_up of the controller module: it needs HCI's answers.
run_wrapped_start_up ==
  /\ alive /\ lifecycle > 0
  /\ modules["HCI"] = "STARTED"
  /\ lifecycle' = lifecycle - 1
  /\ modules' = [modules EXCEPT !["CONTROLLER"] = "STARTED"]
  /\ wq' = [wq EXCEPT !.tasks = Append(@, "reset_complete")]
  /\ UNCHANGED <<callVars, mgmtVars, hack_future, jni, main, message_loop_, btaVars,
                 process, reported, overlap>>

\* post_result_to_callback, reset_complete, bta_sys_hw_btm_cback
reset_complete ==
  /\ WqRuns("reset_complete")
  /\ wq' = [wq EXCEPT !.tasks = Tail(@)]
  /\ main' = bta_sys_sendmsg(main, "stack_enabled")
  /\ UNCHANGED <<callVars, mgmtVars, hack_future, jni, lifecycle, message_loop_, modules,
                 btaVars, process, reported, overlap>>

Workqueue == btu_task_start_up \/ reset_complete

-----------------------------------------------------------------------------
(* The main threads, one per session.                                       *)

\* btu_message_loop_run up to Run: the loop becomes the global one.
btu_message_loop_run(s) ==
  /\ alive /\ main[s].state = "created"
  /\ main' = [main EXCEPT ![s] = [state |-> "running", tasks |-> <<"init_ok">>, acts |-> <<>>]]
  /\ message_loop_' = s
  /\ overlap' = (overlap \/ \E t \in Sessions \ {s} : main[t].state \in {"running", "quit"})
  /\ UNCHANGED <<callVars, mgmtVars, hack_future, jni, wq, lifecycle, modules, btaVars,
                 process, reported>>

\* btu_message_loop_run after Run: whatever loop is the global one is deleted.
btu_message_loop_ends(s) ==
  /\ alive /\ main[s].state = "quit"
  /\ main' = [main EXCEPT ![s].state = "ended"]
  /\ message_loop_' = 0
  /\ process' = IF message_loop_ \in {0, s} THEN process ELSE "aborted"
  /\ UNCHANGED <<callVars, mgmtVars, hack_future, jni, wq, lifecycle, modules, btaVars,
                 reported, overlap>>

Running(s) == alive /\ main[s].state = "running" /\ main[s].acts = <<>>
MainRuns(s, task) == Running(s) /\ main[s].tasks # <<>> /\ Head(main[s].tasks) = task

main_next(s) == [main EXCEPT ![s].tasks = Tail(@)]

\* The first task: tell the JNI thread that the loop is there.
transfer_init_ok(s) ==
  /\ MainRuns(s, "init_ok")
  /\ main' = main_next(s)
  /\ jni' = ToJni(<<"init_ok">>)
  /\ UNCHANGED <<callVars, mgmtVars, hack_future, wq, lifecycle, message_loop_, modules,
                 btaVars, process, reported, overlap>>

\* QuitClosure: the loop returns after this task, whatever is queued behind.
main_quits(s) ==
  /\ MainRuns(s, "quit")
  /\ main' = [main EXCEPT ![s].state = "quit", ![s].tasks = <<>>]
  /\ UNCHANGED <<callVars, mgmtVars, hack_future, jni, wq, lifecycle, message_loop_,
                 modules, btaVars, process, reported, overlap>>

bta_dm_enable(s) ==
  /\ MainRuns(s, "dm_enable")
  /\ \/ /\ bta_dm_cb.active
        /\ jni' = ToJni(<<"enable_failure">>)
        /\ main' = main_next(s)
        /\ UNCHANGED <<bta_sys_cb, bta_dm_cb>>
     \/ /\ ~bta_dm_cb.active
        /\ bta_sys_cb' = [bta_sys_cb EXCEPT !.cback = TRUE]
        /\ bta_dm_cb' = [bta_dm_cb EXCEPT !.active = TRUE, !.hw = "OFF"]
        /\ main' = bta_sys_sendmsg(main_next(s), "api_enable")
        /\ UNCHANGED jni
  /\ UNCHANGED <<callVars, mgmtVars, hack_future, wq, lifecycle, message_loop_, modules,
                 p_rln_cmpl_cb, acl, faults, process, reported, overlap>>

\* bta_dm_disable: with links up, wait for them; without, for a short delay.
\* alarm_set_on_mloop checks that disable_timer exists.
bta_dm_disable(s) ==
  /\ MainRuns(s, "dm_disable")
  /\ Check(bta_dm_cb.hw # "OFF")
  /\ main' = main_next(s)
  /\ bta_dm_cb' = [bta_dm_cb EXCEPT !.disabling = TRUE,
                                    !.timer = IF acl = 0 THEN "conn_down" ELSE "trial_0"]
  /\ UNCHANGED <<callVars, mgmtVars, hack_future, jni, wq, lifecycle, message_loop_,
                 modules, bta_sys_cb, p_rln_cmpl_cb, acl, faults, reported, overlap>>

(* BTA SYS: the state table, and its actions one at a time.                 *)

bta_sys_st_tbl ==
  LET row(acts, next) == [acts |-> acts, next |-> next]
  IN [OFF |->
        [api_enable    |-> row(<<"api_enable">>, "STARTING"),
         evt_enabled   |-> row(<<>>, "STARTING"),
         stack_enabled |-> row(<<>>, "ON"),
         api_disable   |-> row(<<"evt_disabled">>, "OFF"),
         evt_disabled  |-> row(<<>>, "OFF"),
         error         |-> row(<<>>, "OFF")],
      STARTING |->
        [api_enable    |-> row(<<>>, "STARTING"),
         evt_enabled   |-> row(<<"evt_enabled">>, "STARTING"),
         stack_enabled |-> row(<<"evt_stack_enabled">>, "ON"),
         api_disable   |-> row(<<>>, "STOPPING"),
         evt_disabled  |-> row(<<"evt_disabled", "api_enable">>, "STARTING"),
         error         |-> row(<<"error">>, "ON")],
      ON |->
        [api_enable    |-> row(<<"api_enable">>, "ON"),
         evt_enabled   |-> row(<<>>, "ON"),
         stack_enabled |-> row(<<>>, "ON"),
         api_disable   |-> row(<<"api_disable">>, "ON"),
         evt_disabled  |-> row(<<"error">>, "ON"),
         error         |-> row(<<"error">>, "ON")],
      STOPPING |->
        [api_enable    |-> row(<<>>, "STARTING"),
         evt_enabled   |-> row(<<"evt_enabled">>, "STOPPING"),
         stack_enabled |-> row(<<"evt_stack_enabled", "api_disable">>, "STOPPING"),
         api_disable   |-> row(<<>>, "STOPPING"),
         evt_disabled  |-> row(<<"evt_disabled">>, "OFF"),
         error         |-> row(<<"api_disable">>, "STOPPING")]]

bta_sys_events == DOMAIN bta_sys_st_tbl["OFF"]

bta_sys_sm_execute(s) ==
  \E event \in bta_sys_events :
    LET row == bta_sys_st_tbl[bta_sys_cb.state][event]
    IN /\ MainRuns(s, event)
       /\ main' = [main_next(s) EXCEPT ![s].acts = row.acts]
       /\ bta_sys_cb' = [bta_sys_cb EXCEPT !.state = row.next]
       /\ UNCHANGED <<callVars, mgmtVars, hack_future, jni, wq, lifecycle, message_loop_,
                      modules, bta_dm_cb, p_rln_cmpl_cb, acl, faults, process, reported,
                      overlap>>

Acts(s, act) ==
  alive /\ main[s].state = "running" /\ main[s].acts # <<>> /\ Head(main[s].acts) = act

acted(s) == [main EXCEPT ![s].acts = Tail(@)]

\* The BTA_DM security callback, which bta_dm_cb loses when it is reset.
p_sec_cback(event) == IF bta_dm_cb.active THEN ToJni(<<event>>) ELSE jni

\* bta_dm_sys_hw_cback(BTA_SYS_HW_ON_EVT): the enable event is sent once the
\* local name is read, unless a read is in progress already.
BTA_SYS_HW_ON_EVT ==
  LET notified == bta_sys_cb.cback /\ bta_dm_cb.hw = "OFF"
  IN /\ bta_dm_cb' = IF notified
                     THEN [no_dm EXCEPT !.active = TRUE, !.hw = "ON"] ELSE bta_dm_cb
     /\ p_rln_cmpl_cb' = (p_rln_cmpl_cb \/ notified)

bta_sys_hw_api_enable(s) ==
  /\ Acts(s, "api_enable")
  /\ bta_sys_cb' = [bta_sys_cb EXCEPT !.active = TRUE]
  /\ IF ~bta_sys_cb.active /\ bta_sys_cb.state # "ON"
     THEN main' = bta_sys_sendmsg(acted(s), "evt_enabled") /\ UNCHANGED <<bta_dm_cb, p_rln_cmpl_cb>>
     ELSE main' = acted(s) /\ BTA_SYS_HW_ON_EVT
  /\ UNCHANGED <<callVars, mgmtVars, hack_future, jni, wq, lifecycle, message_loop_, modules,
                 acl, faults, process, reported, overlap>>

\* BTM_DeviceReset: the links are gone, a name read is answered, and the
\* controller module is started on the lifecycle thread.
bta_sys_hw_evt_enabled(s) ==
  /\ Acts(s, "evt_enabled")
  /\ main' = acted(s)
  /\ acl' = 0 /\ p_rln_cmpl_cb' = FALSE
  /\ jni' = IF p_rln_cmpl_cb THEN p_sec_cback("enable_success") ELSE jni
  /\ lifecycle' = lifecycle + 1
  /\ UNCHANGED <<callVars, mgmtVars, hack_future, wq, message_loop_, modules, bta_sys_cb,
                 bta_dm_cb, faults, process, reported, overlap>>

bta_sys_hw_evt_stack_enabled(s) ==
  /\ Acts(s, "evt_stack_enabled")
  /\ main' = acted(s)
  /\ BTA_SYS_HW_ON_EVT
  /\ UNCHANGED <<callVars, mgmtVars, hack_future, jni, wq, lifecycle, message_loop_, modules,
                 bta_sys_cb, acl, faults, process, reported, overlap>>

bta_sys_hw_api_disable(s) ==
  /\ Acts(s, "api_disable")
  /\ main' = bta_sys_sendmsg(acted(s), "evt_disabled")
  /\ bta_sys_cb' = [bta_sys_cb EXCEPT !.active = FALSE, !.state = "STOPPING"]
  /\ UNCHANGED <<callVars, mgmtVars, hack_future, jni, wq, lifecycle, message_loop_, modules,
                 bta_dm_cb, p_rln_cmpl_cb, acl, faults, process, reported, overlap>>

\* bta_dm_sys_hw_cback(BTA_SYS_HW_OFF_EVT): the JNI thread is told first, and
\* the control block is reset afterwards.
bta_sys_hw_evt_disabled(s) ==
  /\ Acts(s, "evt_disabled")
  /\ \/ /\ bta_sys_cb.cback /\ bta_dm_cb.hw = "ON"
        /\ bta_dm_cb' = [bta_dm_cb EXCEPT !.hw = "TURNING_OFF"]
        /\ jni' = p_sec_cback("disable_evt")
        /\ main' = [main EXCEPT ![s].acts = <<"deinit">> \o Tail(@)]
     \/ /\ ~(bta_sys_cb.cback /\ bta_dm_cb.hw = "ON")
        /\ main' = acted(s)
        /\ UNCHANGED <<bta_dm_cb, jni>>
  /\ UNCHANGED <<callVars, mgmtVars, hack_future, wq, lifecycle, message_loop_, modules,
                 bta_sys_cb, p_rln_cmpl_cb, acl, faults, process, reported, overlap>>

bta_dm_deinit_cb(s) ==
  /\ Acts(s, "deinit")
  /\ main' = acted(s)
  /\ bta_dm_cb' = no_dm
  /\ bta_sys_cb' = [bta_sys_cb EXCEPT !.cback = FALSE]
  /\ UNCHANGED <<callVars, mgmtVars, hack_future, jni, wq, lifecycle, message_loop_, modules,
                 p_rln_cmpl_cb, acl, faults, process, reported, overlap>>

bta_sys_hw_error(s) ==
  /\ Acts(s, "error")
  /\ main' = acted(s)
  /\ jni' = IF bta_sys_cb.active /\ bta_sys_cb.cback THEN p_sec_cback("hw_error") ELSE jni
  /\ UNCHANGED <<callVars, mgmtVars, hack_future, wq, lifecycle, message_loop_, modules,
                 btaVars, process, reported, overlap>>

-----------------------------------------------------------------------------
(* Timers and events of the controller, handled on the current main loop.   *)

OnLoop(s) == Running(s) /\ s = message_loop_

\* bta_dm_disable_conn_down_timer_cback
conn_down(dm) ==
  /\ bta_sys_cb' = [bta_sys_cb EXCEPT !.cback = TRUE]
  /\ bta_dm_cb' = [dm EXCEPT !.timer = "off", !.disabling = FALSE]
  /\ main' = bta_sys_sendmsg(main, "api_disable")

bta_dm_disable_conn_down_timer_cback(s) ==
  /\ OnLoop(s) /\ bta_dm_cb.timer = "conn_down"
  /\ conn_down(bta_dm_cb)
  /\ UNCHANGED <<callVars, mgmtVars, hack_future, jni, wq, lifecycle, message_loop_, modules,
                 p_rln_cmpl_cb, acl, faults, process, reported, overlap>>

\* Mutant: the timer is not set again when links are still up.
bta_dm_disable_timer_cback_once(s) ==
  /\ OnLoop(s)
  /\ \/ /\ bta_dm_cb.timer = "trial_0" /\ acl > 0
        /\ bta_dm_cb' = [bta_dm_cb EXCEPT !.timer = "off"]
        /\ UNCHANGED <<bta_sys_cb, main>>
     \/ /\ bta_dm_cb.timer = "trial_1" \/ (bta_dm_cb.timer = "trial_0" /\ acl = 0)
        /\ conn_down(bta_dm_cb)
  /\ UNCHANGED <<callVars, mgmtVars, hack_future, jni, wq, lifecycle, message_loop_, modules,
                 p_rln_cmpl_cb, acl, faults, process, reported, overlap>>

\* Trial 0 drops the links and waits once more; trial 1 goes on regardless.
\* (Trial 2 belongs to BTA_DmBredrCleanup, which nothing here calls.)
bta_dm_disable_timer_cback(s) ==
  /\ OnLoop(s)
  /\ \/ /\ bta_dm_cb.timer = "trial_0" /\ acl > 0
        /\ bta_dm_cb' = [bta_dm_cb EXCEPT !.timer = "trial_1"]
        /\ UNCHANGED <<bta_sys_cb, main>>
     \/ /\ bta_dm_cb.timer = "trial_1" \/ (bta_dm_cb.timer = "trial_0" /\ acl = 0)
        /\ conn_down(bta_dm_cb)
  /\ UNCHANGED <<callVars, mgmtVars, hack_future, jni, wq, lifecycle, message_loop_, modules,
                 p_rln_cmpl_cb, acl, faults, process, reported, overlap>>

\* Mutant: the callback is not forgotten, so that a timeout calls it again.
btm_read_local_name_complete_kept(s) ==
  /\ OnLoop(s) /\ p_rln_cmpl_cb
  /\ UNCHANGED p_rln_cmpl_cb
  /\ jni' = p_sec_cback("enable_success")
  /\ UNCHANGED <<callVars, mgmtVars, hack_future, wq, lifecycle, main, message_loop_, modules,
                 bta_sys_cb, bta_dm_cb, acl, faults, process, reported, overlap>>

\* btm_read_local_name_complete, or btm_read_local_name_timeout: both end in
\* bta_dm_local_name_cback, which reports success.
btm_read_local_name_complete(s) ==
  /\ OnLoop(s) /\ p_rln_cmpl_cb
  /\ p_rln_cmpl_cb' = FALSE
  /\ jni' = p_sec_cback("enable_success")
  /\ UNCHANGED <<callVars, mgmtVars, hack_future, wq, lifecycle, main, message_loop_, modules,
                 bta_sys_cb, bta_dm_cb, acl, faults, process, reported, overlap>>

link_up(s) ==
  /\ OnLoop(s) /\ bta_dm_cb.hw = "ON" /\ modules["HCI"] = "STARTED"
  /\ faults.links < MaxLinks
  /\ faults' = [faults EXCEPT !.links = @ + 1]
  /\ acl' = acl + 1
  /\ UNCHANGED <<callVars, mgmtVars, hack_future, jni, wq, lifecycle, main, message_loop_,
                 modules, bta_sys_cb, bta_dm_cb, p_rln_cmpl_cb, process, reported, overlap>>

\* The last link's end lets a disable go on.
links_now(n) ==
  /\ acl' = n
  /\ bta_dm_cb' = [bta_dm_cb EXCEPT !.timer = IF bta_dm_cb.disabling /\ n = 0 /\ acl > 0
                                              THEN "conn_down" ELSE @]

bta_dm_acl_change_down(s) ==
  /\ OnLoop(s) /\ bta_dm_cb.hw = "ON" /\ acl > 0
  /\ links_now(acl - 1)
  /\ UNCHANGED <<callVars, mgmtVars, hack_future, jni, wq, lifecycle, main, message_loop_,
                 modules, bta_sys_cb, p_rln_cmpl_cb, faults, process, reported, overlap>>

\* btu_hcif_hardware_error_evt: BTA SYS is told; a controller that is up is
\* reset, which ends every link and answers a pending name read.
btu_hcif_hardware_error_evt(s) ==
  /\ OnLoop(s) /\ modules["HCI"] = "STARTED"
  /\ faults.errors < MaxErrors
  /\ faults' = [faults EXCEPT !.errors = @ + 1]
  /\ main' = bta_sys_sendmsg(main, "error")
  /\ IF modules["CONTROLLER"] = "STARTED"
     THEN /\ links_now(0)
          /\ p_rln_cmpl_cb' = FALSE
          /\ jni' = IF p_rln_cmpl_cb THEN p_sec_cback("enable_success") ELSE jni
     ELSE UNCHANGED <<acl, bta_dm_cb, p_rln_cmpl_cb, jni>>
  /\ UNCHANGED <<callVars, mgmtVars, hack_future, wq, lifecycle, message_loop_, modules,
                 bta_sys_cb, process, reported, overlap>>

MainTasks(s) ==
  \/ btu_message_loop_run(s) \/ btu_message_loop_ends(s)
  \/ transfer_init_ok(s) \/ main_quits(s) \/ bta_dm_enable(s) \/ bta_dm_disable(s)
  \/ bta_sys_sm_execute(s)
  \/ bta_sys_hw_api_enable(s) \/ bta_sys_hw_evt_enabled(s)
  \/ bta_sys_hw_evt_stack_enabled(s) \/ bta_sys_hw_api_disable(s)
  \/ bta_sys_hw_evt_disabled(s) \/ bta_dm_deinit_cb(s) \/ bta_sys_hw_error(s)

Timers(s) ==
  \/ bta_dm_disable_conn_down_timer_cback(s) \/ bta_dm_disable_timer_cback(s)
  \/ btm_read_local_name_complete(s)

Links(s) == link_up(s) \/ bta_dm_acl_change_down(s) \/ btu_hcif_hardware_error_evt(s)

Client == init \/ enable \/ disable \/ cleanup

Next ==
  \/ Client \/ Management \/ Jni \/ Workqueue \/ run_wrapped_start_up
  \/ \E s \in Sessions : MainTasks(s) \/ Timers(s) \/ Links(s)

\* Every thread and every timer keeps going; the client and the controller's
\* own events need not.
Fairness ==
  /\ WF_vars(Management) /\ WF_vars(Jni) /\ WF_vars(Workqueue)
  /\ WF_vars(run_wrapped_start_up)
  /\ \A s \in Sessions : WF_vars(MainTasks(s)) /\ WF_vars(Timers(s))

Spec == Init /\ [][Next]_vars
FairSpec == Spec /\ Fairness

-----------------------------------------------------------------------------
(* Properties.                                                              *)

\* Nothing is going on in any thread.
Quiet ==
  /\ alive /\ mgmt = <<>> /\ mgmt_queue = <<>>
  /\ jni.tasks = <<>> /\ jni.pc = "idle" /\ wq.tasks = <<>> /\ lifecycle = 0
  /\ \A s \in Sessions : /\ main[s].tasks = <<>> /\ main[s].acts = <<>>
                         /\ main[s].state \notin {"created", "quit"}

\* A completion (future_ready on stack_manager_get_hack_future) always meets
\* the future that was created for it, still waited for: one that comes late
\* or twice fails the CHECKs of future.cc or ends the wrong wait. It holds as
\* long as no main loop starts before its predecessor has ended.
ReadyMeetsWaiter ==
  ~overlap =>
    /\ process # "aborted"
    /\ hack_future.state \in {"success", "fail"} => hack_future.by = hack_future.for

\* adapter_state_changed_cb alternates: the client never gets ON or OFF twice
\* running.
StatesAlternate == ~overlap => ~reported.repeated

\* When nothing is going on, what the client was told last is what it asked
\* for last: calls made while the stack goes up or down are not lost.
QuietAsRequested == Quiet /\ ~overlap => reported.state = wanted

\* A thread that could not be created: its start-up is waited for all the same.
ThreadMissing ==
  /\ hack_future.state = "waiting"
  /\ \/ hack_future.for = "init" /\ jni.loop = "none"
     \/ hack_future.for = "up" /\ wq.thread = "none"

\* The management thread comes back from every event: each future it waits on
\* is made ready, unless the thread that would do so was never created, the
\* process is gone or two main loops overlapped. Calls that wait for init and
\* cleanup return with it.
EventsFinish ==
  mgmt # <<>> ~> (mgmt = <<>> \/ ThreadMissing \/ overlap \/ ~alive)

\* "Using the thread to perform all stack operations ensures that the
\* operations are done serially and do not overlap" (stack_manager.cc:74-76):
\* the main loop of one session has ended before that of the next one runs.
OperationsSerial ==
  \A s, t \in Sessions :
    s # t => ~(main[s].state \in {"running", "quit"} /\ main[t].state \in {"running", "quit"})
=============================================================================
