------------------------------ MODULE LeConnect ------------------------------
(***************************************************************************)
(* Who connects to which LE device: stack/gatt/connection_manager.cc keeps *)
(* the applications that want a device, stack/btm/btm_ble_bgconn.cc a copy *)
(* of the controller's white list, and btm_ble_connection_establishment.cc *)
(* the state of the one connection attempt that works off that list.       *)
(*                                                                         *)
(* All host code runs on the main loop, one handler at a time. Commands    *)
(* travel to the controller and events back, both in order, and cross each *)
(* other: a cancel may meet the connection it was meant to cancel. The     *)
(* controller (external) refuses to change the white list, and to start a  *)
(* second attempt, while an attempt is active.                             *)
(***************************************************************************)
EXTENDS Integers, FiniteSets, Sequences, SequencesExt, Functions, TLC

CONSTANTS
  Apps,             \* ids of the subsystems that ask for connections
  Devices,          \* addresses, as numbers: std::map keeps them in order
  Undiscovered,     \* devices whose address is random, but not yet known to be
  WhiteListSize,    \* get_ble_white_list_size
  MaxLcbs,          \* links L2CAP has control blocks for
  ControllerLinks,  \* links the controller has room for
  MaxOps,           \* bound on the requests of applications
  MaxDisturbances   \* bound on links that end, incoming links, attempts the
                    \* controller fails, and restarts of the stack, together

ASSUME LeAssumption ==
  /\ Devices \subseteq Nat /\ IsFiniteSet(Devices) /\ IsFiniteSet(Apps)
  /\ Undiscovered \subseteq Devices
  /\ WhiteListSize \in Nat \ {0} /\ MaxLcbs \in Nat \ {0}
  /\ ControllerLinks \in Nat \ {0}
  /\ MaxOps \in Nat /\ MaxDisturbances \in Nat

VARIABLES
  bgconn_dev,   \* per device: the apps doing background and direct connection
  btm,          \* background_connections, wl_init, conn_st; commands sent
  scan,         \* scan parameters of the attempt: "UNDEF", "FAST", "SLOW"
  addr_type,    \* address type of each device, as the host knows it
  acl,          \* devices BTM_IsAclConnectionUp says are connected
  events,       \* from the controller, not yet handled
  controller,   \* external: white list, attempt active?, links
  disabling,    \* is the session being disabled?
  bound,        \* requests and disturbances so far
  history       \* which of the hazards below have been met

vars == <<bgconn_dev, btm, scan, addr_type, acl, events, controller, disabling,
          bound, history>>

no_apps == [bg |-> {}, direct |-> {}]
no_controller == [wl |-> {}, initiating |-> FALSE, links |-> {}]

Init ==
  /\ bgconn_dev = [d \in Devices |-> no_apps]
  /\ btm = [background_connections |-> <<>>, wl_init |-> FALSE, conn_st |-> "IDLE",
            commands |-> <<>>]
  /\ scan = "UNDEF"
  /\ addr_type = [d \in Devices |-> "public"]
  /\ acl = {} /\ events = <<>>
  /\ controller = no_controller
  /\ disabling = FALSE
  /\ bound = [ops |-> 0, disturbances |-> 0]
  /\ history = {}

-----------------------------------------------------------------------------
(* btm_ble_bgconn.cc and btm_ble_connection_establishment.cc, as functions  *)
(* of the state |h| of btm; |up| is the set of connected devices.           *)

Send(h, cmds) == [h EXCEPT !.commands = @ \o cmds]

ListCommand(op, d, type) == [op |-> op, dev |-> d, type |-> type]
Plain(op) == ListCommand(op, 0, "public")

\* An entry is looked up by address; one of another address type is taken out
\* of the controller's list, to be loaded again.
background_connection_add(h, d) ==
  LET bc == h.background_connections
      entry == [type |-> addr_type[d], in_controller_wl |-> FALSE,
                type_in_wl |-> "public", pending_removal |-> FALSE]
      changed == d \in DOMAIN bc /\ bc[d].type # addr_type[d]
  IN IF d \notin DOMAIN bc
     THEN [h EXCEPT !.background_connections = d :> entry @@ bc]
     ELSE [Send(h, IF changed THEN <<ListCommand("remove", d, bc[d].type_in_wl)>> ELSE <<>>)
             EXCEPT !.background_connections[d] =
               [@ EXCEPT !.type = addr_type[d], !.pending_removal = FALSE,
                         !.in_controller_wl = @ /\ ~changed]]

\* mutant: the entry is forgotten although the controller holds it
background_connection_remove_now(h, d) ==
  [h EXCEPT !.background_connections = Restrict(@, DOMAIN @ \ {d})]

\* What the controller holds is removed from there first, later.
background_connection_remove(h, d) ==
  LET bc == h.background_connections
  IN IF d \notin DOMAIN bc THEN h
     ELSE IF bc[d].in_controller_wl
     THEN [h EXCEPT !.background_connections[d].pending_removal = TRUE]
     ELSE [h EXCEPT !.background_connections = Restrict(bc, DOMAIN bc \ {d})]

background_connections_pending(h, up) ==
  \E d \in DOMAIN h.background_connections :
    ~h.background_connections[d].pending_removal /\ d \notin up

background_connections_count(h) ==
  Cardinality({d \in DOMAIN h.background_connections :
                 ~h.background_connections[d].pending_removal})

\* Removals first; then load what is wanted and take out what is connected.
btm_execute_wl_dev_operation(h, up) ==
  LET bc == h.background_connections
      removed == {d \in DOMAIN bc : bc[d].pending_removal}
      kept == DOMAIN bc \ removed
      loaded == {d \in kept : ~bc[d].in_controller_wl /\ d \notin up}
      dropped == {d \in kept : bc[d].in_controller_wl /\ d \in up}
      cmd(op, S) == LET ds == SetToSeq(S)
                    IN [i \in DOMAIN ds |->
                          ListCommand(op, ds[i], IF op = "add" THEN bc[ds[i]].type
                                                 ELSE bc[ds[i]].type_in_wl)]
  IN [Send(h, cmd("remove", removed) \o cmd("remove", dropped) \o cmd("add", loaded))
        EXCEPT !.background_connections =
          [d \in kept |->
             [bc[d] EXCEPT !.in_controller_wl = d \in loaded \/ (@ /\ d \notin dropped),
                           !.type_in_wl = IF d \in loaded THEN bc[d].type ELSE @]]]

\* btm_ble_start_auto_conn, btm_ble_resume_bg_conn
btm_ble_start_auto_conn(h, up) ==
  IF h.conn_st # "IDLE" \/ ~background_connections_pending(h, up)
     \/ Cardinality(up) >= MaxLcbs
  THEN h
  ELSE [Send(btm_execute_wl_dev_operation(h, up), <<Plain("create")>>)
          EXCEPT !.wl_init = TRUE, !.conn_st = "CONNECTING"]

\* btm_ble_stop_auto_conn, btm_ble_create_conn_cancel
btm_ble_stop_auto_conn(h) ==
  IF h.conn_st # "CONNECTING" THEN h
  ELSE [Send(h, <<Plain("cancel")>>) EXCEPT !.conn_st = "CANCEL", !.wl_init = FALSE]

StopIfListed(h) == IF h.wl_init THEN btm_ble_stop_auto_conn(h) ELSE h

WhiteListFull(h) == background_connections_count(h) = WhiteListSize

BTM_WhiteListAdd(h, d) ==
  LET added == background_connection_add(StopIfListed(h), d)
  IN IF d \notin acl THEN btm_ble_start_auto_conn(added, acl)
     ELSE btm_execute_wl_dev_operation(added, acl)

BTM_WhiteListRemove(h, d) ==
  btm_ble_start_auto_conn(background_connection_remove(StopIfListed(h), d), acl)

BTM_WhiteListClear(h) ==
  [Send(btm_ble_stop_auto_conn(h), <<Plain("clear")>>) EXCEPT !.background_connections = <<>>]

\* mutant: the active attempt goes on without the device
cancel_if_disconnected_not(h, d, up) == h

\* btm_ble_bgconn_cancel_if_disconnected
cancel_if_disconnected(h, d, up) ==
  LET bc == h.background_connections
  IN IF /\ d \in DOMAIN bc \ up
        /\ ~bc[d].in_controller_wl /\ ~bc[d].pending_removal
     THEN btm_ble_stop_auto_conn(h) ELSE h

\* btm_ble_update_mode_operation; |ds| is the device it is about, if any.
btm_ble_update_mode_operation(h, ds, up) ==
  LET asked == IF ds = {} THEN h ELSE cancel_if_disconnected(h, CHOOSE d \in ds : TRUE, up)
  IN btm_ble_start_auto_conn(asked, up)

BTM_SetLeConnectionModeToFast == scan' = "FAST"
BTM_SetLeConnectionModeToSlow == scan' = "SLOW"

-----------------------------------------------------------------------------
(* connection_manager.cc. A request that changes nothing (the app is in the *)
(* set already, or is not in it) returns at once and is left out.           *)

anyone_connecting(d) == bgconn_dev[d].bg # {} \/ bgconn_dev[d].direct # {}
any_direct_connect_left(dev) == \E d \in Devices : dev[d].direct # {}

Request ==
  /\ bound.ops < MaxOps
  /\ bound' = [bound EXCEPT !.ops = @ + 1]
  /\ UNCHANGED <<addr_type, acl, events, controller, disabling>>

\* The last direct connection goes, and the scan parameters stay.
NotLowered(dev) ==
  history' = IF any_direct_connect_left(bgconn_dev) /\ ~any_direct_connect_left(dev)
             THEN history \cup {"not_lowered"} ELSE history

\* A direct connection of the same app is turned into a background one.
background_connect_add(a, d) ==
  /\ Request
  /\ a \notin bgconn_dev[d].bg
  /\ anyone_connecting(d) \/ ~WhiteListFull(btm)
  /\ btm' = IF anyone_connecting(d) THEN btm ELSE BTM_WhiteListAdd(btm, d)
  /\ bgconn_dev' = [bgconn_dev EXCEPT ![d].direct = @ \ {a}, ![d].bg = @ \cup {a}]
  /\ NotLowered(bgconn_dev')
  /\ UNCHANGED scan

background_connect_remove(a, d) ==
  /\ Request
  /\ a \in bgconn_dev[d].bg
  /\ bgconn_dev' = [bgconn_dev EXCEPT ![d].bg = @ \ {a}]
  /\ btm' = IF bgconn_dev'[d] = no_apps THEN BTM_WhiteListRemove(btm, d) ELSE btm
  /\ UNCHANGED <<scan, history>>

remove_unconditional(d) ==
  /\ Request
  /\ anyone_connecting(d)
  /\ btm' = BTM_WhiteListRemove(btm, d)
  /\ bgconn_dev' = [bgconn_dev EXCEPT ![d] = no_apps]
  /\ NotLowered(bgconn_dev')
  /\ UNCHANGED scan

\* Device by device, in the order of the map.
on_app_deregistered(a) ==
  LET wanted == {d \in Devices : a \in bgconn_dev[d].bg \cup bgconn_dev[d].direct}
      after == [d \in Devices |-> [bg |-> bgconn_dev[d].bg \ {a},
                                   direct |-> bgconn_dev[d].direct \ {a}]]
      removed == SetToSortSeq({d \in wanted : after[d] = no_apps}, <)
  IN /\ Request
     /\ wanted # {}
     /\ bgconn_dev' = after
     /\ btm' = FoldLeft(BTM_WhiteListRemove, btm, removed)
     /\ NotLowered(after)
     /\ UNCHANGED scan

direct_connect_add(a, d) ==
  /\ Request
  /\ d \notin acl
  /\ a \notin bgconn_dev[d].direct
  /\ \/ /\ anyone_connecting(d)
        /\ BTM_SetLeConnectionModeToFast
        /\ bgconn_dev' = [bgconn_dev EXCEPT ![d].direct = @ \cup {a}]
        /\ UNCHANGED btm
     \/ /\ ~anyone_connecting(d) /\ ~WhiteListFull(btm)
        /\ BTM_SetLeConnectionModeToFast
        /\ btm' = BTM_WhiteListAdd(btm, d)
        /\ bgconn_dev' = [bgconn_dev EXCEPT ![d].direct = @ \cup {a}]
     \/ /\ ~anyone_connecting(d) /\ WhiteListFull(btm)
        /\ scan' = IF scan = "FAST" THEN scan ELSE "SLOW"
        /\ UNCHANGED <<bgconn_dev, btm>>
  /\ UNCHANGED history

\* direct_connect_remove for the apps |as|: what is left in bgconn_dev, the
\* scan parameters, and btm when it was |h|.
left_without(as, d) == [bgconn_dev EXCEPT ![d].direct = @ \ as]

\* mutant: lowered although other direct connections are left
DirectRemoved_lowers(as, d) ==
  /\ bgconn_dev' = left_without(as, d)
  /\ IF as # {} THEN BTM_SetLeConnectionModeToSlow ELSE UNCHANGED scan

DirectRemoved(as, d) ==
  /\ bgconn_dev' = left_without(as, d)
  /\ IF as # {} /\ ~any_direct_connect_left(left_without(as, d))
     THEN BTM_SetLeConnectionModeToSlow ELSE UNCHANGED scan

direct_removed(as, d, h) ==
  IF as # {} /\ left_without(as, d)[d] = no_apps THEN BTM_WhiteListRemove(h, d) ELSE h

direct_connect_remove(a, d) ==
  /\ Request
  /\ a \in bgconn_dev[d].direct
  /\ DirectRemoved({a}, d)
  /\ btm' = direct_removed({a}, d, btm)
  /\ UNCHANGED history

\* The 30 s alarm of a direct connection.
wl_direct_connect_timeout_cb(a, d) ==
  /\ a \in bgconn_dev[d].direct
  /\ DirectRemoved({a}, d)
  /\ btm' = direct_removed({a}, d, btm)
  /\ UNCHANGED <<addr_type, acl, events, controller, disabling, bound, history>>

\* The device is seen advertising with a random address.
discovered(d) ==
  /\ d \in Undiscovered /\ addr_type[d] = "public"
  /\ addr_type' = [addr_type EXCEPT ![d] = "random"]
  /\ UNCHANGED <<bgconn_dev, btm, scan, acl, events, controller, disabling, bound, history>>

-----------------------------------------------------------------------------
(* Events from the controller.                                              *)

Handles(type) ==
  /\ events # <<>> /\ Head(events).type = type
  /\ events' = Tail(events)
  /\ UNCHANGED <<addr_type, controller, disabling, bound>>

\* btm_ble_conn_complete with status 0, as master or as slave: the direct
\* connections to the device are over before it counts as connected.
btm_ble_conn_complete ==
  LET e == Head(events)
      direct == bgconn_dev[e.dev].direct
      idle == IF e.role = "master" THEN [btm EXCEPT !.conn_st = "IDLE"] ELSE btm
      up == acl \cup {e.dev}
  IN /\ Handles("connected")
     /\ DirectRemoved(direct, e.dev)
     /\ acl' = up
     /\ btm' = btm_ble_update_mode_operation(direct_removed(direct, e.dev, idle), {e.dev}, up)
     /\ UNCHANGED history

\* btm_ble_conn_complete with another status: the attempt was cancelled.
btm_ble_conn_cancelled ==
  /\ Handles("cancelled")
  /\ btm' = btm_ble_update_mode_operation([btm EXCEPT !.conn_st = "IDLE"], {}, acl)
  /\ UNCHANGED <<bgconn_dev, scan, acl, history>>

\* mutant: tried again at once when there is no room for a link
btm_ble_create_ll_conn_complete_retries ==
  /\ \/ /\ Handles("create_disallowed")
        /\ btm' = [btm EXCEPT !.conn_st = "CONNECTING"]
     \/ /\ Handles("create_failed") \/ Handles("create_limited")
        /\ btm' = btm_ble_update_mode_operation([btm EXCEPT !.conn_st = "IDLE"], {}, acl)
  /\ UNCHANGED <<bgconn_dev, scan, acl, history>>

\* The command status of the attempt. With no room for a link nothing more is
\* tried until something changes.
btm_ble_create_ll_conn_complete ==
  /\ \/ /\ Handles("create_disallowed")
        /\ btm' = [btm EXCEPT !.conn_st = "CONNECTING"]
     \/ /\ Handles("create_failed")
        /\ btm' = btm_ble_update_mode_operation([btm EXCEPT !.conn_st = "IDLE"], {}, acl)
     \/ /\ Handles("create_limited")
        /\ btm' = [btm EXCEPT !.conn_st = "IDLE"]
  /\ UNCHANGED <<bgconn_dev, scan, acl, history>>

\* A cancel that has not been answered yet, besides the one whose answer is at
\* hand.
cancel_under_way ==
  \/ Plain("cancel") \in ToSet(btm.commands)
  \/ \E i \in 2 .. Len(events) : events[i].type \in {"cancelled", "cancel_disallowed"}

\* There was nothing to cancel.
btm_ble_create_conn_cancel_complete ==
  /\ Handles("cancel_disallowed")
  /\ btm' = IF btm.conn_st = "CANCEL"
            THEN btm_ble_update_mode_operation([btm EXCEPT !.conn_st = "IDLE"], {}, acl)
            ELSE btm
  /\ history' = IF btm.conn_st = "CANCEL" /\ cancel_under_way
                THEN history \cup {"stale_answer"} ELSE history
  /\ UNCHANGED <<bgconn_dev, scan, acl>>

\* btu_hcif_disconnection_comp_evt, btm_sec_disconnected
btm_sec_disconnected ==
  LET d == Head(events).dev
  IN /\ Handles("disconnected")
     /\ acl' = acl \ {d}
     /\ btm' = btm_ble_update_mode_operation(btm, {d}, acl \ {d})
     /\ UNCHANGED <<bgconn_dev, scan, history>>

-----------------------------------------------------------------------------
(* The controller (external).                                               *)

Event(type, d, role) == events' = Append(events, [type |-> type, dev |-> d, role |-> role])
Disturbance ==
  /\ bound.disturbances < MaxDisturbances
  /\ bound' = [bound EXCEPT !.disturbances = @ + 1]

hostVars == <<bgconn_dev, scan, addr_type, acl, disabling, history>>

real_type(d) == IF d \in Undiscovered THEN "random" ELSE "public"

\* The white list is left alone while an attempt is active, and when full.
list_after(c) ==
  IF controller.initiating THEN controller.wl
  ELSE CASE c.op = "add" /\ Cardinality(controller.wl) < WhiteListSize ->
              controller.wl \cup {<<c.dev, c.type>>}
         [] c.op = "remove" -> controller.wl \ {<<c.dev, c.type>>}
         [] c.op = "clear" -> {}
         [] OTHER -> controller.wl

Takes(c) ==
  /\ btm.commands # <<>> /\ Head(btm.commands) = c
  /\ btm' = [btm EXCEPT !.commands = Tail(@)]
  /\ UNCHANGED hostVars

changes_list ==
  \E c \in ToSet(btm.commands) :
    /\ c.op \in {"add", "remove", "clear"} /\ Takes(c)
    /\ controller' = [controller EXCEPT !.wl = list_after(c)]
    /\ UNCHANGED <<events, bound>>

starts_attempt ==
  /\ Takes(Plain("create"))
  /\ \/ /\ controller.initiating
        /\ Event("create_disallowed", 0, "none")
        /\ UNCHANGED <<controller, bound>>
     \/ /\ ~controller.initiating /\ Cardinality(controller.links) >= ControllerLinks
        /\ Event("create_limited", 0, "none")
        /\ UNCHANGED <<controller, bound>>
     \/ /\ ~controller.initiating /\ Cardinality(controller.links) < ControllerLinks
        /\ controller' = [controller EXCEPT !.initiating = TRUE]
        /\ UNCHANGED <<events, bound>>
     \/ /\ ~controller.initiating
        /\ Disturbance
        /\ Event("create_failed", 0, "none")
        /\ UNCHANGED controller

cancels_attempt ==
  /\ Takes(Plain("cancel"))
  /\ Event(IF controller.initiating THEN "cancelled" ELSE "cancel_disallowed", 0, "none")
  /\ controller' = [controller EXCEPT !.initiating = FALSE]
  /\ UNCHANGED bound

connects(d) ==
  /\ controller.initiating /\ <<d, real_type(d)>> \in controller.wl
  /\ d \notin controller.links
  /\ controller' = [controller EXCEPT !.initiating = FALSE, !.links = @ \cup {d}]
  /\ Event("connected", d, "master")
  /\ UNCHANGED <<hostVars, btm, bound>>

connected_by_peer(d) ==
  /\ Disturbance
  /\ d \notin controller.links /\ Cardinality(controller.links) < ControllerLinks
  /\ controller' = [controller EXCEPT !.links = @ \cup {d}]
  /\ Event("connected", d, "slave")
  /\ UNCHANGED <<hostVars, btm>>

disconnects(d) ==
  /\ Disturbance
  /\ d \in controller.links
  /\ controller' = [controller EXCEPT !.links = @ \ {d}]
  /\ Event("disconnected", d, "none")
  /\ UNCHANGED <<hostVars, btm>>

-----------------------------------------------------------------------------
(* Sessions of the stack.                                                   *)

\* bta_dm_disable: connection_manager::reset(false)
reset_at_disable ==
  /\ Disturbance
  /\ ~disabling
  /\ disabling' = TRUE
  /\ bgconn_dev' = [d \in Devices |-> no_apps]
  /\ btm' = BTM_WhiteListClear(btm)
  /\ NotLowered(bgconn_dev')
  /\ UNCHANGED <<scan, addr_type, acl, events, controller>>

\* The next session: btm_ble_init, gatt_init and, the controller reset,
\* reset_complete: connection_manager::reset(true).
reset_after_restart ==
  /\ disabling
  /\ disabling' = FALSE
  /\ bgconn_dev' = [d \in Devices |-> no_apps]
  /\ btm' = [btm EXCEPT !.wl_init = FALSE, !.conn_st = "IDLE", !.commands = <<>>]
  /\ scan' = "UNDEF"
  /\ acl' = {} /\ events' = <<>>
  /\ controller' = no_controller
  /\ history' = IF btm.background_connections = <<>> THEN history
                ELSE history \cup {"carried_over"}
  /\ UNCHANGED <<addr_type, bound>>

Requests ==
  \/ \E a \in Apps, d \in Devices :
       \/ background_connect_add(a, d) \/ background_connect_remove(a, d)
       \/ direct_connect_add(a, d) \/ direct_connect_remove(a, d)
  \/ \E d \in Devices : remove_unconditional(d)
  \/ \E a \in Apps : on_app_deregistered(a)

Timers == \E a \in Apps, d \in Devices : wl_direct_connect_timeout_cb(a, d)

HandleEvent ==
  \/ btm_ble_conn_complete \/ btm_ble_conn_cancelled
  \/ btm_ble_create_ll_conn_complete \/ btm_ble_create_conn_cancel_complete
  \/ btm_sec_disconnected

TakeCommand == changes_list \/ starts_attempt \/ cancels_attempt

Air == \E d \in Devices : connects(d) \/ connected_by_peer(d) \/ disconnects(d) \/ discovered(d)

Next ==
  \/ Requests \/ Timers \/ HandleEvent \/ TakeCommand \/ Air
  \/ reset_at_disable \/ reset_after_restart

Spec == Init /\ [][Next]_vars

\* The main loop goes on handling events, and the HCI layer sending commands the
\* controller answers. Nothing is said of the radio.
FairSpec == Spec /\ WF_vars(HandleEvent) /\ WF_vars(TakeCommand)

-----------------------------------------------------------------------------

\* Nothing is on its way between host and controller.
Settled == btm.commands = <<>> /\ events = <<>>

\* No answer to an older cancel ended a newer one, and no entry is left over from
\* the session before.
Undisturbed == history \cap {"stale_answer", "carried_over"} = {}

listed == {d \in DOMAIN btm.background_connections :
             btm.background_connections[d].in_controller_wl}

\* Once all commands are answered the host knows what the controller does: the
\* entries it marks in_controller_wl are the white list, with the address types
\* it recorded, and conn_st says whether an attempt is active. The host ignores
\* the status of white list commands (wl_add_complete, wl_remove_complete) and
\* relies on the order in which it cancels, changes the list and starts again.
HostKnowsController ==
  Settled /\ Undisturbed =>
    /\ controller.wl = {<<d, btm.background_connections[d].type_in_wl>> : d \in listed}
    /\ btm.conn_st = IF controller.initiating THEN "CONNECTING" ELSE "IDLE"

\* A device that an application wants, and that is not connected, is being looked
\* for once all commands are answered and while there is room for a link, through
\* cancels that cross connections, links that drop and attempts that fail.
RequestedIsSought ==
  Settled /\ Undisturbed =>
    \A d \in Devices :
      /\ anyone_connecting(d) /\ d \notin acl
      /\ Cardinality(acl) < MaxLcbs /\ Cardinality(acl) < ControllerLinks
      => /\ controller.initiating
         /\ <<d, btm.background_connections[d].type>> \in controller.wl

\* The attempt scans fast while some application waits for a direct connection,
\* and only then, unless the last direct connection was removed by one of the
\* functions that do not lower the parameters (background_connect_add,
\* remove_unconditional, on_app_deregistered, reset).
ScanMatchesRequests ==
  /\ any_direct_connect_left(bgconn_dev) => scan = "FAST"
  /\ scan = "FAST" => any_direct_connect_left(bgconn_dev) \/ "not_lowered" \in history

\* The exchange of commands and events comes to rest again and again: starting,
\* cancelling and failing attempts never chase each other for ever.
ExchangeSettles == []<>Settled

\* btm_execute_wl_dev_operation: connected devices are not in the white list
\* while a connection attempt is active.
ConnectedNotListed ==
  Settled /\ controller.initiating => \A d \in acl : <<d, addr_type[d]>> \notin controller.wl
=============================================================================
