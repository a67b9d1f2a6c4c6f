---------------------------- MODULE LeConnectProofs ---------------------------
(***************************************************************************)
(* Machine-checked proofs about LeConnect, for any applications, devices,  *)
(* sizes of the white list and numbers of links.                           *)
(***************************************************************************)
EXTENDS LeConnect, TLAPS

Types ==
  /\ bgconn_dev \in [Devices -> [bg : SUBSET Apps, direct : SUBSET Apps]]
  /\ scan \in {"UNDEF", "FAST", "SLOW"}

ScanInv == Types /\ ScanMatchesRequests

\* What NotLowered and the other functions that only remove direct connections
\* rely on: with fewer of them, fewer devices wait.
LEMMA FewerDirect ==
  ASSUME NEW dev \in [Devices -> [bg : SUBSET Apps, direct : SUBSET Apps]],
         \A d \in Devices : dev[d].direct \subseteq bgconn_dev[d].direct
  PROVE  any_direct_connect_left(dev) => any_direct_connect_left(bgconn_dev)
  BY DEF any_direct_connect_left

\* A function that leaves the scan parameters alone, and records when it removes
\* the last direct connection.
LEMMA NotLoweredKeeps ==
  ASSUME ScanInv,
         bgconn_dev' \in [Devices -> [bg : SUBSET Apps, direct : SUBSET Apps]],
         \A d \in Devices : bgconn_dev'[d].direct \subseteq bgconn_dev[d].direct,
         NotLowered(bgconn_dev'), UNCHANGED scan
  PROVE  ScanInv'
<1>1. any_direct_connect_left(bgconn_dev') => any_direct_connect_left(bgconn_dev)
  BY FewerDirect
<1>2. any_direct_connect_left(bgconn_dev)' <=> any_direct_connect_left(bgconn_dev')
  BY DEF any_direct_connect_left
<1> QED
  BY <1>1, <1>2 DEF ScanInv, Types, ScanMatchesRequests, NotLowered

\* direct_connect_remove, for one application or for all of a device's, lowers
\* the parameters exactly when no direct connection is left.
LEMMA DirectRemovedKeeps ==
  ASSUME ScanInv, NEW as, NEW d, DirectRemoved(as, d), UNCHANGED history
  PROVE  ScanInv'
<1>1. bgconn_dev' = left_without(as, d)
  BY DEF DirectRemoved
<1>2. bgconn_dev' \in [Devices -> [bg : SUBSET Apps, direct : SUBSET Apps]]
  BY <1>1, Zenon DEF ScanInv, Types, left_without
<1>3. \A x \in Devices : bgconn_dev'[x].direct \subseteq bgconn_dev[x].direct
  BY <1>1, Zenon DEF ScanInv, Types, left_without
<1>4. any_direct_connect_left(bgconn_dev') => any_direct_connect_left(bgconn_dev)
  BY <1>2, <1>3, FewerDirect, SMTT(30)
<1>5. any_direct_connect_left(bgconn_dev)' <=> any_direct_connect_left(bgconn_dev')
  BY DEF any_direct_connect_left
<1>6. CASE as # {} /\ ~any_direct_connect_left(bgconn_dev')
  BY <1>1, <1>2, <1>5, <1>6, Zenon
     DEF ScanInv, Types, ScanMatchesRequests, DirectRemoved, BTM_SetLeConnectionModeToSlow
<1>7. CASE as # {} /\ any_direct_connect_left(bgconn_dev')
  BY <1>1, <1>2, <1>4, <1>5, <1>7, Zenon DEF ScanInv, Types, ScanMatchesRequests, DirectRemoved
<1>8. CASE as = {}
  <2>1. bgconn_dev' = bgconn_dev
    BY <1>1, <1>8, SMTT(30) DEF left_without, ScanInv, Types
  <2> QED
    BY <1>1, <1>8, <2>1, SMTT(30) DEF ScanInv, Types, ScanMatchesRequests, DirectRemoved
<1> QED
  BY <1>6, <1>7, <1>8, Zenon

-------------------------------------------------------------------------------
\* What applications ask for, and the timer of a direct connection.
LEMMA RequestsKeepInv ==
  ASSUME ScanInv, Requests \/ Timers
  PROVE  ScanInv'
<1> USE DEF ScanInv
<1>1. ASSUME NEW a \in Apps, NEW d \in Devices, background_connect_add(a, d)
      PROVE  ScanInv'
  <2>1. bgconn_dev' \in [Devices -> [bg : SUBSET Apps, direct : SUBSET Apps]]
    BY <1>1 DEF background_connect_add, Types
  <2>2. \A x \in Devices : bgconn_dev'[x].direct \subseteq bgconn_dev[x].direct
    BY <1>1 DEF background_connect_add, Types
  <2> QED
    BY <1>1, <2>1, <2>2, NotLoweredKeeps, SMTT(30) DEF background_connect_add
<1>2. ASSUME NEW a \in Apps, NEW d \in Devices, background_connect_remove(a, d)
      PROVE  ScanInv'
  <2>1. /\ bgconn_dev' = [bgconn_dev EXCEPT ![d].bg = @ \ {a}]
        /\ UNCHANGED <<scan, history>>
    BY <1>2 DEF background_connect_remove
  <2>2. /\ bgconn_dev' \in [Devices -> [bg : SUBSET Apps, direct : SUBSET Apps]]
        /\ \A x \in Devices : bgconn_dev'[x].direct = bgconn_dev[x].direct
    BY <2>1 DEF Types
  <2> QED
    BY <2>1, <2>2 DEF Types, ScanMatchesRequests, any_direct_connect_left
<1>3. ASSUME NEW a \in Apps, NEW d \in Devices, direct_connect_add(a, d)
      PROVE  ScanInv'
  <2>1. CASE bgconn_dev' = [bgconn_dev EXCEPT ![d].direct = @ \cup {a}] /\ scan' = "FAST"
    <3>1. /\ bgconn_dev' \in [Devices -> [bg : SUBSET Apps, direct : SUBSET Apps]]
          /\ bgconn_dev'[d].direct # {}
      BY <2>1 DEF Types
    <3> QED
      BY <2>1, <3>1 DEF Types, ScanMatchesRequests, any_direct_connect_left
  <2>2. CASE /\ UNCHANGED <<bgconn_dev, history>>
             /\ scan' = IF scan = "FAST" THEN scan ELSE "SLOW"
    BY <2>2 DEF Types, ScanMatchesRequests, any_direct_connect_left
  <2> QED
    BY <1>3, <2>1, <2>2, SMTT(30) DEF direct_connect_add, BTM_SetLeConnectionModeToFast
<1>4. ASSUME NEW a \in Apps, NEW d \in Devices, direct_connect_remove(a, d)
      PROVE  ScanInv'
  BY <1>4, DirectRemovedKeeps DEF direct_connect_remove
<1>5. ASSUME NEW d \in Devices, remove_unconditional(d)
      PROVE  ScanInv'
  <2>1. bgconn_dev' \in [Devices -> [bg : SUBSET Apps, direct : SUBSET Apps]]
    BY <1>5 DEF remove_unconditional, no_apps, Types
  <2>2. \A x \in Devices : bgconn_dev'[x].direct \subseteq bgconn_dev[x].direct
    BY <1>5 DEF remove_unconditional, no_apps, Types
  <2> QED
    BY <1>5, <2>1, <2>2, NotLoweredKeeps, SMTT(30) DEF remove_unconditional
<1>6. ASSUME NEW a \in Apps, on_app_deregistered(a)
      PROVE  ScanInv'
  <2>1. bgconn_dev' = [d \in Devices |-> [bg |-> bgconn_dev[d].bg \ {a},
                                         direct |-> bgconn_dev[d].direct \ {a}]]
    BY <1>6, Zenon DEF on_app_deregistered
  <2>2. NotLowered(bgconn_dev') /\ UNCHANGED scan
    BY <1>6, Zenon DEF on_app_deregistered
  <2>3. bgconn_dev' \in [Devices -> [bg : SUBSET Apps, direct : SUBSET Apps]]
    BY <2>1 DEF Types
  <2>4. \A x \in Devices : bgconn_dev'[x].direct \subseteq bgconn_dev[x].direct
    BY <2>1 DEF Types
  <2> QED
    BY <2>2, <2>3, <2>4, NotLoweredKeeps, SMTT(30)
<1>7. ASSUME NEW a \in Apps, NEW d \in Devices, wl_direct_connect_timeout_cb(a, d)
      PROVE  ScanInv'
  BY <1>7, DirectRemovedKeeps DEF wl_direct_connect_timeout_cb
<1> QED
  BY <1>1, <1>2, <1>3, <1>4, <1>5, <1>6, <1>7, SMTT(30) DEF Requests, Timers

\* Everything else leaves requests and parameters alone, but for a completed
\* connection, which ends the direct connections to its device, and the resets.
LEMMA OthersKeepInv ==
  ASSUME ScanInv,
         HandleEvent \/ TakeCommand \/ Air \/ reset_at_disable \/ reset_after_restart
  PROVE  ScanInv'
<1>1. CASE btm_ble_conn_complete
  BY <1>1, DirectRemovedKeeps, SMTT(30) DEF btm_ble_conn_complete
<1>2. CASE reset_at_disable
  <2>1. bgconn_dev' \in [Devices -> [bg : SUBSET Apps, direct : SUBSET Apps]]
    BY <1>2 DEF reset_at_disable, no_apps
  <2>2. \A x \in Devices : bgconn_dev'[x].direct \subseteq bgconn_dev[x].direct
    BY <1>2 DEF reset_at_disable, no_apps
  <2> QED
    BY <1>2, <2>1, <2>2, NotLoweredKeeps, SMTT(30) DEF reset_at_disable
<1>3. CASE reset_after_restart
  <2>1. bgconn_dev' = [d \in Devices |-> no_apps] /\ scan' = "UNDEF"
    BY <1>3, SMTT(30) DEF reset_after_restart
  <2> QED
    BY <2>1 DEF ScanInv, Types, no_apps, ScanMatchesRequests, any_direct_connect_left
<1>4. CASE \/ btm_ble_conn_cancelled \/ btm_ble_create_ll_conn_complete
           \/ btm_sec_disconnected \/ TakeCommand \/ Air
  <2>1. UNCHANGED <<bgconn_dev, scan, history>>
    BY <1>4, Zenon DEF btm_ble_conn_cancelled, btm_ble_create_ll_conn_complete, btm_sec_disconnected,
       TakeCommand, changes_list, starts_attempt, cancels_attempt, Takes, Air, connects,
       connected_by_peer, disconnects, discovered, hostVars
  <2> QED
    BY <2>1, SMTT(30) DEF ScanInv, Types, ScanMatchesRequests, any_direct_connect_left
<1>5. CASE btm_ble_create_conn_cancel_complete
  <2>1. UNCHANGED <<bgconn_dev, scan>> /\ history \subseteq history'
    BY <1>5 DEF btm_ble_create_conn_cancel_complete
  <2> QED
    BY <2>1 DEF ScanInv, Types, ScanMatchesRequests, any_direct_connect_left
<1> QED
  BY <1>1, <1>2, <1>3, <1>4, <1>5, SMTT(30) DEF HandleEvent

\* The scan parameters of the connection attempt are the fast ones while some
\* application waits for a direct connection, and otherwise only after one of the
\* functions of connection_manager.cc that do not lower them.
THEOREM ScanFollowsRequests == Spec => []ScanMatchesRequests
<1>1. Init => ScanInv
  BY DEF Init, ScanInv, Types, no_apps, ScanMatchesRequests, any_direct_connect_left
<1>2. ScanInv /\ [Next]_vars => ScanInv'
  <2> SUFFICES ASSUME ScanInv, [Next]_vars
               PROVE  ScanInv'
    OBVIOUS
  <2>1. CASE Next
    BY <2>1, RequestsKeepInv, OthersKeepInv, SMTT(30) DEF Next
  <2>2. CASE UNCHANGED vars
    BY <2>2 DEF vars, ScanInv, Types, ScanMatchesRequests, any_direct_connect_left
  <2> QED
    BY <2>1, <2>2, SMTT(30)
<1>3. ScanInv => ScanMatchesRequests
  BY DEF ScanInv
<1> QED
  BY <1>1, <1>2, <1>3, PTL DEF Spec
===============================================================================
