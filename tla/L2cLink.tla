------------------------------- MODULE L2cLink -------------------------------
(***************************************************************************)
(* stack/l2cap/l2c_link.cc, with the link parts of l2c_utils.cc and        *)
(* l2c_ble.cc: the flow control of ACL data. The controller has a number   *)
(* of buffers per transport; L2CAP divides them into quotas of the links,  *)
(* counts what each link has sent and not had acknowledged, and sends no   *)
(* packet, or a part of one, when the buffers or the quota are used up.    *)
(*                                                                         *)
(* Every handler runs on the main thread, so each is one step. Beside it   *)
(* run the controller, which returns buffers and ends connections, and     *)
(* hci_thread, which gives the rest of a packet back after its segments    *)
(* went out. A packet is the number of segments it still has; the data of  *)
(* all channels of a link is one queue. Congestion callbacks, park mode    *)
(* and the links that wait in LST_CONNECT_HOLDING are left out.            *)
(***************************************************************************)
EXTENDS Integers, Sequences, SequencesExt, FiniteSetsExt

CONSTANTS
  MAX_L2CAP_LINKS,
  Transports,       \* transports in use, a subset of {"BR_EDR", "LE"}
  AclBufs,          \* the controller's BR/EDR buffers
  BleBufs,          \* the controller's LE buffers, 0 when it shares the others
  HighPriMinQuota,  \* L2CAP_HIGH_PRI_MIN_XMIT_QUOTA
  Priorities,       \* priorities L2CA_SetAclPriority is called with
  Segments,         \* lengths of channel data, in segments
  Reopens,          \* transports reconnected while they disconnect
  SlowController,   \* a disconnection may take longer than its timer
  MaxHandles,       \* bound on connections
  MaxPackets        \* bound on packets

HI_PRI_LINK_QUOTA == 2
L2C_DEF_NUM_BLE_BUF_SHARED == 1

Pool == 1 .. MAX_L2CAP_LINKS
Handle == 1 .. MaxHandles
NoHandle == 0
Shared == BleBufs = 0

ASSUME L2cLinkAssumption ==
  /\ MAX_L2CAP_LINKS \in Nat \ {0} /\ MaxHandles \in Nat \ {0}
  /\ AclBufs \in Nat /\ AclBufs > L2C_DEF_NUM_BLE_BUF_SHARED
  /\ BleBufs \in Nat /\ HighPriMinQuota \in Nat \ {0} /\ MaxPackets \in Nat
  /\ Transports \subseteq {"BR_EDR", "LE"} /\ Reopens \subseteq Transports
  /\ Priorities \subseteq {"HIGH", "NORMAL"} /\ Segments \subseteq Nat \ {0}

VARIABLES
  l2cb,     \* the counters all links share
  lcb,      \* the link control blocks
  hci,      \* per connection handle: what is below L2CAP
  packets,  \* packets still to be written (bound)
  calm      \* so far links came, and priorities changed, only when all was sent,
            \* and no link was reopened

vars == <<l2cb, lcb, hci, packets, calm>>

FreeLcb ==
  [in_use |-> FALSE, transport |-> "BR_EDR", link_state |-> "DISCONNECTED",
   handle |-> NoHandle, acl_priority |-> "NORMAL", link_xmit_quota |-> 0,
   sent_not_acked |-> 0, partial_segment_being_sent |-> FALSE,
   link_xmit_data_q |-> <<>>, xmit_hold_q |-> <<>>, ccb_queue |-> FALSE,
   p_pending_ccb |-> "none", l2c_lcb_timer |-> FALSE]

\* A connection below L2CAP: the buffers it holds in the controller, the rest
\* of a packet that hci_thread is about to give back, the segments the peer
\* still expects of a packet begun, and whether a packet was ever cut by
\* another one, or sent after its connection was gone.
NoConnection ==
  [used |-> FALSE, up |-> FALSE, transport |-> "BR_EDR", held |-> 0,
   bounce |-> 0, missing |-> 0, torn |-> FALSE, late |-> FALSE]

Both(br, le) == [t \in {"BR_EDR", "LE"} |-> IF t = "LE" THEN le ELSE br]

\* btm_devctl.cc reads the buffer counts after reset:
\* l2c_link_processs_num_bufs, then l2c_link_processs_ble_num_bufs.
NumBufs ==
  IF Shared THEN Both(AclBufs - L2C_DEF_NUM_BLE_BUF_SHARED, L2C_DEF_NUM_BLE_BUF_SHARED)
  ELSE Both(AclBufs, BleBufs)

Init ==
  /\ l2cb = [num_lm_bufs |-> NumBufs,
             xmit_window |-> Both(AclBufs, NumBufs["LE"]),
             round_robin_quota |-> Both(0, 0), round_robin_unacked |-> Both(0, 0),
             num_links_active |-> Both(0, 0)]
  /\ lcb = [l \in Pool |-> FreeLcb]
  /\ hci = [h \in Handle |-> NoConnection]
  /\ packets = MaxPackets
  /\ calm = TRUE

\* Handlers are state transformers: s stands for the state they run on.
Now == [l2cb |-> l2cb, lcb |-> lcb, hci |-> hci]
Become(s) == \E a \in {s} : l2cb' = a.l2cb /\ lcb' = a.lcb /\ hci' = a.hci

\* Handler f run on s, which is computed once.
After(s, f(_)) == CHOOSE r \in {f(a) : a \in {s}} : TRUE

InUse(s, ts) == {l \in Pool : s.lcb[l].in_use /\ s.lcb[l].transport \in ts}
LcbsByHandle(s, h) == {l \in Pool : s.lcb[l].in_use /\ s.lcb[l].handle = h}
Sent(s, links) == MapThenSumSet(LAMBDA l : s.lcb[l].sent_not_acked, links)
-----------------------------------------------------------------------------
(* Quotas                                                                  *)

\* The link has a packet of its own queue and quota left: the timer kicks it.
MayNeedKick(c) ==
  /\ c.link_state = "CONNECTED"
  /\ c.link_xmit_data_q # <<>>
  /\ c.sent_not_acked < c.link_xmit_quota

\* The largest quota of high priority links that leaves one buffer to others.
HighQuota(start, hi, low, bufs) ==
  IF hi = {} THEN start
  ELSE Max({q \in 0 .. start :
              Cardinality(hi) * q + (IF low = {} THEN 0 ELSE 1) <= bufs})

\* The links share low_quota; scarce is what each gets, and how many get one
\* more, when there is not a buffer for each.
AssignQuotas(s, t, links, hi, high_quota, low_quota, scarce) ==
  LET low == links \ hi
      n == Cardinality(low)
      crowded == n > low_quota
      qq == IF crowded \/ n = 0 THEN scarce ELSE low_quota \div n
      qq_remainder == IF crowded \/ n = 0 THEN scarce ELSE low_quota % n
      Quota(l) == IF l \in hi THEN high_quota
                  ELSE IF Cardinality({m \in low : m < l}) < qq_remainder
                       THEN qq + 1 ELSE qq
      entering == IF qq = 0 THEN {l \in low : s.lcb[l].link_xmit_quota > 0} ELSE {}
      Assign(l) == [s.lcb[l] EXCEPT !.link_xmit_quota = Quota(l)]
  IN [s EXCEPT
       !.l2cb.round_robin_quota[t] = IF crowded THEN low_quota ELSE 0,
       !.l2cb.round_robin_unacked[t] = IF crowded THEN @ + Sent(s, entering) ELSE 0,
       !.lcb = [l \in Pool |->
                  IF l \in links
                  THEN [Assign(l) EXCEPT !.l2c_lcb_timer = @ \/ MayNeedKick(Assign(l))]
                  ELSE @[l]]]

\* No link is left: the controller's buffers are all free.
ResetWindow(s, t) ==
  [s EXCEPT !.l2cb.xmit_window[t] = s.l2cb.num_lm_bufs[t],
            !.l2cb.round_robin_quota[t] = 0, !.l2cb.round_robin_unacked[t] = 0]

l2c_link_adjust_allocation(s) ==
  LET bufs == s.l2cb.num_lm_bufs["BR_EDR"]
      shared == s.l2cb.num_lm_bufs["LE"] = L2C_DEF_NUM_BLE_BUF_SHARED
      links == InUse(s, IF shared THEN {"BR_EDR", "LE"} ELSE {"BR_EDR"})
      hi == {l \in links : s.lcb[l].acl_priority = "HIGH"}
      start == IF s.l2cb.num_links_active["BR_EDR"] > 1 THEN HighPriMinQuota ELSE bufs
      high_quota == LET q == HighQuota(start, hi, links \ hi, bufs)
                    IN IF hi # {} THEN Max({q, HI_PRI_LINK_QUOTA}) ELSE q
      hi_quota == Cardinality(hi) * high_quota
  IN IF s.l2cb.num_links_active["BR_EDR"] = 0 THEN ResetWindow(s, "BR_EDR")
     ELSE AssignQuotas(s, "BR_EDR", links, hi, high_quota,
                       IF hi_quota < bufs THEN bufs - hi_quota ELSE 1, 1)

\* L2CA_SetAclPriority finds BR/EDR links only: no LE link has high priority.
l2c_ble_link_adjust_allocation(s) ==
  IF s.l2cb.num_links_active["LE"] = 0 THEN ResetWindow(s, "LE")
  ELSE AssignQuotas(s, "LE", InUse(s, {"LE"}), {}, HighPriMinQuota,
                    s.l2cb.num_lm_bufs["LE"], 0)

Adjust(s, t) ==
  After(s, LAMBDA a : IF t = "LE" THEN l2c_ble_link_adjust_allocation(a)
                      ELSE l2c_link_adjust_allocation(a))
-----------------------------------------------------------------------------
(* Sending                                                                 *)

\* How many segments of p go now.
SegmentsNow(c, window, p) ==
  IF p.segs = 1 \/ c.link_xmit_quota = 0 THEN 1
  ELSE Min({p.segs, window, c.link_xmit_quota - c.sent_not_acked})

\* hci_thread passes k segments of p to the controller and keeps the rest to
\* give back. The controller drops what it gets for a handle that is gone.
Transmit(connection, p, k) ==
  LET c == [connection EXCEPT !.bounce = IF k < p.segs THEN p.segs - k ELSE @]
  IN IF ~c.up THEN [c EXCEPT !.late = TRUE]
     ELSE [c EXCEPT !.held = @ + k, !.missing = p.segs - k,
                    !.torn = @ \/ c.missing # (IF p.cont THEN p.segs ELSE 0)]

l2c_link_send_to_lower(s, l, p) ==
  LET c == s.lcb[l]
      t == c.transport
      Send(k) ==
        [s EXCEPT !.l2cb.xmit_window[t] = @ - k,
                  !.l2cb.round_robin_unacked[t] =
                     IF c.link_xmit_quota = 0 THEN @ + k ELSE @,
                  !.lcb[l].sent_not_acked = @ + k,
                  !.lcb[l].partial_segment_being_sent = @ \/ k < p.segs,
                  !.hci[p.handle] = Transmit(@, p, k)]
  IN Send(SegmentsNow(c, s.l2cb.xmit_window[t], p))

SendFromLinkQueue(s, l) ==
  After([s EXCEPT !.lcb[l].link_xmit_data_q = Tail(@)],
        LAMBDA a : l2c_link_send_to_lower(a, l, Head(s.lcb[l].link_xmit_data_q)))

\* l2cu_get_next_buffer_to_send puts the link's handle into the packet.
SendFromChannels(s, l) ==
  After([s EXCEPT !.lcb[l].xmit_hold_q = Tail(@)],
        LAMBDA a : l2c_link_send_to_lower(a, l,
                     [segs |-> Head(s.lcb[l].xmit_hold_q), cont |-> FALSE,
                      handle |-> s.lcb[l].handle]))

MaySend_by_quota(s, l) == s.lcb[l].sent_not_acked < s.lcb[l].link_xmit_quota

MaySend(s, l) ==
  /\ s.l2cb.xmit_window[s.lcb[l].transport] # 0
  /\ s.lcb[l].sent_not_acked < s.lcb[l].link_xmit_quota

\* A half sent packet keeps everything else on its link back.
Blocked_by_state(c) == c.link_state # "CONNECTED"
Blocked(c) == c.partial_segment_being_sent \/ c.link_state # "CONNECTED"

ServeLink(s, l, single_write) ==
  LET FromLinkQueue(a) == IF MaySend(a, l) THEN SendFromLinkQueue(a, l) ELSE a
      FromChannels(a) == IF MaySend(a, l) THEN SendFromChannels(a, l) ELSE a
      LinkQueue(a) ==
        FoldLeft(LAMBDA x, p : After(x, FromLinkQueue), a, a.lcb[l].link_xmit_data_q)
      Channels(a) ==
        IF single_write THEN a
        ELSE FoldLeft(LAMBDA x, p : After(x, FromChannels), a, a.lcb[l].xmit_hold_q)
      SetTimer(a) == [a EXCEPT !.lcb[l].l2c_lcb_timer = @ \/ MayNeedKick(a.lcb[l])]
  IN IF Blocked(s.lcb[l]) THEN s
     ELSE After(After(After(s, LinkQueue), Channels), SetTimer)

\* One packet of each link without a quota, from the one after l (from the
\* first one when l is 0) round to l.
RoundRobin(s, l) ==
  LET Turn(a, q) ==
        LET c == a.lcb[q]
        IN IF \/ a.l2cb.xmit_window[c.transport] = 0
              \/ a.l2cb.round_robin_unacked[c.transport] >= a.l2cb.round_robin_quota[c.transport]
              \/ ~c.in_use \/ Blocked(c) \/ c.link_xmit_quota # 0
           THEN a
           ELSE IF c.link_xmit_data_q # <<>> THEN SendFromLinkQueue(a, q)
           ELSE IF c.xmit_hold_q # <<>> THEN SendFromChannels(a, q)
           ELSE a
  IN FoldLeft(LAMBDA x, q : After(x, LAMBDA a : Turn(a, q)), s,
              [i \in Pool |-> ((l + i - 1) % MAX_L2CAP_LINKS) + 1])

l2c_link_check_send_pkts(s, l, single_write) ==
  After(s, LAMBDA a : IF a.lcb[l].link_xmit_quota = 0 THEN RoundRobin(a, l)
                      ELSE ServeLink(a, l, single_write))

\* A packet of one segment, such as a signalling command, on the link's queue.
SendOnLink(s, l) ==
  l2c_link_check_send_pkts(
    [s EXCEPT !.lcb[l].link_xmit_data_q =
       Append(@, [segs |-> 1, cont |-> FALSE, handle |-> s.lcb[l].handle])], l, FALSE)

\* The channel's next packet moves to the link's queue, which alone is served.
MoveToLink(s, l) ==
  l2c_link_check_send_pkts(
    [s EXCEPT !.lcb[l].xmit_hold_q = Tail(@),
              !.lcb[l].link_xmit_data_q =
       Append(@, [segs |-> Head(s.lcb[l].xmit_hold_q), cont |-> FALSE,
                  handle |-> s.lcb[l].handle])], l, TRUE)
-----------------------------------------------------------------------------
(* Links come and go                                                       *)

\* l2cu_allocate_lcb in the first free slot l.
l2cu_allocate_lcb(s, l, transport, ccb) ==
  Adjust([s EXCEPT !.lcb[l] = [FreeLcb EXCEPT !.in_use = TRUE, !.transport = transport,
                                              !.link_state = "CONNECTING",
                                              !.ccb_queue = ccb, !.l2c_lcb_timer = TRUE],
                   !.l2cb.num_links_active[transport] = @ + 1],
         transport)

\* The link's unacknowledged packets are flushed: their buffers are free.
ReturnBuffers(s, l) ==
  LET t == s.lcb[l].transport
  IN [s EXCEPT !.l2cb.xmit_window[t] =
                  Min({@ + s.lcb[l].sent_not_acked, s.l2cb.num_lm_bufs[t]})]

l2cu_release_lcb_keeps_buffers(s, l) ==
  LET t == s.lcb[l].transport
  IN Adjust([s EXCEPT !.lcb[l] = FreeLcb, !.l2cb.num_links_active[t] = @ - 1], t)

l2cu_release_lcb(s, l) ==
  LET t == s.lcb[l].transport
  IN Adjust([ReturnBuffers(s, l) EXCEPT
               !.lcb[l] = FreeLcb,
               !.l2cb.num_links_active[t] = IF @ >= 1 THEN @ - 1 ELSE @], t)

\* The channels are gone. LE drops the packets of the link's own queue and
\* BR/EDR takes the buffers back; then the same block connects again.
ReopenLcb(s, l) ==
  LET br == s.lcb[l].transport = "BR_EDR"
      credited == IF br THEN ReturnBuffers(s, l) ELSE s
      c == s.lcb[l]
  IN [credited EXCEPT
        !.lcb[l] = [c EXCEPT !.link_state = "CONNECTING", !.handle = NoHandle,
                             !.xmit_hold_q = <<>>, !.p_pending_ccb = "none",
                             !.ccb_queue = c.p_pending_ccb = "ccb",
                             !.l2c_lcb_timer = TRUE,
                             !.link_xmit_data_q = IF br THEN @ ELSE <<>>,
                             !.sent_not_acked = IF br THEN 0 ELSE @,
                             !.partial_segment_being_sent = @ /\ ~br]]

AllSent ==
  \A l \in InUse(Now, Transports) :
    /\ lcb[l].sent_not_acked = 0 /\ lcb[l].link_state = "CONNECTED"
    /\ lcb[l].link_xmit_data_q = <<>> /\ lcb[l].xmit_hold_q = <<>>
    /\ ~lcb[l].partial_segment_being_sent

Requotas == calm' = (calm /\ AllSent)

\* A connection is requested by a channel, by a fixed channel, or by the peer,
\* within the bound MaxHandles.
ConnectRequest(transport, ccb) ==
  /\ \E h \in Handle : ~hci[h].used
  /\ Requotas
  /\ \E l \in Pool : /\ ~lcb[l].in_use
                     /\ \A m \in 1 .. l - 1 : lcb[m].in_use
                     /\ Become(l2cu_allocate_lcb(Now, l, transport, ccb))
  /\ UNCHANGED packets

\* Connected: a BR/EDR link asks for the peer's features and stops its timer,
\* or waits for a channel. An LE link stops its timer.
Connected(s, l, h) ==
  LET br == s.lcb[l].transport = "BR_EDR"
      up == [s EXCEPT !.lcb[l].handle = h, !.lcb[l].link_state = "CONNECTED",
                      !.hci[h] = [NoConnection EXCEPT !.used = TRUE, !.up = TRUE,
                                    !.transport = s.lcb[l].transport]]
      asked == IF br THEN SendOnLink(up, l) ELSE up
  IN [asked EXCEPT !.lcb[l].l2c_lcb_timer = br /\ ~s.lcb[l].ccb_queue]

l2c_link_hci_conn_comp(l, h) ==
  /\ lcb[l].in_use /\ lcb[l].link_state = "CONNECTING"
  /\ ~hci[h].used /\ \A g \in 1 .. h - 1 : hci[g].used
  /\ Become(Connected(Now, l, h))
  /\ UNCHANGED <<packets, calm>>

\* The connection failed: its channels are told and the block is released.
ConnectionFailed(l) ==
  /\ lcb[l].in_use /\ lcb[l].link_state = "CONNECTING"
  /\ Become(l2cu_release_lcb(Now, l))
  /\ UNCHANGED <<packets, calm>>

\* L2CA_ConnectReq, L2CA_ConnectFixedChnl: "link disconnecting: RETRY LATER";
\* bounded like ConnectRequest.
ReconnectLater(l, pending) ==
  /\ \E h \in Handle : ~hci[h].used
  /\ lcb[l].in_use /\ lcb[l].link_state = "DISCONNECTING"
  /\ lcb[l].transport \in Reopens
  /\ lcb' = [lcb EXCEPT ![l].p_pending_ccb = pending]
  /\ calm' = FALSE
  /\ UNCHANGED <<l2cb, hci, packets>>

\* The controller ends connection h, by itself or as asked, and drops its
\* packets.
l2c_link_hci_disc_comp(h) ==
  LET s == [Now EXCEPT !.hci[h].up = FALSE, !.hci[h].held = 0, !.hci[h].missing = 0]
  IN /\ hci[h].up
     /\ \/ LcbsByHandle(s, h) = {} /\ Become(s)
        \/ \E l \in LcbsByHandle(s, h) :
             \/ lcb[l].p_pending_ccb = "none" /\ Become(l2cu_release_lcb(s, l))
             \/ lcb[l].p_pending_ccb # "none" /\ Become(ReopenLcb(s, l))
     /\ UNCHANGED <<packets, calm>>
-----------------------------------------------------------------------------
(* Channels, data and timers                                               *)

\* A channel is opened by the peer, which stops the link's timer, or locally.
OpenChannel(l) ==
  /\ lcb[l].link_state = "CONNECTED" /\ ~lcb[l].ccb_queue
  /\ \E timer \in {FALSE, lcb[l].l2c_lcb_timer} :
       lcb' = [lcb EXCEPT ![l].ccb_queue = TRUE, ![l].l2c_lcb_timer = timer]
  /\ UNCHANGED <<l2cb, hci, packets, calm>>

\* The last channel is closed: l2cu_no_dynamic_ccbs starts the idle timer, stops
\* it for a fixed channel that never idles, or disconnects at once, with a timer
\* unless security disconnects later.
CloseChannel(l) ==
  /\ lcb[l].link_state = "CONNECTED" /\ lcb[l].ccb_queue
  /\ \E state \in {"CONNECTED", "DISCONNECTING"}, timer \in BOOLEAN :
       lcb' = [lcb EXCEPT ![l].ccb_queue = FALSE, ![l].xmit_hold_q = <<>>,
                          ![l].link_state = state, ![l].l2c_lcb_timer = timer]
  /\ UNCHANGED <<l2cb, hci, packets, calm>>

\* L2CA_DataWrite, and L2CA_SendFixedChnlData on LE.
WriteData(l, n) ==
  /\ packets > 0
  /\ lcb[l].link_state = "CONNECTED" /\ (lcb[l].ccb_queue \/ lcb[l].transport = "LE")
  /\ Become(l2c_link_check_send_pkts([Now EXCEPT !.lcb[l].xmit_hold_q = Append(@, n)], l, FALSE))
  /\ packets' = packets - 1
  /\ UNCHANGED calm

\* A signalling command, also in answer to the peer while disconnecting.
SendCommand(l) ==
  /\ packets > 0
  /\ lcb[l].link_state \in {"CONNECTED", "DISCONNECTING"}
  /\ Become(SendOnLink(Now, l))
  /\ packets' = packets - 1
  /\ UNCHANGED calm

\* The request to disconnect a channel overtakes no data in basic mode: what
\* the channel holds, here all of the link's, moves ahead of it.
l2cu_send_peer_disc_req(l, basic_mode) ==
  LET moved == FoldLeft(LAMBDA x, n : After(x, LAMBDA a : MoveToLink(a, l)), Now,
                        IF basic_mode THEN lcb[l].xmit_hold_q ELSE <<>>)
  IN /\ packets > 0
     /\ lcb[l].link_state = "CONNECTED" /\ lcb[l].ccb_queue
     /\ basic_mode => lcb[l].transport = "BR_EDR"
     /\ Become(After(moved, LAMBDA a : SendOnLink(a, l)))
     /\ packets' = packets - 1
     /\ UNCHANGED calm

L2CA_SetAclPriority(l, priority) ==
  /\ Requotas
  /\ lcb[l].in_use /\ lcb[l].transport = "BR_EDR" /\ lcb[l].acl_priority # priority
  /\ Become(l2c_link_adjust_allocation([Now EXCEPT !.lcb[l].acl_priority = priority]))
  /\ UNCHANGED packets

Acknowledged(s, l, n) ==
  LET c == s.lcb[l]
  IN [s EXCEPT !.l2cb.xmit_window[c.transport] = @ + n,
               !.l2cb.round_robin_unacked[c.transport] =
                  IF c.link_xmit_quota = 0 THEN Max({0, @ - n}) ELSE @,
               !.lcb[l].sent_not_acked = Max({0, @ - n})]

l2c_link_process_num_completed_pkts_only_counts(h, n) ==
  LET s == [Now EXCEPT !.hci[h].held = @ - n]
  IN /\ hci[h].up /\ n <= hci[h].held
     /\ \E l \in LcbsByHandle(s, h) : Become(Acknowledged(s, l, n))
     /\ UNCHANGED <<packets, calm>>

\* The controller is done with n packets of connection h. check_round_robin
\* is cleared on a read beyond the pool, so it may have either value here.
l2c_link_process_num_completed_pkts(h, n) ==
  LET s == [Now EXCEPT !.hci[h].held = @ - n]
  IN /\ hci[h].up /\ n <= hci[h].held
     /\ \/ LcbsByHandle(s, h) = {} /\ Become(s)
        \/ \E l \in LcbsByHandle(s, h), check_round_robin \in BOOLEAN :
             LET CheckOthers(a) ==
                   IF /\ check_round_robin /\ lcb[l].acl_priority = "HIGH"
                      /\ a.l2cb.round_robin_unacked["BR_EDR"] < a.l2cb.round_robin_quota["BR_EDR"]
                   THEN RoundRobin(a, 0) ELSE a
             IN Become(After(l2c_link_check_send_pkts(Acknowledged(s, l, n), l, FALSE),
                             CheckOthers))
     /\ UNCHANGED <<packets, calm>>

\* hci_thread gives the rest of a packet back; it goes on, ahead of all else.
l2c_link_segments_xmitted(h) ==
  LET s == [Now EXCEPT !.hci[h].bounce = 0]
      rest == [segs |-> hci[h].bounce, cont |-> TRUE, handle |-> h]
  IN /\ hci[h].bounce > 0
     /\ \/ /\ \A l \in LcbsByHandle(s, h) : lcb[l].link_state # "CONNECTED"
           /\ Become(s)
        \/ \E l \in LcbsByHandle(s, h) :
             /\ lcb[l].link_state = "CONNECTED"
             /\ Become(l2c_link_check_send_pkts(
                  [s EXCEPT !.lcb[l].link_xmit_data_q = <<rest>> \o @,
                            !.lcb[l].partial_segment_being_sent = FALSE], l, FALSE))
     /\ UNCHANGED <<packets, calm>>

\* A connected link without channels is disconnected, unless security is busy.
l2c_link_timeout(l) ==
  LET s == [Now EXCEPT !.lcb[l].l2c_lcb_timer = FALSE]
  IN /\ lcb[l].in_use /\ lcb[l].l2c_lcb_timer
     /\ \/ /\ \/ lcb[l].link_state = "CONNECTING"
              \/ lcb[l].link_state = "DISCONNECTING" /\ SlowController
           /\ Become(l2cu_release_lcb(s, l))
        \/ /\ lcb[l].link_state = "CONNECTED" /\ ~lcb[l].ccb_queue
           /\ \/ Become([s EXCEPT !.lcb[l].link_state = "DISCONNECTING",
                                  !.lcb[l].l2c_lcb_timer = TRUE])
              \/ Become(s)
        \/ /\ lcb[l].link_state = "CONNECTED" /\ lcb[l].ccb_queue
           /\ Become(l2c_link_check_send_pkts(s, l, FALSE))
     /\ UNCHANGED <<packets, calm>>

Complete(h) == \E n \in 1 .. hci[h].held : l2c_link_process_num_completed_pkts(h, n)

Next ==
  \/ \E t \in Transports, ccb \in BOOLEAN : ConnectRequest(t, ccb)
  \/ \E l \in Pool :
       \/ \E h \in Handle : l2c_link_hci_conn_comp(l, h)
       \/ ConnectionFailed(l)
       \/ \E pending \in {"ccb", "fixed"} : ReconnectLater(l, pending)
       \/ OpenChannel(l)
       \/ CloseChannel(l)
       \/ \E n \in Segments : WriteData(l, n)
       \/ SendCommand(l)
       \/ \E basic_mode \in BOOLEAN : l2cu_send_peer_disc_req(l, basic_mode)
       \/ \E p \in Priorities : L2CA_SetAclPriority(l, p)
       \/ l2c_link_timeout(l)
  \/ \E h \in Handle :
       \/ l2c_link_hci_disc_comp(h)
       \/ Complete(h)
       \/ l2c_link_segments_xmitted(h)

Spec == Init /\ [][Next]_vars
-----------------------------------------------------------------------------
\* Counters stay in range: no window or quota ever wraps below zero, and the
\* queues hold packets of at least one segment.
TypeOK ==
  /\ \A t \in {"BR_EDR", "LE"} :
       /\ l2cb.xmit_window[t] \in 0 .. AclBufs + BleBufs
       /\ l2cb.round_robin_unacked[t] \in Nat
       /\ l2cb.num_links_active[t] = Cardinality(InUse(Now, {t}))
  /\ \A l \in Pool :
       /\ lcb[l].sent_not_acked \in Nat /\ lcb[l].link_xmit_quota \in Nat
       /\ \A i \in DOMAIN lcb[l].link_xmit_data_q : lcb[l].link_xmit_data_q[i].segs >= 1
  /\ \A h \in Handle : hci[h].held \in Nat /\ hci[h].bounce \in Nat

\* "Round-robin unacked" is what the links without a quota of their own have
\* outstanding: it limits what l2c_link_check_send_pkts sends for them.
RoundRobinCounts ==
  \A t \in {"BR_EDR", "LE"} : l2cb.round_robin_quota[t] > 0 =>
    l2cb.round_robin_unacked[t]
      = Sent(Now, {l \in InUse(Now, {t}) : lcb[l].link_xmit_quota = 0})

Held(ts) ==
  MapThenSumSet(LAMBDA h : hci[h].held,
                {h \in Handle : hci[h].up /\ hci[h].transport \in ts})

\* Every connection belongs to a link, and every packet went out on the
\* connection it was written for. The first fails after the disconnect timer
\* released a link whose connection is still up, the second after a link was
\* reopened with packets of its old connection in link_xmit_data_q.
Orderly ==
  \A h \in Handle : ~hci[h].late /\ (hci[h].up => LcbsByHandle(Now, h) # {})

\* The controller is never given more packets than it has buffers for, however
\* links come and go and quotas are divided anew while packets are outstanding.
ControllerNotOverrun ==
  Orderly => IF Shared THEN Held({"BR_EDR", "LE"}) <= AclBufs
             ELSE Held({"BR_EDR"}) <= AclBufs /\ Held({"LE"}) <= BleBufs

\* l2c_link.cc counts every buffer of the controller once: the window and the
\* unacknowledged packets of the links in use add up to the buffers. And what a
\* connected link counts as unacknowledged is what the controller holds for its
\* connection.
WindowConserved ==
  /\ \A t \in {"BR_EDR", "LE"} :
       l2cb.xmit_window[t] + Sent(Now, InUse(Now, {t})) = l2cb.num_lm_bufs[t]
  /\ Orderly => \A l \in Pool : lcb[l].link_state = "CONNECTED" =>
       lcb[l].sent_not_acked = hci[lcb[l].handle].held

\* "If a partial segment is being sent, can't send anything else": the segments
\* of a packet follow one another on its connection.
PacketsContiguous == \A h \in Handle : ~hci[h].torn

\* No packet is sent under the handle of a connection that is gone.
SentOnItsConnection == \A h \in Handle : ~hci[h].late

\* Nothing will make l2c_link_check_send_pkts run again by itself: no packet is
\* with the controller or hci_thread, and no link timer is running.
Resting ==
  /\ \A h \in Handle : hci[h].bounce = 0 /\ (hci[h].up => hci[h].held = 0)
  /\ \A l \in Pool : ~(lcb[l].in_use /\ lcb[l].l2c_lcb_timer)

\* No data is stranded: when all is at rest, a connected link has sent what was
\* written, provided quotas were divided anew only with nothing outstanding.
QueuedIsSent ==
  calm /\ Resting => \A l \in Pool : lcb[l].link_state = "CONNECTED" =>
    lcb[l].link_xmit_data_q = <<>> /\ lcb[l].xmit_hold_q = <<>>
=============================================================================
