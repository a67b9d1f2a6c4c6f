-------------------------- MODULE PacketFragmenter --------------------------
(***************************************************************************)
(* hci/src/packet_fragmenter.cc: L2CAP packets are cut into ACL fragments  *)
(* of the controller's buffer size and put together again. The sending     *)
(* side runs on hci_thread, the receiving side on the rx thread; here the  *)
(* two ends of a connection run the two sides, and a link per connection   *)
(* handle carries the fragments.                                           *)
(*                                                                         *)
(* A byte is <<packet, position>> and a packet <<connection, number>>.     *)
(* Lengths count the bytes after the ACL preamble, which every fragment    *)
(* has and which cancels out.                                              *)
(***************************************************************************)
EXTENDS Integers, Sequences, Functions

CONSTANTS
  Handles,           \* connection handles
  max_data_size,     \* per handle: the controller's ACL data size
  L2capLengths,      \* payload lengths L2CAP sends
  Segments,          \* values of layer_specific: segments that may go now, 0 all
  L2CAP_HEADER_SIZE,
  MaxLength,         \* largest packet that fits a buffer, header included
  MaxPackets,        \* bound on packets per handle
  MaxConnections,    \* bound on connections
  StrayFragments     \* fragments a peer may send that no fragmenter made

Byte == (Nat \X Nat) \X Nat

ASSUME FragmentAssumption ==
  /\ L2CAP_HEADER_SIZE \in Nat /\ L2CAP_HEADER_SIZE >= 2
  /\ max_data_size \in [Handles -> Nat]
  /\ \A h \in Handles : max_data_size[h] >= L2CAP_HEADER_SIZE
  /\ L2capLengths \subseteq Nat /\ Segments \subseteq Nat /\ MaxLength \in Nat
  /\ MaxPackets \in Nat /\ MaxConnections \in Nat
  /\ StrayFragments \subseteq [flag : {"start", "continuation"}, l2cap_length : Nat,
                              data : Seq(Byte)]

VARIABLES
  tx,               \* the packet fragment_and_dispatch works on, or idle
  held,             \* per handle: packets given back to L2CAP half sent
  link,             \* per handle: fragments on their way
  partial_packets,  \* per handle: the packet being reassembled, if any
  connections,      \* bound
  disturbed,        \* handles whose peer sent a stray fragment on this connection
  submitted,        \* history: per handle, the packets of this connection
  delivered         \* history: per handle, what callbacks->reassembled got

vars == <<tx, held, link, partial_packets, connections, disturbed, submitted, delivered>>

Bytes(packet, length) == [i \in 1 .. length |-> <<packet, i>>]

\* A packet under way: its flag is the boundary flag its next fragment carries.
Packet(h, flag, l2cap_length, data, layer_specific) ==
  [handle |-> h, flag |-> flag, l2cap_length |-> l2cap_length, data |-> data,
   layer_specific |-> layer_specific]

Fragment(flag, l2cap_length, data) ==
  [flag |-> flag, l2cap_length |-> l2cap_length, data |-> data]

Idle == <<>>
Empty == [h \in Handles |-> <<>>]

Init ==
  /\ tx = Idle
  /\ held = Empty
  /\ link = Empty
  /\ partial_packets = Empty
  /\ connections = 0
  /\ disturbed = {}
  /\ submitted = Empty
  /\ delivered = Empty

-------------------------------------------------------------------------------
(* Sending *)

\* L2CAP sends a new packet; on a handle with a packet half sent it waits.
send_packet(h, length, layer_specific) ==
  /\ tx = Idle /\ held[h] = <<>>
  /\ Len(submitted[h]) < MaxPackets
  /\ LET data == Bytes(<<connections, Len(submitted[h]) + 1>>, length + L2CAP_HEADER_SIZE)
     IN /\ tx' = <<Packet(h, "start", length, data, layer_specific)>>
        /\ submitted' = [submitted EXCEPT ![h] = Append(@, data)]
  /\ UNCHANGED <<held, link, partial_packets, connections, disturbed, delivered>>

\* L2CAP sends on a packet it got back, with a new number of segments.
send_segments(h, layer_specific) ==
  /\ tx = Idle /\ held[h] # <<>>
  /\ tx' = <<[held[h][1] EXCEPT !.layer_specific = layer_specific]>>
  /\ held' = [held EXCEPT ![h] = <<>>]
  /\ UNCHANGED <<link, partial_packets, connections, disturbed, submitted, delivered>>

\* Mutant: a fragment may be one byte larger than the controller's buffer.
Fits_off_by_one(p) == Len(p.data) <= max_data_size[p.handle] + 1

\* What is left of the packet fits one fragment: the loop ends.
Fits(p) == Len(p.data) <= max_data_size[p.handle]

\* Mutant: the rest starts one byte late.
Rest_off_by_one(p) ==
  Packet(p.handle, "continuation", 0,
         SubSeq(p.data, max_data_size[p.handle] + 2, Len(p.data)),
         IF p.layer_specific = 0 THEN 0 ELSE p.layer_specific - 1)

\* The packet after one turn of the loop: the next fragment's header, with the
\* continuation flag, is written over the bytes that have gone.
Rest(p) ==
  Packet(p.handle, "continuation", 0,
         SubSeq(p.data, max_data_size[p.handle] + 1, Len(p.data)),
         IF p.layer_specific = 0 THEN 0 ELSE p.layer_specific - 1)

\* fragment_and_dispatch, one turn of the loop: a full fragment goes, and the
\* rest stays or, its segments used up, goes back to L2CAP.
fragment_and_dispatch_full ==
  /\ tx # Idle
  /\ LET p == tx[1]
         data == SubSeq(p.data, 1, max_data_size[p.handle])
     IN /\ ~Fits(p)
        /\ link' = [link EXCEPT ![p.handle] = Append(@, Fragment(p.flag, p.l2cap_length, data))]
        /\ \/ /\ p.layer_specific = 1
              /\ tx' = Idle
              /\ held' = [held EXCEPT ![p.handle] = <<Rest(p)>>]
           \/ /\ p.layer_specific # 1
              /\ tx' = <<Rest(p)>>
              /\ UNCHANGED held
  /\ UNCHANGED <<partial_packets, connections, disturbed, submitted, delivered>>

\* fragment_and_dispatch, after the loop: the last fragment goes.
fragment_and_dispatch_last ==
  /\ tx # Idle
  /\ LET p == tx[1]
     IN /\ Fits(p)
        /\ link' = [link EXCEPT ![p.handle] = Append(@, Fragment(p.flag, p.l2cap_length, p.data))]
  /\ tx' = Idle
  /\ UNCHANGED <<held, partial_packets, connections, disturbed, submitted, delivered>>

-------------------------------------------------------------------------------
(* Receiving *)

\* What reassemble_and_dispatch does with a fragment, given the partial packet
\* of its handle: the partial packet afterwards and the packets delivered.
Outcome(partial, packets) == [partial |-> partial, packets |-> packets]

full_length(f) == f.l2cap_length + L2CAP_HEADER_SIZE

\* Mutant: a start fragment does not replace the unfinished packet.
reassemble_start_keeps(partial, f) ==
  IF full_length(f) <= Len(f.data) THEN Outcome(partial, <<f.data>>)
  ELSE IF partial # <<>> THEN Outcome(partial, <<>>)
  ELSE Outcome(<<[len |-> full_length(f), data |-> f.data]>>, <<>>)

\* A start fragment: too short to have a length, it changes nothing; otherwise
\* an unfinished packet of the handle is dropped. A packet that is complete is
\* delivered as it came, one that cannot fit a buffer is dropped.
reassemble_start(partial, f) ==
  CASE Len(f.data) < 2 -> Outcome(partial, <<>>)
    [] Len(f.data) >= 2 /\ Len(f.data) < L2CAP_HEADER_SIZE -> Outcome(<<>>, <<>>)
    [] Len(f.data) >= L2CAP_HEADER_SIZE /\ full_length(f) > MaxLength -> Outcome(<<>>, <<>>)
    [] OTHER ->
         IF full_length(f) <= Len(f.data) THEN Outcome(<<>>, <<f.data>>)
         ELSE Outcome(<<[len |-> full_length(f), data |-> f.data]>>, <<>>)

\* The bytes of a continuation that are copied: no more than are missing.
Copied(p, data) ==
  LET missing == p.len - Len(p.data)
  IN IF Len(data) <= missing THEN data ELSE SubSeq(data, 1, missing)

\* A continuation: dropped without a packet to continue, and the packet is
\* delivered when nothing is missing any more.
reassemble_continuation(partial, f) ==
  IF partial = <<>> THEN Outcome(<<>>, <<>>)
  ELSE LET data == partial[1].data \o Copied(partial[1], f.data)
       IN IF Len(data) = partial[1].len THEN Outcome(<<>>, <<data>>)
          ELSE Outcome(<<[partial[1] EXCEPT !.data = data]>>, <<>>)

reassemble_and_dispatch(h) ==
  /\ link[h] # <<>>
  /\ LET f == Head(link[h])
         out == IF f.flag = "start" THEN reassemble_start(partial_packets[h], f)
                ELSE reassemble_continuation(partial_packets[h], f)
     IN /\ partial_packets' = [partial_packets EXCEPT ![h] = out.partial]
        /\ delivered' = [delivered EXCEPT ![h] = @ \o out.packets]
  /\ link' = [link EXCEPT ![h] = Tail(@)]
  /\ UNCHANGED <<tx, held, connections, disturbed, submitted>>

\* External: the peer's controller sends a fragment no fragmenter made, once
\* and on the first connections (bound).
stray_fragment(h) ==
  /\ link[h] = <<>> /\ disturbed = {} /\ connections = 0
  /\ \E f \in StrayFragments : link' = [link EXCEPT ![h] = <<f>>]
  /\ disturbed' = {h}
  /\ UNCHANGED <<tx, held, partial_packets, connections, submitted, delivered>>

\* External: the connection is lost and its handle used for another one. What
\* was on its way is gone; the partial packet stays.
reconnect(h) ==
  /\ connections < MaxConnections
  /\ \A i \in DOMAIN tx : tx[i].handle # h
  /\ connections' = connections + 1
  /\ disturbed' = disturbed \ {h}
  /\ link' = [link EXCEPT ![h] = <<>>]
  /\ held' = [held EXCEPT ![h] = <<>>]
  /\ submitted' = [submitted EXCEPT ![h] = <<>>]
  /\ delivered' = [delivered EXCEPT ![h] = <<>>]
  /\ UNCHANGED <<tx, partial_packets>>

Next ==
  \/ \E h \in Handles, n \in Segments :
       send_segments(h, n) \/ \E l \in L2capLengths : send_packet(h, l, n)
  \/ fragment_and_dispatch_full
  \/ fragment_and_dispatch_last
  \/ \E h \in Handles : reassemble_and_dispatch(h) \/ stray_fragment(h) \/ reconnect(h)

Spec == Init /\ [][Next]_vars

-------------------------------------------------------------------------------

\* At most one packet is being fragmented, and one per handle is given back or
\* being reassembled.
TypeOK ==
  /\ Len(tx) <= 1
  /\ \A h \in Handles : Len(held[h]) <= 1 /\ Len(partial_packets[h]) <= 1
  /\ \A p \in Range(tx) : p.handle \in Handles /\ p.flag \in {"start", "continuation"}
  /\ connections \in 0 .. MaxConnections

\* What is delivered on a connection is what was submitted on it, whole, in
\* order and unmixed, however fragments of several handles and half-sent
\* packets interleave, and whatever an earlier connection left behind.
DeliveredInOrder ==
  \A h \in Handles \ disturbed :
    /\ Len(delivered[h]) <= Len(submitted[h])
    /\ \A i \in DOMAIN delivered[h] : delivered[h][i] = submitted[h][i]

\* With nothing under way, everything submitted has been delivered: no packet
\* length or fragment size leaves the reassembly waiting for bytes.
AllDelivered ==
  tx = Idle => \A h \in Handles \ disturbed :
    link[h] = <<>> /\ held[h] = <<>> => delivered[h] = submitted[h]

\* Every fragment fits the controller's buffer and none is empty; a packet being
\* reassembled always misses bytes and never outgrows the buffer that was
\* allocated for it.
WithinBuffers ==
  \A h \in Handles :
    /\ h \notin disturbed => \A f \in Range(link[h]) : Len(f.data) \in 1 .. max_data_size[h]
    /\ \A p \in Range(partial_packets[h]) : Len(p.data) < p.len /\ p.len <= MaxLength
==============================================================================
