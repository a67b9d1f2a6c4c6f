------------------------- MODULE MCPacketFragmenter -------------------------
(* Instances of PacketFragmenter for TLC. *)
EXTENDS PacketFragmenter

TwoLinks == {"br", "le"}
Sizes == [br |-> 11, le |-> 4]

\* Fragments around the limits, with lengths they do not keep, of no packet.
Stray ==
  {Fragment("start", 8, Bytes(<<0, 0>>, n)) : n \in {1, 3}}
  \cup {Fragment("start", 9, Bytes(<<0, 0>>, 6))}
  \cup {Fragment("continuation", 0, Bytes(<<0, 0>>, n)) : n \in {1, 6}}
==============================================================================
