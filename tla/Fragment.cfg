SPECIFICATION Spec
CONSTANTS
  Handles <- TwoLinks
  max_data_size <- Sizes
  L2capLengths = {0, 8}
  Segments = {0, 1}
  L2CAP_HEADER_SIZE = 4
  MaxLength = 12
  MaxPackets = 2
  MaxConnections = 1
  StrayFragments <- Stray
INVARIANTS
  DeliveredInOrder
  AllDelivered
  WithinBuffers
\* Packets are bounded: everything may be delivered.
CHECK_DEADLOCK FALSE
