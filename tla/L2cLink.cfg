SPECIFICATION Spec
CONSTANTS
  MAX_L2CAP_LINKS = 2
  Transports <- BothTransports
  AclBufs = 3
  BleBufs = 2
  HighPriMinQuota = 2
  Priorities = {"HIGH", "NORMAL"}
  Segments = {2}
  Reopens <- BrEdr
  SlowController = TRUE
  MaxHandles = 2
  MaxPackets = 2
INVARIANTS
  PacketsContiguous
  ControllerNotOverrun
  WindowConserved
  QueuedIsSent
\* Packets and connections are bounded: everything may be done.
CHECK_DEADLOCK FALSE
