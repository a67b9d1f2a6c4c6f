CONSTANTS
  c1 = c1  c2 = c2  c3 = c3
  Commands <- ThreeCommands
  OpcodeOf <- Opcodes
  VendorOpcodes = {"vendor"}
  StatusCommands = {c1}
  HCI_COMMAND_NONE = "none"
  NoCommand = NoCommand
  MaxCredits = 1
  SpuriousNop = TRUE
  DebugEvents = TRUE
  MaxUnsolicited = 1
  COMMAND_PENDING_TIMEOUT_MS = 2
  MAX_CMD_TIMEOUT = 3
  INC_TIMEOUT_THRESHOLD = 2
SPECIFICATION FairSpec
INVARIANTS TypeOK CommandsInOrder AnswersAccounted PendingIsWatched
PROPERTIES AbortsUnanswered 
\* The process may be killed, and all commands may be done.
CHECK_DEADLOCK FALSE
