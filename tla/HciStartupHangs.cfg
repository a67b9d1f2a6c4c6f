SPECIFICATION FairSpec
CONSTANTS
  Commands <- NoCommands
  ThreadMayFail = FALSE
  MaxSessions = 1
PROPERTY
  StartupBounded
CHECK_DEADLOCK FALSE
