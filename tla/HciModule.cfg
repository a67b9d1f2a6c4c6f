SPECIFICATION FairSpec
CONSTANTS
  Commands <- TwoCommands
  ThreadMayFail = TRUE
  MaxSessions = 2
INVARIANTS
  RestsBetweenSessions
PROPERTIES
  StartupReadyOnce
  SilentTransportReported
\* The process may be killed, and the sessions may be over.
CHECK_DEADLOCK FALSE
