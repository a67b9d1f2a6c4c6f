SPECIFICATION FairSpec
CONSTANTS
  MaxCalls = 5
  MaxLinks = 1
  MaxErrors = 1
  Failures = {"jni", "wq"}
INVARIANTS ReadyMeetsWaiter StatesAlternate QuietAsRequested
 
\* The client need not call again, and a missing thread is waited for forever.
CHECK_DEADLOCK FALSE
