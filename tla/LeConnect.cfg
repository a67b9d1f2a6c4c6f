SPECIFICATION FairSpec
CONSTANTS
  Apps = {a}
  Devices = {1, 2, 3}
  Undiscovered = {3}
  WhiteListSize = 2
  MaxLcbs = 3
  ControllerLinks = 1
  MaxOps = 3
  MaxDisturbances = 1
INVARIANTS HostKnowsController RequestedIsSought 
 
\* Requests are bounded: everything may be done.
CHECK_DEADLOCK FALSE
