SPECIFICATION FairSpec
CONSTANTS
  p1 = p1  p2 = p2
  Poster <- TwoPosters
  Item = {1, 2, 3, 4}
  Reposts = {1}
  Capacity = 2
  Failures <- AllFailures
  NoItem = NoItem
INVARIANTS
  QueuedItemsRun
  EveryItemFreed
PROPERTIES
  CallsReturn
\* The thread may be gone, or never have been created.
CHECK_DEADLOCK FALSE
