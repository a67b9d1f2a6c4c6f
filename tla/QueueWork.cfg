SPECIFICATION FairSpec
CONSTANTS
  p1 = p1
  p2 = p2
  c1 = c1
  c2 = c2
  Thread = {p1, p2, c1}
  Operations <- WorkQueue
  Capacity = 2
  Item = {1, 2, 3, 4}
  NoThread = NoThread
  NoItem = NoItem
INVARIANTS
  
  PermitsAgree
PROPERTY
  KeepsPromise
  EveryItemTaken
CHECK_DEADLOCK FALSE
