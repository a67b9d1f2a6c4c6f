SPECIFICATION FairSpec
CONSTANTS
  o1 = o1  o2 = o2  u1 = u1  u2 = u2
  Object <- TwoObjects
  User <- TwoUsers
  MaxGen = 2
  Reach = "itself"
  NoObject = NoObject
INVARIANTS
  ReferencedIsAllocated
PROPERTIES
  CallsReturn
  NoCallbackAfterUnregister
