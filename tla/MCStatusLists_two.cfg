SPECIFICATION Spec
CONSTANTS
  w1 = w1
  w2 = w2
  l1 = l1
  l2 = l2
  d1 = d1
  d2 = d2
  NoOwner = NoOwner
  NoList = NoList
  Workers <- MCWorkers2
  Lists <- MCLists1
  DIDs <- MCDIDs1
  Capacity = 3
INVARIANTS
  IndexHandedOutOnce
  
CHECK_DEADLOCK FALSE
