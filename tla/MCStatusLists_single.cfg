SPECIFICATION Spec
CONSTANTS
  w1 = w1
  w2 = w2
  l1 = l1
  l2 = l2
  d1 = d1
  d2 = d2
  NoOwner = NoOwner
  NoList = NoList
  Workers <- MCWorkers1
  Lists <- MCLists2
  DIDs <- MCDIDs2
  Capacity = 2
INVARIANTS
  TypeOK
PROPERTIES
  RevocationTerminal
  
CHECK_DEADLOCK FALSE
