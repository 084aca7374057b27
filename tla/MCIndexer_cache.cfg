SPECIFICATION Spec
CONSTANTS
  t1 = t1
  o1 = o1
  o2 = o2
  q1 = q1
  Tokens <- MCTokens
  Owners <- MCOwners
  Requests <- MCRequests
  BatchSize = 1
  MaxBlock = 3
  MaxFaults = 2
INVARIANTS
  OwnerFollowsChain
  IndexedUpToCursor
  DuplicatesOnlyByFaults
PROPERTIES
  CatchesUp
