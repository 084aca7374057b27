SPECIFICATION Spec
CONSTANTS
  c1 = c1
  c2 = c2
  r1 = r1
  r2 = r2
  r3 = r3
  q1 = q1
  k1 = k1
  k2 = k2
  u1 = u1
  g1 = g1
  s1 = s1
  l1 = l1
  l2 = l2
  Unset = Unset
  Credentials = {c1, c2, r1, r2, r3, q1, k1, k2, u1}
  Cred <- MCCred
  Agents = {g1}
  Threads = {1}
  Windows = {1}
  Floor = 2
  Finality <- MCFinality
  MaxTime = 1
  MaxBroken = 1
  Entries = {l1, l2}
  MaxLeaves = 5
INVARIANTS
  RootsStandForTheirEntries
  
  ClassifiedOnce
  RollupCountsActivities
