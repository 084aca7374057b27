SPECIFICATION Spec
CONSTANTS
  k1 = k1
  k2 = k2
  t1 = t1
  t2 = t2
  NoKey = NoKey
  Keys <- MCKeys
  Threads <- MCThreads
  MaxChallenges = 1
SYMMETRY Symmetry
INVARIANTS
  VerifiedByBoundKey
