SPECIFICATION Spec
CONSTANTS
  c1 = c1
  r1 = r1
  r2 = r2
  lr = lr
  ls = ls
  NoCred = NoCred
  Never = Never
  Lists <- MCLists
  Index <- MCIndex
  Creds = {c1}
  Readers = {r1, r2}
  Entries <- MCEntries
  RecheckAge = 1
  MaxFlight = 1
  MaxTime = 3
SYMMETRY Symmetry

  
  
PROPERTIES
  RevokedSticky
CHECK_DEADLOCK FALSE
