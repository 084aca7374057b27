SPECIFICATION LinkSpec
CONSTANTS
  p1 = p1
  p2 = p2
  l1 = l1
  l2 = l2
  NoPage = NoPage
  NoLink = NoLink
  Links = {l1, l2}
  Pages <- MCPages
  TTL = 1
  MaxReceipts = 1
  MaxTime = 3
INVARIANTS
  VerdictsAgree
  SettledWasApproved
PROPERTIES
  PollingEnds
CHECK_DEADLOCK FALSE
