SPECIFICATION Spec
CONSTANTS
  v1 = v1
  v2 = v2
  v3 = v3
  v4 = v4
  v5 = v5
  a9 = a9
  t1 = t1
  t2 = t2
  a1 = a1
  a2 = a2
  o1 = o1
  p1 = p1
  r1 = r1
  r2 = r2
  Unset = Unset
  Vcs = {v1, v2, v3, v4, v5}
  Vc <- MCVc
  Txs = {t1, t2}
  Transfer <- MCTransfer
  Agents = {a1, a2}
  OrgOf <- MCOrgOf
  Orgs = {o1}
  Addresses = {p1}
  Requests = {r1, r2}
  Executors = 1
  MinConf = 1
  MaxAge = 1
  SkipVerification = FALSE
  MaxTime = 1
  ReceiptCap = 1
  CounterpartyCap = 1
  VolumeUnit = 100
INVARIANTS
  CountsMatchTransactions
  ReceiptsAreBridged
PROPERTIES
  ReceiptsRaiseScore
  SubmissionsEnd
CHECK_DEADLOCK FALSE
