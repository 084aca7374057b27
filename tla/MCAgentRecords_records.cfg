SPECIFICATION Spec
CONSTANTS
  a1 = a1
  a2 = a2
  v1 = v1
  v2 = v2
  i1 = i1
  i2 = i2
  e1 = e1
  e2 = e2
  c1 = c1
  c2 = c2
  c3 = c3
  w1 = w1
  w2 = w2
  tx1 = tx1
  tx2 = tx2
  p1 = p1
  p2 = p2
  x1 = x1
  x2 = x2
  x3 = x3
  NoHash = NoHash
  Agents = {a1, a2}
  Loads <- MCLoads
  DelegationIds = {"q1", "q2"}
  Approvals = {v1, v2}
  StartScores <- MCStartScores
  VacIds = {i1, i2}
  Reads = {"g1"}
  Schemas = {2, 3, 6}
  VacAge = 1
  RefreshAge = 1
  MaxNow = 2
  Chain <- MCChain
  Tolerance = 1000
  EventCalls = {e1, e2}
  Receipts = {"r1", "r2"}
  Wallets = {w1, w2}
  Amounts = {5000, 7000}
  VerifyCalls = {c1, c2, c3}
  VerifyReceipts = {"s1"}
  Evidence <- MCEvidence
  Integrators = {p1, p2}
  Prefixed <- MCPrefixed
  Domainless = {p2}
  Reserved = {"tron_fees"}
  ExtensionIds <- MCExtensionIds
  ExtensionCalls = {x1, x2, x3}
  CredentialIds = {"k1", "k2"}
SYMMETRY MCSymmetry
INVARIANTS
  AgentVcIsItsRequests
  ScoreBacked
  RowsAreTrue
  
  
  
  DispatchedOnce
  VerifiedRowsAreBacked
  NamespaceSharedOnlyByRace
PROPERTIES
  RevokedForGood
CHECK_DEADLOCK FALSE
