CHECK_DEADLOCK FALSE
CONSTANTS
  ann = ann
  bob = bob
  acme = acme
  zeta = zeta
  nova = nova
  mm = mm
  evm = evm
  i1 = i1
  i2 = i2
  r1 = r1
  Emails = {ann, bob}
  Orgs = {acme, zeta, nova}
  Seeded = {acme, zeta}
  Wallets = {mm, evm}
  Kind <- MCKind
  Nonces = {n1}
  Invites = {i1, i2}
  SeedInvites <- MCSeedInvites
  Requests = {r1}
  Responses <- MCResponses
  t1 = t1
  t2 = t2
  Threads = {t1, t2}
  ChallengeTtl = 1
  RequestMaxAge = 1
  InviteTtl = 1
  SessionTtl = 1
  AdminTtl = 1
  ClockSkew = 0
  MaxTime = 1
  MaxSessions = 2
  MaxEvents = 1
SYMMETRY Symmetry
SPECIFICATION Spec
INVARIANTS
  RolesWereGranted
  ChallengeSpentWithSession
  SessionsAreBound
  AuthnRequestYieldsOneSession
