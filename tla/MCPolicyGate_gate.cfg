SPECIFICATION GateSpec
CONSTANTS
  r1 = r1
  r2 = r2
  c1 = c1
  NoReq = NoReq
  Threaded = {r1}
  Coroutines = {c1}
  Limit = 1
  MaxTime = 1
INVARIANTS
  OutcomesAreLogged
PROPERTIES
  RequestsEnd
CHECK_DEADLOCK FALSE
