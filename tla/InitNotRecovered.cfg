SPECIFICATION SpecInitRecovery
CONSTANTS
  g1 = g1  g2 = g2  p1 = p1  p2 = p2  r1 = r1  r2 = r2  u1 = u1  c1 = c1
  NoUser = NoUser  NoCode = NoCode  NoEvent = NoEvent
  Users <- OneUser
  Codes <- OneCode
  Groups <- OneGroup
  Products <- OneProduct
  Requests <- OneRequest
  Recoveries = {"h1"}
  MaxPending = 1
  RecoveryLimit = 1
  MaxFaults = 1
CHECK_DEADLOCK FALSE
PROPERTIES InitRecovered
