SPECIFICATION Spec
CONSTANTS
  g1 = g1  g2 = g2  p1 = p1  p2 = p2  r1 = r1  r2 = r2  u1 = u1  c1 = c1
  NoUser = NoUser  NoCode = NoCode  NoEvent = NoEvent
  Users <- OneUser
  Codes <- OneCode
  Groups <- OneGroup
  Products <- TwoProducts
  Requests <- TwoRequests
  Recoveries = {"h1", "h2"}
  MaxPending = 2
  RecoveryLimit = 2
  MaxFaults = 2
SYMMETRY Symmetry
CHECK_DEADLOCK FALSE
INVARIANTS
  TypeOK PaidAgreement DepositMatchesPayment OrdersFollowPayment
  NoUnpaidAnnouncement InitEventCarried ServiceKnowsPayment IInv
PROPERTIES
  SettledIsFinal
