SPECIFICATION SpecFair
CONSTANTS
  g1 = g1  g2 = g2  p1 = p1  p2 = p2  r1 = r1  r2 = r2
  u1 = u1  u2 = u2  c1 = c1  c2 = c2
  NoUser = NoUser  NoCode = NoCode  NoEvent = NoEvent  NoAddr = NoAddr
  Users <- OneUser
  Groups <- OneGroup
  Products <- OneProduct
  Requests <- OneRequest
  Codes <- OneCode
  Queues <- AnyQueue
  QueueOf <- AllAny
  Addrs <- MainOnly
  MainAddr <- Main
  FallbackAddr <- NoFallback
  Stores <- OneStore
  StoreOf <- SharedStore
  DuplicateCode <- SameCode
  Price <- Prices
  MaxTries = 1
  MaxIssues = 2
  Recoveries = {"h1"}
  MaxPending = 1
  RecoveryLimit = 1
  MaxFaults = 1
CHECK_DEADLOCK FALSE
INVARIANTS
  TypeOK BalanceExplained NothingBeforePayment IInv
PROPERTIES
  ImplementsDelivery PaidOrderHandled DecidedOrderHandled
