SPECIFICATION Spec
CONSTANTS
  u1 = u1  g1 = g1  g2 = g2  p1 = p1  p2 = p2  c1 = c1  c2 = c2  c3 = c3
  NoUser = NoUser  NoCode = NoCode  NoEvent = NoEvent  NoAddr = NoAddr
  Users <- OneUser
  Requests <- OneRequest
  Groups <- OneGroup
  Products <- TwoProducts
  Codes <- TwoCodes
  Queues <- BothQueues
  QueueOf <- GiftAndAny
  Addrs <- AllAddrs
  MainAddr <- Main
  FallbackAddr <- Fallback
  Stores <- OneStore
  StoreOf <- SharedStore
  DuplicateCode <- DuplicatesButFallback
  MaxTries = 1
  MaxIssues = 1
  Recoveries = {"h1"}
  MaxPending = 1
  RecoveryLimit = 1
  MaxFaults = 1
CHECK_DEADLOCK FALSE
INVARIANTS
  NoSharedCode
PROPERTIES
  ImplementsDeliveryContract
