SPECIFICATION Spec
CONSTANTS
  Queues = {q1}
  Values = {a, b}
  NoValue = NoValue
  MaxLen = 2
  MaxCap = 3
  Keys = {k1}
  Clients = {c1, c2}
  NoClient = NoClient
  TTLs = {0, 1, 2}
  MaxTime = 4
INVARIANTS TypeOK LeaseRecorded LeaseExclusive
PROPERTIES ImplementsDeque
