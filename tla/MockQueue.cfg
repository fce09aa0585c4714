SPECIFICATION Spec
CONSTANTS
  Queues = {init, paid}
  Events = {e1, e2, e3}
  Malformed = {e3}
  Hanging = {init}
  NoEvent = NoEvent
  MaxLen = 3
  MaxCap = 4
INVARIANTS TypeOK HandledInOrder
PROPERTIES EveryEventHandled
