SPECIFICATION Spec
CONSTANTS
  c1 = c1
  c2 = c2
  c3 = c3
  None = None
  Conns <- MCConns
  Plans <- MCPlans
  QueueMax = 2
  FlushQueue = 1
  Wait = 1
  HoldMax = 2
  Grace = 1
  GcInterval = 2
INVARIANTS IndexesAgree FoundUntilGrace EstablishedIsOpen
PROPERTIES EventuallyForgotten
CHECK_DEADLOCK FALSE
