SPECIFICATION Spec
CONSTANTS
  L7 = {a1}
  Tcp = {c1, c2}
  Ticks = {0, 1}
  QueueMax = 1
  Empty = Empty
  Busy = Busy
INVARIANTS
  RingOrder
PROPERTIES ImplementsDelivery Delivered
CHECK_DEADLOCK FALSE
