SPECIFICATION Spec
CONSTANTS
  Scripts <- MCScripts
  Conns = {1, 2}
  Skipped <- MCSkipped
  MaxLost = 1
  QueueMax = 5
  FlushQueue = 0
  MaxBytes = 2
  Wait = 1
  HoldMax = 1
INVARIANTS LossIsLocal NamedByPosition
PROPERTIES PairedIsRecorded
CHECK_DEADLOCK FALSE
