SPECIFICATION Spec
CONSTANTS
  Streams = {1, 2}
  Scripts <- MCScripts
  HeaderLen = 2
  ReassemblyMax = 2
  MaxEvent = 5
  MaxBytes = 3
  Wait = 1
  HoldMax = 1
  MaxPauses = 1
INVARIANTS InStep OnceWithItsBody
PROPERTIES HeldIsReleased
CHECK_DEADLOCK FALSE
