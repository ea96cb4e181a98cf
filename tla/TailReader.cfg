SPECIFICATION Spec
CONSTANTS
  MaxWrites = 3
  MaxInodes = 3
  MaxTruncates = 1
INVARIANTS OnceInOrder
PROPERTY ReadToTheEnd
CHECK_DEADLOCK FALSE
