SPECIFICATION Spec
CONSTANTS
  MaxSpoolSize = 2
  Leftovers <- MCEmptyFile
  Sizes = {1, 2}
  MaxScrapes = 4
  MaxCrashes = 1
INVARIANTS Accounted
PROPERTIES InOrder Drained
CHECK_DEADLOCK FALSE
