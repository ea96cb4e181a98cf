CONSTANTS
  Fds = {f1}
  MaxSockets = 2
  MaxEntries = 3
SPECIFICATION Spec
INVARIANTS StampIsOwn OpenIsTrue
PROPERTIES SweepSpares StaleIsSwept
CHECK_DEADLOCK FALSE
