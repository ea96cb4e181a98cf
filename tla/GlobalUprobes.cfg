SPECIFICATION UprobesSpec
CONSTANTS
  p1 = p1
  p2 = p2
  runtime = runtime
  libssl = libssl
  other = other
  None = None
  Procs = {p1, p2}
  Keys = {runtime, libssl}
  Slots <- MCSlots
  ProcOf <- MCProcOf
  KeyOf <- MCKeyOf
  Own <- MCOwn
  Before <- MCBefore
  TTL = 1
INVARIANTS RefsExact ReferredIsAttached
PROPERTY ReferencesReturned
CHECK_DEADLOCK FALSE
