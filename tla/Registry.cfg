SPECIFICATION Spec
CONSTANTS
  server = server
  child = child
  grandchild = grandchild
  A = A
  B = B
  C = C
  None = None
  Pids <- MCPids
  Cgroups = {A, B, C}
  Skipped = {B}
  Plans <- MCPlans
INVARIANTS MapsAgree RightContainer
PROPERTY DeadContainerDeleted
CHECK_DEADLOCK FALSE
