SPECIFICATION ProfilerSpec
CONSTANTS
  MaxProcs = 2
  Kinds <- MCKinds
  Buckets = {1, 2}
  MaxAllocs <- MCMaxAllocs
INVARIANTS ReportedOnce
PROPERTIES AllocationsReported JvmProfiled
CHECK_DEADLOCK FALSE
