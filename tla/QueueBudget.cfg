SPECIFICATION QueueSpec
CONSTANTS
  s1 = s1
  s2 = s2
  s3 = s3
  s4 = s4
  Spans <- MCSpans
  Sampled <- MCSampled
  SpanSize <- MCSize
  MaxSpans = 2
  MaxBytes = 3
  MaxBatch = 2
INVARIANTS
  BudgetExact
  NoSilentLoss
  DrainedAccounting
PROPERTY GivenBack
CHECK_DEADLOCK FALSE
