CONSTANTS
  j1 = j1
  j2 = j2
  Jobs = {j1, j2}
  Recurring = {j1}
  Priority <- MCPriority
  Concurrency = 1
  MaxRetries = 1
  Ticks = {t1, t2}
  NoTick = none
  MaxOps = 2
SPECIFICATION LiveSpec
INVARIANT ExecutionsAreSound
PROPERTIES CancelHolds DueIsStarted
CHECK_DEADLOCK FALSE
