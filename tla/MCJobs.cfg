CONSTANTS
  i1 = i1
  i2 = i2
  Ids = {i1, i2}
  Priority <- MCPriority
  key = key
  DedupKey <- MCDedupKey
  Keys = {key}
  NoKey = nokey
  NoId = noid
  MaxAttempts = 2
  Ticks = {t1, t2}
  Cancels = {c1}
  MaxFaults = 1
SPECIFICATION LiveSpec
INVARIANT JobsAreSound
PROPERTIES WorkIsNotRepeated RetryWaits EveryJobIsDecided
CHECK_DEADLOCK FALSE
