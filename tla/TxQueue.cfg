SPECIFICATION FairSpec
CONSTANTS
  Calls = {c1, c2, c3}
  Writers = {w1}
  MaxRetries = 2
  MaxFaults = 2
  Nobody = Nobody
INVARIANTS NeverNested AllOrNothing
PROPERTIES SerialSpec EveryCallSettles
CHECK_DEADLOCK FALSE
