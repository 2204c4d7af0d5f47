CONSTANTS
  Owners = {o1, o2}
  NoOwner = none
  Callers = {c1, c2}
  Readers = {r1}
  Leases = {1, 2}
  Wait = 1
  MaxClock = 1
SPECIFICATION LiveSpec
INVARIANT MutualExclusion
PROPERTIES LiveLeaseIsItsOwners EveryCallSettles
