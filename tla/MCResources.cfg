SPECIFICATION ResourcesSpec
CONSTANTS
  Owners = {o1, o2, o3}
  NoOwner = NoOwner
  Amounts = {1, 2}
  Priorities = {0, 1, 2}
  Callers = {c1, c2}
  Capacity = 4
  Reservation = 1
  Quota = 2
  MaxAllocs = 4
  MaxFaults = 2
SYMMETRY Symmetry
INVARIANT AccountsAreSound
PROPERTY PreemptionIsOrdered
CHECK_DEADLOCK FALSE
