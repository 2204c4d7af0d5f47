SPECIFICATION Spec
CONSTANTS
  Trips = {t1}
  Drivers = {d1, d2}
  Slots = {s1, s2, s3}
  MaxCalls = 4
  MaxFaults = 0
  Nobody = Nobody
  NoTrip = NoTrip
  NoSlot = NoSlot
SYMMETRY Symmetry
INVARIANT PaidOnce
CHECK_DEADLOCK FALSE
