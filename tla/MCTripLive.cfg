SPECIFICATION FairSpec
CONSTANTS
  Trips = {t1}
  Drivers = {d1, d2}
  Slots = {s1, s2, s3}
  MaxCalls = 3
  MaxFaults = 0
  Nobody = Nobody
  NoTrip = NoTrip
  NoSlot = NoSlot
PROPERTY SearchEnds
CHECK_DEADLOCK FALSE
