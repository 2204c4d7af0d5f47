SPECIFICATION Spec
CONSTANTS
  Scooters = {s1}
  Users = {u1, u2}
  Slots = {p1, p2, p3}
  Fares = {1, 2}
  MinBalance = 1
  Opening = 2
  TopUp = 1
  MaxCalls = 4
  MaxFaults = 1
  Nobody = Nobody
SYMMETRY Symmetry
INVARIANTS OwnRideIsEnded NeverOverdrawn LedgerExplainsBalance
PROPERTY RiddenIsNotReclaimed
CHECK_DEADLOCK FALSE
