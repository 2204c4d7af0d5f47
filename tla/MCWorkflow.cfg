CONSTANTS
  States <- MCStates
  Initial = "requested"
  Transition <- MCTransition
  Final = {"done", "expired"}
  Failure = {"expired"}
  Timeout <- MCTimeout
  MaxCalls = 4
  MaxStarts = 2
  MaxFaults = 2
  MaxStops = 1
SPECIFICATION LiveSpec
INVARIANT StaysAreSound
PROPERTIES TimeoutEndsItsStay StayEnds
CHECK_DEADLOCK FALSE
