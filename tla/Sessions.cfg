CONSTANTS
  Calls = {c1, c2}
  MaxTokens = 2
  MaxChanges = 2
  MaxFailures = 1
SPECIFICATION LiveSpec
INVARIANT SessionsAreSound
PROPERTIES NoTokenForBlocked ExchangedOnce SuspensionEndsSessions
CHECK_DEADLOCK FALSE
