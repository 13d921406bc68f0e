SPECIFICATION LnSpec
CONSTANTS
  LnCalls = {c1, c2}
  MaxLeaves = 2
  MaxInstalls = 1
CHECK_DEADLOCK FALSE
PROPERTY CommandsAreServed
