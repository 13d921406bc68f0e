SPECIFICATION Spec
CONSTANTS
  MaxTick = 2
  MaxManual = 1
  FastClose = {TRUE, FALSE}
  LnCalls = {c1, c2}
  MaxLeaves = 2
  MaxInstalls = 1
CHECK_DEADLOCK FALSE
INVARIANTS TypesOK ContextIsNotOlder QuietMenuIsCurrent OneServer
PROPERTIES NewestIsServed CallsEnd
