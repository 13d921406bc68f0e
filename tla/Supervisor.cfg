SPECIFICATION Spec
CONSTANTS
  x = x
  y = y
  Workers = {x, y}
  AlwaysWait = {x}
  MaxCollect = 2
  MaxItems = 1
CONSTRAINT OneFails
CHECK_DEADLOCK FALSE
INVARIANTS TypeOK PreviousInterrupted HeardEnough RowsExist
