SPECIFICATION Spec
CONSTANTS
  x = x
  y = y
  z = z
  Workers = {x, y, z}
  AlwaysWait = {x}
  MaxCollect = 1
  MaxItems = 1
CHECK_DEADLOCK FALSE
INVARIANTS TimeoutIsKept
