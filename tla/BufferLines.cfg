SPECIFICATION Spec
CONSTANTS
  a = a
  b = b
  Lines = {a, b}
  Blank = b
  Height = 0
  MaxLen = 2
  MaxEdits = 2
CONSTRAINT Whole
CHECK_DEADLOCK FALSE
INVARIANTS UpdatesSplice NoClash PollRepairs
PROPERTIES OthersAreKept
