SPECIFICATION Spec
CONSTANTS
  Clients = {a, b}
  MaxUid = 1
  MaxChunks = 0
  Multipart = TRUE
SYMMETRY Symmetry
CHECK_DEADLOCK FALSE
INVARIANT CurrentIsServed
