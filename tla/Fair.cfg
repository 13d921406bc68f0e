SPECIFICATION PartsSpec
CONSTANTS
  Clients = {a, b}
  MaxUid = 1
  MaxChunks = 0
  Multipart = FALSE
  Workers = {y}
  AlwaysWait = {}
  MaxCollect = 3
  MaxItems = 0
CHECK_DEADLOCK FALSE
PROPERTIES NewestEnds TurnsCome
