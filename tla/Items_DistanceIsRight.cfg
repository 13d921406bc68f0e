SPECIFICATION ItemsSpec
CONSTANTS
  cx = cx
  cy = cy
  cn = cn
  cw = cw
  PvItems = {a, b, c}
  PvLsp = {a}
  PvPaths = {b}
  PvSize = 2
  MaxPvEvents = 3
  EpWide <- Wide
  EpText <- Buffer
  EpCursor <- AfterCy
  EpItems <- Items
  EpTyped <- TypedTexts
  MkSnippets <- UpToTwo
  MkAnswers <- Answers
  LxSentences <- Sentences
  LxIndents <- Indents
  FzThreads = {s, t}
  FzCalls <- FewPairs
  FzLookAhead = 2
  MaxFzCalls = 1
  RkTexts = {cx, cy, cw}
  RkMax = 2
  MaxRanked = 4
CHECK_DEADLOCK FALSE
INVARIANT DistanceIsRight
