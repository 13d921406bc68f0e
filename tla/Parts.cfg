SPECIFICATION PartsSpec
CONSTANTS
  wu = wu
  wv = wv
  TagFiles = {f}
  TagNames = {a, b}
  MaxVersion = 2
  Regs = {r0, ra}
  LineRegs = {ra}
  MaxYanks = 3
  TmuxPanesOf = {p, q}
  TmuxTexts = {"a", "b"}
  TmuxWords = {1}
  TsBufs = {b1, b2}
  TsNames = {wu, wv}
  TsTexts <- OneOrTwo
  MaxTsUid = 2
  SnInstances = {i1, i2}
  SnFiles = {f}
  SnBundled <- BundledOrUsers
  MaxSnVersion = 2
  MaxSnDumps = 2
  T9Dirs = {d, e}
  MaxT9Procs = 2
  MaxT9Reqs = 4
  LcRows = {r1, r2}
  MaxLcCtx = 3
  cx = cx
  cy = cy
  cn = cn
  cw = cw
  PvItems = {a, b, c}
  PvLsp = {a}
  PvPaths = {b}
  PvSize = 2
  MaxPvEvents = 3
  EpWide <- Wide
  EpText <- Buffer
  EpCursor <- AfterCy
  EpItems <- Items
  EpTyped <- TypedTexts
  MkSnippets <- UpToTwo
  MkAnswers <- Answers
  LxSentences <- Sentences
  LxIndents <- Indents
  FzThreads = {s}
  FzCalls <- AllPairs
  FzLookAhead = 2
  MaxFzCalls = 2
  RkTexts = {cx, cy, cw}
  RkMax = 2
  MaxRanked = 4
CHECK_DEADLOCK FALSE
INVARIANTS TypesOK TagsAreOfTheRow YanksAreKept RememberedIsStored NoGhosts NotNewerIsDone RepliesAreOwn OffersAreOfTheRow
  PreviewIsOfSelection ReplayIsSimultaneous MarksKeepTheirText ParsedAsWritten
  DistanceIsRight RatiosAreNormalised LeftOutForCause
