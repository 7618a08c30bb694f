SPECIFICATION Spec
CONSTANTS
  h1 = h1
  h2 = h2
  k1 = k1
  k2 = k2
  w1 = w1
  w2 = w2
  NotSet = NotSet
  NoKey = NoKey
  NoFile = NoFile
  NoCache = NoCache
  Unopened = Unopened
  Idle = Idle
  Space = Space
  OptionNames <- MCOptionNames
  Values <- MCValues
  Fsas <- MCFsas
  Handles <- MCHandles
  CacheIds <- MCCacheIds
  Files <- MCFiles
  Unreadable <- MCUnreadable
  FileMetadata <- MCFileMetadata
  Names <- MCNames
  Directories <- MCDirectories
  Texts <- MCShortTexts
  Nodes <- MCNodes
  UsageChoices = {"analyse"}
  PathChoices = {}
  CaseChoices = {}
  NumberingChoices = {}
  WhitespaceChoices = {}
  AgglChoices = {"strict","permissive"}
  PraetChoices = {"composite"}
  NodeLimit = 0
  StartChoices = {0}
SYMMETRY MCSymmetry
INVARIANTS
  AnsweredAsConfigured
  TemplatesTrue
CHECK_DEADLOCK FALSE
