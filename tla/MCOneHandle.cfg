SPECIFICATION Spec
CONSTANTS
  h1 = h1
  h2 = h2
  k1 = k1
  k2 = k2
  w1 = w1
  w2 = w2
  NotSet = NotSet
  NoKey = NoKey
  NoFile = NoFile
  NoCache = NoCache
  Unopened = Unopened
  Idle = Idle
  Space = Space
  OptionNames <- MCOptionNames
  Values <- MCValues
  Fsas <- MCFsas
  Handles = {h1}
  CacheIds = {k1}
  Files <- MCFiles
  Unreadable <- MCUnreadable
  FileMetadata <- MCFileMetadata
  Names <- MCNames
  Directories <- MCDirectories
  Texts <- MCLongTexts
  Nodes <- MCNodes
  UsageChoices = {"analyse", "generate", "both"}
  PathChoices <- MCFiles
  CaseChoices = {"ignore"}
  NumberingChoices = {"separate", "continuous"}
  WhitespaceChoices = {"keep"}
  AgglChoices = {"strict", "permissive", "bad"}
  PraetChoices = {"composite"}
  NodeLimit = 1
  StartChoices = {2}
INVARIANTS
  ReportedOptionsUsed
  SegmentationSelectable
  UsageServed
  NodesFollowOn
CHECK_DEADLOCK FALSE
