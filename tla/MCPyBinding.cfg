SPECIFICATION FairSpec
CONSTANTS
  t1 = t1
  t2 = t2
  o1 = o1
  d1 = d1
  d2 = d2
  x1 = x1
  x2 = x2
  Closed = Closed
  Idle = Idle
  Unanswered = Unanswered
  Error = Error
  NoDictionary = NoDictionary
  Threads = {t1, t2}
  Objects = {o1}
  Dictionaries = {d1, d2}
  Texts = {x1, x2}
  Batches <- MCBatches
  Size <- MCSize
  Directories = {"x", "y"}
  Names = {"n", "none"}
  Holds <- MCHolds
  PathChoices <- MCPathChoices
  DictPaths = {"y"}
  Changes <- MCChanges
  Chosen = {"continuous", "bad"}
  NodeLimit = 1
PROPERTIES
  ImplementsSharedHandle
  CallsReturn
CHECK_DEADLOCK FALSE
