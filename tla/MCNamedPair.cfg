SPECIFICATION ServiceSpec
CONSTANTS
  NotSet = NotSet
  NoKey = NoKey
  NoFile = NoFile
  OptionNames <- MCOptionNames
  Values <- MCValues
  Fsas <- MCFsas
  Files <- MCFiles
  Unreadable <- MCUnreadable
  FileMetadata <- MCFileMetadata
  Pairs <- MCPairs
  PathChoices <- MCPathChoices
  OptionChoices <- MCOptionChoices
  MaxTaken = 1
  NodeLimit = 2
INVARIANTS
  NamedPairServesBoth
