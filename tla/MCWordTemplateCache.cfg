SPECIFICATION Spec
CONSTANTS
  Threads <- MCThreads
  Words <- MCWords
  Configs <- MCConfigs
  Calls <- MCCalls
  MaxNode = 3
  Groups <- MCGroups
  BadGroups = {"g3"}
  Decode <- MCDecode
  Orths <- MCOrths
  Ign = Ign
  Shape <- MCShape
  NoRequest = NoRequest
  NoKey = NoKey
  ConfigKey <- MCKey
  Hash <- MCHash
  Slots = 1
  LongWords = {"x"}
  MaxInterps = 2
  MaxWords = 2
  MaxGroups = 1
  InputWord = InputWord
INVARIANTS TemplatesTrue CachesTrue
PROPERTIES AnswersAsPromised CallsReturn
