CONSTANTS
  d = d
  e = e
  Labels <- MCLabels
  Words <- MCWords
  Data <- MCData
  NoData = NoData
  DataSize <- MCDataSize
  TransitionsLimit = 3
  OffsetLimit = 200
  MaxEntries = 4
  SegmentTypes = 3
  RulesLimit = 60
  WordBound = 4
  Letters <- MCLetters
  Colon <- colon
  UnicodeLower <- MCUnicodeLower
  UnicodeUpper <- MCUnicodeUpper
  TableLower <- MCTableLower
  LabelSet <- MCLabelSet
  Sources <- MCSources
  NoSource = NoSource
  Given <- MCGiven
  Tags <- MCTags
SPECIFICATION Spec
INVARIANTS
  Recognises
  Minimal
  ReadsBack
  RulesObeyed
  WordsReadBack
  FormsGenerated
