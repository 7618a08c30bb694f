SPECIFICATION Spec
CONSTANTS
  Chars <- MCChars
  Lower <- MCLower
  Separators = {"-"}
  Types <- MCTypes
  Dictionary <- MCDictionary
  RuleStates <- MCRuleStates
  InitialState = 0
  RuleSets <- MCRuleSets
  Words <- MCWords
INVARIANTS
  PathsSound
  AnswersDeserved
  AnswerCovers
  SplitAtSeparators
PROPERTIES
  Returns
CHECK_DEADLOCK FALSE
