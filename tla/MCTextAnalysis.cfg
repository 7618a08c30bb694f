SPECIFICATION Spec
CONSTANTS
  Blank = Blank
  Underscore = Underscore
  NoFile = NoFile
  NoEngine = NoEngine
  LabelOrder <- MCLabelOrder
  Sources <- MCSources
  Lower <- MCLower
  Upper <- MCUpper
  AdjTags = {"adj:sg"}
  SubstTags = {"subst:sg"}
  AgltTags = {"aglt:sg"}
  Euro <- MCEuro
  Digits = {"1"}
  Whitespace = {" "}
  WordChars <- MCWordChars
  NativeWord <- MCNativeWord
  Texts <- MCTexts
  MaxTexts = 2
INVARIANTS
  IdsSound
  ReadingsFromLines
  LinesFound
  TextSpelled
  KnownRunsFound
CHECK_DEADLOCK FALSE
