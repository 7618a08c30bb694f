SPECIFICATION Spec
CONSTANTS
  t1 = t1
  t2 = t2
  h1 = h1
  h2 = h2
  d1 = d1
  d2 = d2
  Threads = {t1, t2}
  Handles = {h1, h2}
  Does <- MCDoes
  UsesLegacy <- MCUsesLegacy
  Dictionaries = {d1, d2}
  Directories = {"x", "y"}
  Names = {"n", "m"}
  Holds <- MCHolds
  Lists <- MCLists
  DefaultList <- MCDefaultList
  DefaultName = "n"
  Ids = {1}
  TextOf <- MCTextOf
  Charsets = {"utf8", "cp1250"}
  DefaultCharset = "utf8"
  Asks <- MCAsks
  Answer <- MCAnswer
  NoDictionary = NoDictionary
  NoText = NoText
  NoAnswer = NoAnswer
  NoError = NoError
  Unknown = Unknown
  Closed = Closed
  Idle = Idle
INVARIANTS
  CachedTextsTrue
  OutcomesDeserved
