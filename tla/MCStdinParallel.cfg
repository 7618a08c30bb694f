SPECIFICATION FairSpec
CONSTANTS
  t1 = t1
  t2 = t2
  Workers = {t1, t2}
  BatchLines = 2
  Capacity = 2
  Inputs <- MCInputs
INVARIANTS
  MemoryBounded
  OutputInOrder
PROPERTIES
  ImplementsSerial
  Exits
