SPECIFICATION Spec
CONSTANTS
  WordEnd = 4
  Groups <- MCGroups
  SegmentType <- MCSegmentType
  Paths <- MCPaths
  MaxPaths = 3
  GRAPH_END = 99
INVARIANT AnswerIsMinimalGraph
PROPERTIES ReadingsKept Answered
