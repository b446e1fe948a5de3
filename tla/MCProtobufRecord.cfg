SPECIFICATION Spec
CONSTANTS
  r1 = r1
  r2 = r2
  empty = empty
  bad = bad
  f = f
  Messages <- MCMessages
  Ids <- MCIds
  Added <- MCAdded
  Strings <- MCStrings
  Utf8 <- MCUtf8
  Foreign <- MCForeign
  Garbage <- MCGarbage
  Int64Size <- MCInt64Size
  Wires <- MCWires
  Rereads <- MCRereads
  MaxItems = 2
INVARIANTS TypeOK WellFramed AcceptedIsMerged RejectedForCause
PROPERTIES ParseEnds
