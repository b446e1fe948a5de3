SPECIFICATION Spec
CONSTANTS
  Ids <- MCIds
  Strings <- MCStrings
  Damages <- MCDamages
  Wrap = 128
  MaxStrings = 2
  MaxRecords = 2
  MaxObjects = 2
  MaxDamages = 1
  MaxDamaged = 12
INVARIANTS BuiltIsAccepted ReadsBack InBounds
CHECK_DEADLOCK FALSE
