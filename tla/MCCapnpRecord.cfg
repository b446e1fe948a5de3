SPECIFICATION Spec
CONSTANTS
  m1 = m1
  m2 = m2
  o1 = o1
  Messages <- MCMessages
  Orphans <- MCOrphans
  Items <- MCItems
  Zero <- MCZero
  MaxLength = 1
  MaxLists = 3
INVARIANTS TypeOK OneOwner
PROPERTY Implements
