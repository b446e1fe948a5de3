SPECIFICATION Spec
CONSTANTS
  Elem <- MCElem
  Blank <- MCBlank
  Torn <- MCTorn
  Others <- MCOthers
  Records <- MCRecords
INVARIANTS ReturnsSent OneMemberAtATime
PROPERTY Ends
CHECK_DEADLOCK FALSE
