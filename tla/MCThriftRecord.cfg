SPECIFICATION Spec
CONSTANTS
  a = a
  b = b
  zero = zero
  Blank = zero
  Torn = Torn
  Elem <- MCElem
  Streams <- MCStreams
  Records <- MCRecords
INVARIANTS TypeOK ReturnsLatest InvalidIsIncomplete TornOnlyAtFailure RoundTrips
PROPERTIES Ends
CHECK_DEADLOCK FALSE
