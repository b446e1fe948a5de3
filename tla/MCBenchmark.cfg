SPECIFICATION Spec
CONSTANT CommandLines <- MCCommandLines
INVARIANTS TypeOK ReportMatchesRequest OnlyRequestedMeasured
PROPERTIES RefusalIsJustified Implements Terminates
CHECK_DEADLOCK FALSE
