SPECIFICATION Spec
CONSTANTS
  Libraries <- MCLibraries
  Versions <- MCVersions
  MaxEdits = 1
  MaxFailures = 1
INVARIANTS TypeOK CurrentSchema VersionsAgree
PROPERTIES BuildEnds
