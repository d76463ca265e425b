SPECIFICATION FuseSpec
CONSTANTS
  Same <- SameBeginning
  Characters <- MCCharacters
  Trees <- FuseTrees
  Lines = {}
  NewNames <- FuseNames
  MaxEntries = 4
  Depth = 4
INVARIANTS
  PathsTypeOK
  CallbacksFindPaths
PROPERTIES
  CallbacksFollowPath
CHECK_DEADLOCK FALSE
