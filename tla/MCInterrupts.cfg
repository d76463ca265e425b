SPECIFICATION Spec
CONSTANTS
  u = u
  v = v
  Values <- MCValues
  Size = 2
  Bad = {0}
  Requests <- MCRequests
  Upper = 2
  Lower = 2
  TextLength = 2
  FifoSize = 16
INVARIANTS
  TextsInOrder
  NothingInService
PROPERTIES
  DiskSpec
  EveryWaitEnds
