SPECIFICATION Spec
CONSTANTS
  MaxGThreads = 3
  Algs <- MCPriority
  FirstPriority <- MCSecondFirst
  LastPriority = 1
  Nesting = 0
INVARIANTS
  EndsForGood
CHECK_DEADLOCK FALSE
