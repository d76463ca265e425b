SPECIFICATION Spec
CONSTANTS
  MaxGThreads = 3
  Algs <- MCRoundRobin
  FirstPriority <- MCFirst
  LastPriority = 0
  Nesting = 1
INVARIANTS
  EndsForGood
CHECK_DEADLOCK FALSE
