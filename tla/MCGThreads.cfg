SPECIFICATION FairSpec
CONSTANTS
  MaxGThreads = 3
  Algs <- MCAllAlgs
  FirstPriority <- MCFirst
  LastPriority = 1
  Nesting = 0
INVARIANTS
  OnlyCurrentRuns
  ContextsIntact
  ExitsLast
PROPERTIES
  EndedStaysEnded
  ReadyRuns
CHECK_DEADLOCK FALSE
