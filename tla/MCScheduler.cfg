SPECIFICATION FairSpec
CONSTANTS
  MaxProcesses <- MCMaxProcesses
  Quantum <- MCQuantum
  TickModulus <- MCTickModulus
INVARIANTS
  TypeOK
  CpuRunsCurrent
  ContextsIntact
  OwnPartition
  ExecRunsWhatItLoaded
PROPERTIES
  RoundRobinSpec
  EveryReadyThreadRuns
  CreateReturns
