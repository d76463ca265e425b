SPECIFICATION Spec
CONSTANTS
  MaxProcesses <- MCMaxProcesses
  Quantum <- MCQuantum
  TickModulus <- MCTickModulus
INVARIANT
  UptimeCountsInterrupts
