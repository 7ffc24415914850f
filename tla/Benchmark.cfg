\* Three benches, of one and of three workers.
CONSTANTS
  Programs = {"c", "go"}
  Passes <- Threes
  MaxThreads = 3
  RunTime = 2
  MaxBatches = 3

SPECIFICATION Spec

INVARIANTS
  TypeOK
  Isolated
  TotalIsWork

PROPERTIES
  MainReturns

\* The program ends.
CHECK_DEADLOCK FALSE
