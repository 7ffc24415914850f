\* Every input of up to three header lines in chunks of four, room for two.
CONSTANTS
  Inputs <- ManyLines
  MAXH = 2
  MaxCalls = 1
  Chunk = 4

SPECIFICATION Spec

INVARIANTS
  TypeOK
  NothingLost

PROPERTIES
  AgreesWithScalar
  CallReturns

\* The thread may stop calling.
CHECK_DEADLOCK FALSE
