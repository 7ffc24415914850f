\* Every cut of every body of up to two chunks and of every damaged short body.
CONSTANTS
  Streams <- AllStreams
  MaxHex = 2
  MaxOverhead = 12

SPECIFICATION Spec

INVARIANTS
  TypeOK
  InPlace
  Accounted
  Incremental

PROPERTIES
  CallReturns

\* The caller stops when the body is complete or bad.
CHECK_DEADLOCK FALSE
