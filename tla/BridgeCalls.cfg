\* Two calls, every input of up to two header lines, room for one.
CONSTANTS
  Inputs <- TwoLines
  MAXH = 1
  maxH = 1
  MaxCalls = 2

SPECIFICATION Spec

INVARIANTS
  TypeOK
  ReadsMessage
  Decodes

PROPERTIES
  CallReturns

\* Go may stop calling.
CHECK_DEADLOCK FALSE
