\* Every value of up to three octets of every kind, and some of six.
CONSTANTS
  Values <- AllValues

SPECIFICATION Spec

INVARIANTS
  TypeOK
  NothingRaw
  SaysTheValue

PROPERTIES
  CallReturns

\* The call returns.
CHECK_DEADLOCK FALSE
