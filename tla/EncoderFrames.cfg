\* Four calls on one encoder of each kind; small buffers that grow once or twice.
CONSTANTS
  Kinds = {"flatbuffers", "capnp"}
  Pairs <- Some
  IntSize = 256
  FirstCap = 48
  FirstHdr = 2
  MaxCalls = 4

SPECIFICATION Spec

INVARIANTS
  TypeOK
  SaysThePair
  SteadyState

\* The caller may stop calling.
CHECK_DEADLOCK FALSE
