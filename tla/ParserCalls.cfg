\* One call on every short buffer, and every sequence of three calls on messages,
\* requests and responses in any order.
CONSTANTS
  Buffers <- ShortOrMessages
  Names <- Asked
  MaxHeaders = 2
  MaxCalls = 3

SPECIFICATION FewSpec

INVARIANTS
  TypeOK
  NeverPanics
  Lossless
  FindsFirst

PROPERTIES
  KeepsContract
  CallReturns

\* The caller may stop calling.
CHECK_DEADLOCK FALSE
