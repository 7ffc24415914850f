\* The two calls of dump.
CONSTANTS
  Streams <- NoStreams
  Batches <- Dumped
  MaxHeaders = 2
  Blocks = {0}
  MaxCalls = 0

SPECIFICATION Spec

INVARIANTS
  ResponseVersionInBuffer

\* A caller may stop calling.
CHECK_DEADLOCK FALSE
