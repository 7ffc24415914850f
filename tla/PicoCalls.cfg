\* A reader makes two calls at every two cuts of a stream; the adapter makes one
\* call on every damaged message and two on pairs.  Room for two headers, blocks
\* of four octets or no blocks.
CONSTANTS
  Streams <- Received
  Batches <- Parsed
  MaxHeaders = 2
  Blocks = {0, 4}
  MaxCalls = 2

SPECIFICATION Spec

INVARIANTS
  TypeOK
  Recognises
  Settles
  Translates

\* A caller may stop calling.
CHECK_DEADLOCK FALSE
