\* Two calls on a block of headers, cut anywhere.
CONSTANTS
  Streams <- Blank
  Batches <- NoBatches
  MaxHeaders = 2
  Blocks = {0}
  MaxCalls = 2

SPECIFICATION Spec

INVARIANTS
  Answers

\* A caller may stop calling.
CHECK_DEADLOCK FALSE
