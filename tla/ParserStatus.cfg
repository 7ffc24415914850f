\* A status with letters in it.
CONSTANTS
  Buffers <- MalformedStatus
  Names <- Asked
  MaxHeaders = 1
  MaxCalls = 1

SPECIFICATION Safety

INVARIANT StatusIsThreeDigits

CHECK_DEADLOCK FALSE
