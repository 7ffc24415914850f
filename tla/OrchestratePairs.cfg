\* Up to four pairs in two batches, with room for two headers.
CONSTANTS
  Pairs <- SomePairs
  MaxHeaders = 2
  Rate = 2
  Duration = 3

SPECIFICATION Spec

INVARIANTS
  TypeOK
  EncodesThePair
  KeepsTheRate

PROPERTIES
  FailsWhenMalformed
  MainReturns

\* The program stops.
CHECK_DEADLOCK FALSE
