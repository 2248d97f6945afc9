CONSTANTS
  H = 8
  LimbBits = 6
  CHAR_BIT = 2
  Starts <- MCStarts
  ULongs = {0, 1, 2, 3, 7, 32, 63}
  BitCounts = {0, 1, 5, 6, 7, 12, 13}
  Bases = {2, 3, 10, 16, 31}
  LimbBound = 5
  CallBound = 1
SPECIFICATION Spec
INVARIANTS NoFault Canonical BlocksOwned
PROPERTY ImplementsIntegers
CHECK_DEADLOCK FALSE
