CONSTANTS
  H = 4
  LimbBits = 4
  AN = 4
  BN = 3
  ALimbs = {0, 1, 15}
  BLimbs = {0, 8, 15}
  Words = {1, 8, 15}
SPECIFICATION Spec
PROPERTIES ExactLimbs Frame
CHECK_DEADLOCK FALSE
