SPECIFICATION ReadSpec
CONSTANTS
  NL = 0
  Letters = {1, 2}
  Unread = 9
  READ_ONCE = 3
  Copies = {"up", "down"}
  MaxStream = 4
INVARIANT BufferIsRest
CHECK_DEADLOCK FALSE
