\* The smallest instance that shows it.
SPECIFICATION MCSpec
CONSTANTS
  MaxBody = 0
  MaxUnits = 3
  Devices <- MCDevices
  Values <- MCValues
  AllocFails = FALSE
  ReadFails = FALSE
  Replies <- MCReplies
  Rooms = {0, 1, 2, 3}
INVARIANT EncodeHasRoom
CHECK_DEADLOCK FALSE
