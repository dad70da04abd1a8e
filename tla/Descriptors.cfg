\* Small configurations of every form, lists of them, and short strings.
SPECIFICATION MCSpec
CONSTANTS
  MaxBody = 3
  MaxUnits = 3
  Devices <- MCDevices
  Values <- MCValues
  AllocFails = TRUE
  ReadFails = TRUE
  Replies <- MCReplies
  Rooms = {0, 1, 2, 3, 4, 5, 6}
INVARIANTS ParsesExactly OnlyStraysCorrupt NothingLeaks PlainTextIsRight RefusesUnpaired
CHECK_DEADLOCK FALSE
