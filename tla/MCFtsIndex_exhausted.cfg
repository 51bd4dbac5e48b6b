CONSTANTS
  MaxSlots = 2
  Data = {w1, w2}
  NoData = NoData
  MaxAge = 0
  MaxClock = 0
  MaxMade = 4

SPECIFICATION FSpec

INVARIANT RecordsCanBeDeleted
