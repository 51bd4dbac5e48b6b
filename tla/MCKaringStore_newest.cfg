CONSTANTS
  MaxSlots = 2
  Data = {d1}
  NoData = NoData
  MaxAge = 1
  MaxClock = 1
  MaxMade = 3

SPECIFICATION Spec

INVARIANT LatestIsNewest
