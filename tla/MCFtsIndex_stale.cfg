CONSTANTS
  MaxSlots = 2
  Data = {w1, w2}
  NoData = NoData
  MaxAge = 0
  MaxClock = 0
  MaxMade = 3

SPECIFICATION FSpec

INVARIANT HitsHaveTheWord
