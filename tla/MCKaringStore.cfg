CONSTANTS
  MaxSlots = 3
  Data = {d1}
  NoData = NoData
  MaxAge = 1
  MaxClock = 2
  MaxMade = 4

SPECIFICATION Spec

INVARIANTS
  TypeOK
  DistinctRecords
  RingOrder

PROPERTIES
  RotationDropsOldest
  RecordsConserved
  ResizeDropsOldest
  DeleteLatestTakesNewest
  NoCascade
  ResequenceSettles
