CONSTANTS
  MaxSlots = 2
  Data <- MCData
  NoData = NoData
  Foreign <- MCForeign
  Bodies <- MCBodies
  Empty = Empty
  MaxText = 2
  MaxFile = 1
  MaxAge = 0
  MaxClock = 0
  MaxMade = 2

SPECIFICATION RSpec

INVARIANTS
  RootTypeOK
  OnlyAcceptable
  NoTornAnswer
  LatestAnswered
  StatusTellsTruth

PROPERTY EveryRequestAnswered
