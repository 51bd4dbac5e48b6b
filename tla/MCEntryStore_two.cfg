CONSTANTS
  Procs = {server, other}
  MaxSlots = 2
  Data = {d1}
  NoData = NoData
  MaxAge = 0
  MaxClock = 0
  MaxMade = 2
  Paths = {f1, f2, f3, f4, f5}
  NoPath = NoPath
  Partial = Partial
  Cut = Cut
  MaxFaults = 0

SPECIFICATION Spec

INVARIANT NoDanglingRow
