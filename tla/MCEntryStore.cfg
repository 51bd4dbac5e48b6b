CONSTANTS
  Procs = {server}
  MaxSlots = 2
  Data = {d1, d2}
  NoData = NoData
  MaxAge = 0
  MaxClock = 1
  MaxMade = 2
  Paths = {f1, f2, f3, f4, f5}
  NoPath = NoPath
  Partial = Partial
  Cut = Cut
  MaxFaults = 1

SPECIFICATION Spec

INVARIANTS
  TypeOK
  NoDanglingRow
  NoSharedFile
  NoOrphans

PROPERTIES
  ImplementsStore
