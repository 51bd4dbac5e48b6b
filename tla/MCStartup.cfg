CONSTANTS
  Procs = {p1, p2}
  Var = Var
  Share = Share
  Near = Near
  Dirs <- MCDirs
  Local <- MCLocal
  Standard = Standard
  Other = Other
  Here = Here
  Nothing = Nothing
  Junk = Junk
  Invocations <- MCInvocations
  DefaultLimit = 1
  MaxLimit = 2
  MaxFile = 1
  MaxStarts = 3

SPECIFICATION SSpec

SYMMETRY Symmetry

INVARIANTS
  StartTypeOK
  UploadsFollowDatabase
  LimitTold

PROPERTIES
  LossWasForced
  DefaultStays
  CheckOnlyLooks
