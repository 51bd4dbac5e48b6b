CONSTANTS
  w1 = w1
  w2 = w2
  Data = {w1, w2}
  NoData = NoData
  MaxSlots = 2
  MaxAge = 0
  MaxClock = 1
  MaxMade = 3
  TextNames = {w2}
  Completions <- MCCompletions
  MaxQuery = 5
  MaxLive = 3
  LiveDefault = 1
  MaxTyped = 2
  Phrases <- MCPhrases

SPECIFICATION FSpec

INVARIANTS
  IndexTypeOK
  NoMissedHit
  AskedIsFound
  FoundWasAsked
  LiveFindsAll
  ListsAddUp
  ListHeadIsLatest
