SPECIFICATION SpecReport
CONSTANTS
  p1 = p1
  p2 = p2
  Prefixes = {p1, p2}
  Specific = {p1}
  Asns <- SomeAsns
  Registries <- AnyForOrigin
  Updates <- SomeUpdates
  Changing <- OfOrigin
  CacheTtl = 2
  MaxClock = 2
  MaxUpdates = 2
  MaxChanges = 1
  OtherScores = {60, 90}
  MaxOthers = 1
  ToolMax = 1
  PriorityMax = 1
INVARIANT TypeOK
INVARIANT HijackReported
INVARIANT BaselineNotFlagged
INVARIANT HijackReachesNarrative
PROPERTY ServiceSpared
CHECK_DEADLOCK FALSE
