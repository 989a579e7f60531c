CONSTANTS
  s1 = s1
  s2 = s2
  Sockets = {s1, s2}
  Options <- Plain
  MaxPkts = 1
  MaxRuns = 1
  MaxStops = 1
SPECIFICATION FairSpec
PROPERTY StopEnds
CHECK_DEADLOCK FALSE
