CONSTANTS
  s1 = s1
  s2 = s2
  Sockets = {s1, s2}
  Options <- Mixed
  MaxPkts = 2
  MaxRuns = 2
  MaxStops = 2
SPECIFICATION FairSpec
CONSTRAINT PacketsWhereCounted
INVARIANTS TypeOK StopSticks FailedStopIsHarmless OvershootBounded PipeLeakOnlyAfterLastSocket
PROPERTIES ArmedStopEnds StreamsEndCapture TimeLimitEnds
CHECK_DEADLOCK FALSE
