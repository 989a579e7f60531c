SPECIFICATION FairSpec
CONSTANTS
  u1 = u1
  u2 = u2
  Users = {u1, u2}
  None = None
  sBegin = sBegin
  sWait = sWait
  sStop = sStop
  sEnd = sEnd
  Classes <- Both
  MaxPackets = 1
  MaxCalls = 3
  MaxStarts = 2
INVARIANTS TypeOK NoMutualWait
PROPERTIES StopIsHeard NoStaleAnswer BreakpointHonoured
CHECK_DEADLOCK FALSE
