SPECIFICATION Spec
CONSTANTS
  u1 = u1
  u2 = u2
  Users = {u1}
  None = None
  sBegin = sBegin
  sWait = sWait
  sStop = sStop
  sEnd = sEnd
  Classes <- Both
  MaxPackets = 0
  MaxCalls = 3
  MaxStarts = 1
INVARIANT ConditionsRun
CHECK_DEADLOCK FALSE
