SPECIFICATION FairSpec
CONSTANTS
  u1 = u1
  u2 = u2
  t1 = t1
  t2 = t2
  h1 = h1
  h2 = h2
  Users = {u1, u2}
  Threads = {t1, t2}
  Ids = {h1, h2}
  NoThread = NoThread
  NoHandle = NoHandle
  Timeouts = {0, 2}
  Grace = 1
  MaxClock = 3
  MaxClears = 1
  MaxKills = 1
INVARIANT TypeOK
INVARIANT OneThread
INVARIANT NeverStranded
INVARIANT NoLostWakeup
PROPERTY ImplementsTimers
PROPERTY EventuallyHandled
CHECK_DEADLOCK FALSE
