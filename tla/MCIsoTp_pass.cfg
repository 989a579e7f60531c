SPECIFICATION FairSpec
CONSTANTS
  n1 = n1
  n2 = n2
  Peer <- Pair
  Options <- Both
  SnMod = 2
  Lengths = {1, 4}
  RxPatience = 2
  MaxSent = 2
  MaxFaults = 1
  MayClose = {n2}
INVARIANTS TypeOK Integrity NeverUnattended
PROPERTIES QueueEmptied Delivered
CHECK_DEADLOCK FALSE
