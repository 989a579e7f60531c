SPECIFICATION Spec
CONSTANTS
  Streams <- Short
  Isns <- Isn
  SeqMod = 16
  MaxFlying = 1
  MaxRetrans = 0
  MaxConns = 1
INVARIANT StreamReconstructed
CHECK_DEADLOCK FALSE
