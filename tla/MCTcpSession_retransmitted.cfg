SPECIFICATION Spec
CONSTANTS
  Streams <- OneStream
  Isns <- Isn
  SeqMod = 16
  MaxFlying = 1
  MaxRetrans = 1
  MaxConns = 1
INVARIANT RetransmissionSkipped
CHECK_DEADLOCK FALSE
