SPECIFICATION Spec
CONSTANTS
  Streams <- TwoStreams
  Isns <- TwoIsns
  SeqMod = 21
  MaxFlying = 2
  MaxRetrans = 1
  MaxConns = 2
CONSTRAINT FollowedWhileCalm
INVARIANT TypeOK
INVARIANT BufferLengthAgrees
INVARIANT Reassembled
CHECK_DEADLOCK FALSE
