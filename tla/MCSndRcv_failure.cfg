CONSTANTS
  Options <- Calls
  MaxReplies = 1
  MaxTrouble = 1
SPECIFICATION FairSpec
INVARIANT DoneMeansAnswered
CHECK_DEADLOCK FALSE
