CONSTANTS
  Options <- Calls
  MaxReplies = 1
  MaxTrouble = 1
SPECIFICATION FairSpec
INVARIANTS TypeOK AnsweredOnce AnswersCounted DoneWhenUndisturbed AllAccounted RetriesAsDocumented
PROPERTIES DoneEndsRound CallReturns
CHECK_DEADLOCK FALSE
