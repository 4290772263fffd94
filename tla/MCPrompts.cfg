SPECIFICATION FairSpec
CONSTANTS
  MaxPrompts = 3
INVARIANTS
  AnsweredOnce
  ShownOnce
  ShownAreLive
  NoQuestionLost
PROPERTIES
  ClosingAsksOrHangs
CHECK_DEADLOCK FALSE
