SPECIFICATION ComposerSpec
CONSTANTS
  MaxChats = 3
  MaxSends = 2
  MaxSelects = 1
CHECK_DEADLOCK FALSE
INVARIANT LostAnswerMakesNoSecondJob
