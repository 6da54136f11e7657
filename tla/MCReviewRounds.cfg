\* Two groups whose comments may land on each other's files.
CONSTANTS
  Groups <- TwoGroups
  Rounds = 2
  ConfirmedCap = 3
  MaxComments = 3
  Refile = TRUE
SPECIFICATION RoundsSpec
INVARIANTS ConfirmedStands FindingsSettled
PROPERTY RemovesOnlyJudged
