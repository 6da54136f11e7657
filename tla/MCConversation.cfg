\* Four rounds of up to two calls against a budget two rounds may overrun.
CONSTANTS
  MaxToolRequestTimes = 4
  SoftLimit = 6
  WarnLimit = 8
  PromptSize = 1
  SummarySize = 1
  ResultSizes = {1, 3}
  MaxCalls = 2
SPECIFICATION Spec
INVARIANTS WellPaired RoundsWhole
PROPERTY Ends
CHECK_DEADLOCK FALSE
