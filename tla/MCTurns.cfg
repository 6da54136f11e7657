CONSTANTS
  NoTurn = NoTurn
  Sessions = {s1}
  Prompts = {p1, p2}
  Closers = {c1}
  MaxCancels = 1
  MaxRuns = 1
SPECIFICATION Spec
INVARIANTS QuietAfter CancelForgets FirstCauseStands
PROPERTY ToldEnds
CHECK_DEADLOCK FALSE
