\* Three groups over two slots, one of two files, one file reused from a resumed run,
\* a budget of one token, the comments of the second group re-filed on the first.
CONSTANTS
  AllFiles <- FiveFiles
  Groups <- ThreeGroups
  Est <- UnitCost
  Reusable = {"e"}
  Concurrency = 2
  Budget = 1
  MaxSpend = 1
  GroupingCost = 0
  Commenting = {2}
  Rounds = 2
  Refile = {"b"}
  ErrKinds = {"canceled"}
  Stops = {"tokenBudget", "emptyRounds"}
  CtxEnds = {"cancelled"}
  Endgames = {"load", "empty", "persist"}
SPECIFICATION Spec
INVARIANTS EndIsExplained OutputComplete CompletedOnEvidence
PROPERTY Termination
