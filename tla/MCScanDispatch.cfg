SPECIFICATION ScanSpec
CONSTANTS
  Batches <- MCBatches
  Filing <- MCFiling
  Resumable = {"c"}
  MaxConcurrency = 2
  Estimate = 2
  Costs = {3}
  Budget = 5
  SpentBound = 6
  MinDedup = 2
INVARIANTS CheckpointsWhole OutcomeHonest
PROPERTY FindingsKept
