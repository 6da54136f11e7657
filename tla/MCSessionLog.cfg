\* Two files, one of which differs between the two inputs the refs may name.
CONSTANTS
  File = {"a", "b"}
  Inputs = {1, 2}
  Changed = {"a"}
  MaxRuns <- MCMaxRuns
  MaxNoise <- MCMaxNoise
SPECIFICATION Spec
INVARIANTS ReuseSound OneInput LogHolds
CHECK_DEADLOCK FALSE
