SPECIFICATION CommandSpec
CONSTANTS
  MaxSignals = 3
  Servers <- TwoServers
  Tools <- Published
  Allowed <- Limits
  Reserved = {"file_read"}
  Lines = 2
INVARIANTS LateSignalHarmless CommandHonest
PROPERTY CommandEnds
CHECK_DEADLOCK FALSE
