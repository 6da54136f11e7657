SPECIFICATION ConfigSpec
CONSTANTS
  None = None
  Blank = Blank
  p = p
  b = b
  g = g
  x = x
  m1 = m1
  m2 = m2
  Presets = {p, b, g}
  Ambient = {b}
  External = {g}
  Keyed = {p}
  Registry <- RegistryOf
  Customs = {x}
  Dotted = {x}
  Models = {m1, m2}
  Starts <- StartFiles
  NamesTyped = {x}
  MaxEdits = 2
  MaxFaults = 1
  Environments <- SomeEnvironments
  Runs <- SomeRuns
INVARIANTS FileSound ResolvedAsChosen
PROPERTY SessionKept
CHECK_DEADLOCK FALSE
