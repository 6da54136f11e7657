\* Three items; two item classes and an invalid one, two run classes and an
\* invalid one, a valid and a missing input mode.
CONSTANTS
  Item = {i1, i2, i3}
  ItemClasses = {"provider", "budget", ""}
  RunClasses = {"cancelled", "internal", ""}
  Modes = {"range", "unset"}
SPECIFICATION Spec
INVARIANTS ManifestIsSnapshot CompleteMeansCovered CanAlwaysClose
PROPERTY ImplementsLedger
