SPECIFICATION Spec
CONSTANTS
  Calls = {c1, c2}
  Clients = {k1, k2}
  Nobody = Nobody
  MaxGrants = 3
  MaxCalls = 3
INVARIANT AccountUsable
PROPERTY NoLostUpdate
CHECK_DEADLOCK FALSE
