SPECIFICATION Spec
CONSTANTS
  Clients = {c1}
  Forms = {f1}
  Orgs = {o1, o2}
  None = None
  Garbled = Garbled
  MaxVaults = 2
  TTL = 2
  Life = 4
  Margin = 3
  PostTime = 1
  Timeout = 1
  Backoff = 1
  MaxRetries = 3
  MaxClock = 5
INVARIANT ZeroedOnTime
PROPERTY KeepsItsOrg
