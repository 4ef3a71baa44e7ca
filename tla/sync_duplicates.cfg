SPECIFICATION FairSpec
CONSTANTS
  u1 = u1  u2 = u2
  i1 = i1  i2 = i2
  Users = {u1, u2}
  Items = {i1, i2}
  Owner <- OneEach
  MaxRetries = 2
  MaxRequests = 1
  MaxFaults = 0
  MaxRuns = 2
INVARIANT NoDuplicates
