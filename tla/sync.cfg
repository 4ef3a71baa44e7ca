SPECIFICATION FairSpec
CONSTANTS
  u1 = u1  u2 = u2
  i1 = i1  i2 = i2
  Users = {u1, u2}
  Items = {i1, i2}
  Owner <- TwoAndNone
  MaxRetries = 2
  MaxRequests = 2
  MaxFaults = 1
  MaxRuns = 2
INVARIANTS CopiesExplained SummaryIsTrue
PROPERTIES ImplementsLedger DryRunWritesNothing CancelEndsRun RunEnds
