SPECIFICATION Spec
CONSTANTS
  u1 = u1  u2 = u2  e1 = e1  e2 = e2  e3 = e3
  NoRow = NoRow
  Users = {u1, u2}
  Emails = {e1, e2, e3}
  Email0 <- TwoUsers
  Existing = {e2}
  Aliased = {u1}
  MaxFaults = 1
  MaxTroubles = 2
  MaxRenames = 1
  MaxRuns = 3
INVARIANTS PasswordsExplained ActiveHaveAccounts SummaryCounts
PROPERTY SimulationIsHarmless
