SPECIFICATION Spec
CONSTANTS
  h1 = h1  h2 = h2  o1 = o1  o2 = o2
  Handlers = {h1, h2}
  Orgs = {o1}
  None = None
  Skips <- AnySkip
  ResetsInRun = FALSE
  MaxRuns = 2
  MaxSessions = 1
INVARIANT OneRunAtATime
