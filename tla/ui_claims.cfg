SPECIFICATION Spec
CONSTANTS
  h1 = h1  h2 = h2  o1 = o1  o2 = o2
  Handlers = {h1}
  Orgs = {o1, o2}
  None = None
  Skips <- AnySkip
  ResetsInRun = FALSE
  MaxRuns = 1
  MaxSessions = 2
INVARIANTS ControlHeard SkippingIsHarmless RunsMatchOrg
