SPECIFICATION FairSpec
CONSTANTS
  f1 = f1  f2 = f2
  m1 = m1  m2 = m2  m3 = m3  m4 = m4  mx = mx
  Folders = {f1}
  Messages = {m1, m2, m3, m4}
  Box0 <- ThreeInOne
  Oversize = {m2}
  Limit = 2
  Clients = {TRUE, FALSE}
  MaxRetries = 2
  MaxRequests = 1
  MaxMishaps = 0
INVARIANTS TypeOK CleanRunSyncsAll
PROPERTIES DryRunWritesNothing CancelEndsRun
