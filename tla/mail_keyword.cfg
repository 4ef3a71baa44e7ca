SPECIFICATION Spec
CONSTANTS
  f1 = f1  f2 = f2
  m1 = m1  m2 = m2  m3 = m3  m4 = m4  mx = mx
  Folders = {f1}
  Messages = {m1, m2, mx}
  Box0 <- TwoInOne
  Oversize = {}
  Limit = 2
  Clients = {FALSE}
  MaxRetries = 2
  MaxRequests = 1
  MaxMishaps = 0
INVARIANT CleanRunDelivers
