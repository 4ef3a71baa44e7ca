SPECIFICATION FairSpec
CONSTANTS
  Workers = {w1}
  Admins = {}
  Probes = {p1, p2}
  None = None
  MaxRetries = 2
PROPERTY SelfHealing
