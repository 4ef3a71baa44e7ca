SPECIFICATION Spec
CONSTANTS
  Workers = {w1, w2}
  Admins = {a1, a2}
  Probes = {p1, p2}
  None = None
  MaxRetries = 2
INVARIANTS AtMostOneMonitor PauseIsShown
PROPERTY ManualPauseKept
