SPECIFICATION FairSpec
CONSTANTS
  Workers = {w1}
  Admins = {a1, a2}
  Probes = {p1, p2}
  None = None
  MaxRetries = 2
INVARIANTS TypeOK EventMatchesState PauseHolds AtMostOneMonitor
PROPERTIES CancelIsFinal CancelStopsWorkers WatchedLossHeals
