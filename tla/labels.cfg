SPECIFICATION Spec
CONSTANTS
  fi = fi  fs = fs  fa = fa  fb = fb
  Agents = {x, y}
  Folders = {fi, fs, fa, fb}
  Name <- FourFolders
  System <- SystemLabels
  IdsFit = FALSE
  None = None
  MaxTroubles = 1
  MaxRuns = 2
INVARIANTS InboxExplained
PROPERTY MappingIsFinal
