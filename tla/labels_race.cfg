SPECIFICATION Spec
CONSTANTS
  fi = fi  fs = fs  fa = fa  fb = fb
  Agents = {x, y}
  Folders = {fi, fs, fa, fb}
  Name <- FourFolders
  System <- SystemLabels
  IdsFit = TRUE
  None = None
  MaxTroubles = 0
  MaxRuns = 2
PROPERTY GoodLabelKept
