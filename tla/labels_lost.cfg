SPECIFICATION Spec
CONSTANTS
  fi = fi  fs = fs  fa = fa  fb = fb
  Agents = {x}
  Folders = {fi, fs, fa, fb}
  Name <- FourFolders
  System <- SystemLabels
  IdsFit = FALSE
  None = None
  MaxTroubles = 0
  MaxRuns = 1
INVARIANT FoldersKeepTheirLabel
