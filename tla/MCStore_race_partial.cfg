\* Two processes race for the same path.
CONSTANTS
  p1 = p1  p2 = p2  fetched = fetched  script = script  c1 = c1  c2 = c2  f1 = f1  f2 = f2
  Procs = {p1, p2}
  Paths = {fetched}
  InlinePaths = {}
  Contents = {c1, c2}
  Parts = {f1, f2}
  FilesOf <- MCFilesOf
  Requests <- MCSameRequests
  MaxMishaps = 0
  None = None
  Torn = Torn
SPECIFICATION Spec
INVARIANTS MarkedIsComplete
CHECK_DEADLOCK TRUE
