\* Any number of crashes and retries, one process per path.
CONSTANTS
  p1 = p1  p2 = p2  fetched = fetched  script = script  c1 = c1  c2 = c2  f1 = f1  f2 = f2
  Procs = {p1, p2}
  Paths = {fetched, script}
  InlinePaths = {script}
  Contents = {c1, c2}
  Parts = {f1, f2}
  FilesOf <- MCFilesOf
  Requests <- MCRequests
  MaxMishaps = 2
  None = None
  Torn = Torn
SPECIFICATION FairSerialSpec
INVARIANTS MarkedIsComplete
PROPERTIES SuccessIsComplete ImplementsContentStore RetrySucceeds
CHECK_DEADLOCK TRUE
