\* One command at a time, pushes between commands, crashes, failed requests and failed writes.
CONSTANTS
  r1 = r1  r2 = r2  z = z
  Local = Local  Unknown = Unknown  None = None  Torn = Torn
  Procs = {p1}
  Names = {s1, s2}
  Repos = {r1, r2}
  Zips = {z}
  ZipOf <- MCZipOf
  MaxHead = 2
  Faults = {"crash", "net", "disk", "torn"}
  MaxMishaps = 2
SPECIFICATION FairSpec
INVARIANTS OwnRepository CommitNamesTree
PROPERTIES KeptUntilFetched UpdateTakesHold

CHECK_DEADLOCK TRUE
