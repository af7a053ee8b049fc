\* One command at a time, crashes, failed writes and lost links.
CONSTANTS
  h = h
  None = None  Torn = Torn
  Procs = {p1}
  Nodes = {h, n1}
  Here = h
  Aliases = {a1, a2}
  Can = {gpu}
  Keys = {k1, k2}
  MaxClock = 2
  Faults = {"crash", "disk", "torn", "link"}
  MaxMishaps = 1
SPECIFICATION SerialSpec
INVARIANTS SignedByIdentity RunsOnce
PROPERTIES CacheMonotonic HostsAdditive
SYMMETRY Symmetry
CHECK_DEADLOCK TRUE
