\* Two processes apply at once, nothing fails.
CONSTANTS
  d1 = d1  d2 = d2  exe = exe  a1 = a1  a2 = a2  t1 = t1  A = A  B = B  user = user
  h1 = h1  h2 = h2  h3 = h3  None = None  Torn = Torn
  Procs = {p1, p2}
  Blueprints <- MCShimmers
  Hashes = {h1, h2, h3}
  Derivs = {d1, d2}
  KuliExe = exe
  Aliases = {a1, a2}
  Targets = {t1}
  Contents = {A, B, user}
  UserFile <- MCNoFile
  Faults = {}
  MaxMishaps = 0
  MaxGen = 2
SPECIFICATION Spec
PROPERTIES AppendOnly
CHECK_DEADLOCK TRUE
