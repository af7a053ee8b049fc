\* One process at a time, with crashes and failing writes; what follows the last one succeeds.
CONSTANTS
  d1 = d1  d2 = d2  exe = exe  a1 = a1  a2 = a2  t1 = t1  A = A  B = B  user = user
  h1 = h1  h2 = h2  h3 = h3  None = None  Torn = Torn
  Procs = {p1}
  Blueprints <- MCBlueprints
  Hashes = {h1, h2, h3}
  Derivs = {d1, d2}
  KuliExe = exe
  Aliases = {a1, a2}
  Targets = {t1}
  Contents = {A, B, user}
  UserFile <- MCUserFile
  Faults = {"crash", "realize", "disk", "copy"}
  MaxMishaps = 1
  MaxGen = 3
SPECIFICATION FairSerialSpec
INVARIANTS ParentsOlder ShimsResolve ProfileShowsCurrent
PROPERTIES ActivationProjects ImplementsGenerationLog ApplySucceeds RollbackMovesBack
CHECK_DEADLOCK TRUE
