\* One command at a time, of the profile or of the registry, with crashes and failing writes.
CONSTANTS
  d1 = d1  aFind = aFind  aTool = aTool  find = find  grep = grep  h1 = h1  h2 = h2  h3 = h3
  None = None  Torn = Torn  KuliExe = KuliExe
  Procs = {p1}
  Blueprints <- MCBlueprints
  Hashes = {h1, h2, h3}
  Derivs = {d1}
  Aliases = {aFind, aTool}
  Targets = {}
  Contents = {}
  UserFile <- MCUserFile
  Scriptures = {find, grep}
  BasenamesOf <- MCBasenamesOf
  Faults = {"crash", "realize", "disk", "flush"}
  MaxMishaps = 1
  MaxGen = 3
SPECIFICATION KuliFairSpec
INVARIANTS BasenamesResolve
PROPERTIES RegistryAdditive RegistryTakesHold
CHECK_DEADLOCK TRUE
