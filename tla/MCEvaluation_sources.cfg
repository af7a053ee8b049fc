\* Blueprints with and without pcall.
CONSTANTS
  main = main  a = a  b = b  f1 = f1  k1 = k1  c1 = c1  c2 = c2  None = None
  Names = {main, a, b}
  Main = main
  Derivs = {f1, k1, c1, c2}
  DepsOf <- MCDepsOf
  Programs <- MCSources
SPECIFICATION FairSpec
INVARIANTS GraphSound InProgressIsStack VerdictExplains
PROPERTIES EvaluatedOnce EvaluationEnds
\* An evaluation ends with its verdict.
CHECK_DEADLOCK FALSE
