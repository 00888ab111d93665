\* A run that may be resumed and one nested in it; any git command or request may fail.
CONSTANTS
  outer = outer
  inner = inner
  None = None
  x = x
  y = y
  z = z
  Runs = {outer, inner}
  Parent <- Nested
  Resumable = {outer}
  Trees = {x, y, z}
  Huge = {z}
  MaxCommits = 2
  Faulty = TRUE
SPECIFICATION Spec
SYMMETRY SmallTrees
INVARIANTS
  TypeOK
  Reproducible
  ReferenceHolds
  IdenticalMeansSame
CHECK_DEADLOCK FALSE
