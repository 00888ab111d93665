\* Nothing fails; both runs may be resumed.
CONSTANTS
  outer = outer
  inner = inner
  None = None
  x = x
  y = y
  z = z
  Runs = {outer, inner}
  Parent <- Nested
  Resumable = {outer, inner}
  Trees = {x, y, z}
  Huge = {z}
  MaxCommits = 2
  Faulty = FALSE
SPECIFICATION Spec
SYMMETRY SmallTrees
INVARIANTS
  ReferenceKept
CHECK_DEADLOCK FALSE
