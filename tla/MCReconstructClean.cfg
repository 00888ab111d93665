\* One command after the other, checkouts in place and clean --remove; nothing fails.
CONSTANTS
  dirty = dirty
  bad = bad
  clean = clean
  Main = Main
  Detached = Detached
  None = None
  Runs = {dirty, clean}
  Patched = {dirty}
  Broken = {}
  Cmds = {c1, c2}
  Requests <- InPlaceThenClean
  Overlap = FALSE
  Faulty = FALSE
SPECIFICATION Spec
PROPERTIES
  CleanRemoves
CHECK_DEADLOCK FALSE
