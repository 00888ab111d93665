\* Two commands at once, of any kind; any may be killed or fail.
CONSTANTS
  dirty = dirty
  bad = bad
  clean = clean
  Main = Main
  Detached = Detached
  None = None
  Runs = {dirty, bad, clean}
  Patched = {dirty, bad}
  Broken = {bad}
  Cmds = {c1, c2}
  Requests <- Typed
  Overlap = TRUE
  Faulty = TRUE
SPECIFICATION Spec
INVARIANTS
  TypeOK
  NothingLeft
PROPERTIES
  Restored
  OnlyOwn
  WorkKept
CHECK_DEADLOCK FALSE
