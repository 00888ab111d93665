\* One run on this host whose link can be made, one created later elsewhere whose link cannot; the first resumed at will.
CONSTANTS
  a = a
  b = b
  Runs = {a, b}
  Local = {a}
  Later = {b}
  Resumable = {a}
  Selected = {a, b}
  Attempts <- Alone
  Broken = {}
  Elsewhere = {a}
  Unlinkable = {b}
  Servers = "faulty"
  Modes <- AllModes
SPECIFICATION Spec
PROPERTIES
  KeepsPromise
CHECK_DEADLOCK FALSE
