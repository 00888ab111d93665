\* One scalar file that grows and whose upload is caught on the way.
CONSTANTS
  None = None
  Light = {s}
  Media = {}
  Fetchers = {d}
  Rewritten = {}
  MaxLen = 2
  MaxVersion = 2
SPECIFICATION Spec
PROPERTIES
  KeepsBytes
CHECK_DEADLOCK FALSE
