\* One dashboard, killed and started again; files that grow, are being replaced, or are written anew.
CONSTANTS
  None = None
  Light = {s}
  Media = {m}
  Fetchers = {d}
  Rewritten = {s}
  MaxLen = 2
  MaxVersion = 2
SPECIFICATION FairSpec
INVARIANTS
  TypeOK
  Genuine
PROPERTIES
  Served
  CaughtUp
CHECK_DEADLOCK FALSE
