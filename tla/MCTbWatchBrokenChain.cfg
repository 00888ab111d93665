\* Two runs that start while the dashboard is open; the chain of one cannot be walked.
CONSTANTS
  a = a
  b = b
  Runs = {a, b}
  Local = {}
  Later = {a, b}
  Resumable = {}
  Selected = {a, b}
  Attempts <- Alone
  Broken = {b}
  Elsewhere = {}
  Unlinkable = {}
  Servers = "reliable"
  Modes <- OnlyFollow
SPECIFICATION FairSpec
PROPERTIES
  Appears
CHECK_DEADLOCK FALSE
