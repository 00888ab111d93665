\* One run, resumed at will; a server that fails until it recovers.
CONSTANTS
  a = a
  b = b
  Runs = {a}
  Local = {a}
  Later = {}
  Resumable = {a}
  Selected = {a}
  Attempts <- Alone
  Broken = {}
  Elsewhere = {}
  Unlinkable = {}
  Servers = "recover"
  Modes <- AllModes
SPECIFICATION FairSpec
INVARIANTS
  TypeOK
  BooksAgree
  ChecksCover
  LiveWatched
  FinalEventsDue
  RefreshReportedOnce
  GoneStaysGone
PROPERTIES
  Appears
  DeletedLeaves
  Settles
CHECK_DEADLOCK FALSE
