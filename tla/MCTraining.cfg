\* Two runs that may nest, resumed and chained while nothing is logged to them; a worker thread.
SPECIFICATION TSpec
CONSTANTS
  Runs = {p, q}
  Named = {p, q, gone}
  MaxStarts = 2
  Models = {m, n}
  Batches <- MCBatches
  Name <- MCName
  Threads = {main, worker}
  Main = main
  MaxCalls = 1
  None = None
SYMMETRY Alike
CONSTRAINT Bounds
CHECK_DEADLOCK FALSE
INVARIANTS
  TTypeOK
  EndedAsLeft
  CauseTold
  Walked
  SessionHonest
  LandsInBlock
