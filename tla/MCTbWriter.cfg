\* Two streams of two shards; a server that fails until it recovers, a disk that fails at will.
CONSTANTS
  MaxShard = 1
  MaxEvents = 2
  Limit = 0
  Servers = "recover"
  DiskFails = TRUE
SPECIFICATION FairSpec
INVARIANTS
  TypeOK
  NothingLost
  RecordHonest
  SyncSurvives
PROPERTIES
  Mirrors
  Synced
  ExitEnds
CHECK_DEADLOCK FALSE
