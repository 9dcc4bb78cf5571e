SPECIFICATION SyncerSpec
CONSTANTS
  a = a
  b = b
  NULL = NULL
  Instances = {a, b}
  Syncers = {a, b}
  Versions = {1, 2, 3, 4}
  Policies <- OneAtATime
  ChannelConfigs <- FirstIsFloor
  FlatcarApp = TRUE
  DisableUpdatesOnFailedRollout = FALSE
  Period = 1
  Timeout = 0
  Recent = 0
  Validity = 1
  MaxAge = 1
  NoLimit = 9
  Limit = 1
  Base = 1
  MaxFloors = 2
  ForeignSets <- Foreigns
INVARIANTS
  FloorsReachMirror
