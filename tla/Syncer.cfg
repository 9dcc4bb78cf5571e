SPECIFICATION FairSyncerSpec
CONSTANTS
  a = a
  b = b
  NULL = NULL
  Instances = {a, b}
  Syncers = {a, b}
  Versions = {1, 2, 3}
  Policies <- OneAtATime
  ChannelConfigs <- Releases
  FlatcarApp = TRUE
  DisableUpdatesOnFailedRollout = FALSE
  Period = 1
  Timeout = 0
  Recent = 0
  Validity = 2
  MaxAge = 2
  NoLimit = 9
  Limit = 1
  Base = 1
  MaxFloors = 2
  ForeignSets <- NoForeign
PROPERTIES
  MirrorCatchesUp
