SPECIFICATION FairUpdaterSpec
CONSTANTS
  a = a
  b = b
  NULL = NULL
  Lossy = TRUE
  Instances = {a, b}
  Syncers = {}
  Versions = {1, 2, 3}
  Policies <- OneAtATime
  ChannelConfigs <- ByFloor
  FlatcarApp = FALSE
  DisableUpdatesOnFailedRollout = FALSE
  Period = 1
  Timeout = 1
  Recent = 0
  Validity = 2
  MaxAge = 2
  NoLimit = 9
  Limit = 1
INVARIANTS
  UpdaterTypeOK CountedWhileUpdating OfferIsGrant
PROPERTIES
  UpdatedOrAbandoned
