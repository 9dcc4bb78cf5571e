SPECIFICATION Spec
CONSTANTS
  a = a
  b = b
  c = c
  NULL = NULL
  Instances = {a, b}
  Syncers = {b}
  Versions = {1, 2, 3}
  Policies <- AdminPolicies
  ChannelConfigs <- AdminChannels
  FlatcarApp = TRUE
  DisableUpdatesOnFailedRollout = TRUE
  Period = 1
  Timeout = 0
  Recent = 0
  Validity = 1
  MaxAge = 1
  NoLimit = 9
  Limit = 2
INVARIANTS
  TypeOK InProgressMatchesStatus
PROPERTIES
  GrantsStepByFloors SafeModeFirstAlone
