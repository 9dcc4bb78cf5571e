SPECIFICATION Spec
CONSTANTS
  a = a
  b = b
  c = c
  NULL = NULL
  Instances = {a, b, c}
  Syncers = {}
  Versions = {1, 2}
  Policies <- LimitPolicies
  ChannelConfigs <- LimitChannels
  FlatcarApp = FALSE
  DisableUpdatesOnFailedRollout = FALSE
  Period = 1
  Timeout = 1
  Recent = 1
  Validity = 2
  MaxAge = 2
  NoLimit = 9
  Limit = 2
INVARIANTS
  ParallelUpdatesBounded GrantsPerPeriodBounded RolloutFlagCoversInFlight
PROPERTIES
  LeaseSpec
SYMMETRY Machines
