SPECIFICATION RaceSpec
CONSTANTS
  a = a
  b = b
  w1 = w1
  w2 = w2
  NULL = NULL
  Workers = {w1, w2}
  Crashes = TRUE
  Instances = {a, b}
  Syncers = {}
  Versions = {1, 2}
  Policies <- SafePolicy
  ChannelConfigs <- Target2
  FlatcarApp = FALSE
  DisableUpdatesOnFailedRollout = TRUE
  Period = 1
  Timeout = 1
  Recent = 0
  Validity = 1
  MaxAge = 2
  NoLimit = 9
  Limit = 1
INVARIANTS
  RaceTypeOK OvershootBounded PeriodOvershootBounded UpdatingIsBusy
SYMMETRY Symmetries
VIEW StateView
