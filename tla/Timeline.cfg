SPECIFICATION Spec
CHECK_DEADLOCK FALSE
CONSTANTS
  Instances = {1, 2}
  Movers = {1}
  Group = Group
  Other = Other
  Duration = 4
  Interval = 2
  DeadInstance = 8
  Lifespan = 2
  PastTimes <- MCPastTimes
  MaxTime = 2
  Unknown = Unknown
INVARIANTS TimelineTypeOK NewestCountIsExact CountsAreOfTheirTime
