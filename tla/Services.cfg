SPECIFICATION Spec
CONSTANTS
  GeneralLimit = 2
  ShotQualityLimit = 1
  Calls = {c1, c2}
  MaxArrivals = 3
  MaxWindow = 2
  Games = {g1, g2}
  Requests = {r1, r2}
  MaxReplayTasks = 4
  PageSize = 2
  MaxAttempts = 2
  FloatExponent = 2
  Events = 4
  MaxFaults = 6
INVARIANTS TypeOK OneReplayPerGame LimitIsKept RunAgreesWithHealth
PROPERTIES NothingIsSkipped SourceIsFollowed
CHECK_DEADLOCK FALSE
