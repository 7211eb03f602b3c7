SPECIFICATION Spec
CONSTANTS
  Plays = 2
  MaxCommands = 1
  MaxDrops = 2
  FixturePlays = 1
  MaxReconnectAttempts = 1
  Shots = {2}
  MaxIosReconnectAttempts = 1
  MaxAppearances = 2
  Kinds = {"web", "ios"}
  MaxRuns = 1
CONSTRAINT OneRunAtATime
INVARIANTS
  TypeOK
  WebHolesAreKnown ReplayingIsKnown PollsOrListens
  IosHolesAreKnown QualityIsOfSelection LoadingIsUnderWay
CHECK_DEADLOCK FALSE
