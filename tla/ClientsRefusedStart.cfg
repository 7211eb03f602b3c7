SPECIFICATION Spec
CONSTANTS
  Plays = 2
  MaxCommands = 1
  MaxDrops = 2
  FixturePlays = 1
  MaxReconnectAttempts = 1
  Shots = {2}
  MaxIosReconnectAttempts = 1
  MaxAppearances = 2
  Kinds = {"web"}
INVARIANT RefusedStartKeepsTimeline
CHECK_DEADLOCK FALSE
