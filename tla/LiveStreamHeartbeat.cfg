SPECIFICATION Spec
CONSTANTS
  Sockets = {s1}
  Plays = 2
  MaxPublished = 2
  MaxBeats = 1
  NoSocket = NoSocket
  Nothing = Nothing
CHECK_DEADLOCK FALSE
INVARIANT HeartbeatKeepsResumePoint
