SPECIFICATION Spec
CONSTANTS
  Sockets = {s1, s2}
  Plays = 2
  MaxPublished = 2
  MaxBeats = 1
  NoSocket = NoSocket
  Nothing = Nothing
CHECK_DEADLOCK FALSE
SYMMETRY Symmetry
INVARIANTS
  TypeOK
  SubscribersAreLive
  TrackedIsHighestSent
  OnlyTheWindowIsLost
