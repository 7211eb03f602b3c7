SPECIFICATION FairSpec
CONSTANTS
  Games = {g1, g2, g3}
  Tokens = {t1, t2, t3}
  Requests = {r1}
  TickSettings = {55}
  EventCount <- NoEvents
  MaxApiFaults = 0
  MaxWorkerFaults = 0
  NoToken = NoToken
  NoCommand = NoCommand
PROPERTY
  QueuedIsConsumed
