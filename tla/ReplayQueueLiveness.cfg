SPECIFICATION FairSpec
CONSTANTS
  Games = {g1, g2}
  Tokens = {t1, t2}
  Requests = {r1}
  TickSettings = {55, 1500}
  EventCount <- NoEvents
  MaxApiFaults = 1
  MaxWorkerFaults = 2
  NoToken = NoToken
  NoCommand = NoCommand
PROPERTIES
  ClaimedIsResolved
  DrainsWhenQuiet
