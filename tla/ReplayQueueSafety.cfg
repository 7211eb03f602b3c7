SPECIFICATION Spec
CONSTANTS
  Games = {g1, g2}
  Tokens = {t1, t2, t3}
  Requests = {r1, r2}
  TickSettings = {55, 1500}
  EventCount <- OneEventEach
  MaxApiFaults = 1
  MaxWorkerFaults = 1
  NoToken = NoToken
  NoCommand = NoCommand
SYMMETRY Symmetry
INVARIANTS
  TypeOK
  OnePending
  NoDuplicateCommand
  ExclusiveReplay
  HeldLockHasOwner
PROPERTY
  ImplementsJobs
