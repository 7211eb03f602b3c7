SPECIFICATION Spec
CONSTANTS
  Feed <- CorrectedFeed
  Writers = {w1, w2}
  Readers = {r1}
  GameAtStart <- Tipoff
  MaxResults = 2
  NoWriter = NoWriter
  NoShot = NoShot
SYMMETRY Symmetry
INVARIANTS
  TypeOK
  UniqueRows
  CorrectionsFollow
  ResumeIsComplete
  GameIsAtLatestPlay
  SnapshotIsCovered
  PublishedOnce
PROPERTY AppendOnly
