SPECIFICATION Spec
CONSTANTS
  Feed <- FreeThrows
  Writers = {w1, w2}
  Readers = {r1}
  GameAtStart <- Tipoff
  MaxResults = 3
  NoWriter = NoWriter
  NoShot = NoShot
INVARIANT GameShowsLastPlay
