CONSTANTS
  Peers = {"p", "q"}
  Difficulty <- MCSame
  MaxHeight = 2
  Chunk = 2
  IdsCount = 4
  DoBoulderhash = TRUE
  MaxAsks = 0
  MaxMoves = 1
SPECIFICATION FairSpec
INVARIANT NoOrphansInSync
PROPERTIES SynchronizedMeansHave EventuallySynchronized
