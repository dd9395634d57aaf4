SPECIFICATION FairSpec
CONSTANTS
  Txs <- MCTxs
  KeyImages <- MCKeyImages
  Images <- MCImages
  Genesis = "G"
  Blocks <- MCBlocks
  Prev <- MCPrev
  Height <- MCHeight
  Difficulty <- MCDifficulty
  TxHashes <- MCTxHashes
  PosBlocks = {"A3", "B3", "B4", "W4"}
  BadTimestamp = {}
  BadProof = {"W4"}
  BadReward = {}
  Source <- MCSource
  Offset <- MCOffset
  UnlockWindow = 1
  DposSwitch = 3
  Checkpoints <- MCCheckpoints
  LowFee = {}
  Bare = {}
  Early = {}
  Late = {}
INVARIANT
  NoReorgPastCheckpoint
PROPERTIES
  CheckpointWins
