SPECIFICATION Spec
CONSTANTS
  Txs <- MCTxs
  KeyImages <- MCKeyImages
  Images <- MCImages
  Genesis = "G"
  Blocks <- MCBlocks
  Prev <- MCPrev
  Height <- MCHeight
  Difficulty <- MCDifficulty
  TxHashes <- MCTxHashes
  PosBlocks = {}
  BadTimestamp = {}
  BadProof = {}
  BadReward = {"B2"}
  Source <- MCSource
  Offset <- MCOffset
  UnlockWindow = 1
  DposSwitch = 10
  Checkpoints <- NoCheckpoints
  LowFee = {}
  Bare = {}
  Early = {}
  Late = {"B1"}
INVARIANT
  StoredAfterProof
