SPECIFICATION Spec
CONSTANTS
  Txs <- MCTxs
  KeyImages <- MCKeyImages
  Images <- MCImages
  Genesis = "G"
  Blocks <- MCBlocks
  Prev <- MCPrev
  Height <- MCHeight
  Difficulty <- MCDifficulty
  TxHashes <- MCTxHashes
  PosBlocks = {}
  BadTimestamp = {"T2"}
  BadProof = {}
  BadReward = {"D2"}
  Source <- MCSource
  Offset <- MCOffset
  UnlockWindow = 1
  DposSwitch = 10
  Checkpoints <- NoCheckpoints
  LowFee = {"t3"}
  Bare = {"A2", "C2"}
  Early = {"B3"}
  Late = {"B2"}
INVARIANTS
  TypeOK
  NoDoubleSpend
  TransactionsOfChain
  MainChainLinked
  OutputsOfChain
  MainAlternativeDisjoint
  PopNeverFails
  RollbackNeverFails
  NoNestedSwitch
PROPERTIES
  UnlessAddedChainUnchanged
  AddedMeansHeavier
  TxsNeverLost
  ImplementsLedger
