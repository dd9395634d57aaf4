SPECIFICATION Spec
CONSTANTS
  DelegateIds = {1, 2, 3}
  Address <- MCAddress
  Coins = {"k1", "k2"}
  Amount <- MCAmount
  NumDelegates = 2
  MaxVote = 3
  RegistrationStart = 1
  DposSwitch = 2
  Fees = {1}
  MaxHeight = 4
  MaxTxs = 2
  MaxInputs = 4
  MaxSlots = 1
INVARIANTS
  DelegatesTypeOK
  VotesTally
  PurgeNeverFails
  UndoExact
  StatsOfChain
  SlotsRotate
