SPECIFICATION Spec
CONSTANTS
  DelegateIds = {1}
  Address <- MCAddress
  Coins = {"k1"}
  Amount <- MCAmount
  NumDelegates = 1
  MaxVote = 15
  RegistrationStart = 1
  DposSwitch = 2
  Fees = {0, 6}
  MaxHeight = 4
  MaxTxs = 1
  MaxInputs = 1
  MaxSlots = 0
INVARIANT
  FeesOfChain
