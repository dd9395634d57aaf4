SPECIFICATION Spec
CONSTANTS
  DelegateIds = {1, 5, 11, 14}
  Address <- MCAddress
  Coins = {"k1"}
  Amount <- MCAmount
  NumDelegates = 4
  MaxVote = 15
  RegistrationStart = 1
  DposSwitch = 2
  Fees = {0}
  MaxHeight = 2
  MaxTxs = 4
  MaxInputs = 4
  MaxSlots = 0
INVARIANT
  FivePlacesOnOfFour
