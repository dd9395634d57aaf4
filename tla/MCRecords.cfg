CONSTANTS
  MaxChanges = 2
  StoreEvery = 2
  CutShort = {"store", "serialize", "copy", "copying", "commit", "replace", "pool"}
  Failing = {"serialize", "copying", "replace"}
SPECIFICATION AllSpec
CHECK_DEADLOCK FALSE
INVARIANTS
  FilesOfLastStore WholeUnlessTainted
  CoinsKept PurgeUndoesAdd
  PathsAgree
  WhiteGrayDisjoint
  
  ScanIsExact SpentIsSeen BatchesMatch
