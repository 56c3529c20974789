SPECIFICATION MapSpec
CONSTANTS
  NDirect = 1
  BlkSize = 2
  Per = 2
  Start = 1
  Volume = 25
  Word = 64
  File = {f1, f2}
  Sizes = {0, 1, 3, 6, 7, 10, 14, 15, 23}
  Bad = {0, 2, 5}
  MaxCalls = 3
INVARIANTS
  MapTypeOK
  BlocksDisjoint
  WalkAgrees
  SavedSame
PROPERTY LostByFailure
CHECK_DEADLOCK FALSE
