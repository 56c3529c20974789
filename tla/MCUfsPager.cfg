SPECIFICATION FairSpec
CONSTANTS
  Block = {b1, b2, b3}
  NoBlock = NoBlock
  Value = {Blank, v1}
  Blank = Blank
  NoReply = NoReply
  MaxPages = 2
  Word = 4
  MaxDeferred = 2
  FaultAt = {"read", "write", "page"}
  Crashes = TRUE
INVARIANTS
  TypeOK
  OneCopy
  DeferredMarked
PROPERTIES
  FlushComplete
  DeviceSpec
  PagerReturns
