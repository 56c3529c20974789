SPECIFICATION IoSpec
CONSTANTS
  NDirect = 2
  BlkSize = 2
  Per = 2
  Start = 1
  Volume = 9
  Word = 64
  f1 = f1
  f2 = f2
  File <- MCFiles
  Sizes = {}
  Bad = {0, 2}
  MaxCalls = 4
  Handle = {h1, h2}
  ModeStrings <- MCModes
  ReadSizes <- MCReadSizes
  WriteSizes <- MCWriteSizes
  Offsets <- MCOffsets
  OldSizes <- MCOldSizes
INVARIANTS
  DirtyInFile
  MapIntact
PROPERTIES
  ByteFileSpec
  OtherFiles
CHECK_DEADLOCK FALSE
