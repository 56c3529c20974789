SPECIFICATION Spec
CONSTANTS
  Thread = {t1, t2}
  NoThread = NoThread
  MaxFree = 2
  Start = 1
  Volume = 5
  Word = 8
  Payload <- MCPayload
  Format <- MCFormat
  FaultAt = {"zero", "spill"}
SYMMETRY Symmetry
INVARIANTS
  TypeOK
  ListWellFormed
  TotalExact
  Partition
PROPERTIES
  ChangeMarked
  SpaceSpec
