SPECIFICATION Spec
CONSTANTS
  Thread = {t1, t2}
  PerBlock = 2
  Sectors = 3
  MaxFree = 2
  Word = 8
  Formatted = {1, 2}
  FaultAt = {"get", "file", "storage", "super", "writeback"}
SYMMETRY Symmetry
INVARIANTS
  TypeOK
  Exclusive
  SavedOrMarked
  TotalBacked
