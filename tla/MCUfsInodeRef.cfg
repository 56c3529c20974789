SPECIFICATION Spec
CONSTANTS
  Task = {t1, t2}
  root = root
  home = home
  file = file
  mnt = mnt
  disk2 = disk2
  data = data
  empty = empty
  Node <- MCNode
  NoNode = NoNode
  Dir <- MCDir
  Root = root
  Parent <- MCParent
  MountedOn <- MCMountedOn
  Calls <- OrderlyCalls
  Word = 16
  FaultAt = {"handle", "get", "entry"}
SYMMETRY Symmetry
INVARIANTS
  TypeOK
  HeldCached
  FileCounted
