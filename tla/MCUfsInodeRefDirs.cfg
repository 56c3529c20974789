SPECIFICATION Spec
CONSTANTS
  Task = {t1}
  root = root
  home = home
  file = file
  mnt = mnt
  disk2 = disk2
  data = data
  empty = empty
  Node <- MCNode
  NoNode = NoNode
  Dir <- MCDir
  Root = root
  Parent <- MCParent
  MountedOn <- MCMountedOn
  Calls <- AllCalls
  Word = 3
  FaultAt = {"access", "get", "handle", "buffer", "entry"}
INVARIANT LinkedDirHeld
