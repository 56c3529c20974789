SPECIFICATION Spec
CONSTANTS
  top1 = top1
  a = a
  b = b
  sub = sub
  top2 = top2
  top3 = top3
  Session = {s1, s2}
  NoSession = NoSession
  Disk = {0, 1, 2}
  NoDisk = NoDisk
  Dir <- MCDir
  NoDir = NoDir
  DiskOf <- MCDiskOf
  Up <- MCUp
  NameOf <- MCNameOf
  Writable <- MCDir
  Paths <- MCPaths
  Fstab <- MCFstab
  MaxCalls = 3
  ReadOnly = {2}
  OldFormat = {0, 2}
  FaultAt = {"super", "boot", "block"}
  Allocated <- MCAllocated
  MaxStarts = 2
SYMMETRY Symmetry
INVARIANTS
  MountViews
  Rooted
  LinkedSaved
  UnsavedMarked
PROPERTIES
  Saved
CHECK_DEADLOCK FALSE
