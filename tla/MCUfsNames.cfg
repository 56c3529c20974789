SPECIFICATION NamesSpec
CONSTANTS
  s1 = s1
  s2 = s2
  u1 = u1
  nobody = nobody
  Session = {s1, s2}
  User = {u1, nobody}
  NoUser = nobody
  UserOf <- MCUserOf
  GroupsOf <- MCGroupsOf
  GroupOf <- MCGroupOf
  Perms <- MCPerms
  Disk = {1, 2}
  RootDisk = 1
  LastInode <- MCLastInode
  Mounts <- MCMounts
  ReadOnly = {}
  PerBlock = 3
  NameMax = 4
  Plain = {"a", "b", "m"}
  Renamed = {"a", "b"}
  Paths <- MCPaths
  Ops = {"create", "mkdir", "rmdir", "remove", "chgdir", "rename", "link"}
  Formatted <- MCFormatted
  FreeBlocks = 2
  MaxCalls = 4
INVARIANTS
  NamesTypeOK
  LinksCounted
  ParentRight
PROPERTIES
  NameTreeSpec
  WriteAllowed
CHECK_DEADLOCK FALSE
