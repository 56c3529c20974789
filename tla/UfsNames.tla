------------------------------ MODULE UfsNames ------------------------------
(***************************************************************************)
(* The names of files: the entries of directories (UFSDIRAD, UFSDIRRM,     *)
(* UFSDIRRP, UFSFILBN), making, deleting, linking and renaming a file      *)
(* (UFSFIALC, UFSFIDAL, UFSFILNK, UFSFIREN), the two ways a path is        *)
(* followed (UFS#LKUP, UFS#LMIN) and the calls of a session that use them  *)
(* (UFS#CRTE, UFS#MD, UFS#RD, UFS#REM, UFS#CD), with the check of access   *)
(* (UFSINACC).                                                             *)
(*                                                                         *)
(* A call follows its path in one step and changes the directory it found  *)
(* in a later one: nothing keeps the directory as it was in between.  The  *)
(* change itself is one step.  Disks are mounted where Mounts says.        *)
(* Every call of UFSDKGBF and UFSINGET succeeds, every block can be read   *)
(* and written; a disk may have no free inode or no free block.            *)
(*                                                                         *)
(* ufs_mkdir keeps the minode of its directory, ufs_create the number; the *)
(* model has a node for both.  A name is one character long.               *)
(***************************************************************************)
EXTENDS Integers, FiniteSets, SequencesExt

CONSTANTS
  Session,     \* UFS handles, each used by one task
  User,        \* users, the ACEE of a session
  NoUser,      \* a session without an ACEE
  UserOf,      \* the user of each session
  GroupsOf,    \* the groups a user is connected to
  GroupOf,     \* the group a user makes files in
  Perms,       \* what ufs_set_create_perm may set
  Disk,        \* mounted disks
  RootDisk,    \* sys->fsroot is its root directory
  LastInode,   \* the last inode of each disk
  Mounts,      \* directories with minode->mounted_vdisk, and the disk
  ReadOnly,    \* disks with disk->readonly
  PerBlock,    \* directory entries in a block
  NameMax,     \* UFS_NAME_MAX (59)
  Plain,       \* names that calls use
  Renamed,     \* those that files are given by renames and links
  Paths,       \* paths that calls use
  Ops,         \* calls that are made
  Formatted,   \* the inodes of the disks when they are mounted
  FreeBlocks,  \* free data blocks then
  MaxCalls     \* bound on the calls of a behaviour

RootInode == 2
Node      == UNION {{d} \X (RootInode .. LastInode[d]) : d \in Disk}
RootOf(d) == <<d, RootInode>>
Right     == {"r", "w", "x"}
Dots      == {".", ".."}
Name      == Plain \cup Dots \cup {""}
Rights    == [owner : SUBSET Right, group : SUBSET Right, world : SUBSET Right]

ASSUME NamesAssumption ==
  /\ IsFiniteSet(Disk) /\ RootDisk \in Disk /\ LastInode \in [Disk -> Nat]
  /\ UserOf \in [Session -> User \cup {NoUser}]
  /\ Perms \subseteq Rights /\ FreeBlocks \in Nat /\ MaxCalls \in Nat
  /\ PerBlock \in Nat \ {0} /\ NameMax \in Nat \ {0}
  /\ Renamed \subseteq Plain /\ Plain \cap (Dots \cup {""}) = {}
  /\ \A p \in Paths : p.abs \in BOOLEAN /\ p.names \in Seq(Plain \cup Dots)
  /\ DOMAIN Mounts \subseteq Node /\ \A n \in DOMAIN Mounts : Mounts[n] \in Disk

(* The disks are in order when they are mounted: a directory starts with   *)
(* "." and "..", is in the directory its ".." names and in no other, has   *)
(* no name twice, and the link counts are right.                           *)
Named(n) ==
  {p \in UNION {{<<d, k>> : k \in DOMAIN Formatted[d].ent} : d \in DOMAIN Formatted} :
     <<p[1][1], Formatted[p[1]].ent[p[2]].ino>> = n}

ASSUME FormatAssumption ==
  /\ DOMAIN Formatted \subseteq Node
  /\ \A d \in Disk : RootOf(d) \in DOMAIN Formatted /\ Formatted[RootOf(d)].kind = "dir"
  /\ \A n \in DOMAIN Formatted :
       LET f == Formatted[n]
           Child(k) == <<n[1], f.ent[k].ino>>
       IN  /\ f = [kind |-> f.kind, nlink |-> f.nlink, ent |-> f.ent,
                   owner |-> f.owner, group |-> f.group, mode |-> f.mode]
           /\ f.kind \in {"file", "dir"} /\ f.mode \in Rights
           /\ f.ent \in Seq([name : Name, ino : Nat])
           /\ f.nlink = Cardinality(Named(n))
           /\ \A k \in DOMAIN f.ent : Child(k) \in DOMAIN Formatted
           /\ f.kind = "file" => f.ent = << >>
           /\ f.kind = "dir" =>
                /\ Len(f.ent) >= 2 /\ f.ent[1] = [name |-> ".", ino |-> n[2]]
                /\ f.ent[2].name = ".." /\ Formatted[Child(2)].kind = "dir"
                /\ IF n[2] = RootInode THEN f.ent[2].ino = RootInode
                   ELSE \E k \in DOMAIN Formatted[Child(2)].ent :
                          k > 2 /\ Formatted[Child(2)].ent[k].ino = n[2]
                /\ \A j, k \in DOMAIN f.ent : f.ent[j].name = f.ent[k].name => j = k
                /\ \A k \in DOMAIN f.ent : k > 2 =>
                     /\ f.ent[k].name \notin Dots
                     /\ Formatted[Child(k)].kind = "dir" =>
                          /\ f.ent[k].ino # RootInode
                          /\ Formatted[Child(k)].ent[2].ino = n[2]
                          /\ \A j \in DOMAIN f.ent : j > 2 /\ Child(j) = Child(k) => j = k

VARIABLES
  inode,      \* kind, nlink, access rights and, of a directory, its entries
  room,       \* free data blocks of each disk
  cwd,        \* of each session: cur_dir, and the names of path
  call,       \* what each session is about to do, Idle for nothing
  calls,      \* number of calls
  (* auxiliary *)
  lost,       \* inodes of calls that failed after the inode was written
  outside     \* uses that break what NameTree promises

vars == <<inode, room, cwd, call, calls, lost, outside>>

Idle    == [op |-> "none"]
Entry(name, i) == [name |-> name, ino |-> i]
Free    == [kind |-> "free", nlink |-> 0, ent |-> << >>,
            owner |-> NoUser, group |-> "", mode |-> [owner |-> {}, group |-> {}, world |-> {}]]

NamesInit ==
  /\ inode = [n \in Node |-> IF n \in DOMAIN Formatted THEN Formatted[n] ELSE Free]
  /\ room = [d \in Disk |-> FreeBlocks]
  /\ cwd = [s \in Session |-> [cur_dir |-> RootOf(RootDisk), path |-> << >>]]
  /\ call = [s \in Session |-> Idle]
  /\ calls = 0
  /\ lost = {} /\ outside = {}

-----------------------------------------------------------------------------
(* Directories.  An operator that changes one takes and returns a record   *)
(* fs of the inodes, the free blocks, and the result of the call.          *)

IsDir(fs, n) == fs.inode[n].kind = "dir"

(* The first entry with the name, 0 if there is none. *)
Place(fs, d, name) == SelectInSeq(fs.inode[d].ent, LAMBDA e : e.name = name)

Has(fs, d, name) == Place(fs, d, name) # 0

(* ufs_file_lookup_by_name: an inode number is one of the same disk. *)
Target(fs, d, name) == <<d[1], fs.inode[d].ent[Place(fs, d, name)].ino>>

(* The blocks of n entries.  ufs_datablock_expand and _contract take and   *)
(* give back whole blocks.                                                 *)
Blocks(n) == (n + PerBlock - 1) \div PerBlock

Fails(fs, error) == [fs EXCEPT !.rc = error]

(* A directory of the entries given, for which there is a block.           *)
Resize(fs, d, ent) ==
  [fs EXCEPT !.inode[d].ent = ent,
             !.room[d[1]] = @ + Blocks(Len(fs.inode[d].ent)) - Blocks(Len(ent))]

Fits(fs, d, n) == Blocks(Len(fs.inode[d].ent) + n) - Blocks(Len(fs.inode[d].ent)) <= fs.room[d[1]]

(* Faulty variant: a directory that gets a subdirectory is not counted.    *)
AddEntryUncounted(fs, d, i, name) ==
  IF ~Fits(fs, d, 1) THEN Fails(fs, "ENOSPC")
  ELSE Resize(fs, d, Append(fs.inode[d].ent, Entry(name, i)))

(* ufs_directory_add_entry *)
AddEntry(fs, d, i, name) ==
  IF ~Fits(fs, d, 1) THEN Fails(fs, "ENOSPC")
  ELSE LET more == Resize(fs, d, Append(fs.inode[d].ent, Entry(name, i)))
       IN  IF IsDir(fs, <<d[1], i>>) THEN [more EXCEPT !.inode[d].nlink = @ + 1] ELSE more

(* ufs_directory_remove_entry: the last entry takes the place of the one   *)
(* that is removed.                                                        *)
RemoveEntry(fs, d, name) ==
  LET ent == fs.inode[d].ent IN
  IF ~Has(fs, d, name) THEN Fails(fs, "ENOENT")
  ELSE LET less == Resize(fs, d, Front([ent EXCEPT ![Place(fs, d, name)] = Last(ent)]))
       IN  IF IsDir(fs, Target(fs, d, name)) THEN [less EXCEPT !.inode[d].nlink = @ - 1] ELSE less

(* ufs_directory_replace_entry *)
ReplaceEntry(fs, d, name, i) ==
  IF ~Has(fs, d, name) THEN Fails(fs, "ENOENT")
  ELSE [fs EXCEPT !.inode[d].ent[Place(fs, d, name)].ino = i]

-----------------------------------------------------------------------------
(* Files *)

FreeInodes(fs, d) == {n \in Node : n[1] = d /\ fs.inode[n].kind = "free"}

(* The string a call gives to ufs_file_allocate is its path.               *)
(* ufs_dirent_filename cuts it after NameMax characters; what follows the  *)
(* last slash of the rest is the name of the new entry.                    *)
LinkName(path) ==
  LET off == IF path.abs THEN 0 ELSE 1
      cut == Min({2 * Len(path.names) - off, NameMax}) + off
  IN  IF cut % 2 = 0 THEN path.names[cut \div 2] ELSE ""

(* The name that is looked up first ends at the first slash: it is empty   *)
(* for a path from the root.                                               *)
Exists(fs, d, path) == ~path.abs /\ Has(fs, d, path.names[1])

NewInode(u, kind, perm) ==
  [kind |-> kind, nlink |-> IF kind = "dir" THEN 2 ELSE 1, ent |-> << >>,
   owner |-> u,
   group |-> IF u # NoUser THEN GroupOf[u] ELSE IF kind = "dir" THEN "ADMIN" ELSE "STGADMIN",
   mode |-> perm]

(* ufs_file_allocate.  A directory that gets no block gives its inode back; *)
(* an inode that gets no entry stays.                                      *)
Allocate(fs, d, path, u, kind, perm) ==
  IF Exists(fs, d, path) THEN Fails(fs, "EEXIST")
  ELSE IF FreeInodes(fs, d[1]) = {} THEN Fails(fs, "ENOSPC")
  ELSE LET n    == CHOOSE x \in FreeInodes(fs, d[1]) : \A y \in FreeInodes(fs, d[1]) : x[2] <= y[2]
           made == [fs EXCEPT !.inode[n] = NewInode(u, kind, perm)]
           full == Resize(made, n, <<Entry(".", n[2]), Entry("..", d[2])>>)
       IN  IF kind # "dir" THEN AddEntry(made, d, n[2], LinkName(path))
           ELSE IF ~Fits(made, n, 2) THEN Fails(fs, "ENOSPC")
           ELSE AddEntry(full, d, n[2], LinkName(path))

(* ufs_file_deallocate, of a name where no disk is mounted.  Neither the   *)
(* inode nor the blocks of a file are given back.                          *)
DeallocateFile(fs, d, name) ==
  IF ~Has(fs, d, name) THEN Fails(fs, "ENOENT")
  ELSE LET n     == Target(fs, d, name)
           empty == [Resize(fs, n, << >>) EXCEPT !.inode[n].nlink = 0]
       IN  IF ~IsDir(fs, n)
           THEN RemoveEntry([fs EXCEPT !.inode[n].nlink = Max({@ - 1, 0})], d, name)
           ELSE IF name \in Dots THEN Fails(fs, "EINVAL")
           ELSE IF Len(fs.inode[n].ent) \notin {0, 2} THEN Fails(fs, "ENOTEMPTY")
           ELSE RemoveEntry(empty, d, name)

(* can_dirmove: the parents of a directory, up to the root.  The walk does *)
(* not look at the directory it starts at, and does not end in a circle.   *)
CanDirmove(fs, from, start) ==
  LET last  == Cardinality(Node) + 1
      up[k \in 0 .. last] ==
        IF k = 0 THEN start
        ELSE IF up[k-1] = << >> \/ ~Has(fs, up[k-1], "..") THEN << >>
        ELSE Target(fs, up[k-1], "..")
      Stops(k) == up[k] \in {<< >>, from, RootOf(start[1])}
      first == CHOOSE k \in 1 .. last : (Stops(k) \/ k = last) /\ \A j \in 1 .. k - 1 : ~Stops(j)
  IN  CASE up[first] = << >> -> "ENOENT"
        [] up[first] = from  -> "EINVAL"
        [] up[first] = RootOf(start[1]) /\ from # RootOf(start[1]) -> "ok"
        [] OTHER -> "endless"

(* Faulty variants: ".." of a directory that moves is not replaced; the    *)
(* check of its parents is left out.                                       *)
RenameKeepsParent(fs, pf, from, pt, to) ==
  LET n     == Target(fs, pf, from)
      gone  == IF Has(fs, pt, to) THEN DeallocateFile(fs, pt, to) ELSE fs
      may   == IF IsDir(fs, n) THEN CanDirmove(gone, n, pt) ELSE "ok"
      both  == AddEntry(gone, pt, n[2], to)
  IN  IF gone.rc # "ok" THEN gone
      ELSE IF may # "ok" THEN Fails(gone, may)
      ELSE IF both.rc # "ok" THEN both
      ELSE RemoveEntry(both, pf, from)

RenameUnchecked(fs, pf, from, pt, to) ==
  LET n     == Target(fs, pf, from)
      gone  == IF Has(fs, pt, to) THEN DeallocateFile(fs, pt, to) ELSE fs
      both  == AddEntry(gone, pt, n[2], to)
      moved == RemoveEntry(both, pf, from)
  IN  IF gone.rc # "ok" THEN gone
      ELSE IF both.rc # "ok" THEN both
      ELSE IF IsDir(fs, n) /\ pf # pt THEN ReplaceEntry(moved, n, "..", pt[2])
      ELSE moved

(* ufs_file_rename: what has the new name is deleted first, and stays so   *)
(* when a later part fails.                                                *)
RenameFile(fs, pf, from, pt, to) ==
  LET n     == Target(fs, pf, from)
      gone  == IF Has(fs, pt, to) THEN DeallocateFile(fs, pt, to) ELSE fs
      may   == IF IsDir(fs, n) THEN CanDirmove(gone, n, pt) ELSE "ok"
      both  == AddEntry(gone, pt, n[2], to)
      moved == RemoveEntry(both, pf, from)
  IN  IF gone.rc # "ok" THEN gone
      ELSE IF may # "ok" THEN Fails(gone, may)
      ELSE IF both.rc # "ok" THEN both
      ELSE IF moved.rc # "ok" THEN moved
      ELSE IF IsDir(fs, n) /\ pf # pt THEN ReplaceEntry(moved, n, "..", pt[2])
      ELSE moved

-----------------------------------------------------------------------------
(* Access and paths *)

Now == [inode |-> inode, room |-> room, rc |-> "ok"]

(* ufs_inode_auth: the rights of the world, of the owner, of the group. *)
Auth(u, n, right) ==
  \/ right \in inode[n].mode.world
  \/ u # NoUser /\ inode[n].owner = u /\ right \in inode[n].mode.owner
  \/ u # NoUser /\ inode[n].group \in GroupsOf[u] /\ right \in inode[n].mode.group

(* The root of the disk that is mounted on a directory. *)
Follow(n) == IF n \in DOMAIN Mounts THEN RootOf(Mounts[n]) ELSE n

(* ufs_lookup for UFS_CREATE.  It starts at cur_dir.  The result has the   *)
(* node where it stopped and how many names it had come to.                *)
Lookup(s, path) ==
  LET u == UserOf[s]
      Step(w, k) ==
        LET dir == IF k = 1 THEN w.node ELSE Follow(w.node)
            End(error) == [rc |-> error, node |-> dir, at |-> k]
        IN  IF w.rc # "ok" THEN w
            ELSE IF ~IsDir(Now, dir) THEN End("ENOTDIR")
            ELSE IF ~Auth(u, dir, "x") THEN End("EPERM")
            ELSE IF inode[dir].nlink = 0 THEN End("ENOENT")
            ELSE IF Has(Now, dir, path.names[k])
                 THEN [rc |-> "ok", node |-> Target(Now, dir, path.names[k]), at |-> k]
            ELSE IF k = Len(path.names) /\ ~Auth(u, dir, "w") THEN End("EPERM")
            ELSE End("ENOENT")
      start == IF path.abs THEN RootOf(RootDisk) ELSE cwd[s].cur_dir
  IN  FoldLeft(Step, [rc |-> "ok", node |-> start, at |-> 0],
               [k \in 1 .. Len(path.names) |-> k])

(* The path from the root that ufs_lookup_minode follows: it puts the path *)
(* of the current directory before one that does not start at the root.    *)
Full(s, path) ==
  [abs |-> TRUE, names |-> IF path.abs THEN path.names ELSE cwd[s].path \o path.names]

NoNode == << >>

(* ufs_lookup_minode: the directory of the last name and, if it is there,  *)
(* the node it names, where no mounted disk is followed.                   *)
LookupMinode(s, path) ==
  LET u     == UserOf[s]
      names == Full(s, path).names
      Step(w, k) ==
        LET dir == Follow(w.last)
            End(error) == [rc |-> error, dir |-> dir, last |-> NoNode, at |-> k]
        IN  IF w.rc # "ok" THEN w
            ELSE IF ~Auth(u, w.last, "x") \/ ~Auth(u, dir, "x") THEN End("EACCES")
            ELSE IF ~IsDir(Now, w.last) THEN End("ENOTDIR")
            ELSE IF ~Has(Now, dir, names[k]) THEN End("ENOENT")
            ELSE [rc |-> "ok", dir |-> dir, last |-> Target(Now, dir, names[k]), at |-> k]
      root  == RootOf(RootDisk)
  IN  FoldLeft(Step, [rc |-> "ok", dir |-> root, last |-> root, at |-> 0],
               [k \in 1 .. Len(names) |-> k])

-----------------------------------------------------------------------------
(* The first part of a call: everything up to the call of                  *)
(* ufs_file_allocate or ufs_file_deallocate.  A call that fails here has   *)
(* changed nothing.                                                        *)

(* The bound: MaxCalls calls, one fewer once something is outside.         *)
MoreCalls == calls + (IF outside = {} THEN 0 ELSE 1) < MaxCalls

Begin(s, op) ==
  /\ op \in Ops
  /\ call[s] = Idle
  /\ MoreCalls
  /\ calls' = calls + 1
  /\ UNCHANGED <<inode, room, lost, outside>>

Pending(s, op, dir, last, path, perm, at) ==
  /\ call' = [call EXCEPT ![s] = [op |-> op, dir |-> dir, last |-> last,
                                  path |-> path, perm |-> perm, at |-> at]]
  /\ UNCHANGED cwd

(* ufs_create: any ENOENT is taken for "file does not exist".              *)
BeginCreate(s, path, perm) ==
  LET r == Lookup(s, path) IN
  /\ Begin(s, "create")
  /\ r.rc = "ENOENT"
  /\ r.node[1] \notin ReadOnly
  /\ IsDir(Now, r.node)
  /\ Pending(s, "create", r.node, NoNode, path, perm, r.at)

(* Faulty variant: no write access to the directory is needed.             *)
BeginMkdirUnchecked(s, path, perm) ==
  LET r == LookupMinode(s, path) IN
  /\ Begin(s, "mkdir")
  /\ r.rc = "ENOENT"
  /\ r.at = Len(Full(s, path).names)
  /\ path.abs \/ cwd[s].path # << >>
  /\ Pending(s, "mkdir", Follow(r.dir), NoNode, Full(s, path), perm, r.at)

(* ufs_mkdir: only the last name may be missing.  The string it compares   *)
(* with starts with two slashes for a path that is relative to the root.   *)
BeginMkdir(s, path, perm) ==
  LET r == LookupMinode(s, path) IN
  /\ Begin(s, "mkdir")
  /\ r.rc = "ENOENT"
  /\ r.at = Len(Full(s, path).names)
  /\ path.abs \/ cwd[s].path # << >>
  /\ Follow(r.dir)[1] \notin ReadOnly
  /\ Auth(UserOf[s], Follow(r.dir), "w")
  /\ Pending(s, "mkdir", Follow(r.dir), NoNode, Full(s, path), perm, r.at)

(* ufs_rmdir and ufs_remove *)
BeginDelete(s, op, path, isdir) ==
  LET r == LookupMinode(s, path) IN
  /\ Begin(s, op)
  /\ Full(s, path).names # << >>
  /\ r.rc = "ok"
  /\ IsDir(Now, r.last) = isdir
  /\ r.dir[1] \notin ReadOnly
  /\ Auth(UserOf[s], r.dir, "w") /\ Auth(UserOf[s], r.last, "w")
  /\ isdir => r.last \notin DOMAIN Mounts
  /\ Pending(s, op, r.dir, r.last, Full(s, path), {}, r.at)

(* ufs_chgdir has no second part.                                          *)
Chgdir(s, path) ==
  LET r == LookupMinode(s, path) IN
  /\ Begin(s, "chgdir")
  /\ r.rc = "ok"
  /\ IsDir(Now, r.last)
  /\ cwd' = [cwd EXCEPT ![s] = [cur_dir |-> Follow(r.last), path |-> Full(s, path).names]]
  /\ UNCHANGED call

-----------------------------------------------------------------------------
(* The second part of a call *)

Commit(s, fs) ==
  /\ inode' = fs.inode
  /\ room' = fs.room
  /\ call' = [call EXCEPT ![s] = Idle]
  /\ UNCHANGED <<cwd, calls>>

(* Inodes that were written and are in no directory.                       *)
Written(fs) == {n \in Node : inode[n].kind = "free" /\ fs.inode[n].kind # "free"}

(* What is wrong with an entry that is about to be made: the path names no *)
(* such directory, the directory has been removed, the path is longer than *)
(* a name, the name is in use.                                             *)
Misplaced(c, fs) ==
  IF fs.rc # "ok" THEN {}
  ELSE (IF c.at < Len(c.path.names) THEN {"parent"} ELSE {})
    \cup (IF inode[c.dir].nlink = 0 THEN {"removed"} ELSE {})
    \cup (IF LinkName(c.path) # Last(c.path.names) THEN {"cut"} ELSE {})
    \cup (IF Has(Now, c.dir, LinkName(c.path)) THEN {"twice"} ELSE {})

FinishMake(s, op, kind) ==
  LET c  == call[s]
      fs == Allocate(Now, c.dir, c.path, UserOf[s], kind, c.perm)
  IN /\ c.op = op
     /\ Commit(s, fs)
     /\ lost' = IF fs.rc = "ok" THEN lost ELSE lost \cup Written(fs)
     /\ outside' = outside \cup Misplaced(c, fs)

(* The name is looked up again, and may name another file by now.          *)
FinishDelete(s, op) ==
  LET c  == call[s]
      fs == DeallocateFile(Now, c.dir, Last(c.path.names))
  IN /\ c.op = op
     /\ Commit(s, fs)
     /\ outside' = outside \cup
          (IF fs.rc = "ok" /\ Target(Now, c.dir, Last(c.path.names)) # c.last
           THEN {"swapped"} ELSE {})
     /\ UNCHANGED lost

-----------------------------------------------------------------------------
(* ufs_file_rename and ufs_file_link have no caller under src/.  They are  *)
(* called with minodes of directories of one disk that a lookup found and  *)
(* that have not been removed, and a link with a name that is not in use.  *)

Live(n) == inode[n].kind # "free" /\ inode[n].nlink > 0 /\ n \notin lost

Internal(op, fs) ==
  /\ op \in Ops
  /\ MoreCalls /\ calls' = calls + 1
  /\ inode' = fs.inode /\ room' = fs.room
  /\ UNCHANGED <<cwd, call, lost>>

Doubled(d, name) ==
  \E j, k \in DOMAIN inode[d].ent : j # k /\ inode[d].ent[j].name = name /\ inode[d].ent[k].name = name

Rename(pf, from, pt, to) ==
  LET fs == RenameFile(Now, pf, from, pt, to)
      n  == Target(Now, pf, from)
  IN /\ IsDir(Now, pf) /\ IsDir(Now, pt) /\ Live(pf) /\ Live(pt) /\ pf[1] = pt[1]
     /\ Has(Now, pf, from)
     /\ Has(Now, pt, to) => Target(Now, pt, to) \notin DOMAIN Mounts
     /\ Internal("rename", fs)
     /\ outside' = outside \cup (IF n = pt THEN {"below"} ELSE {})
                           \cup (IF <<pf, from>> = <<pt, to>> \/ Doubled(pf, from)
                                 THEN {"onto"} ELSE {})

Link(d, n, name) ==
  LET fs == AddEntry(Now, d, n[2], name) IN
  /\ IsDir(Now, d) /\ Live(d) /\ Live(n) /\ ~IsDir(Now, n) /\ d[1] = n[1]
  /\ ~Has(Now, d, name)
  /\ Internal("link", IF fs.rc = "ok" THEN [fs EXCEPT !.inode[n].nlink = @ + 1] ELSE fs)
  /\ UNCHANGED outside

SessionStep(s) ==
  \/ \E path \in Paths :
       \/ \E perm \in Perms : BeginCreate(s, path, perm) \/ BeginMkdir(s, path, perm)
       \/ BeginDelete(s, "rmdir", path, TRUE)
       \/ BeginDelete(s, "remove", path, FALSE)
       \/ Chgdir(s, path)
  \/ FinishMake(s, "create", "file")
  \/ FinishMake(s, "mkdir", "dir")
  \/ FinishDelete(s, "rmdir")
  \/ FinishDelete(s, "remove")

NamesNext ==
  \/ \E s \in Session : SessionStep(s)
  \/ \E pf, pt \in Node, from, to \in Renamed : Rename(pf, from, pt, to)
  \/ \E d, n \in Node, name \in Renamed : Link(d, n, name)

NamesSpec == NamesInit /\ [][NamesNext]_vars

-----------------------------------------------------------------------------
(* Properties *)

NamesTypeOK ==
  /\ \A n \in Node :
       /\ inode[n].kind \in {"free", "file", "dir"}
       /\ inode[n].nlink \in Nat
       /\ inode[n].mode \in Rights
       /\ \A k \in DOMAIN inode[n].ent :
            inode[n].ent[k].name \in Name /\ <<n[1], inode[n].ent[k].ino>> \in Node
  /\ \A d \in Disk : room[d] \in Nat
  /\ \A s \in Session : cwd[s].cur_dir \in Node /\ cwd[s].path \in Seq(Plain \cup Dots)
  /\ calls \in 0 .. MaxCalls
  /\ lost \subseteq Node

Entries(n) == {<<n, k>> : k \in DOMAIN inode[n].ent}

(* The entries that name a node, in all directories but those that have    *)
(* no name because the call that made them failed.                         *)
References(n) ==
  {p \in UNION {Entries(d) : d \in {x \in Node \ lost : x[1] = n[1]}} :
     inode[p[1]].ent[p[2]].ino = n[2]}

(* The link count of every node is the number of entries that name it,     *)
(* "." and ".." included, whatever was deleted, renamed or refused for     *)
(* want of space, and for tasks that get in between the two parts of each  *)
(* other's calls: the counts that ufs_directory_add_entry and              *)
(* _remove_entry keep of directories and ufs_file_allocate, _deallocate    *)
(* and _link of what they name add up.  (A file that is renamed to its own *)
(* name is deleted; of two entries of one name the wrong one may go.)      *)
LinksCounted ==
  "onto" \notin outside => \A n \in Node \ lost : inode[n].nlink = Cardinality(References(n))

(* A directory that has not been removed starts with "." for itself and    *)
(* ".." for the one directory that has an entry for it (can_dirmove goes   *)
(* up these), also after the last entry was put in the place of another    *)
(* and after it was moved.                                                 *)
ParentRight ==
  outside = {} =>
    \A n \in Node \ lost : IsDir(Now, n) /\ Live(n) =>
      LET ent == inode[n].ent
          in  == {p \in References(n) : inode[p[1]].ent[p[2]].name \notin Dots}
      IN  /\ ent[1] = Entry(".", n[2]) /\ ent[2].name = ".."
          /\ \A k \in 3 .. Len(ent) : ent[k].name \notin Dots
          /\ IF n[2] = RootInode THEN in = {} /\ ent[2].ino = RootInode
             ELSE \E p \in Node : ent[2].ino = p[2] /\ {q[1] : q \in in} = {p} /\ Cardinality(in) = 1

(* A call of a session changes the entries of a directory only with write  *)
(* access to it: the access that ufs_lookup and ufs_lookup_minode tested   *)
(* still goes for the directory that is changed later.                     *)
WriteAllowed ==
  [][\A s \in Session, n \in Node :
       call'[s] # call[s] /\ inode'[n].ent # inode[n].ent /\ inode[n].kind = "dir"
         => Auth(UserOf[s], n, "w") \/ outside' # {}]_vars

(* The entries of all directories, without "." and "..".                   *)
NameLinks ==
  {<<p[1], inode[p[1]].ent[p[2]].name, <<p[1][1], inode[p[1]].ent[p[2]].ino>>>> :
   p \in {q \in UNION {Entries(n) : n \in Node} : inode[q[1]].ent[q[2]].name \notin Dots}}

NameDirs == {n \in Node : IsDir(Now, n)}

(* Where calls that make a file found their directory.                     *)
NameAsked ==
  {<<call[s].dir, Last(call[s].path.names)>> :
   s \in {t \in Session : call[t].op \in {"create", "mkdir"} /\ call[t].at = Len(call[t].path.names)}}

Names == INSTANCE NameTree WITH
  Name <- Name, Tops <- {RootOf(d) : d \in Disk},
  links <- NameLinks, dirs <- NameDirs, asked <- NameAsked

(* Each call does to the names what NameTree says: one name is bound,      *)
(* taken away or moved, and every other stays what it was, whatever the    *)
(* order of entries, the end of a block and the calls of other sessions.   *)
NameTreeSpec == Names!TreeSpec

(* "ENOENT - file does not exist *AND* we have write permission on the     *)
(* parent dir" (ufs#crte.c:32): a session that creates a file may write to *)
(* the directory that the path without its last name leads to, and the     *)
(* file is in it.                                                          *)
CreatedInParent ==
  [][\A s \in Session, n \in Node :
       call[s].op = "create" /\ call'[s] = Idle /\ inode[n].kind = "free" /\ inode'[n].kind = "file"
         => call[s].at = Len(call[s].path.names) /\ Auth(UserOf[s], call[s].dir, "w")]_vars

=============================================================================
