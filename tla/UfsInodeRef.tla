---------------------------- MODULE UfsInodeRef -----------------------------
(***************************************************************************)
(* The cache of inodes in storage and its use counts: ufs_inode_get        *)
(* (UFSINGET), ufs_inode_use (UFSINUSE) and ufs_inode_rel (UFSINREL) under *)
(* the calls that walk a path: ufs_lookup_minode (UFS#LMIN), ufs_open,     *)
(* ufs_fclose, ufs_chgdir, ufs_diropen, ufs_dirclose, ufs_rmdir,           *)
(* ufs_remove and ufs_file_deallocate (UFSFIDAL).                          *)
(*                                                                         *)
(* An inode in storage (minode) is freed when its use count gets to zero,  *)
(* unless it is a directory with links.  The cache is locked while it is   *)
(* searched or changed, but not while a path is walked, so every call is   *)
(* one step for each minode it takes or releases.                          *)
(***************************************************************************)
EXTENDS Integers, Sequences, FiniteSets

CONSTANTS
  Task,       \* tasks, each with a UFS handle
  Node,       \* inodes, of all disks
  NoNode,     \* NULL
  Dir,        \* the directories among them
  Root,       \* the root directory of the first disk, sys->fsroot
  Parent,     \* the directory that has the entry of a node
  MountedOn,  \* root of the disk mounted on a directory; the first on itself
  Calls,      \* the calls to make: [op |-> ..., path |-> ...]
  Word,       \* 2^16, for usecount
  FaultAt     \* what can fail

(* "access": a permission is missing.  "get": storage for a minode, or the *)
(* read of the inode.  "handle": storage for a UFSFILE.  "buffer": storage *)
(* for its block.  "entry": ufs_datablock_size_change of a directory, or   *)
(* ufs_directory_remove_entry before it changes the directory.             *)
FaultPlace == {"access", "get", "handle", "buffer", "entry"}

Op == {"open", "cd", "list", "rmdir", "remove"}

ASSUME RefAssumption ==
  /\ NoNode \notin Node /\ Dir \subseteq Node /\ Root \in Dir
  /\ Parent \in [Node -> Dir \cup {NoNode}]
  /\ MountedOn \in [Dir -> Dir \cup {NoNode}] /\ MountedOn[Root] = Root
  /\ Calls \subseteq [op : Op, path : Seq(Node)]
  /\ Word \in Nat /\ Word > 2
  /\ FaultAt \subseteq FaultPlace
  /\ IsFiniteSet(Task) /\ IsFiniteSet(Node)

VARIABLES
  cached,     \* the inodes with a minode in storage: vdisk->minodes
  use,        \* usecount of each
  unlinked,   \* inodes whose nlink is zero
  gone,       \* nodes whose directory entry was removed
  pc,         \* where each task is in its call
  call,       \* the call
  rest,       \* names of the path that the lookup has not looked at
  walk,       \* local variable dir_minode of the lookup
  dir,        \* dir_minode of the caller
  last,       \* last_minode of the caller
  min,        \* minode of the caller, or of what it calls
  todo,       \* minodes to release at label quit
  cwd,        \* cwd->cur_dir
  fp,         \* the minode of the open file
  ddesc       \* the minode of the open directory

names == <<unlinked, gone>>
locals == <<call, rest, walk, dir, last, min>>
handles == <<cwd, fp, ddesc>>
vars == <<cached, use, names, pc, locals, todo, handles>>

NoCall == [op |-> "none", path |-> << >>]

Mounts == {d \in Dir \ {Root} : MountedOn[d] # NoNode}

Init ==
  /\ cached = {Root} \cup Mounts \cup {MountedOn[d] : d \in Mounts}
  /\ use = [n \in Node |->
              IF n = Root
              THEN (2 * Cardinality(Task) + (IF Mounts = {} THEN 1 ELSE 0)) % Word
              ELSE IF n \in Mounts THEN 2 ELSE 0]
  /\ unlinked = {} /\ gone = {}
  /\ pc = [t \in Task |-> "idle"]
  /\ call = [t \in Task |-> NoCall]
  /\ rest = [t \in Task |-> << >>]
  /\ walk = [t \in Task |-> NoNode]
  /\ dir = [t \in Task |-> NoNode]
  /\ last = [t \in Task |-> NoNode]
  /\ min = [t \in Task |-> NoNode]
  /\ todo = [t \in Task |-> << >>]
  /\ cwd = [t \in Task |-> Root]
  /\ fp = [t \in Task |-> NoNode]
  /\ ddesc = [t \in Task |-> NoNode]

-----------------------------------------------------------------------------
(* The cache *)

Set(f, t, x) == [f EXCEPT ![t] = x]

Use(n) == use' = [use EXCEPT ![n] = (@ + 1) % Word]

(* Faulty variant: a minode found in the cache is not counted.             *)
GetUncounted(n) ==
  /\ use' = [use EXCEPT ![n] = IF n \in cached THEN @ ELSE 1]
  /\ cached' = cached \cup {n}

(* ufs_inode_get: found, or loaded with a count of zero, and counted.      *)
Get(n) ==
  /\ use' = [use EXCEPT ![n] = IF n \in cached THEN (@ + 1) % Word ELSE 1]
  /\ cached' = cached \cup {n}

CanFail(n) == "get" \in FaultAt /\ n \notin cached

(* Faulty variant: the count is decremented without a look at it.          *)
DownAlways(count) == count - 1

Down(count) == IF count > 0 THEN count - 1 ELSE 0

(* Faulty variant: directories are treated as files are.                   *)
KeptNever(n) == FALSE

(* A directory with links stays in the cache.                              *)
Kept(n) == n \in Dir /\ n \notin unlinked

(* ufs_inode_rel.  Storage that was freed before may have any contents;    *)
(* here it has the old ones, a count of zero, and the release has no       *)
(* effect.  HeldCached says whether this happens.                          *)
Rel(n) ==
  /\ use' = [use EXCEPT ![n] = Down(@)]
  /\ cached' = IF Down(use[n]) = 0 /\ ~Kept(n) THEN cached \ {n} ELSE cached

(* Label quit: these are released, in this order, and the call returns.    *)
Quit(t, minodes) ==
  /\ todo' = Set(todo, t, minodes)
  /\ pc' = Set(pc, t, "quit")

Release(t) ==
  /\ pc[t] = "quit" /\ todo[t] # << >>
  /\ IF Head(todo[t]) # NoNode THEN Rel(Head(todo[t])) ELSE UNCHANGED <<cached, use>>
  /\ todo' = Set(todo, t, Tail(todo[t]))
  /\ UNCHANGED <<names, pc, locals, handles>>

Return(t) ==
  /\ pc[t] = "quit" /\ todo[t] = << >>
  /\ pc' = Set(pc, t, "idle")
  /\ call' = Set(call, t, NoCall) /\ rest' = Set(rest, t, << >>)
  /\ walk' = Set(walk, t, NoNode) /\ dir' = Set(dir, t, NoNode)
  /\ last' = Set(last, t, NoNode) /\ min' = Set(min, t, NoNode)
  /\ UNCHANGED <<cached, use, names, todo, handles>>

-----------------------------------------------------------------------------
(* ufs_lookup_minode *)

(* Entries of the directory that are found by name.                        *)
Entries(d) == {n \in Node : Parent[n] = d /\ n \notin gone}

(* The caller has room for what the call opens.                            *)
Ready(t, c) ==
  /\ c.op = "open" => fp[t] = NoNode
  /\ c.op = "list" => ddesc[t] = NoNode

Lookup(t, c) ==
  /\ pc[t] = "idle" /\ Ready(t, c)
  /\ Use(Root)
  /\ pc' = Set(pc, t, IF c.path = << >> THEN c.op ELSE "walk")
  /\ call' = Set(call, t, c) /\ rest' = Set(rest, t, c.path)
  /\ walk' = Set(walk, t, Root) /\ dir' = Set(dir, t, Root)
  /\ UNCHANGED <<cached, names, last, min, todo, handles>>

(* EACCES or ENOTDIR: walk[t] is not released.                             *)
WalkFails(t) ==
  /\ pc[t] \in {"walk", "mounted"}
  /\ "access" \in FaultAt \/ walk[t] \notin Dir
  /\ Quit(t, <<dir[t]>>)
  /\ UNCHANGED <<cached, use, names, locals, handles>>

WalkOn(t) ==
  /\ pc[t] \in {"walk", "mounted"}
  /\ walk[t] \in Dir
  /\ pc[t] = "walk" => MountedOn[walk[t]] = NoNode
  /\ pc' = Set(pc, t, "save")
  /\ UNCHANGED <<cached, use, names, locals, todo, handles>>

(* A disk is mounted on this directory: go on at its root.                 *)
WalkMount(t) ==
  /\ pc[t] = "walk"
  /\ walk[t] \in Dir /\ MountedOn[walk[t]] # NoNode
  /\ Rel(walk[t])
  /\ walk' = Set(walk, t, MountedOn[walk[t]])
  /\ pc' = Set(pc, t, "mount")
  /\ UNCHANGED <<names, call, rest, dir, last, min, todo, handles>>

WalkMounted(t) ==
  /\ pc[t] = "mount"
  /\ \/ Get(walk[t]) /\ pc' = Set(pc, t, "mounted") /\ UNCHANGED todo
     \/ CanFail(walk[t]) /\ Quit(t, <<dir[t]>>) /\ UNCHANGED <<cached, use>>
  /\ UNCHANGED <<names, locals, handles>>

(* The directory that was saved for the caller is released, and this one   *)
(* is saved in its place.                                                  *)
SaveDir(t) ==
  /\ pc[t] = "save"
  /\ Rel(dir[t])
  /\ dir' = Set(dir, t, walk[t])
  /\ pc' = Set(pc, t, "name")
  /\ UNCHANGED <<names, call, rest, walk, last, min, todo, handles>>

NameMissing(t) ==
  /\ pc[t] = "name"
  /\ Head(rest[t]) \notin Entries(walk[t])
  /\ Quit(t, <<dir[t]>>)
  /\ UNCHANGED <<cached, use, names, locals, handles>>

(* "we're done using this dir_minode"                                      *)
NameFound(t) ==
  /\ pc[t] = "name"
  /\ Head(rest[t]) \in Entries(walk[t])
  /\ Rel(walk[t])
  /\ walk' = Set(walk, t, Head(rest[t]))
  /\ rest' = Set(rest, t, Tail(rest[t]))
  /\ pc' = Set(pc, t, "child")
  /\ UNCHANGED <<names, call, dir, last, min, todo, handles>>

ChildFails(t) ==
  /\ pc[t] = "child"
  /\ CanFail(walk[t])
  /\ Quit(t, <<dir[t]>>)
  /\ UNCHANGED <<cached, use, names, locals, handles>>

Child(t) ==
  /\ pc[t] = "child"
  /\ Get(walk[t])
  /\ IF rest[t] # << >>
     THEN pc' = Set(pc, t, "walk") /\ UNCHANGED last
     ELSE pc' = Set(pc, t, call[t].op) /\ last' = Set(last, t, walk[t])
  /\ UNCHANGED <<names, call, rest, walk, dir, min, todo, handles>>

-----------------------------------------------------------------------------
(* ufs_open, of a path that has a name in it *)

(* Faulty variant: last_minode is forgotten on the way out.                *)
OpenFailsKeeps(t) ==
  /\ pc[t] = "open"
  /\ last[t] \in Dir \/ FaultAt \cap {"access", "handle"} # {}
  /\ Quit(t, <<dir[t]>>)
  /\ UNCHANGED <<cached, use, names, locals, handles>>

OpenFails(t) ==
  /\ pc[t] = "open"
  /\ last[t] \in Dir \/ FaultAt \cap {"access", "handle"} # {}
  /\ Quit(t, <<last[t], dir[t]>>)
  /\ UNCHANGED <<cached, use, names, locals, handles>>

(* ufs_file_new has no buffer and frees its handle with the minode in it.  *)
OpenNoBuffer(t) ==
  /\ pc[t] = "open"
  /\ last[t] \in Node \ Dir
  /\ "buffer" \in FaultAt
  /\ Rel(last[t])
  /\ Quit(t, <<last[t], dir[t]>>)
  /\ UNCHANGED <<names, locals, handles>>

(* "success, last_minode is now part of the file handle"                   *)
Open(t) ==
  /\ pc[t] = "open"
  /\ last[t] \in Node \ Dir
  /\ fp' = Set(fp, t, last[t])
  /\ last' = Set(last, t, NoNode)
  /\ Quit(t, <<dir[t]>>)
  /\ UNCHANGED <<cached, use, names, call, rest, walk, dir, min, cwd, ddesc>>

(* ufs_fclose *)
Close(t) ==
  /\ pc[t] = "idle" /\ fp[t] # NoNode
  /\ Rel(fp[t])
  /\ fp' = Set(fp, t, NoNode)
  /\ UNCHANGED <<names, pc, locals, todo, cwd, ddesc>>

-----------------------------------------------------------------------------
(* ufs_chgdir *)

Target(t) == IF last[t] # NoNode THEN last[t] ELSE dir[t]

(* What stays in dir_minode when dir[t] may have become minode.            *)
Other(t) == IF last[t] # NoNode THEN dir[t] ELSE NoNode

CdFails(t) ==
  /\ pc[t] = "cd"
  /\ Target(t) \notin Dir
  /\ Quit(t, <<Target(t), Other(t)>>)
  /\ UNCHANGED <<cached, use, names, locals, handles>>

CdMount(t) ==
  /\ pc[t] = "cd"
  /\ Target(t) \in Dir /\ MountedOn[Target(t)] # NoNode
  /\ Rel(Target(t))
  /\ pc' = Set(pc, t, "cdmount")
  /\ UNCHANGED <<names, locals, todo, handles>>

CdMounted(t) ==
  /\ pc[t] = "cdmount"
  /\ LET top == MountedOn[Target(t)] IN
     \/ /\ Get(top)
        /\ min' = Set(min, t, top) /\ pc' = Set(pc, t, "cdset")
        /\ UNCHANGED todo
     \/ /\ CanFail(top)
        /\ Quit(t, <<Other(t)>>)
        /\ UNCHANGED <<cached, use, min>>
  /\ UNCHANGED <<names, call, rest, walk, dir, last, handles>>

CdPlain(t) ==
  /\ pc[t] = "cd"
  /\ Target(t) \in Dir /\ MountedOn[Target(t)] = NoNode
  /\ min' = Set(min, t, Target(t)) /\ pc' = Set(pc, t, "cdset")
  /\ UNCHANGED <<cached, use, names, call, rest, walk, dir, last, todo, handles>>

(* The previous current directory is released and replaced.                *)
CdSet(t) ==
  /\ pc[t] = "cdset"
  /\ Rel(cwd[t])
  /\ cwd' = Set(cwd, t, min[t])
  /\ Quit(t, <<Other(t)>>)
  /\ UNCHANGED <<names, locals, fp, ddesc>>

-----------------------------------------------------------------------------
(* ufs_diropen, of a directory or, as nothing tests it, of a file          *)

ListMount(t) ==
  /\ pc[t] = "list"
  /\ Target(t) \in Dir /\ MountedOn[Target(t)] # NoNode
  /\ Rel(Target(t))
  /\ pc' = Set(pc, t, "listget")
  /\ UNCHANGED <<names, locals, todo, handles>>

ListGet(t) ==
  /\ pc[t] = "listget"
  /\ LET top == MountedOn[Target(t)] IN
     \/ /\ Get(top)
        /\ min' = Set(min, t, top) /\ pc' = Set(pc, t, "listuse")
        /\ UNCHANGED todo
     \/ /\ CanFail(top)
        /\ Quit(t, <<last[t], dir[t]>>)
        /\ UNCHANGED <<cached, use, min>>
  /\ UNCHANGED <<names, call, rest, walk, dir, last, handles>>

(* "bump the use count for this minode"                                    *)
ListUse(t) ==
  /\ pc[t] = "listuse"
  /\ Use(min[t])
  /\ pc' = Set(pc, t, "listopen")
  /\ UNCHANGED <<cached, names, locals, todo, handles>>

ListPlain(t) ==
  /\ pc[t] = "list"
  /\ Target(t) \in Dir => MountedOn[Target(t)] = NoNode
  /\ min' = Set(min, t, Target(t)) /\ pc' = Set(pc, t, "listopen")
  /\ UNCHANGED <<cached, use, names, call, rest, walk, dir, last, todo, handles>>

ListFails(t) ==
  /\ pc[t] = "listopen"
  /\ FaultAt \cap {"access", "handle"} # {}
  /\ Quit(t, <<last[t], dir[t]>>)
  /\ UNCHANGED <<cached, use, names, locals, handles>>

(* Each entry, "." and ".." too, is taken and released, which leaves the   *)
(* directories among them in the cache (in one step here).                 *)
Listed(d) == ({n \in Dir : n \in Entries(d) \/ Parent[d] = n}) \ unlinked

(* The handle gets the minode, and last_minode and dir_minode, of which it *)
(* is one, are released.                                                   *)
List(t) ==
  /\ pc[t] = "listopen"
  /\ ddesc' = Set(ddesc, t, min[t])
  /\ cached' = cached \cup Listed(min[t])
  /\ use' = [n \in Node |-> IF n \in Listed(min[t]) \ cached THEN 0 ELSE use[n]]
  /\ Quit(t, <<last[t], dir[t]>>)
  /\ UNCHANGED <<names, locals, cwd, fp>>

(* ufs_dirclose *)
ListClose(t) ==
  /\ pc[t] = "idle" /\ ddesc[t] # NoNode
  /\ Rel(ddesc[t])
  /\ ddesc' = Set(ddesc, t, NoNode)
  /\ UNCHANGED <<names, pc, locals, todo, cwd, fp>>

-----------------------------------------------------------------------------
(* ufs_rmdir and ufs_remove *)

RmdirFails(t) ==
  /\ pc[t] = "rmdir"
  /\ \/ last[t] \notin Dir
     \/ "access" \in FaultAt
     \/ last[t] \in Mounts \cup {Root}
  /\ Quit(t, <<dir[t], last[t]>>)
  /\ UNCHANGED <<cached, use, names, locals, handles>>

Rmdir(t) ==
  /\ pc[t] = "rmdir"
  /\ last[t] \in Dir /\ MountedOn[last[t]] = NoNode
  /\ pc' = Set(pc, t, "find")
  /\ UNCHANGED <<cached, use, names, locals, todo, handles>>

RemoveFails(t) ==
  /\ pc[t] = "remove"
  /\ last[t] \notin Node \ Dir \/ "access" \in FaultAt
  /\ Quit(t, <<dir[t], last[t]>>)
  /\ UNCHANGED <<cached, use, names, locals, handles>>

Remove(t) ==
  /\ pc[t] = "remove"
  /\ last[t] \in Node \ Dir
  /\ Rel(last[t])
  /\ last' = Set(last, t, NoNode)
  /\ pc' = Set(pc, t, "find")
  /\ UNCHANGED <<names, call, rest, walk, dir, min, todo, handles>>

(* ufs_file_deallocate of the last name of the path *)
Name(t) == call[t].path[Len(call[t].path)]

FindMissing(t) ==
  /\ pc[t] = "find"
  /\ Name(t) \notin Entries(dir[t])
  /\ Quit(t, <<dir[t], last[t]>>)
  /\ UNCHANGED <<cached, use, names, locals, handles>>

Find(t) ==
  /\ pc[t] = "find"
  /\ Name(t) \in Entries(dir[t])
  /\ pc' = Set(pc, t, "get")
  /\ UNCHANGED <<cached, use, names, locals, todo, handles>>

GetFails(t) ==
  /\ pc[t] = "get"
  /\ CanFail(Name(t))
  /\ Quit(t, <<dir[t], last[t]>>)
  /\ UNCHANGED <<cached, use, names, locals, handles>>

GetVictim(t) ==
  /\ pc[t] = "get"
  /\ Get(Name(t))
  /\ min' = Set(min, t, Name(t))
  /\ pc' = Set(pc, t, "unlink")
  /\ UNCHANGED <<names, call, rest, walk, dir, last, todo, handles>>

(* ENOTEMPTY, or no way to give the blocks of the directory back.          *)
UnlinkFails(t) ==
  /\ pc[t] = "unlink"
  /\ min[t] \in Dir /\ (Entries(min[t]) # {} \/ "entry" \in FaultAt)
  /\ Quit(t, <<min[t], dir[t], last[t]>>)
  /\ UNCHANGED <<cached, use, names, locals, handles>>

(* nlink becomes zero: a directory at once, a file with its one link.      *)
Unlink(t) ==
  /\ pc[t] = "unlink"
  /\ min[t] \in Dir => Entries(min[t]) = {}
  /\ unlinked' = unlinked \cup {min[t]}
  /\ pc' = Set(pc, t, "drop")
  /\ UNCHANGED <<cached, use, gone, locals, todo, handles>>

DropFails(t) ==
  /\ pc[t] = "drop"
  /\ min[t] \notin Entries(dir[t]) \/ "entry" \in FaultAt
  /\ Quit(t, <<min[t], dir[t], last[t]>>)
  /\ UNCHANGED <<cached, use, names, locals, handles>>

(* ufs_directory_remove_entry takes the minode once more, for its type.    *)
Drop(t) ==
  /\ pc[t] = "drop"
  /\ min[t] \in Entries(dir[t])
  /\ gone' = gone \cup {min[t]}
  /\ pc' = Set(pc, t, "target")
  /\ UNCHANGED <<cached, use, unlinked, locals, todo, handles>>

DropTarget(t) ==
  /\ pc[t] = "target"
  /\ Get(min[t])
  /\ Quit(t, <<min[t], min[t], dir[t], last[t]>>)
  /\ UNCHANGED <<names, locals, handles>>

-----------------------------------------------------------------------------
LookupStep(t) ==
  \/ WalkFails(t)
  \/ WalkOn(t)
  \/ WalkMount(t)
  \/ WalkMounted(t)
  \/ SaveDir(t)
  \/ NameMissing(t)
  \/ NameFound(t)
  \/ ChildFails(t)
  \/ Child(t)

OpenStep(t) == OpenFails(t) \/ OpenNoBuffer(t) \/ Open(t)

CdStep(t) == CdFails(t) \/ CdMount(t) \/ CdMounted(t) \/ CdPlain(t) \/ CdSet(t)

ListStep(t) ==
  \/ ListMount(t)
  \/ ListGet(t)
  \/ ListUse(t)
  \/ ListPlain(t)
  \/ ListFails(t)
  \/ List(t)

RemoveStep(t) ==
  \/ RmdirFails(t)
  \/ Rmdir(t)
  \/ RemoveFails(t)
  \/ Remove(t)
  \/ FindMissing(t)
  \/ Find(t)
  \/ GetFails(t)
  \/ GetVictim(t)
  \/ UnlinkFails(t)
  \/ Unlink(t)
  \/ DropFails(t)
  \/ Drop(t)
  \/ DropTarget(t)

Next ==
  \E t \in Task :
     \/ \E c \in Calls : Lookup(t, c)
     \/ LookupStep(t)
     \/ OpenStep(t) \/ Close(t)
     \/ CdStep(t)
     \/ ListStep(t) \/ ListClose(t)
     \/ RemoveStep(t)
     \/ Release(t)
     \/ Return(t)

Spec == Init /\ [][Next]_vars

-----------------------------------------------------------------------------
(* Properties *)

Label ==
  {"idle", "walk", "mount", "mounted", "save", "name", "child", "cdmount", "cdset",
   "listget", "listuse", "listopen", "find", "get", "unlink", "drop", "target", "quit"}
  \cup Op

TypeOK ==
  /\ cached \subseteq Node
  /\ use \in [Node -> 0 .. Word - 1]
  /\ unlinked \subseteq Node /\ gone \subseteq unlinked
  /\ pc \in [Task -> Label]
  /\ call \in [Task -> Calls \cup {NoCall}]
  /\ rest \in [Task -> Seq(Node)]
  /\ todo \in [Task -> Seq(Node \cup {NoNode})]
  /\ \A f \in {walk, dir, last, min, cwd, fp, ddesc} : f \in [Task -> Node \cup {NoNode}]

(* The pointers to minodes in the local variables of a call that it will   *)
(* still use or release, one entry for each reference.                     *)
Locals(t) ==
  CASE pc[t] \in {"walk", "mounted", "save", "name"}  -> <<walk[t], dir[t]>>
    [] pc[t] \in {"mount", "child"}                   -> <<dir[t]>>
    [] pc[t] \in Op \cup {"listget", "find", "get"}   -> <<dir[t], last[t]>>
    [] pc[t] = "cdmount"                              -> <<Other(t)>>
    [] pc[t] = "cdset"                                -> <<min[t], Other(t)>>
    [] pc[t] \in {"listuse", "listopen", "unlink", "drop", "target"}
                                                      -> <<dir[t], last[t], min[t]>>
    [] pc[t] = "quit"                                 -> todo[t]
    [] pc[t] = "idle"                                 -> << >>

References(t) == Locals(t) \o <<cwd[t], fp[t], ddesc[t]>>

Holders(n) ==
  {h \in Task \X (1 .. 10) :
     h[2] <= Len(References(h[1])) /\ References(h[1])[h[2]] = n}

Held == {n \in Node : Holders(n) # {}}

(* A minode that someone has a pointer to is in storage: "The UFSMIN       *)
(* pointers returned have already had the use count incremented and should *)
(* be safe to use" (ufs.h), for the time from the lookup to the release    *)
(* and for handles from open to close, whatever others remove meanwhile.   *)
HeldCached == Held \subseteq cached

(* Every pointer to a file is counted once, so the last release of it, and *)
(* no other, frees the minode.                                             *)
FileCounted ==
  \A n \in Node \ Dir :
     /\ n \in cached => use[n] = Cardinality(Holders(n))
     /\ n \in cached <=> n \in Held

(* A directory that has links is not lost to those who use it, although    *)
(* ufs_lookup_minode releases it more often than it takes it.              *)
LinkedDirHeld == Held \cap (Dir \ unlinked) \subseteq cached

=============================================================================
