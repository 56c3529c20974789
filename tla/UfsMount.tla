------------------------------ MODULE UfsMount ------------------------------
(***************************************************************************)
(* The mount table: ufs_mount (UFSMOUNT), the lines of /etc/fstab          *)
(* (UFSFSTAB), ufs_unmount_inode (UFSUNMIN) and the calls that find the    *)
(* directory for it (UFSUNMPA, UFSUNMVD, UFSUNMDD, UFSUNMAL), and          *)
(* ufs_rmdir (UFS#RD, UFSFIDAL) where it meets a mount.                    *)
(*                                                                         *)
(* The table is kept three times: in the minode of the directory, in the   *)
(* vdisk and in sys->mountpoint.  Mounts are made under the lock of the    *)
(* system handle.  ufs_unmount_inode reads the first two views before it   *)
(* takes that lock, and ufs_rmdir never takes it.                          *)
(*                                                                         *)
(* A path is followed in one step (UFS#LMIN); the parts of ufs_rmdir are   *)
(* steps of their own.  A name of a file is left out: a mount on it is     *)
(* refused as one on a missing name is.                                    *)
(***************************************************************************)
EXTENDS Integers, SequencesExt

CONSTANTS
  Session,    \* UFS handles, each used by one task
  NoSession,
  Disk,       \* the disk datasets, by number: UFSDISK0 - UFSDISK9
  NoDisk,     \* NULL
  Dir,        \* directories of all disks
  NoDir,      \* NULL
  DiskOf,     \* the disk a directory is on
  Up,         \* its parent on that disk, itself for the root directory
  NameOf,     \* its name in the parent
  Writable,   \* directories the users may write to
  Paths,      \* paths that calls use: the names from the root on
  Fstab,      \* the lines of /etc/fstab, for each first disk
  MaxCalls    \* bound on the calls of a behaviour

TopOf(d) == CHOOSE n \in Dir : DiskOf[n] = d /\ Up[n] = n

ASSUME MountAssumption ==
  /\ Disk \subseteq Nat /\ NoDisk \notin Disk /\ NoDir \notin Dir /\ NoSession \notin Session
  /\ DiskOf \in [Dir -> Disk] /\ Up \in [Dir -> Dir]
  /\ \A n \in Dir : DiskOf[Up[n]] = DiskOf[n]
  /\ \A d \in Disk : \E n \in Dir : DiskOf[n] = d /\ Up[n] = n
  /\ Writable \subseteq Dir
  /\ \A path \in Paths : path \in Seq(Range(path))
  /\ \A d \in Disk : /\ Fstab[d] \in Seq(Range(Fstab[d]))
                    /\ \A line \in Range(Fstab[d]) : line.path \in Seq(Range(line.path))

VARIABLES
  vdisks,     \* sys->vdisks, the disks that were opened
  fsroot,     \* sys->fsroot
  on,         \* minode->mounted_vdisk
  at,         \* vdisk->mounted_minode
  mountpoint, \* sys->mountpoint
  removed,    \* directories that were deleted: no links and no contents
  nameless,   \* those whose entry is gone from the parent
  holder,     \* the session with the lock of the system handle
  call,       \* what each session is about to do
  calls,      \* number of calls
  odd         \* auxiliary: uses that break what the properties promise

table == <<on, at, mountpoint>>
gone == <<removed, nameless>>
mountVars == <<vdisks, fsroot, table, gone, holder, call, calls, odd>>

Idle == [op |-> "none"]

Empty == [on |-> [n \in Dir |-> NoDisk], at |-> [d \in Disk |-> NoDir], mountpoint |-> << >>]

Table == [on |-> on, at |-> at, mountpoint |-> mountpoint]

SetTable(t) == on' = t.on /\ at' = t.at /\ mountpoint' = t.mountpoint

MountInit ==
  /\ vdisks = << >> /\ fsroot = NoDir
  /\ on = Empty.on /\ at = Empty.at /\ mountpoint = Empty.mountpoint
  /\ removed = {} /\ nameless = {}
  /\ holder = NoSession /\ call = [s \in Session |-> Idle] /\ calls = 0
  /\ odd = {}

-----------------------------------------------------------------------------
(* Paths *)

Kids(n) == {k \in Dir \ nameless : Up[k] = n /\ k # n}

(* ufs_file_lookup_by_name.  Both dots of a root directory are itself.     *)
Entry(n, name) ==
  IF n = NoDir \/ n \in removed THEN NoDir
  ELSE CASE name = "."  -> n
         [] name = ".." -> Up[n]
         [] OTHER -> IF \E k \in Kids(n) : NameOf[k] = name
                     THEN CHOOSE k \in Kids(n) : NameOf[k] = name ELSE NoDir

(* One name of ufs_lookup_minode: it is looked up in the root directory of *)
(* the disk mounted here; a disk mounted on that root is not looked at.    *)
Through(n, mounted) == IF n # NoDir /\ mounted[n] # NoDisk THEN TopOf(mounted[n]) ELSE n

(* last_minode; NULL for the path "/".                                     *)
Follow(root, mounted, path) ==
  IF path = << >> THEN NoDir
  ELSE FoldLeft(LAMBDA n, name : Entry(Through(n, mounted), name), root, path)

-----------------------------------------------------------------------------
(* The tests and the changes *)

Opened == Range(vdisks)

(* What they ask of the root directory of the disk: nlink is 2 or more.    *)
HasRoot(d) == TopOf(d) \notin removed

(* Faulty variant: the disk may be mounted already.                        *)
CanMountTwice(t, d, n) ==
  /\ n # NoDir /\ n \in Writable
  /\ t.on[n] = NoDisk /\ ~Contains(t.mountpoint, n)

(* The conditions of ufs_mount and of a line of fstab on the directory.    *)
CanMount(t, d, n) ==
  /\ n # NoDir /\ n \in Writable
  /\ t.at[d] = NoDir
  /\ t.on[n] = NoDisk /\ ~Contains(t.mountpoint, n)

Mounted(t, d, n) ==
  [on |-> [t.on EXCEPT ![n] = d], at |-> [t.at EXCEPT ![d] = n],
   mountpoint |-> Append(t.mountpoint, n)]

(* The tests of ufs_unmount_inode. *)
CanUnmount(t, n) == n # NoDir /\ t.on[n] # NoDisk /\ t.at[t.on[n]] = n

LastAt(seq, n) == Max({i \in DOMAIN seq : seq[i] = n})

(* Faulty variant: the directory stays in sys->mountpoint.                 *)
UnmountedListed(t, n, d) ==
  [on |-> [t.on EXCEPT ![n] = NoDisk], at |-> [t.at EXCEPT ![d] = NoDir],
   mountpoint |-> t.mountpoint]

(* What it does with the directory and the disk it read before.            *)
Unmounted(t, n, d) ==
  [on |-> [t.on EXCEPT ![n] = NoDisk], at |-> [t.at EXCEPT ![d] = NoDir],
   mountpoint |-> IF Contains(t.mountpoint, n) THEN RemoveAt(t.mountpoint, LastAt(t.mountpoint, n))
                  ELSE t.mountpoint]

(* ufs_unmount_all, from the last mount point to the first.                *)
AllUnmounted(t) ==
  FoldRight(LAMBDA n, u : IF CanUnmount(u, n) THEN Unmounted(u, n, u.on[n]) ELSE u,
            t.mountpoint, t)

(* Auxiliary: what makes an unmount of disk d from n odd.  Where both are  *)
(* unmounted already, nothing is left to do.                               *)
UnmountOdd(t, n, d) ==
  (IF t.on[n] \notin {d, NoDisk} \/ t.at[d] \notin {n, NoDir} THEN {"raced"} ELSE {})
    \cup (IF n = fsroot THEN {"root"} ELSE {})
    \cup (IF \E e \in Disk \ {d} : t.at[e] # NoDir /\ DiskOf[t.at[e]] = d THEN {"buried"} ELSE {})

(* Auxiliary: the sessions that are inside ufs_rmdir of n.                 *)
Removing(n) == {s \in Session : call[s].op \in {"rmdir", "clear", "entry"} /\ call[s].dir = n}

-----------------------------------------------------------------------------
(* The calls *)

Starts(s) == call[s] = Idle /\ calls < MaxCalls /\ calls' = calls + 1
Free == holder = NoSession

(* ufs_mount takes the lock and follows the path.                          *)
BeginMount(s, d, path) ==
  /\ Starts(s) /\ Free /\ d \in Opened /\ HasRoot(d)
  /\ holder' = s
  /\ call' = [call EXCEPT ![s] = [op |-> "mount", disk |-> d, dir |-> Follow(fsroot, on, path)]]
  /\ UNCHANGED <<vdisks, fsroot, table, gone, odd>>

(* The rest of it.  A refused call changes nothing.                        *)
FinishMount(s) ==
  LET c == call[s] IN
  /\ c.op = "mount"
  /\ IF CanMount(Table, c.disk, c.dir)
     THEN /\ SetTable(Mounted(Table, c.disk, c.dir))
          /\ odd' = odd \cup (IF Removing(c.dir) # {} THEN {"rmdir"} ELSE {})
                        \cup (IF c.dir \in removed \ nameless THEN {"removed"} ELSE {})
     ELSE UNCHANGED <<table, odd>>
  /\ holder' = NoSession
  /\ call' = [call EXCEPT ![s] = Idle]
  /\ UNCHANGED <<vdisks, fsroot, gone, calls>>

(* ufs_unmount_path and ufs_unmount_vdisk, up to the lock.                 *)
BeginUnmount(s, n) ==
  /\ Starts(s) /\ CanUnmount(Table, n)
  /\ call' = [call EXCEPT ![s] = [op |-> "unmount", disk |-> on[n], dir |-> n]]
  /\ UNCHANGED <<vdisks, fsroot, table, gone, holder, odd>>

UnmountPath(s, path) ==
  BeginUnmount(s, IF path = << >> THEN fsroot ELSE Follow(fsroot, on, path))

UnmountVdisk(s, d) == d \in Opened /\ BeginUnmount(s, at[d])

FinishUnmount(s) ==
  LET c == call[s] IN
  /\ c.op = "unmount" /\ Free
  /\ SetTable(Unmounted(Table, c.dir, c.disk))
  /\ odd' = odd \cup UnmountOdd(Table, c.dir, c.disk)
  /\ call' = [call EXCEPT ![s] = Idle]
  /\ UNCHANGED <<vdisks, fsroot, gone, holder, calls>>

(* ufs_unmount_ddname keeps the lock over both.                            *)
UnmountDdname(s, d) ==
  /\ Starts(s) /\ Free /\ d \in Opened /\ CanUnmount(Table, at[d])
  /\ SetTable(Unmounted(Table, at[d], on[at[d]]))
  /\ odd' = odd \cup UnmountOdd(Table, at[d], on[at[d]])
  /\ UNCHANGED <<vdisks, fsroot, gone, holder, call>>

(* ufs_unmount_all, called while the system stays up.                      *)
UnmountAll(s) ==
  /\ Starts(s) /\ Free /\ vdisks # << >>
  /\ SetTable(AllUnmounted(Table))
  /\ odd' = odd \cup {"root"}
  /\ UNCHANGED <<vdisks, fsroot, gone, holder, call>>

(* ufs_rmdir, up to its test for a mounted disk.                           *)
BeginRmdir(s, path) ==
  LET n == Follow(fsroot, on, path) IN
  /\ Starts(s) /\ path # << >> /\ Last(path) \notin {".", ".."}
  /\ n # NoDir /\ {n, Up[n]} \subseteq Writable /\ on[n] = NoDisk
  /\ call' = [call EXCEPT ![s] = [op |-> "rmdir", disk |-> DiskOf[n], dir |-> n]]
  /\ UNCHANGED <<vdisks, fsroot, table, gone, holder, odd>>

(* ufs_file_deallocate holds no lock, so other calls come between its      *)
(* parts.  It looks the name up once more.  Where a disk has been mounted  *)
(* since, it goes on with the root directory of that disk.                 *)
FindRmdir(s) ==
  LET n == call[s].dir IN
  /\ call[s].op = "rmdir"
  /\ call' = [call EXCEPT ![s] =
               IF n \in nameless THEN Idle
               ELSE [op |-> "clear", disk |-> DiskOf[n], dir |-> n, top |-> Through(n, on)]]
  /\ UNCHANGED <<vdisks, fsroot, table, gone, holder, calls, odd>>

(* An empty directory loses its contents and its links.                    *)
ClearRmdir(s) ==
  LET top == call[s].top IN
  /\ call[s].op = "clear"
  /\ IF Kids(top) # {} THEN call' = [call EXCEPT ![s] = Idle] /\ UNCHANGED removed
     ELSE call' = [call EXCEPT ![s].op = "entry"] /\ removed' = removed \cup {top}
  /\ UNCHANGED <<vdisks, fsroot, table, nameless, holder, calls, odd>>

(* The entry goes, if it is found: it is looked for in blocks of the disk  *)
(* that was mounted, and not of the parent's, or cannot be read.           *)
EntryRmdir(s) ==
  LET n == call[s].dir IN
  /\ call[s].op = "entry"
  /\ nameless' \in {nameless, nameless \cup {n}}
  /\ odd' = odd \cup IF \E r \in Session : call[r].op = "mount" /\ call[r].dir = n
                     THEN {"rmdir"} ELSE {}
  /\ call' = [call EXCEPT ![s] = Idle]
  /\ UNCHANGED <<vdisks, fsroot, table, removed, holder, calls>>

MountStep(s) ==
  \/ \E d \in Disk :
       \/ \E path \in Paths : BeginMount(s, d, path)
       \/ UnmountVdisk(s, d)
       \/ UnmountDdname(s, d)
  \/ \E path \in Paths : UnmountPath(s, path) \/ BeginRmdir(s, path)
  \/ FinishMount(s)
  \/ FinishUnmount(s)
  \/ UnmountAll(s)
  \/ FindRmdir(s)
  \/ ClearRmdir(s)
  \/ EntryRmdir(s)

-----------------------------------------------------------------------------
(* Start and stop *)

(* A line of fstab: never the first disk, never the path "/".              *)
FstabLine(opened, root, t, line) ==
  LET n == Follow(root, t.on, line.path) IN
  IF line.disk \in Range(Tail(opened)) /\ HasRoot(line.disk) /\ CanMount(t, line.disk, n)
  THEN Mounted(t, line.disk, n) ELSE t

(* The root directory of the first disk is mounted on itself.              *)
MountUp(opened) ==
  LET root  == TopOf(Head(opened))
      first == Mounted(Empty, Head(opened), root)
      lines == IF Len(opened) > 1 THEN Fstab[Head(opened)] ELSE << >>
  IN  /\ vdisks' = opened /\ fsroot' = root
      /\ SetTable(FoldLeft(LAMBDA t, line : FstabLine(opened, root, t, line), first, lines))
      /\ odd' = IF \E d \in Disk : at'[d] \in removed \ {root} THEN {"removed"} ELSE {}
      /\ UNCHANGED <<gone, holder, call, calls>>

(* Nothing of the table outlives the storage it is in.  What a call wrote  *)
(* to a directory is taken as written, even where the machine stops.       *)
MountDown ==
  /\ vdisks' = << >> /\ fsroot' = NoDir
  /\ SetTable(Empty)
  /\ holder' = NoSession /\ call' = [s \in Session |-> Idle]
  /\ odd' = {}
  /\ UNCHANGED <<gone, calls>>

-----------------------------------------------------------------------------
(* Properties *)

(* The three views of the mount table agree: a disk says it is mounted on  *)
(* a directory exactly if the minode of the directory has the disk, and    *)
(* sys->mountpoint has each such directory once.  Two unmounts of one      *)
(* directory, or of one disk, with a mount between them break this         *)
(* (ufsunmin.c:26-53).                                                     *)
MountViews ==
  "raced" \notin odd =>
    /\ \A d \in Disk, n \in Dir : (at[d] = n) <=> (on[n] = d)
    /\ IsInjective(mountpoint)
    /\ Range(mountpoint) = {n \in Dir : on[n] # NoDisk}

(* The disks are a tree that stands on the root disk, and the directory    *)
(* below each is still there.  No call tests whether a disk it unmounts    *)
(* has other disks inside, and none keeps the root from being unmounted;   *)
(* ufs_rmdir tests for a mounted disk and deletes later (ufs#rd.c:74,      *)
(* ufsfidal.c:111-120); and a directory that lost its contents but not its *)
(* entry, by an error or a stop between the two, can be mounted on.        *)
Rooted ==
  odd = {} =>
    LET guests   == {d \in Opened : at[d] \notin {NoDir, fsroot}}
        below(d) == DiskOf[at[d]]
    IN  /\ \A d \in guests : at[d] \notin removed /\ at[below(d)] # NoDir
        /\ \A ring \in (SUBSET guests) \ {{}} : \E d \in ring : below(d) \notin ring

=============================================================================
