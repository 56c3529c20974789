---------------------------- MODULE UfsFreeInode ----------------------------
(***************************************************************************)
(* The free inodes of a UFS disk: ufs_inode_allocate (UFSINALC),           *)
(* ufs_inode_deallocate (UFSINDAL), ufs_freeinode_update (UFSINFUP) and    *)
(* ufs_inode_number_sanity (UFSINSAN), under their only caller,            *)
(* ufs_file_allocate (UFSFIALC).                                           *)
(*                                                                         *)
(* An inode is free when its mode on the disk is zero.  The super block    *)
(* caches the numbers of some free inodes and counts all of them.  When    *)
(* the cache is empty the inode list is scanned for more.  A task that     *)
(* popped a number writes the mode later: until then the disk says the     *)
(* inode is free.                                                          *)
(*                                                                         *)
(* ufs_inode_allocate holds the disk lock from end to end, and so does the *)
(* read and write of a block of inodes, so each is one step.               *)
(***************************************************************************)
EXTENDS Integers, FiniteSets

CONSTANTS
  Thread,      \* MVS tasks that create files
  PerBlock,    \* inodes_per_block
  Sectors,     \* blocks of the inode list
  MaxFree,     \* UFS_MAX_FREEINODE (64)
  Word,        \* 2^32
  Formatted,   \* inodes in use on the volume as it was mounted
  FaultAt      \* the places where an I/O or a request for storage may fail

RootInode == 2
MaxInode  == PerBlock * Sectors
Inode     == 1 .. MaxInode
Sector    == 1 .. Sectors
Slot      == 0 .. MaxFree - 1
Number    == 0 .. Word - 1

(* "scan": the read of a block in the scan.  "storage": a buffer for it.   *)
(* "super": the write of the super block.  "get": ufs_inode_get.           *)
(* "file": anything in ufs_file_allocate that makes it give up.            *)
(* "writeback": the write of the finished inode.                           *)
FaultPlace == {"scan", "storage", "super", "get", "file", "writeback"}

ASSUME InodeAssumption ==
  /\ PerBlock \in Nat /\ Sectors \in Nat /\ MaxInode >= RootInode
  /\ MaxFree \in Nat /\ MaxFree >= 1
  /\ Word \in Nat /\ MaxInode < Word /\ MaxFree < Word
  /\ {1, RootInode} \subseteq Formatted /\ Formatted \subseteq Inode
  /\ FaultAt \subseteq FaultPlace

VARIABLES
  allocated,  \* inodes whose mode on the disk is not zero
  sb,         \* in-core super block: [nfreeinode, freeinode]
  total,      \* sb->total_freeinode
  modified,   \* sb->modified
  saved,      \* the list and the total in the super block of the dataset
  pc,         \* where each task is in ufs_file_allocate
  ino,        \* its local variable *ino, 0 when it has no meaning
  (* auxiliary *)
  taken,      \* inodes that a finished or abandoned create has left in use
  outside     \* "raced": a scan found the inode of a create under way;
              \* "unwritten": the mode of a file's inode was not written

vars == <<allocated, sb, total, modified, saved, pc, ino, taken, outside>>

Cache == [nfreeinode : Number, freeinode : [Slot -> Number]]

Entries(list) == {list.freeinode[i] : i \in 0 .. list.nfreeinode - 1}

Init ==
  /\ allocated = Formatted
  /\ sb \in [nfreeinode : 0 .. MaxFree, freeinode : [Slot -> {0} \cup Inode]]
  /\ \A i \in Slot : sb.freeinode[i] = 0 <=> i >= sb.nfreeinode
  /\ \A i, j \in 0 .. sb.nfreeinode - 1 : sb.freeinode[i] = sb.freeinode[j] => i = j
  /\ Entries(sb) \cap Formatted = {}
  /\ total = Cardinality(Inode \ Formatted)
  /\ modified = FALSE
  /\ saved = <<sb, total>>
  /\ pc = [t \in Thread |-> "idle"]
  /\ ino = [t \in Thread |-> 0]
  /\ taken = Formatted
  /\ outside = {}

-----------------------------------------------------------------------------
(* ufs_freeinode_update, called with an empty cache                        *)

SectorOf(n) == (n - 1) \div PerBlock + 1

(* The inodes a scan of these blocks finds.                                *)
Found(read) == {n \in Inode : n \notin allocated /\ SectorOf(n) \in read}

(* Faulty variant: the count of the cache is one too high.                 *)
FilledOver(read) ==
  LET found == Found(read)
      k == IF Cardinality(found) < MaxFree THEN Cardinality(found) + 1 ELSE MaxFree
  IN  [nfreeinode |-> k,
       freeinode  |-> [i \in Slot |->
         IF i < Cardinality(found)
         THEN CHOOSE n \in found : Cardinality({m \in found : m < n}) = i
         ELSE sb.freeinode[i]]]

(* The cache after it: the first MaxFree of them.                          *)
Filled(read) ==
  LET found == Found(read)
      k == IF Cardinality(found) < MaxFree THEN Cardinality(found) ELSE MaxFree
  IN  [nfreeinode |-> k,
       freeinode  |-> [i \in Slot |->
         IF i < k THEN CHOOSE n \in found : Cardinality({m \in found : m < n}) = i
                  ELSE sb.freeinode[i]]]

Creating == {t \in Thread : pc[t] # "idle"}

(* Until its mode is written an inode looks free; while it is given back   *)
(* it does so again.                                                       *)
Scanned(read) ==
  outside' = outside \cup
    (IF Found(read) \cap {ino[t] : t \in Creating} # {} THEN {"raced"} ELSE {})

(* A block whose read fails is skipped.                                    *)
Reads == IF "scan" \in FaultAt THEN SUBSET Sector ELSE {Sector}

(* The super block is written if it was modified, by the scan or before.   *)
ToWrite(read) == modified \/ Found(read) # {}

(* There is no buffer for one of the blocks, which ends the scan, or the   *)
(* write of the super block (or of the boot block behind it) fails.        *)
AllocRefillFails(t) ==
  /\ pc[t] = "idle"
  /\ total # 0
  /\ sb.nfreeinode = 0
  /\ \E read \in Reads, done \in 0 .. Sectors :
        LET got == read \cap 1 .. done IN
        /\ done < Sectors => "storage" \in FaultAt
        /\ sb' = Filled(got)
        /\ Scanned(got)
        /\ \/ /\ done < Sectors
              /\ modified' = FALSE
              /\ saved' = IF ToWrite(got) THEN <<sb', total>> ELSE saved
           \/ /\ "super" \in FaultAt
              /\ ToWrite(got)
              /\ modified' = TRUE
              /\ saved' \in {saved, <<sb', total>>}
  /\ UNCHANGED <<allocated, total, pc, ino, taken>>

(* The list to pop from, and the dataset's super block, after a refill     *)
(* that was not needed, or that succeeded.                                 *)
Refreshed(list) ==
  IF sb.nfreeinode > 0
  THEN list = sb /\ UNCHANGED <<saved, outside>>
  ELSE \E read \in Reads :
         /\ list = Filled(read)
         /\ saved' = IF ToWrite(read) THEN <<list, total>> ELSE saved
         /\ Scanned(read)

-----------------------------------------------------------------------------
(* ufs_inode_allocate, called by ufs_file_allocate                         *)

AllocExhausted(t) ==
  /\ pc[t] = "idle"
  /\ total = 0
  /\ UNCHANGED vars

(* ufs_inode_number_sanity returns zero *)
Sane(n) == n >= RootInode /\ n < MaxInode

(* sb->freeinode[--sb->nfreeinode]; past the array it is whatever storage  *)
(* holds.                                                                  *)
PrevCount(list) == IF list.nfreeinode = 0 THEN Word - 1 ELSE list.nfreeinode - 1

EntryAt(list) ==
  IF PrevCount(list) < MaxFree THEN {list.freeinode[PrevCount(list)]} ELSE Number

(* The number leaves the cache, which was filled first if it was empty.    *)
Take(n) ==
  \E list \in {sb} \cup {Filled(read) : read \in Reads} :
     /\ Refreshed(list)
     /\ n \in EntryAt(list)
     /\ sb' = [list EXCEPT !.nfreeinode = PrevCount(list)]

(* Faulty variants: the total is not tested; not counted down; the super   *)
(* block is not marked.                                                    *)
PopUntested(n)  == Take(n) /\ total' = total - 1 /\ modified' = TRUE
PopUncounted(n) == total # 0 /\ Take(n) /\ total' = total /\ modified' = TRUE
PopUnmarked(n)  == total # 0 /\ Take(n) /\ total' = total - 1 /\ UNCHANGED modified

Pop(n) ==
  /\ total # 0
  /\ Take(n)
  /\ total' = total - 1
  /\ modified' = TRUE

AllocInode(t, n) ==
  /\ pc[t] = "idle"
  /\ Pop(n)
  /\ Sane(n)
  /\ pc' = [pc EXCEPT ![t] = "new"]
  /\ ino' = [ino EXCEPT ![t] = n]
  /\ UNCHANGED <<allocated, taken>>

(* The number that was popped is refused; it is not pushed back.           *)
AllocRefused(t, n) ==
  /\ pc[t] = "idle"
  /\ Pop(n)
  /\ ~Sane(n)
  /\ UNCHANGED <<allocated, pc, ino, taken>>

-----------------------------------------------------------------------------
(* ufs_file_allocate, once it has a number                                 *)

Leave(t) ==
  /\ pc' = [pc EXCEPT ![t] = "idle"]
  /\ ino' = [ino EXCEPT ![t] = 0]

(* ENOMEM: the inode is forgotten, its mode on the disk is still zero.     *)
GetFails(t) ==
  /\ pc[t] = "new"
  /\ "get" \in FaultAt
  /\ Leave(t)
  /\ UNCHANGED <<allocated, sb, total, modified, saved, taken, outside>>

(* A new directory is expanded, which writes its inode for the first time. *)
ExpandDirectory(t) ==
  /\ pc[t] = "new"
  /\ allocated' = allocated \cup {ino[t]}
  /\ pc' = [pc EXCEPT ![t] = "written"]
  /\ UNCHANGED <<sb, total, modified, saved, ino, taken, outside>>

(* No buffer for the entries of a new directory, or no write of them.      *)
AbandonDirectory(t) ==
  /\ pc[t] = "written"
  /\ "file" \in FaultAt
  /\ taken' = taken \cup {ino[t]}
  /\ Leave(t)
  /\ UNCHANGED <<allocated, sb, total, modified, saved, outside>>

(* The inode is complete.  The result of ufs_inode_writeback is ignored.   *)
WriteInode(t) ==
  /\ pc[t] \in {"new", "written"}
  /\ \/ allocated' = allocated \cup {ino[t]} /\ UNCHANGED outside
     \/ /\ "writeback" \in FaultAt
        /\ outside' = outside \cup (IF ino[t] \in allocated THEN {} ELSE {"unwritten"})
        /\ UNCHANGED allocated
  /\ taken' = taken \cup {ino[t]}
  /\ Leave(t)
  /\ UNCHANGED <<sb, total, modified, saved>>

(* A type that cannot be created, no block for a directory, or no read of  *)
(* it: ufs_inode_deallocate clears the inode and writes it back ...        *)
DeallocClear(t) ==
  /\ pc[t] \in {"new", "written"}
  /\ "file" \in FaultAt
  /\ allocated' = allocated \ {ino[t]}
  /\ pc' = [pc EXCEPT ![t] = "cleared"]
  /\ UNCHANGED <<sb, total, modified, saved, ino, taken, outside>>

Pushed(n) ==
  IF sb.nfreeinode < MaxFree
  THEN [nfreeinode |-> sb.nfreeinode + 1,
        freeinode  |-> [sb.freeinode EXCEPT ![sb.nfreeinode] = n]]
  ELSE sb

(* ... and takes the disk lock again to push its number.                   *)
DeallocPush(t) ==
  /\ pc[t] = "cleared"
  /\ sb' = Pushed(ino[t])
  /\ total' = total + 1
  /\ modified' = TRUE
  /\ Leave(t)
  /\ UNCHANGED <<allocated, saved, taken, outside>>

(* ufs_sync writes the super block under the disk lock.                    *)
SaveSuper ==
  /\ modified
  /\ modified' = FALSE
  /\ saved' = <<sb, total>>
  /\ UNCHANGED <<allocated, sb, total, pc, ino, taken, outside>>

FileStep(t) ==
  \/ AllocExhausted(t)
  \/ AllocRefillFails(t)
  \/ \E n \in Number : AllocInode(t, n) \/ AllocRefused(t, n)
  \/ GetFails(t)
  \/ ExpandDirectory(t)
  \/ AbandonDirectory(t)
  \/ WriteInode(t)
  \/ DeallocClear(t)
  \/ DeallocPush(t)

Next == SaveSuper \/ \E t \in Thread : FileStep(t)

Spec == Init /\ [][Next]_vars

-----------------------------------------------------------------------------
(* Properties *)

TypeOK ==
  /\ allocated \subseteq Inode
  /\ sb \in Cache
  /\ total \in Nat
  /\ modified \in BOOLEAN
  /\ saved \in Cache \X Nat
  /\ pc \in [Thread -> {"idle", "new", "written", "cleared"}]
  /\ ino \in [Thread -> Number]
  /\ taken \subseteq Inode
  /\ outside \subseteq {"raced", "unwritten"}

(* What could be allocated if every create under way gave up.              *)
Reclaimable == (Inode \ allocated) \cup {ino[t] : t \in {u \in Thread : pc[u] = "written"}}

(* sb->total_freeinode never promises more inodes than there are: when it  *)
(* is not zero and the cache is empty, the scan of ufs_freeinode_update    *)
(* finds an inode, and ufs_inode_allocate does not decrement an empty      *)
(* cache.  It holds for tasks that create at the same time and whatever    *)
(* creates give up, even when two of them have popped the same inode.      *)
TotalBacked == total + Cardinality(Creating) <= Cardinality(Reclaimable)

(* The super block of the dataset has every change of the list that is not *)
(* marked: each path of the scan that clears sb->modified has written it.  *)
SavedOrMarked == modified \/ saved = <<sb, total>>

(* A number in the cache is neither in use nor on its way into a file, an  *)
(* inode that is being created belongs to one task and to no file, and is  *)
(* in the cache at no more than one place, whatever creates give up and in *)
(* whatever order two tasks take and give back.  (A scan does take the     *)
(* inode of another task's create for free, and one that was not written.) *)
Exclusive ==
  outside = {} =>
    /\ Entries(sb) \cap (taken \cup {ino[t] : t \in Creating}) = {}
    /\ \A t \in Creating : ino[t] \notin taken
    /\ \A t, u \in Creating : ino[t] = ino[u] => t = u
    /\ \A i, j \in 0 .. sb.nfreeinode - 1 : sb.freeinode[i] = sb.freeinode[j] => i = j

=============================================================================
