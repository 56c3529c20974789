------------------------------ MODULE UfsSync -------------------------------
(***************************************************************************)
(* The super block and the boot block of each disk dataset, from           *)
(* ufs_disk_open (UFSDKOPN, UFSDKRSB) to ufs_disk_close (UFSDKCLS): saved  *)
(* by ufs_disk_write_super (UFSDKWSB, UFSDKWBT), which ufs_sync (UFS#SYNC),*)
(* the scan for free inodes (UFSINFUP) and the close call, and the order   *)
(* in which they and the pagers write when the system stops (UFSSYTRM).    *)
(*                                                                         *)
(* Of a super block the model has a number of changes, the list block it   *)
(* links to and the two times of the disk, as one.  The list block goes    *)
(* through the pager, the other two do not.  A disk stays locked while it  *)
(* is saved; each block is written in a step of its own, may fail, and the *)
(* machine may stop between any two steps.                                 *)
(***************************************************************************)
EXTENDS Integers, SequencesExt

CONSTANTS
  Disk,       \* the disk datasets
  ReadOnly,   \* those allocated DISP=SHR: disk->readonly
  OldFormat,  \* those without a boot extension: UFS_DISK_BOOT_0
  FaultAt     \* writes that can fail: subset of {"super", "boot", "block"}

VARIABLES
  data,       \* the dataset of each disk
  mem,        \* disk->sb, disk->boote, and the list block the pager has
  modified,   \* disk->sb.modified
  open,       \* the disks, in the order they were opened: sys->disks
  paged,      \* those with a pager, in the same order: sys->pagers
  saving,     \* of a locked disk: who saves it and what is written next
  phase,      \* "down", "up", and the loops of ufs_sys_term: "flush", "close"
  todo,       \* the disks that the loop of ufs_sync has left
  (* auxiliary *)
  failed,     \* writes of each disk that failed and were not repeated
  broken      \* disks that lost the list block their super block links to

syncVars == <<data, mem, modified, open, paged, saving, phase, todo, failed, broken>>

NoSave == [by |-> "none", next |-> "none"]

(* link: the change that made the list block the super block links to.     *)
Dataset(d) ==
  [sb    |-> [rev |-> 0, link |-> 0, made |-> IF d \in OldFormat THEN "time" ELSE "zero"],
   boot  |-> [version |-> IF d \in OldFormat THEN 0 ELSE 1,
              made |-> IF d \in OldFormat THEN "zero" ELSE "time"],
   block |-> 0]

Closed ==
  /\ mem = data
  /\ modified = [d \in Disk |-> FALSE]
  /\ open = << >> /\ paged = << >>
  /\ saving = [d \in Disk |-> NoSave]
  /\ phase = "down" /\ todo = << >>
  /\ failed = [d \in Disk |-> {}]

SyncInit ==
  /\ data = [d \in Disk |-> Dataset(d)]
  /\ Closed
  /\ broken = {}

Unlocked(d) == saving[d] = NoSave
Paged == ToSet(paged)

(* Of a dataset: the super block links to a list block that is not there.  *)
Dangling(i) == i.sb.link > i.block

-----------------------------------------------------------------------------
(* Open *)

(* An old disk gets a boot extension, in storage.  The times are taken     *)
(* from the super block, where they become zero (ufsdkopn.c:135-140),       *)
(* which doc/changelog.md:6-8 says they do not.                            *)
Opened(i) ==
  IF i.boot.version > 0 THEN i
  ELSE [i EXCEPT !.boot = [version |-> 1, made |-> i.sb.made], !.sb.made = "zero"]

(* The disk loop of ufs_sys_new. *)
OpenDisks(disks, pagers) ==
  /\ phase = "down" /\ phase' = "up"
  /\ open' = disks /\ paged' = pagers
  /\ mem' = [d \in Disk |-> IF d \in ToSet(disks) THEN Opened(data[d]) ELSE data[d]]
  /\ modified' = [d \in Disk |-> d \in ToSet(disks) /\ data[d].boot.version = 0]
  /\ failed' = [d \in Disk |-> {}]
  /\ UNCHANGED <<data, saving, todo, broken>>

-----------------------------------------------------------------------------
(* What changes a disk *)

Changing(d) == phase = "up" /\ d \in ToSet(open) \ ReadOnly /\ Unlocked(d)

(* A change of the free lists in the super block.                          *)
Change(d) ==
  /\ Changing(d)
  /\ mem' = [mem EXCEPT ![d].sb.rev = @ + 1]
  /\ modified' = [modified EXCEPT ![d] = TRUE]
  /\ UNCHANGED <<data, open, paged, saving, phase, todo, failed, broken>>

(* One that makes a list block.  The pager may defer the write of it.      *)
Spill(d) ==
  LET rev == mem[d].sb.rev + 1 IN
  /\ Changing(d)
  /\ mem' = [mem EXCEPT ![d].sb.rev = rev, ![d].sb.link = rev, ![d].block = rev]
  /\ \/ d \in Paged /\ UNCHANGED data
     \/ data' = [data EXCEPT ![d].block = rev]
  /\ modified' = [modified EXCEPT ![d] = TRUE]
  /\ UNCHANGED <<open, paged, saving, phase, todo, failed, broken>>

(* The pager takes the page of the list block for another block.           *)
Evict(d) ==
  /\ phase = "up" /\ d \in Paged /\ data[d].block # mem[d].block
  /\ data' = [data EXCEPT ![d].block = mem[d].block]
  /\ failed' = [failed EXCEPT ![d] = @ \ {"block"}]
  /\ UNCHANGED <<mem, modified, open, paged, saving, phase, todo, broken>>

-----------------------------------------------------------------------------
(* ufs_disk_write_super *)

Save(d, by, next) == saving' = [saving EXCEPT ![d] = [by |-> by, next |-> next]]

(* Where the caller goes on. *)
SaveDone(d) ==
  IF saving[d].by = "sync" THEN Save(d, "sync", "flush")
  ELSE IF saving[d].by = "close" THEN Save(d, "close", "close")
  ELSE saving' = [saving EXCEPT ![d] = NoSave]

(* Faulty variant: the scan does not set the flag again.                   *)
SaveFailsUnmarked(d, what) ==
  /\ failed' = [failed EXCEPT ![d] = @ \cup {what}]
  /\ SaveDone(d) /\ UNCHANGED modified

(* The flag after an error: the scan sets it, ufs_sync leaves it alone.    *)
SaveFails(d, what) ==
  /\ modified' = [modified EXCEPT ![d] = @ \/ saving[d].by = "scan"]
  /\ failed' = [failed EXCEPT ![d] = @ \cup {what}]
  /\ SaveDone(d)

(* Block 1.  The copy that was written replaces disk->sb, with modified    *)
(* reset, whatever becomes of the boot block.                              *)
WriteSuper(d) ==
  /\ saving[d].next = "super"
  /\ \/ /\ d \notin ReadOnly
        /\ data' = [data EXCEPT ![d].sb = mem[d].sb]
        /\ modified' = [modified EXCEPT ![d] = FALSE]
        /\ failed' = [failed EXCEPT ![d] = @ \ {"super"}]
        /\ Save(d, saving[d].by, "boot")
     \/ /\ "super" \in FaultAt \/ d \in ReadOnly
        /\ SaveFails(d, "super") /\ UNCHANGED data
  /\ UNCHANGED <<mem, open, paged, phase, todo, broken>>

(* Block 0.  An old disk now has its time in neither block until this is   *)
(* written.                                                                *)
WriteBoot(d) ==
  /\ saving[d].next = "boot"
  /\ \/ /\ data' = [data EXCEPT ![d].boot = mem[d].boot]
        /\ failed' = [failed EXCEPT ![d] = @ \ {"boot"}]
        /\ SaveDone(d) /\ UNCHANGED modified
     \/ /\ "boot" \in FaultAt
        /\ SaveFails(d, "boot") /\ UNCHANGED data
  /\ UNCHANGED <<mem, open, paged, phase, todo, broken>>

-----------------------------------------------------------------------------
(* ufs_sync, and the save at the end of a scan *)

(* The scan resets the flag before it saves the super block.               *)
ScanSave(d) ==
  /\ Changing(d) /\ modified[d]
  /\ modified' = [modified EXCEPT ![d] = FALSE]
  /\ Save(d, "scan", "super")
  /\ UNCHANGED <<data, mem, open, paged, phase, todo, failed, broken>>

SyncAll ==
  /\ phase = "up" /\ todo = << >>
  /\ todo' = paged
  /\ UNCHANGED <<data, mem, modified, open, paged, saving, phase, failed, broken>>

SyncDisk ==
  /\ phase = "up" /\ todo # << >>
  /\ LET d == Head(todo) IN
       Unlocked(d) /\ Save(d, "sync", IF modified[d] THEN "super" ELSE "flush")
  /\ UNCHANGED <<data, mem, modified, open, paged, phase, todo, failed, broken>>

(* The list block is written, or is deferred still.                        *)
FlushBlock(d) ==
  \/ /\ data' = [data EXCEPT ![d].block = mem[d].block]
     /\ failed' = [failed EXCEPT ![d] = @ \ {"block"}]
  \/ /\ "block" \in FaultAt /\ data[d].block # mem[d].block
     /\ failed' = [failed EXCEPT ![d] = @ \cup {"block"}]
     /\ UNCHANGED data

(* Faulty variant: the pager is not flushed.                               *)
SyncFlushNot ==
  /\ phase = "up" /\ todo # << >> /\ saving[Head(todo)] = [by |-> "sync", next |-> "flush"]
  /\ saving' = [saving EXCEPT ![Head(todo)] = NoSave]
  /\ todo' = Tail(todo)
  /\ UNCHANGED <<data, mem, modified, open, paged, phase, failed, broken>>

SyncFlush ==
  /\ phase = "up" /\ todo # << >> /\ saving[Head(todo)] = [by |-> "sync", next |-> "flush"]
  /\ FlushBlock(Head(todo))
  /\ saving' = [saving EXCEPT ![Head(todo)] = NoSave]
  /\ todo' = Tail(todo)
  /\ UNCHANGED <<mem, modified, open, paged, phase, broken>>

-----------------------------------------------------------------------------
(* ufs_sys_term *)

(* The pager has the list block still.                                     *)
MayDangle(d) == Dangling(data[d]) /\ d \in Paged /\ mem[d].block > data[d].block

BeginStop ==
  /\ phase = "up" /\ todo = << >> /\ \A d \in Disk : Unlocked(d)
  /\ phase' = "flush"
  /\ UNCHANGED <<data, mem, modified, open, paged, saving, todo, failed, broken>>

(* Faulty variant: the pagers are freed with what they have deferred.      *)
StopFlushNot ==
  /\ phase = "flush" /\ paged # << >>
  /\ paged' = Front(paged)
  /\ UNCHANGED <<data, mem, modified, open, saving, phase, todo, failed, broken>>

(* The pagers first.  One that could not write a page is freed as well.    *)
StopFlush ==
  /\ phase = "flush" /\ paged # << >>
  /\ FlushBlock(Last(paged))
  /\ paged' = Front(paged)
  /\ broken' = broken \cup IF "block" \in failed'[Last(paged)] THEN {Last(paged)} ELSE {}
  /\ UNCHANGED <<mem, modified, open, saving, phase, todo>>

StopFlushed ==
  /\ phase = "flush" /\ paged = << >>
  /\ phase' = "close"
  /\ UNCHANGED <<data, mem, modified, open, paged, saving, todo, failed, broken>>

(* ufs_disk_close, from the last disk to the first.                        *)
CloseDisk ==
  /\ phase = "close" /\ open # << >> /\ Unlocked(Last(open))
  /\ Save(Last(open), "close", IF modified[Last(open)] THEN "super" ELSE "close")
  /\ UNCHANGED <<data, mem, modified, open, paged, phase, todo, failed, broken>>

CloseDone ==
  /\ phase = "close" /\ open # << >> /\ saving[Last(open)].next = "close"
  /\ saving' = [saving EXCEPT ![Last(open)] = NoSave]
  /\ open' = Front(open)
  /\ UNCHANGED <<data, mem, modified, paged, phase, todo, failed, broken>>

(* Storage is gone, and with it what should still have been written.       *)
StorageGone ==
  /\ mem' = data /\ modified' = [d \in Disk |-> FALSE]
  /\ open' = << >> /\ paged' = << >>
  /\ saving' = [d \in Disk |-> NoSave]
  /\ phase' = "down" /\ todo' = << >>
  /\ failed' = [d \in Disk |-> {}]
  /\ broken' = broken \cup {d \in Disk : MayDangle(d)}
  /\ UNCHANGED data

Stopped == phase = "close" /\ open = << >> /\ StorageGone

(* The machine stops. *)
Crash == phase # "down" /\ StorageGone

SaveStep ==
  \/ \E d \in Disk : WriteSuper(d) \/ WriteBoot(d) \/ Evict(d)
  \/ SyncDisk \/ SyncFlush
  \/ StopFlush \/ StopFlushed \/ CloseDisk \/ CloseDone

-----------------------------------------------------------------------------
(* Properties *)

(* While a disk is open and nobody saves it, what storage has and the      *)
(* dataset has not is going to be written: the super block is marked, and  *)
(* the list block is with the pager.  ufs_sync leaves the flag alone after *)
(* an error and the scan, which reset it, sets it again (ufs#sync.c:36-41, *)
(* ufsinfup.c:82-92); only an error of the boot block, which comes after   *)
(* the flag is reset (ufsdkwsb.c:39), is forgotten by ufs_sync.            *)
UnsavedMarked ==
  phase = "up" =>
    \A d \in ToSet(open) : Unlocked(d) =>
      /\ data[d].sb # mem[d].sb => modified[d]
      /\ data[d].boot # mem[d].boot => modified[d] \/ "boot" \in failed[d]
      /\ data[d].block # mem[d].block => d \in Paged

(* When ufs_sync goes on to the next disk, or a disk is closed, the        *)
(* dataset has each block that storage has, unless the write of that block *)
(* failed and was not repeated since; an error of the super block skips    *)
(* the boot block too (ufsdkwsb.c:35-44).                                  *)
Saved ==
  [][\A d \in Disk :
       /\ saving[d].next \in {"flush", "close"} /\ saving'[d] = NoSave
       /\ phase' \in {"up", "close"}
       => /\ "super" \notin failed'[d] => data'[d].sb = mem'[d].sb
          /\ {"super", "boot"} \cap failed'[d] = {} => data'[d].boot = mem'[d].boot
          /\ "block" \notin failed'[d] => data'[d].block = mem'[d].block]_syncVars

(* A super block on a dataset never links to a list block that nobody is   *)
(* going to write: the pager has it still.  ufs_sync and the scan write    *)
(* the super block first (ufs#sync.c:36, ufsinfup.c:84), so the machine    *)
(* must not stop before the next flush, nor may the flush at the stop      *)
(* fail.                                                                   *)
LinkedSaved ==
  \A d \in Disk : Dangling(data[d]) => MayDangle(d) \/ d \in broken

=============================================================================
