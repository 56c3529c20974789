# ufs370 in TLA+

ufs370 is a Unix file system (a descendant of V7 by way of NetBSD's v7fs) that
runs in an MVS address space.  A disk is a BDAM dataset of 4096 byte blocks:
boot block, super block, inode list, data blocks.  The tasks of the address
space call it as a library and share its storage; they serialise with
`lock(address, shared)`, which a task may take again while it holds it (return
code 8), and with the reader/writer lock of the pager.

This directory models that program.  File names such as `ufsdaalc.c` are in
`src/` of the repository, headers in `include/ufs/`.

## 1. Inventory

| Component | State | Operations | Correct when |
|---|---|---|---|
| Disk dataset I/O (`ufsdk*.c`) | `UFSDISK`: DCB, block size, readonly, in-core super block, boot block | open, close, read, write, read/write super, check super | a super block that was checked and written is read back; nothing is written to a readonly disk |
| Pager (`ufspg*.c`) | `UFSPAGER`: array of pages (block, contents, dirty, used, lru) | read, write, flush, free | reads return the last write; a deferred write is lost by nothing but a crash |
| Virtual disk, I/O vector (`ufsvd*.c`, `ufsio*.c`) | pointers, readonly | forward to the pager | |
| Free block list (`ufsdaalc/dadal/dafup/dasan.c`) | super block cache of 51 numbers, totals, list blocks on the disk | allocate, deallocate, refill, spill | a block is free or used, never both, and a freed block can be allocated again |
| Free inodes (`ufsinalc/indal/infup/insan.c`) | super block cache of 64 numbers, total | allocate, deallocate, scan the inode list | an inode is never allocated twice |
| Inode cache (`ufsinget/inuse/inrel/inlod/inwbk.c`) | `vdisk->minodes`: in-core inodes with a use count | get, use, release, load, write back | an inode in use is not freed; a released one is |
| Access (`ufsinacc.c`) | none | permission of a user | owner, group, other, superuser |
| File block map (`ufsdaadr/daexp/dacon/...c`) | 16 direct addresses, three indirections | look up, expand, contract | each index below the size has a block of its own |
| Directories (`ufsdir*.c`, `ufsfilb*.c`) | 64 byte entries in the data of an inode | add, remove, replace, look up | one entry for each name; no entry without an inode |
| Files in directories (`ufsfialc/fidal/filnk/fisym/firen.c`) | links counts | create, delete, link, rename | link counts agree with the entries |
| File handles (`ufsf*.c`, `ufs#f*.c`) | `UFSFILE`: inode, position, block buffer, flags | open, read, write, seek, sync, close | the bytes read are the bytes written |
| Name space (`ufs#lkup/lmin/cd/md/rd/rem/dopn.c`) | current directory of a handle | resolve a path, change, make, remove, list | every inode returned is counted |
| Mount table (`ufsmount.c`, `ufsun*.c`, `ufsfstab.c`) | `sys->mountpoint`, `minode.mounted_vdisk`, `vdisk.mounted_minode` | mount, unmount, read fstab | the three agree |
| System (`ufssy*.c`, `ufs#sync.c`) | `UFSSYS`: disks, vdisks, pagers | start, stop, sync | after a sync the disk is what the tasks see; what a disk lacks is marked to be written |
| Sign on, name table, device table, time, dumps | | | not modelled, see section 7 |

How they interact.  A call of the name space or of a handle works on cached
inodes and reads and writes blocks through the I/O vector of the virtual disk,
which goes to the pager and from there to the dataset.  The block map asks the
free block list for blocks; creation asks the free inodes for an inode; both
change the super block in storage and mark it, and `ufs_sync` or the end of the
system writes it.  List blocks and inodes go through the pager, the super block
goes straight to the dataset.  Locks are taken in the order system, virtual
disk, inode or disk, pager and page.

What is hard here: the free list is spread over the super block, its cache and
blocks that a moment ago held user data; every I/O can fail half way through an
operation and most operations have no way back; the pager reorders writes; the
machine may stop between any two of them; a lock is released before the work it
protected is on the disk; use counts of inodes are kept by hand along every
error path; a call of the name space tests access and kind in one lookup and
makes its change after another; the mount table is kept in three places, and not
every call that changes or reads it takes the lock of the system handle.

## 2. Plan

Modules in the order they were written, the most important behaviour first.
All of them are there, with their runs and their proofs.

1. `UfsFreeBlock`, implements `FreeSpace`; proofs in `UfsFreeBlockProofs`.
2. `UfsPager`, implements `BlockDevice`; proofs in `UfsPagerProofs`.
3. `UfsFreeInode`: tasks that allocate, write back and free inodes while the
   scan of `ufs_freeinode_update` runs; proofs in `UfsFreeInodeProofs`.
4. `UfsInodeRef`: the inode cache with its use counts, under lookup, cd, list,
   rmdir, remove and open; proofs in `UfsInodeRefProofs`.
5. `UfsFileMap`: the blocks of a file under expansion and contraction; proofs in
   `UfsFileMapProofs`.
6. `UfsFileIO`, over `UfsFileMap`: the calls on handles; implements `ByteFile`.
7. `UfsNames`: entries, links, creation, deletion and rename by several
   sessions, with access rights and both lookups; implements `NameTree`; proofs
   in `UfsNamesProofs`.
8. `UfsMount`: the mount table and the calls that change it; lemmas in
   `UfsSystemProofs`.
9. `UfsSync`: the super block, boot block and list block of each disk, with a
   crash between any two writes.
10. `UfsSystem` composes 8 and 9 from start to stop; theorems about both in
    `UfsSystemProofs`.

`FoldProofs` has what the proofs of 5, 7 and 8 need of folds over sequences and of
functions on numbers that are defined step by step.

Theorems worth proving next: `LostByFailure` of `UfsFileMap`, for which the lemmas
of `UfsFileMapProofs` would have to account for the blocks that are given back, and
on their ground `DirtyInFile` and `MapIntact` of `UfsFileIO`.

## 3. Modules

### `FreeSpace` and `UfsFreeBlock`

`FreeSpace` is what the allocator promises: a block is available, reserved by a
call, used or dropped, and only moves along those.

`UfsFreeBlock` is the code.  `sb` holds `nfreeblock` and `freeblock[]` of the
super block, `total` and `modified` its other fields, `disk` the contents of
the data blocks read as `struct ufs_freeblock`.  For each task `pc`, `blk` and
`error` are the position in `ufs_datablock_allocate` and its locals.  `inuse`
is what callers hold; `chain` (the list blocks, bottom first) and `lost` are
auxiliary: no guard reads them.

| Action | Code |
|---|---|
| `AllocLock` | `lock(vdisk->disk)` |
| `AllocExhausted` | the test of `total_freeblock`, ENOSPC |
| `AllocPopSpare`, `AllocPopLink`, `AllocRefillFails` | one iteration of the loop: the pop, the refill and its failure, the sanity test (`PopDone`) |
| `AllocZero`, `AllocZeroFails` | after the lock is released: read, clear and write the block |
| `DeallocPush`, `DeallocSpill`, `DeallocSpillFails` | the three ways through `ufs_datablock_deallocate`, one critical section each |
| `WriteData` | the owner of a block writes into it, anything in `Payload`, lists of its own making included |
| `SaveSuper` | `ufs_sync` clears `modified` |

One iteration of the loop is one step because it runs under the disk lock and
everything that touches the same fields takes that lock.  Unsigned arithmetic
is kept: `--nfreeblock` of zero is `Word - 1`, and reading past the array
(`EntryAt`) or copying a count that is too large (`Refilled`) gives any number.

The formatter is not in the repository.  `FormatAssumption` says what the code
needs of it: a chain of list blocks that ends in block number 0, which the
sanity check refuses.

### `BlockDevice` and `UfsPager`

`BlockDevice` is what the pager promises: memory in front of a stable store.  A
read returns the last write, a write reaches the store at once or later, and
`Lose` (only where writes can fail or the machine can stop) falls back to the
store as a whole.

`UfsPager` is the code.  `pages` is the array of pages, `disk` the dataset,
`op` the operation that holds the pager lock: idle, filling a page that was
chosen (`page`, `block`, and what to put there), or flushing at page `n`.
Operations are split where the machine may stop or an I/O may fail, at each
disk access; the pager lock hides the steps in between from other tasks.

| Action | Code |
|---|---|
| `ReadHit`, `WriteHit` | block found: copy, count, and on a write mark |
| `ReadMiss`, `WriteMiss`, `WriteMissFails` | the write to the dataset, and `ufs_pager_lru_page` (`LruPage`, `NoPage`) |
| `Evict`, `EvictFails` | the flush of the chosen page if it is dirty |
| `ReadRefill`, `ReadRefillFails`, `WriteRefill` | the read from the dataset, and "reset page with new cache data" |
| `FlushStart`, `FlushPage`, `FlushFails`, `FlushEnd` | the loop of `ufs_pager_flush`; with `free` set, as called by `ufs_pager_free` |
| `Crash` | the address space ends: storage is gone |

Time stamps are kept as ranks (`lru` 1 is the oldest), which is all the code
compares; two pages stamped in the same microsecond are not modelled.

### `UfsFreeInode`

The free inodes under their only caller, `ufs_file_allocate`.  An inode is free
when its mode on the disk is zero, so there are two records of what is free:
the inode list (`allocated` is the set whose mode is not zero) and the super
block, which caches some numbers (`sb`) and counts all (`total`).  `saved` is
what the super block on the dataset says.  `pc` and `ino` are the position of a
task in `ufs_file_allocate` and the number it popped; `taken` is auxiliary, the
inodes that a create has put in use for good.

| Action | Code |
|---|---|
| `AllocExhausted`, `AllocRefillFails` | ENOSPC by the count; a scan that ends without a buffer, or whose write of the super block fails |
| `AllocInode`, `AllocRefused` | the scan when the cache is empty (`Refreshed`, `Filled`), the pop, and the test of `ufs_inode_number_sanity` |
| `GetFails` | `ufs_inode_get` has no storage |
| `ExpandDirectory`, `AbandonDirectory` | the first block of a new directory, which writes the inode; the error returns that leave it so |
| `WriteInode` | `ufs_inode_writeback`, whose result is not looked at |
| `DeallocClear`, `DeallocPush` | the two critical sections of `ufs_inode_deallocate` |
| `SaveSuper` | `ufs_sync` |

`outside` is auxiliary: "raced" when a scan finds the inode of a create that is
under way or whose write back failed.  `ufs_inode_allocate` holds the disk lock from end to end, so it is one step with
everything it calls; `ufs_file_allocate` does not, so a task's steps in it
interleave with other tasks.  Left out: read-only disks, and an I/O error while
`ufs_inode_deallocate` clears the inode on the disk.

### `UfsInodeRef`

The inodes in storage (`cached`, the arrays `vdisk->minodes` of all disks) and
their use counts (`use`) under the calls that hold pointers to them.  A node is
an inode; the tree it hangs in is constant (`Parent`), and `gone` and `unlinked`
say which names were removed and which link counts are zero.  `walk`, `dir`,
`last` and `min` are the local variables of the call of a task, `cwd`, `fp` and
`ddesc` the pointers that stay after it, `todo` what label `quit` releases.
`Locals` lists the pointers a call will still use, at each place in it: it is
what the properties compare with the counts.

| Action | Code |
|---|---|
| `Get`, `Rel`, `Use` (operators) | `ufs_inode_get`, `ufs_inode_rel`, `ufs_inode_use`, one critical section each |
| `Lookup`, `WalkOn`, `WalkMount`, `WalkMounted`, `SaveDir`, `NameFound`, `Child` | `ufs_lookup_minode`, a step for each minode it takes or releases; `WalkFails`, `NameMissing`, `ChildFails` its error exits |
| `Open`, `OpenFails`, `OpenNoBuffer`, `Close` | `ufs_open` with `ufs_file_new`; `ufs_fclose` |
| `CdMount`, `CdMounted`, `CdPlain`, `CdSet`, `CdFails` | `ufs_chgdir` |
| `ListMount`, `ListGet`, `ListUse`, `ListPlain`, `List`, `ListFails`, `ListClose` | `ufs_diropen`, `ufs_dirclose` |
| `Rmdir`, `Remove`, `RmdirFails`, `RemoveFails` | `ufs_rmdir` and `ufs_remove` up to the call of `ufs_file_deallocate` |
| `Find`, `GetVictim`, `Unlink`, `Drop`, `DropTarget` and the `...Fails`, `FindMissing` | `ufs_file_deallocate` with `ufs_directory_remove_entry` |
| `Release`, `Return` | label `quit` |

Left out: names `.` and `..`, files with several names, creation, mount and
unmount while calls run, and `ufs_open` of `/`, which uses the null
`last_minode` before it tests it (`ufs#open.c:37` and 43).  The steps of a list
through the entries of a directory are one.  A release through a pointer to
freed storage is modelled as having no effect; the properties say whether one
happens.

### `UfsFileMap`

The functions on the blocks of a file, as operators on one record: the inode in
storage and as it was written last, the free blocks, the contents of the blocks
as words, the block that cannot be read during the call, and what the function
returned.  `Expand` and `Contract` descend the index levels with a fold, as the
code does with its loop over `ufs_addr_map`; `Resize` is the action, one call of
`ufs_datablock_size_change`.

| Operator | Code |
|---|---|
| `Addr`, `LastBlk`, `Link`, `Undefined` | where the number of a block is kept, and the number; the sizes of the index levels as 32 bit words |
| `ForEach` with `Loop1`, `Loop2`, `Loop3` | the walk over all blocks |
| `Allocate`, `Deallocate` | the free list, as a stack |
| `AddLeaf`, `Expand`, `Unlink`, `RemoveLeaf`, `RemoveSelf`, `Contract` | one block more or less, with the index blocks that takes |

Want of storage for a buffer has the effect of a block that cannot be read.

### `ByteFile` and `UfsFileIO`

`ByteFile` is what the calls on a handle promise: a file is a sequence of bytes,
a handle a position in it.  It says nothing of bytes between the old end of a
file and a position behind it.

`UfsFileIO` is the code, over `UfsFileMap`: the record of an operator has the
fields of `struct ufs_file` too (`pos` is `filepos`, `buf` is `blkbuf`).  There is
one action for each call; a call runs to its end without a step of another task
on the same handle, and two handles on one file share nothing but the inode and
the disk, as in the code.  `outside` collects the uses that the code does not
provide for:

| Use | Where |
|---|---|
| boundary | a seek to a multiple of the block size loads the block before it (`ufs#fsee.c:101`; finding 1) |
| putc | a byte put when the buffer is at its end goes behind the buffer that was loaded (`ufsfputc.c:34`) |
| hole | a seek behind the last block clears the buffer and keeps the number of the old block (`ufs#fsee.c:102-104`) |
| freed | a truncated file keeps the numbers of its blocks in `addr[0]` and in handles (`ufsdacon.c:87`) |
| unsynced | `ufs_file_getc` replaces a changed buffer without writing it (`ufsfgetc.c`) |
| shared | a file is opened that another handle has open |
| io | a block could not be read or written, which `ufs_file_sync` ignores |

### `NameTree` and `UfsNames`

`NameTree` is what the calls promise: a set of links (directory, name, target);
a call adds one, takes one away or moves one, and a link is only added where the
path of the call leads.

`UfsNames` is the code.  `inode` has kind, link count, owner, access rights and
the entries of each inode, `room` the free blocks, `cwd` the current directory of
a session with the inode and the path the code keeps for it, and `call` what a
session has found and not yet done.

| Action | Code |
|---|---|
| `BeginCreate`, `BeginMkdir`, `BeginDelete` | the call up to its change: the lookup (`Lookup` for `ufs_lookup`, `LookupMinode`), the tests of access, kind, read only disk and mount |
| `FinishMake` | `ufs_file_allocate`: new inode, first block of a directory, the entry, with each way to fail (`Allocate`, `AddEntry`) |
| `FinishDelete` | `ufs_file_deallocate`, which looks the name up again (`DeallocateFile`, `RemoveEntry`) |
| `Chgdir` | `ufs_chgdir` |
| `Rename`, `Link` | `ufs_file_rename` with `can_dirmove`, `ufs_file_link`; nothing under `src/` calls these two, so they are called with what a lookup could have found |

A change of a directory is one step, though the code holds no lock from the search
for a slot to the write of the entry (section 6); storage and I/O do not fail; a
name is one character, except that a path longer than `NameMax` is cut as the code cuts it;
the mounts do not change.  `outside` has the uses that break the promise: parent,
removed, cut, twice, below, swapped, onto (section 6).  The formatter is not in the
repository; `FormatAssumption` says what a disk in order is when it is mounted.

### `UfsMount`, `UfsSync` and `UfsSystem`

`UfsMount` keeps the mount table where the code does: `on` is
`minode->mounted_vdisk`, `at` is `vdisk->mounted_minode`, `mountpoint` is
`sys->mountpoint`.  `holder` is who has the lock of the system handle.

| Action | Code |
|---|---|
| `BeginMount`, `FinishMount` | `ufs_mount` up to the lookup of the path, and from its tests on, under the lock |
| `UnmountPath`, `UnmountVdisk`, `FinishUnmount` | the callers of `ufs_unmount_inode` and its tests, without the lock; then the change, under it |
| `UnmountDdname`, `UnmountAll` | one step each, under the lock |
| `BeginRmdir` | `ufs_rmdir` up to its test for a mounted disk |
| `FindRmdir`, `ClearRmdir`, `EntryRmdir` | `ufs_file_deallocate`, which holds no lock: the lookup, which follows a mount; contents and links; the entry, which stays if it cannot be read or is looked for on the wrong disk |
| `MountUp`, `MountDown` | the root disk and the lines of `/etc/fstab` at the start; the end of the table |

A directory that lost its contents is in `removed`, one that lost its entry in
`nameless`.  `odd` collects the uses that break what is promised:

| Use | Where |
|---|---|
| raced | an unmount whose disk or directory has been mounted elsewhere since it was tested (`ufsunmin.c:26-37`) |
| rmdir | a mount and a removal of one directory overlap (`ufs#rd.c:74`, `ufsfidal.c:58-120`) |
| removed | a disk is mounted on a directory that lost its contents but not its entry |
| root | all is unmounted, "/" included, or "/" is unmounted by its name |
| buried | a disk is unmounted that has another one mounted inside |

`UfsSync` has of each disk what the dataset holds (`data`) and what storage holds
(`mem`): a super block with the number of changes made to it, the list block it
links to, and the times of the disk, as one, which an old format keeps in the super
block and a new one in the boot block.  `saving` is the position of a save in
`ufs_disk_write_super`, for one of three callers: `ufs_sync`, the scan for free
inodes, and the close of a disk.

| Action | Code |
|---|---|
| `OpenDisks` | `ufs_disk_open`, with the conversion of an old format |
| `Change`, `Spill`, `Evict` | changes of the free list, those that make a list block, and the pager writing that block for want of a page |
| `ScanSave`, `SyncAll`, `SyncDisk`, `SyncFlush` | the end of a scan; the loop of `ufs_sync` over the pagers |
| `WriteSuper`, `WriteBoot` | the two writes of a save, each of which may fail; the mark is reset between them |
| `BeginStop`, `StopFlush`, `StopFlushed`, `CloseDisk`, `CloseDone`, `Stopped` | `ufs_sys_term`: the pagers, last to first, then the disks |
| `Crash` | storage is gone between any two writes |

`UfsSystem` runs both: `ufs_sys_new` opens the disks and makes the first mounts,
`ufs_sync` holds the same lock as a mount, `ufs_sys_term` (which waits for no
call, but is not called while a session is inside one) takes the mounts down
before it flushes and closes.  The pager and the free list appear here as one
list block for each disk; `UfsPager` and `UfsFreeBlock` have them in full.
`JobAssumption` says what the loop over UFSDISK0 to UFSDISK9 makes of `sys->disks`
and `sys->pagers`: lists in the order of the numbers, a pager only for a disk that
was opened; `MountAssumption`, that directories form trees, one on each disk.

## 4. Runs

| Run | Shows | Bounds |
|---|---|---|
| `free_block` | well formed list, exact total, partition, marking, refinement of `FreeSpace`, with errors while zeroing and spilling | two tasks, cache of 2 (a link and a spare), 4 data blocks of which one is in use at first: calls spill and refill two levels deep |
| `free_block_live` | the loop of allocate ends, with every error, refill included | two tasks, 3 data blocks, words below 5, so that "any number" is a small choice |
| `pager` | one copy of a block, dirty marks, complete flush, refinement of `BlockDevice`, every operation ends; with read and write errors, want of pages and crashes | 3 blocks over 2 pages, two contents, counters below 4, at most 2 deferred writes to a page (`MaxDeferred`) |
| `free_inode` | `TotalBacked`, `SavedOrMarked`, and `Exclusive` as long as no scan meets an inode that is being created | two tasks, three blocks of two inodes, inodes 1 and 2 in use, a cache of 2, words below 8; every error but a failing read of the scan |
| `inode_ref` | no minode is freed under a pointer, and the count of a file is the number of pointers to it | two tasks that open, close and remove one file and change to its directory; errors of storage, of the read of an inode and of the write of an entry; counts below 16, which seven pointers of each of two tasks do not reach |
| `inode_ref_dirs` | a directory with links stays in storage, whatever its count | one task, every call, every error, a directory with a file, an empty one and a mounted disk; counts below 3, so that they wrap |
| `file_map` | no block in two places, the walk agrees with the computed places, storage and disk name the same blocks, and only a failing call loses blocks | two files, one direct block, two numbers in an index block: nine sizes through all three levels; 24 blocks, fewer than both files want; one bad block at a time; 3 calls (`MaxCalls`) |
| `file_io` | within the rules a file is a sequence of bytes (`ByteFile`); a changed buffer goes to its own file, no call changes another file, the blocks stay apart | two handles, two files of 3 and 4 bytes in blocks of 2, five open modes, 8 blocks, one of them bad; 4 calls |
| `file_seek` | violation, finding 1 | the same, no bad block |
| `names` | link counts, parents, `NameTree`, write access | two sessions, one without rights on the second disk and most directories; 6 and 2 inodes, two free blocks on each disk, three entries in a block, names cut at 4; 4 calls, each in two steps |
| `names_create` | violation, finding 2 | the same, create only |
| `system` | the three views of the mount table, disks that stand on the root, no link to a list block nobody will write, no change that is not marked, saves that save | two sessions, three disks (the third of an old format and read only, the first of an old format), directories for two mounts one inside the other, fstab with a good line and one for the root disk; disks without a pager, a start without the first disk; 3 calls, 2 starts; every write may fail |

Why the bounds are enough.  The free list differs in kind only between a cache
that has a spare, only its link, or is full, and between an empty chain, one
list block and more; two tasks are as many as can be in different places of
allocate with a third waiting for the same lock looking like the second.  The
pager distinguishes a hit, a miss with room, and a miss with a clean or dirty
victim, and during a flush pages before and behind the current one; two pages
and a block that has to wait show all of them.  The four inodes that are not in
use are twice what the cache holds, so the scan fills it, runs short and comes
back with the number the sanity test refuses.  A path of two names passes every
statement of the lookup, the first directory and a later one; a third name
repeats the second.  The sizes of `file_map` are the first and last of each index
level, so that each block that ends a level is added and removed.  In `file_io`
two blocks are direct and two more need an index block, and files end inside and
at the end of a block; four calls are an open, a use that goes wrong, and two that
would show it.  In `names` two calls of each session interleave with each other,
and three entries fill a block, so a directory grows a block, loses one, and has
its last entry moved.  A mount, its removal and a mount elsewhere are three
calls; so are a removal of a directory and two mounts that get in between its parts.
Two starts show what a crash left on the datasets.

The runs that count calls or starts end when these are used up, so deadlock is
not checked in them.

What the runs leave out on purpose, because it does go wrong (section 6), is in
the antecedent of the property: the uses in `outside` and `odd`, or a constant:
no failing refill in `free_block`, no failing reads of the scan in `free_inode`,
no removal of a directory, no list of a file and no want of buffers in
`inode_ref`.  What a run shows is that nothing else does.

Fairness.  `UfsFreeBlock` assumes that a task inside allocate keeps running
(`WF` of its own steps): it holds the disk lock and waits for nobody, so the
dispatcher is all it needs.  Nothing is assumed of a task that has not called.
`UfsPager` assumes the same of the operation that holds the pager lock.  No
other run needs fairness.

## 5. Proofs

`UfsFreeBlockProofs` proves, for every set of tasks, cache size, volume, word
size and format that meet `ConstantAssumption` and `FormatAssumption`, and under
the hypothesis that the read of a refill does not fail (`"refill" \notin
FaultAt`; section 6 says what happens otherwise):

- `FreeListSafe`: type correctness, `ListWellFormed`, `TotalExact`, `Partition`;
- `FreeListMarked`: the action property `ChangeMarked`;
- `FreeListRefines`: `SpaceSpec`, the refinement of `FreeSpace`.

The argument is one inductive invariant: the four properties, that `pc = "pop"`
exactly for the holder of the lock, and that `error` is never set.  `TotalExact`
is what excludes the bad pops (with `total > 0` and a well formed chain, a cache
that is down to its link has a chain below it, so the number popped is a data
block and the block holds a list); `ListWellFormed` is what makes the popped
number leave the set of free blocks once.  The lemmas `PopSpareLemma`,
`PopLinkLemma`, `PushLemma`, `SpillLemma` and `WriteLemma` are about lists
alone: what each change of cache, contents and chain does to `ChainOK` and to
the set of free blocks.  The steps of the specification are then of three kinds
(`PopStep`, `GiveStep`, `QuietLemma`).

`UfsPagerProofs` proves, for every set of blocks and contents, any `MaxPages`
and word size and every combination of I/O errors and crashes, under the
hypothesis that the dirty counter does not wrap (`MaxDeferred < Word`; section 6
says what happens otherwise):

- `PagerSafe`: type correctness, `OneCopy`, `DeferredMarked`;
- `PagerFlushComplete`: the action property `FlushComplete`;
- `PagerRefines`: `DeviceSpec`, the refinement of `BlockDevice`.

The inductive invariant adds three things to the properties.  A page that has
no block yet is clean, so it is never written.  While a page is being filled
(`FillFits`) the block it will take is in no page, and if the operation is a
write the disk has its contents already; that is why taking the block neither
makes a second copy nor changes what is seen.  During a flush (`FlushFits`) the
pages behind the current one are clean, so that at the end all of them are.

`Contents(ps, d)`, what the file system sees over a disk `d` with pages `ps`, is
defined by a `CHOOSE`; `ContentsIs` and `ContentsFits` characterise it for pages
without a second copy, and the lemmas behind them say what it becomes when
counters change (`SameView`), a page is added (`AddView`), written (`PutView`) or
refilled (`TakeView`), and when the disk changes below a cached block
(`HiddenDisk`) or an uncached one (`ShownDisk`).  Each action is then one lemma:
it keeps the invariant and is the named step of the device.

`UfsInodeRefProofs` proves, for every set of tasks, inodes and mounts, all calls
and all errors, the ones that break `HeldCached` included:

- `LinkedDirsStay`: `LinkedDirHeld`;
- `RefTypes`: type correctness, use counts in range above all.

Use counts cannot carry this argument, because the lookup takes them away.  What
does is that a pointer is only ever the root, a copy of one the task has, or what
`ufs_inode_get` has just put in the cache (`Reaches`), and that a step takes no
directory with links out of the cache (`Keeps`).  The inductive invariant is
that every pointer to such a directory is in the cache, that the root is, and
what the place of a call says of its locals (`Position`).  `GoodStep` turns the
two facts about a step into the invariant; one lemma for each call shows them
for its steps.

Of files, use counts do carry the argument, and the same module proves

- `FilesAlwaysCounted`: `FileCounted`, under `Orderly`;
- `HeldAlwaysCached`: `HeldCached`, under `Orderly` and without rmdir.

`Orderly` is what the code needs for the counts to be right, and each of its parts
is an entry of section 6: `ufs_file_new` gets its buffer, no file is in the middle
of a path, what is listed is a directory, and `usecount` has room for seven
pointers of every task (`cur_dir`, the handles of a file and a directory, and what
one call has in its locals).  The invariant, `FileInv`, says where in each call a
local may point to a file at all (`Placed`) and that the count of a file is the
number of pointers to it (`Counted`).  A step changes the pointers of one task
(`Mine`), so one lemma says what becomes of the number when those of one task
change, and the lemmas about the calls show that the count goes up, goes down or
stays as the pointers of the task that moves do (`Balanced`).  `HeldCached` follows
from `FileCounted` for files and from `LinkedDirHeld` for directories, which keep
their links when nobody removes one (`DirsLinked`).

`UfsFreeInodeProofs` proves, for every set of tasks, inode list, cache size and
every combination of errors, the race of section 6 included:

- `TypeCorrect`: types; `total_freeinode` never falls below zero;
- `TotalAlwaysBacked`: `TotalBacked`, and `AlwaysSavedOrMarked`: `SavedOrMarked`;
- `InodesExclusive`: `Exclusive`, where no read of a scan fails (`"scan" \notin
  FaultAt`; section 6 says what a scan without reads does).

The first three are one invariant, `CountInv`: with `TotalBacked`, that finitely
many creates are under way and each has a number of the inode list, so that a
step moves at most one inode between the two sides of the inequality (`LoseOne`,
`ReclaimableFacts`).  `Exclusive` needs `UseInv` besides: the cache holds no more
than its array has places, and the mode on the disk is set for every inode in use,
so that a scan can only find free ones.  `Ranked`, that a finite set of numbers
has a member with each number of members below it, is why a scan fills every place
it says it does; `TotalBacked` is why the pop that follows finds the cache filled.

`UfsSystemProofs` proves, for any disks, formats, directories, fstab, sessions and
starts, with every failing write and a crash anywhere:

- `ReleasedDisksSaved` (`Saved`), `LinksAlwaysSaved` (`LinkedSaved`),
  `ChangesAlwaysMarked` (`UnsavedMarked`), from `SyncInv`;
- `ViewsAlwaysAgree` (`MountViews`), `DisksAlwaysRooted` (`Rooted`), from
  `HandleInv`.

`SyncInv` says of each disk what its dataset lacks and why: `LinkInv` orders the
links and list blocks of dataset and storage, and `SaveInv` says of each of the
three blocks that it is the same, or marked, or next in a save, or that its write
failed.  `UnsavedMarked` alone is not inductive: within a save the mark is reset
between the writes, so `SaveInv` says what is marked at each place of a save (a
failed super block leaves it to the caller, and the scan is the one that sets it
again), and that the close finds no pager.

`MountInv` (with the lemmas, in `UfsSystemProofs`) has the views, the tree of mounts,
and what a call knows between its parts (`CallOk`): who is inside `ufs_mount` holds the
lock, so the disk its directory is on stays mounted, and the directory has its
entry; on a directory that is being removed nothing is mounted, so what is emptied
is that directory.  `Rooted` states that there is
no ring of disks as one about sets (each set of guests has one that stands outside
of it), which a mount keeps because the disk it adds was not mounted, so that nothing
stands on it.
`AllUnmounted`, the lines of fstab and the walk along a path are folds; `FoldProofs`
proves that such a fold has the values of its definition step by step and stays in
a set that each step stays in, by a least counterexample (`LeastNat`, from the
library's theorem on finite subsets), because the library's induction theorems take
an operator.  `HandleInv` adds that nobody is inside a call while the system is down.

`UfsNamesProofs` proves, for any number of disks, inodes, sessions and calls, any
rights and paths, and disks that meet `FormatAssumption`:

- `NamesSafe`: `NamesInv`, and from it `NamesTypes` (`NamesTypeOK`),
  `LinksAlwaysCounted` (`LinksCounted`) and `ParentsAlwaysRight` (`ParentRight`);
- `WritesAllowed`: the action property `WriteAllowed`;
- `NamesKept`: `NameTreeSpec`, the refinement of `NameTree`.

`NamesInv` was checked by TLC on the instance of the run `names` before it was
proved.  It has four layers, each under the uses it survives.  `Sound` always holds:
entries name inodes that exist, only directories have entries, and no directory
outside `lost` has an entry inside.  `Ordered` survives all uses but onto: link
counts equal the number of entries, and `Shape`, that a directory has one name, in
the directory its ".." names.  Counting alone is not inductive: the removal of a
directory sets its link count to zero, drops ".", ".." and one name, and counts
down the directory of that name; the counts stay right because it has no other
name and its ".." names that directory.  That no count falls below zero holds even
without the shape, because a directory counts its subdirectories (`Good`).  `Tidy`
holds within all uses: dots are only at the start of a directory and one that was
removed is empty.  `CallOK` is what a call may still rely on after others have run:
its directory is still one, is not lost, and may still be written, unless it was
removed.

The operators that change a directory have three kinds of lemmas: what they do to
the entries (`AddEntryFacts`, `RemoveEntryFacts`, `ReplaceEntryFacts`), to the
balance of a node (its link count less the entries that name it: `AddedBal`,
`RemovedBal`, `ReplacedBal`, `RelinkedBal`), and to the shape of the tree
(`AddedShape`, `RemovedShape`, ...).  `ShapeBut` is the shape with one node left out:
a rename puts a node at its second place before it leaves the first, and in between
the tree has its shape but for that node.

The refinement is about steps within all uses; once something is in `outside`,
`NameTree` allows every step.  Until then the inodes are `Clean`: the invariant, and
besides it no directory has a name twice (`Unique`) and the directories of calls that
failed have no names (`Quiet`); `TreeInv` carries these two.  `Links` is the set of
links as a function of the inodes, and `Change` what may happen to it: nothing, a
directory nobody has a link to, or one link bound, taken away or shifted, each with
the side conditions of `NameTree`.  The lemmas are in three layers: what each way to
change the entries does to the set of links (`AddedLinks`, `CutLinks`,
`DeletedLinks`, `MadeLinks`, `MovedLinks`), that the change is a `Change`
(`AllocateTree`, `DeleteTree`, `LinkTree`, `MoveTree`), and that each action makes one
(`StepTree` and the lemmas after it).  Entries that change places do not show,
because a link has no place.  That a directory is not moved below itself is the one
condition that needs the walk of `can_dirmove`: when the walk ends at the root, the
directories it came through are a set that has a parent with each member and not the
directory that is moved (`WalkUp`, `WalkClosed`), and `Above` of `NameTree` is the
least such set.

`UfsFileMapProofs` proves, for any files, volume, block size, number of direct
blocks and of block numbers in an index block that meet `MapAssumption`, with any
blocks failing during a call:

- `MapTyped`: `MapTypeOK`;
- `MapDisjoint`: `BlocksDisjoint`;
- `MapSaved`: `SavedSame`;
- `MapWalked`: `WalkAgrees`;

under the hypothesis `Within`: the sizes of files are below half a word, so that a
difference of two is the signed word the code takes it for, and within the three
levels of the map.  Section 6 says what happens otherwise.

`MapInv` is the inductive invariant.  It cannot be a run's invariant, because it says
that there are trees; its consequences are those of the run `file_map`.  A node is a
place in the trees of index blocks: a file, a number of levels, a depth and a
position.  `Fits` says that a set of nodes has a block each, no two the same and none
free, and that the inodes and index blocks name exactly these.  `Sound` adds that the
blocks of every file up to its size are there (`Live`), and that the other nodes hang
below a number the file uses.  Both are needed, because the blocks of the file alone
are not inductive: an expansion that fails leaves index blocks with entries beyond
the size of the file, which a later expansion takes up, and it may leave numbers in the inode
that the file does not use.  `Steady` says of a file between calls that the inode on the
disk has its size and the same numbers for its blocks.

The proof goes up in five layers.  `SpotFacts` says what `ufs_datablock_addr` returns
for block k: the entries on the path to the k-th leaf.  That is arithmetic of
words, from `AddrSpot`, and takes the sizes of the levels to be powers of two or zero in a
word, as `MapAssumption` has it; what the code does for sizes below zero, at
the last turn of a contraction to nothing, is `AddrBelow`.  `FitsCut` and the lemmas
after it say what an entry that is written or cleared, and a block that is taken or
given back, do to the trees.  Then each turn of the loop of `ufs_datablock_expand` and of
`ufs_datablock_contract` keeps `Sound`, with one case for each level and for each path that
the next block shares with the last; descending to the first block of a level,
and giving back what a level leaves, are folds with an invariant of their own
(`GrowLevel`, `ShrinkLevel`).  The loops are folds again (`ExpandCall`, `ContractCall`).
Last, `MapRead` says that on sound trees `ufs_datablock_last` finds the block of the
leaf and `Index` the blocks above it; that the blocks are disjoint is then that no two
nodes have the same.

`MapWalked` compares two ways through the map, the nested loops of
`ufs_datablock_foreach` and the computed path of `ufs_datablock_last`.  The sequences
that a level of loops joins all have one length, so entry k of the joined sequence is
found by division (`FlattenUniform`); the library defines the joining by recursion,
and instead of an induction over data the proof takes a least counterexample.
`LoopFacts` and `PlaceFacts` say which block each turn of the loops reads, and
`WalkRead` that it is the block of the leaf, which `MapRead` says of
`ufs_datablock_last`.

Only model-checked: the liveness properties, which are out of the reach of the
prover; `LostByFailure`; and everything about `UfsFileIO`.

## 6. Findings

1. `ufs#fsee.c:101` (run `file_seek`).  A seek to a multiple of the block size
   loads the block of the byte before the new position, where the calls that fill
   the buffer for a read and a write ask for the block of the byte at it
   (`filepos + 1`, `ufsfgetn.c:74`, `ufsfputn.c:74`; `ufsfputc.c:34` and
   `ufsfsync.c:14` pass `filepos` too).  What is then read is in the wrong block,
   and a write there, as the first after an open for append of a file of full
   blocks, overwrites it.
2. `ufs#crte.c:30` (run `names_create`).  A create takes every ENOENT of the
   lookup for "file does not exist *AND* we have write permission on the parent
   dir".  When a directory in the middle of the path is missing, the file is made
   in the directory where the lookup stopped, without write access to it.

In two more places the code does not do what is written about it.  The model does
what the code does, and the properties leave room for it:

- `ufsdkopn.c:135`.  The change log says that the 32 bit times of an old disk "will
  continue to be in the super block and are not set to zero"
  (`doc/changelog.md:6-8`).  The conversion sets both to zero in storage (lines 135 and
  140) and marks the super block, so that the first save writes the zeros to the
  dataset (`Opened`, `WriteSuper`).  A program that knows only the super block then
  finds no times, and a crash between the two writes of that save leaves the times in
  neither block.  No property says that the times stay, or that the dataset has them
  somewhere: neither is so.
- `ufsdkwsb.c:39`.  The super block of a converted disk is marked "to force update at
  close" (`ufsdkopn.c:142`).  `ufs_disk_write_super` resets the mark before it writes
  the boot block; when that write fails nothing is marked, and neither a later
  `ufs_sync` nor the close writes the boot block again, so the times are lost without
  a crash too.  `UnsavedMarked` excepts this one write (`"boot" \in failed[d]`), and
  shows that nothing else is forgotten; `Saved` says for each block apart what a save
  that returns has written.

Seen while modelling.  Each of these is what a property excludes, or what a step that
is coarser than the code hides, or a change of a constant away from a run that
shows it.

Free list and pager:
- `ufsdaalc.c:57`: a refill that fails returns with `nfreeblock` 0 and
  `total_freeblock` above 0; the next allocate decrements the count to 4294967295
  and takes a block number from outside the cache.  `ufsdkcsb.c:30` calls such a
  super block "not likely" and refuses it ("refill" in `FaultAt`, `TypeOK` of the
  count).  A scan for inodes whose reads fail does the same (`ufsinalc.c:73`).
- `ufspgrwt.c:29`: `dirty` is a flag ("buffer needs to be written to disk") kept
  as a counter that is incremented without the check its neighbours get from
  `ufs_pager_inc`.  With `MaxDeferred = Word` it wraps, the page is clean by its
  mark and its writes are dropped.

Inodes:
- `ufsinfup.c:75`: the scan caches every inode whose mode on the disk is zero, so
  also one that a create has popped and not yet written, and it may be given to a
  second file.  The same happens to an inode between the two parts of
  `ufs_inode_deallocate`, and to one whose write back failed (`ufsfialc.c:144`).
  `Exclusive` leaves out what follows (`raced`, `unwritten`).
- `ufsinsan.c:38`: the last inode of the list is refused after it was popped,
  although message UFSIN001E (`inode.h:213`) names it as the end of the range.
- `ufs#lmin.c:95`: where the lookup returns EACCES or ENOTDIR it does not release the
  minode it has got for the name before, so a file in the middle of a path stays in
  storage for ever.
- `ufs#lmin.c:160`: the lookup returns `dir_minode`, whose use count is to "have already
  been incremented" (`ufs.h:141`), and releases it too.  The test in `ufs_inode_rel`
  ("this *should* always be the case") hides it, and directories with links are never
  freed (`LinkedDirHeld`); but when the directory is removed, its minode is freed under
  `cwd->cur_dir`.  With "rmdir" in the `Calls` of `inode_ref`, and one task, `HeldCached`
  is violated: change to a directory, remove the file in it, remove the directory.
- `ufsfinew.c:35`: without a block buffer `ufs_file_new` releases the minode with
  the handle, and `ufs_open` releases it again.
- `ufs#dopn.c:93`: `ufs_diropen` releases the minode it puts into the handle; for
  a file, which is not refused, the handle points to freed storage.
- Nothing sets `MINODE_FLAG_DIRTY`, which `ufs_sys_term` tests.

Files:
- `ufsdaadr.c:71-82`: the size of the second index level is 2^32, so 0 in a word,
  for blocks of 4096 bytes; a block behind it divides by zero.
- `ufsdaadr.c:88` tests the last of the three entries, which is always below the
  number of entries; the first, which a file beyond the third level makes too large,
  is not looked at.
- `ufsdachg.c:34`: two sizes that differ by half a word or more are taken for the
  opposite change.  `UFS_ROUND_BSIZE` (`disk.h:73`) of a size in the last block of
  a word is zero.
- The seven uses of section 3.  Three of them, hole, freed and shared, may damage
  another file; the run shows that the others do not.
- Open files are not written when the system stops.

Names:
- The two lookups disagree: `ufs_lookup` starts at the inode of the current
  directory, `ufs_lookup_minode` at its path, and after a rename or removal they
  are different directories.  A create works in a directory that was removed.
- `ufsfilbn.c:52-57` cuts what is looked up at the first slash, and
  `ufs_file_allocate` looks up the whole path again: a relative "a/f" is refused
  when the directory a has an entry a, and an absolute path is not looked up at
  all, so two sessions can make a name twice.  `ufsfialc.c:44` copies 59
  characters of the path before it looks for the last slash.
- `ufs#md.c:34`: a relative mkdir in "/" becomes "//x" and is always refused.
- `ufsfiren.c`: a file that is renamed to its own name is deleted; `can_dirmove`
  does not look at the directory it starts at, so a directory can be moved below
  itself, after which the walk up has no end; the target of a rename is deleted
  before it is known that the entry can be made.
- `ufsfialc.c:161`: without an entry the inode stays written and in no directory.
  `ufsfidal.c:111`: deleting gives back neither inode nor blocks.
- `ufsdirad.c:65` says "This vnode(parent dir) is locked by VFS layer"; nothing locks it.
  The block of a new entry is found from the size of the directory before the read of
  it (line 60), the slot from the size after (line 77): when another task has added a
  block meanwhile, the entry overwrites the first one of the old block, in the first
  block the "." of the directory.
- `ufs#crte.c:102` takes a second buffer over the first.

Mounts and disks:
- `ufs_mount` returns zero when the disk is mounted already, or a disk on the
  directory (`ufsmount.c:92-103`).  "/" can be unmounted, and the root disk then
  mounted on a directory of its own; a disk can be unmounted that has another
  disk mounted inside.
- `ufsunmin.c:26-37` reads the table before it takes the lock.  Two unmounts with
  a mount between them leave a disk that can be neither mounted nor unmounted.
- `ufs_rmdir` is to "make sure this directory is not a mounted disk" (`ufs#rd.c:73`) and
  tests it without the lock of `ufs_mount`.  A mount between the test and the removal
  stands on a directory that was deleted; one before the second test
  (`ufsfidal.c:58`) has the root directory of the mounted disk deleted (`rmdir` in `odd`).
- `ufsfidal.c:58` goes on with the disk that is mounted, and `ufsfidal.c:120` looks for
  the entry in the blocks of that disk.  An entry that stays, there or after an error, is
  of a directory without contents, which can be mounted on.
- `ufs#sync.c:36` and `ufsinfup.c:88` write the super block before the list block
  it links to: a crash before the flush leaves a link to a block of old data, and
  so does a flush that fails at the stop, where the pages are freed nevertheless.
- `ufs_sync` passes over disks that have no pager.

## 7. Not modelled

Sign on and the creation mask store what the external security product answers.
The name table and the device table are left over from Xinu and nothing in the
file system calls them.  Time conversion, dumps and console messages change no
state of the file system.  Of modelled parts, these are left out: the listing of a
directory (`ufs#drd.c` copies entries that were read when it was opened),
symbolic links and devices (nothing follows or opens them), the plausibility test
of a super block, the stack of disk buffers, the statistics of the pager, the
time of the last update, and the arrays of sessions that `ufs_sys_term` frees.
`ufs_file_lookup_by_number` and the conversion of entries change nothing.
