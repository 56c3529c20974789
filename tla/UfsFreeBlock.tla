---------------------------- MODULE UfsFreeBlock ----------------------------
(***************************************************************************)
(* The free block list of a UFS disk: ufs_datablock_allocate (UFSDAALC),   *)
(* ufs_datablock_deallocate (UFSDADAL), ufs_freeblock_update (UFSDAFUP)    *)
(* and ufs_datablock_number_sanity (UFSDASAN).                             *)
(*                                                                         *)
(* The super block caches up to UFS_MAX_FREEBLOCK free block numbers.      *)
(* Entry 0 of the cache is a link: that block, itself free, holds the list *)
(* the cache is refilled from when the link is handed out.  The bottom of  *)
(* the chain is the number 0, which the sanity check rejects.              *)
(*                                                                         *)
(* The threads share one disk.  Both operations hold the disk lock while   *)
(* they touch the super block; allocate then zeroes the block it popped    *)
(* after it has released the lock.                                         *)
(***************************************************************************)
EXTENDS Integers, Sequences, FiniteSets

CONSTANTS
  Thread,     \* MVS tasks using the disk
  NoThread,   \* nobody holds the disk lock
  MaxFree,    \* UFS_MAX_FREEBLOCK (51)
  Start,      \* datablock_start_sector
  Volume,     \* volume_size: data blocks are Start .. Volume - 1
  Word,       \* 2^32: block numbers and counters are below Word
  Payload,    \* what user data may look like when it is read as a list
  Format,     \* the list the formatter leaves: see FormatAssumption
  FaultAt     \* the places where a block I/O may fail

BlockNo   == 0 .. Word - 1
DataBlock == Start .. Volume - 1
Slot      == 0 .. MaxFree - 1
Nil       == 0

(* The first 208 bytes of a block, read as a struct ufs_freeblock.         *)
FreeList == [nfreeblock : BlockNo, freeblock : [Slot -> BlockNo]]

(* ufs_datablock_number_sanity *)
Sane(blk) == blk >= Start /\ blk < Volume

Zeroed == [nfreeblock |-> 0, freeblock |-> [i \in Slot |-> 0]]

-----------------------------------------------------------------------------
(* What a well formed list is, as a function of its parts: the cache       *)
(* (count and entries), the block contents and the chain of list blocks,   *)
(* bottom first.                                                           *)

Links(chain) == {chain[k] : k \in 1 .. Len(chain)}

(* The entries of a list other than its link.                              *)
Spares(list) == {list.freeblock[i] : i \in 1 .. list.nfreeblock - 1}

FreeOf(cache, disk, chain) ==
  Spares(cache) \cup Links(chain) \cup UNION {Spares(disk[b]) : b \in Links(chain)}

(* The link a list holds when k list blocks lie below it.                  *)
LinkTo(chain, k) == IF k = 0 THEN Nil ELSE chain[k]

DistinctSpares(list) ==
  \A i, j \in 1 .. list.nfreeblock - 1 :
     list.freeblock[i] = list.freeblock[j] => i = j

ListOK(list, chain, k) ==
  /\ list.nfreeblock \in 1 .. MaxFree
  /\ list.freeblock[0] = LinkTo(chain, k)
  /\ DistinctSpares(list)
  /\ Spares(list) \subseteq DataBlock \ Links(chain)

ChainOK(cache, disk, chain) ==
  /\ Links(chain) \subseteq DataBlock
  /\ \A j, k \in 1 .. Len(chain) : chain[j] = chain[k] => j = k
  /\ ListOK(cache, chain, Len(chain))
  /\ \A k \in 1 .. Len(chain) : ListOK(disk[chain[k]], chain, k - 1)
  /\ \A b \in Links(chain) : Spares(cache) \cap Spares(disk[b]) = {}
  /\ \A b, c \in Links(chain) :
        b # c => Spares(disk[b]) \cap Spares(disk[c]) = {}

-----------------------------------------------------------------------------
(* The refill read of freeblock_update, the read and write that zero an    *)
(* allocated block, and the read and write that spill a full cache.        *)
FaultPlace == {"refill", "zero", "spill"}

ASSUME ConstantAssumption ==
  /\ NoThread \notin Thread
  /\ MaxFree \in Nat /\ MaxFree >= 1
  /\ Start \in Nat /\ Start >= 1
  /\ Volume \in Nat /\ Word \in Nat
  /\ Start <= Volume /\ Volume <= Word /\ MaxFree < Word
  /\ Payload \subseteq FreeList
  /\ FaultAt \subseteq FaultPlace

(* The formatter is not part of the repository: this is what the code      *)
(* expects of the volume it leaves.                                        *)
ASSUME FormatAssumption ==
  /\ Format.cache \in FreeList
  /\ Format.disk \in [DataBlock -> FreeList]
  /\ Format.chain \in Seq(DataBlock)
  /\ ChainOK(Format.cache, Format.disk, Format.chain)

VARIABLES
  sb,         \* in-core super block: [nfreeblock, freeblock]
  total,      \* sb->total_freeblock
  modified,   \* sb->modified
  disk,       \* contents of the data blocks, as the pager shows them
  lock,       \* holder of the disk lock
  pc,         \* where each thread is in ufs_datablock_allocate
  blk,        \* its local variable blk, 0 when it has no meaning
  error,      \* its local variable error is nonzero
  inuse,      \* blocks returned by allocate and not yet given back
  (* auxiliary *)
  chain,      \* list blocks on the disk, bottom first
  lost        \* blocks dropped by an error return

vars == <<sb, total, modified, disk, lock, pc, blk, error, inuse, chain, lost>>

Free == FreeOf(sb, disk, chain)

(* Blocks popped by an allocate that has not returned yet.                 *)
Pending == {blk[t] : t \in {u \in Thread : pc[u] = "zero"}}

Init ==
  /\ sb = Format.cache
  /\ disk = Format.disk
  /\ chain = Format.chain
  /\ total = Cardinality(Free)
  /\ modified = FALSE
  /\ lock = NoThread
  /\ pc = [t \in Thread |-> "idle"]
  /\ blk = [t \in Thread |-> 0]
  /\ error = [t \in Thread |-> FALSE]
  /\ inuse = DataBlock \ Free
  /\ lost = {}

-----------------------------------------------------------------------------
(* ufs_datablock_allocate *)

AllocLock(t) ==
  /\ pc[t] = "idle"
  /\ lock = NoThread
  /\ lock' = t
  /\ pc' = [pc EXCEPT ![t] = "pop"]
  /\ UNCHANGED <<sb, total, modified, disk, blk, error, inuse, chain, lost>>

(* Faulty variant: the empty disk does not end the loop.                   *)
AllocExhaustedRetries(t) ==
  /\ pc[t] = "pop"
  /\ total = 0
  /\ error' = [error EXCEPT ![t] = FALSE]
  /\ UNCHANGED <<sb, total, modified, disk, lock, pc, blk, inuse, chain, lost>>

AllocExhausted(t) ==
  /\ pc[t] = "pop"
  /\ total = 0
  /\ lock' = NoThread
  /\ pc' = [pc EXCEPT ![t] = "idle"]
  /\ error' = [error EXCEPT ![t] = FALSE]
  /\ UNCHANGED <<sb, total, modified, disk, blk, inuse, chain, lost>>

(* --sb->nfreeblock, in 32 bit unsigned arithmetic.                        *)
PrevCount == IF sb.nfreeblock = 0 THEN Word - 1 ELSE sb.nfreeblock - 1

(* Faulty variant: the count is decremented after the entry is taken.      *)
EntryAtOld(i) == IF i + 1 < MaxFree THEN {sb.freeblock[i + 1]} ELSE BlockNo

(* sb->freeblock[i]; past the array it is whatever storage holds.          *)
EntryAt(i) == IF i < MaxFree THEN {sb.freeblock[i]} ELSE BlockNo

(* Faulty variant: memcpy copies one entry too few.                        *)
RefilledShort(list) ==
  [nfreeblock |-> list.nfreeblock,
   freeblock  |-> [i \in Slot |-> IF i < list.nfreeblock - 1
                                  THEN list.freeblock[i] ELSE sb.freeblock[i]]]

(* What memcpy and the assignment of ufs_freeblock_update make of the      *)
(* cache; a count above MaxFree fills every slot (and overruns it).        *)
Refilled(list) ==
  [nfreeblock |-> list.nfreeblock,
   freeblock  |-> [i \in Slot |-> IF i < list.nfreeblock
                                  THEN list.freeblock[i] ELSE sb.freeblock[i]]]

(* The end of an iteration of the loop: a sane block ends it, with the     *)
(* error of this or of an earlier refill if there was one.                 *)
PopDone(t, b, failed) ==
  /\ total' = total - 1
  /\ modified' = TRUE
  /\ \/ /\ Sane(b) /\ ~failed
        /\ lock' = NoThread
        /\ pc' = [pc EXCEPT ![t] = "zero"]
        /\ blk' = [blk EXCEPT ![t] = b]
        /\ UNCHANGED <<error, lost>>
     \/ /\ Sane(b) /\ failed
        /\ lock' = NoThread
        /\ pc' = [pc EXCEPT ![t] = "idle"]
        /\ error' = [error EXCEPT ![t] = FALSE]
        /\ lost' = lost \cup {b}
        /\ UNCHANGED blk
     \/ /\ ~Sane(b)
        /\ error' = [error EXCEPT ![t] = failed]
        /\ UNCHANGED <<lock, pc, blk, lost>>
  /\ UNCHANGED <<disk, inuse>>

AllocPopSpare(t) ==
  /\ pc[t] = "pop"
  /\ total > 0
  /\ PrevCount # 0
  /\ \E b \in EntryAt(PrevCount) :
        /\ sb' = [sb EXCEPT !.nfreeblock = PrevCount]
        /\ PopDone(t, b, error[t])
  /\ UNCHANGED chain

(* The link was popped and ufs_freeblock_update reads the list it holds.   *)
AllocPopLink(t) ==
  /\ pc[t] = "pop"
  /\ total > 0
  /\ PrevCount = 0
  /\ Sane(sb.freeblock[0])
  /\ sb' = Refilled(disk[sb.freeblock[0]])
  /\ PopDone(t, sb.freeblock[0], FALSE)
  /\ chain' = IF chain = << >> THEN chain ELSE SubSeq(chain, 1, Len(chain) - 1)

(* Faulty variant: total_freeblock is not tested before the pop.           *)
AllocRefillFailsUntested(t) ==
  /\ pc[t] = "pop"
  /\ PrevCount = 0
  /\ ~Sane(sb.freeblock[0]) \/ "refill" \in FaultAt
  /\ sb' = [sb EXCEPT !.nfreeblock = 0]
  /\ PopDone(t, sb.freeblock[0], TRUE)
  /\ UNCHANGED chain

(* The link was popped and ufs_freeblock_update failed: the number is not  *)
(* a data block, or the read of the list (or of storage for it) failed.    *)
AllocRefillFails(t) ==
  /\ pc[t] = "pop"
  /\ total > 0
  /\ PrevCount = 0
  /\ ~Sane(sb.freeblock[0]) \/ "refill" \in FaultAt
  /\ sb' = [sb EXCEPT !.nfreeblock = 0]
  /\ PopDone(t, sb.freeblock[0], TRUE)
  /\ UNCHANGED chain

(* The lock is released; the block is read, cleared and written.           *)
AllocZero(t) ==
  /\ pc[t] = "zero"
  /\ disk' = [disk EXCEPT ![blk[t]] = Zeroed]
  /\ pc' = [pc EXCEPT ![t] = "idle"]
  /\ inuse' = inuse \cup {blk[t]}
  /\ blk' = [blk EXCEPT ![t] = 0]
  /\ UNCHANGED <<sb, total, modified, lock, error, chain, lost>>

AllocZeroFails(t) ==
  /\ pc[t] = "zero"
  /\ "zero" \in FaultAt
  /\ pc' = [pc EXCEPT ![t] = "idle"]
  /\ lost' = lost \cup {blk[t]}
  /\ blk' = [blk EXCEPT ![t] = 0]
  /\ UNCHANGED <<sb, total, modified, disk, lock, error, inuse, chain>>

-----------------------------------------------------------------------------
(* ufs_datablock_deallocate: one critical section of the disk lock.        *)

(* Faulty variant: the block is pushed, the totals and the mark forgotten. *)
DeallocPushBare(b) ==
  /\ lock = NoThread
  /\ sb.nfreeblock < MaxFree
  /\ sb' = [nfreeblock |-> sb.nfreeblock + 1,
            freeblock  |-> [sb.freeblock EXCEPT ![sb.nfreeblock] = b]]
  /\ inuse' = inuse \ {b}
  /\ UNCHANGED <<total, modified, disk, lock, pc, blk, error, chain, lost>>

DeallocPush(b) ==
  /\ lock = NoThread
  /\ sb.nfreeblock < MaxFree
  /\ sb' = [nfreeblock |-> sb.nfreeblock + 1,
            freeblock  |-> [sb.freeblock EXCEPT ![sb.nfreeblock] = b]]
  /\ total' = total + 1
  /\ modified' = TRUE
  /\ inuse' = inuse \ {b}
  /\ UNCHANGED <<disk, lock, pc, blk, error, chain, lost>>

(* Faulty variant: the cache is spilled and its count is not reset.        *)
DeallocSpillKeeps(b) ==
  /\ lock = NoThread
  /\ sb.nfreeblock >= MaxFree
  /\ disk' = [disk EXCEPT ![b] = [nfreeblock |-> MaxFree, freeblock |-> sb.freeblock]]
  /\ sb' = [sb EXCEPT !.freeblock[0] = b]
  /\ total' = total + 1
  /\ modified' = TRUE
  /\ inuse' = inuse \ {b}
  /\ chain' = Append(chain, b)
  /\ UNCHANGED <<lock, pc, blk, error, lost>>

(* The cache is full: the block becomes a list block that takes the cache. *)
(* memset clears UFS_MAX_FREEBLOCK bytes, not words, of the old entries.   *)
DeallocSpill(b) ==
  /\ lock = NoThread
  /\ sb.nfreeblock >= MaxFree
  /\ disk' = [disk EXCEPT ![b] = [nfreeblock |-> MaxFree, freeblock |-> sb.freeblock]]
  /\ sb' = [nfreeblock |-> 1,
            freeblock  |-> [i \in Slot |-> IF i = 0 THEN b
                                           ELSE IF i < MaxFree \div 4 THEN 0
                                           ELSE sb.freeblock[i]]]
  /\ total' = total + 1
  /\ modified' = TRUE
  /\ inuse' = inuse \ {b}
  /\ chain' = Append(chain, b)
  /\ UNCHANGED <<lock, pc, blk, error, lost>>

(* The read or the write of the spilled list fails; the caller has already *)
(* forgotten the block.                                                    *)
DeallocSpillFails(b) ==
  /\ lock = NoThread
  /\ sb.nfreeblock >= MaxFree
  /\ "spill" \in FaultAt
  /\ inuse' = inuse \ {b}
  /\ lost' = lost \cup {b}
  /\ UNCHANGED <<sb, total, modified, disk, lock, pc, blk, error, chain>>

-----------------------------------------------------------------------------
(* The owner of a block writes user data into it.                          *)
WriteData(b) ==
  /\ \E p \in Payload : disk' = [disk EXCEPT ![b] = p]
  /\ UNCHANGED <<sb, total, modified, lock, pc, blk, error, inuse, chain, lost>>

(* ufs_sync writes the super block under the disk lock.                    *)
SaveSuper ==
  /\ lock = NoThread
  /\ modified
  /\ modified' = FALSE
  /\ UNCHANGED <<sb, total, disk, lock, pc, blk, error, inuse, chain, lost>>

AllocStep(t) ==
  \/ AllocLock(t)
  \/ AllocExhausted(t)
  \/ AllocPopSpare(t)
  \/ AllocPopLink(t)
  \/ AllocRefillFails(t)
  \/ AllocZero(t)
  \/ AllocZeroFails(t)

UserStep(b) ==
  \/ DeallocPush(b)
  \/ DeallocSpill(b)
  \/ DeallocSpillFails(b)
  \/ WriteData(b)

Next ==
  \/ \E t \in Thread : AllocStep(t)
  \/ \E b \in inuse : UserStep(b)
  \/ SaveSuper

Spec == Init /\ [][Next]_vars

(* A task inside allocate keeps running: it waits for nobody once it has   *)
(* the lock.                                                               *)
Fairness ==
  \A t \in Thread : WF_vars(AllocStep(t) /\ pc[t] # "idle")

FairSpec == Spec /\ Fairness

-----------------------------------------------------------------------------
(* Properties *)

TypeOK ==
  /\ sb \in FreeList
  /\ total \in Nat
  /\ modified \in BOOLEAN
  /\ disk \in [DataBlock -> FreeList]
  /\ lock \in Thread \cup {NoThread}
  /\ pc \in [Thread -> {"idle", "pop", "zero"}]
  /\ blk \in [Thread -> BlockNo]
  /\ error \in [Thread -> BOOLEAN]
  /\ inuse \subseteq DataBlock
  /\ chain \in Seq(DataBlock)
  /\ lost \subseteq DataBlock

(* The list in the super block and the lists in the blocks it links to     *)
(* stay linked down to the bottom, and name each free block once: spilling *)
(* in ufs_datablock_deallocate and refilling in ufs_freeblock_update undo  *)
(* each other, whatever was pushed and popped in between.                  *)
ListWellFormed == ChainOK(sb, disk, chain)

(* sb->total_freeblock counts the blocks that can really be popped, so     *)
(* that allocate reports ENOSPC exactly when no block is free and never    *)
(* pops from an empty cache.                                               *)
TotalExact == total = Cardinality(Free)

(* A data block is free, or on its way out of one allocate, or in use, or  *)
(* was dropped by an I/O error: it is in one of these places only, and two *)
(* allocates never have the same block.                                    *)
Partition ==
  /\ DataBlock = Free \cup Pending \cup inuse \cup lost
  /\ Free \cap (Pending \cup inuse \cup lost) = {}
  /\ Pending \cap (inuse \cup lost) = {}
  /\ inuse \cap lost = {}
  /\ \A t, u \in Thread :
        pc[t] = "zero" /\ pc[u] = "zero" /\ blk[t] = blk[u] => t = u

(* One allocate at a time is between taking and releasing the disk lock.   *)
LockHeld == \A t \in Thread : pc[t] = "pop" <=> lock = t

(* A change of the free list always leaves the super block marked, or      *)
(* ufs_sync would not write it.                                            *)
ChangeMarked == [][<<sb, total>>' # <<sb, total>> => modified']_vars

(* The for(;;) loop of ufs_datablock_allocate ends whatever it reads: a    *)
(* thread that has the disk lock returns.                                  *)
AllocReturns == \A t \in Thread : pc[t] = "pop" ~> pc[t] = "idle"

(* The promise of the allocator: see FreeSpace.                            *)
Space == INSTANCE FreeSpace
           WITH Block <- DataBlock, avail <- Free, pending <- Pending, used <- inuse

SpaceSpec == Space!Spec

=============================================================================
