------------------------------ MODULE UfsPager ------------------------------
(***************************************************************************)
(* The block cache of one disk: ufs_pager_read (UFSPGRRD), ufs_pager_write *)
(* (UFSPGRWT), ufs_pager_lru_page (UFSPGRLP), ufs_page_flush (UFSPGFLS),   *)
(* ufs_pager_flush (UFSPGRFL) and ufs_pager_free (UFSPGRFR).               *)
(*                                                                         *)
(* A write to a cached block is deferred: the page is marked dirty.  A     *)
(* write to a block that is not cached goes to the disk first and is then  *)
(* cached.  Each operation holds the exclusive lock of the pager, so other *)
(* tasks see it whole; the machine can stop between two disk writes of it, *)
(* and each of them can fail, so an operation takes one step for each.     *)
(***************************************************************************)
EXTENDS Integers, Sequences

CONSTANTS
  Block,        \* block numbers
  NoBlock,      \* (UINT32)-1, the block number of a new page
  Value,        \* block contents
  Blank,        \* the contents of storage from calloc
  NoReply,      \* nothing was returned to a reader
  MaxPages,     \* pager->maxpages (20)
  Word,         \* 2^32, for the counters used and dirty of a page
  MaxDeferred,  \* bound: deferred writes to a page between two flushes of it
  FaultAt,      \* which of "read", "write" (disk I/O), "page" (storage) fail
  Crashes       \* whether the machine may stop

ASSUME PagerAssumption ==
  /\ NoBlock \notin Block
  /\ Blank \in Value
  /\ \A b \in Block, v \in Value : NoReply # [block |-> b, value |-> v]
  /\ MaxPages \in Nat
  /\ Word \in Nat /\ Word >= 2
  /\ MaxDeferred \in Nat
  /\ FaultAt \subseteq {"read", "write", "page"}
  /\ Crashes \in BOOLEAN

VARIABLES
  disk,       \* the disk dataset
  pages,      \* pager->pages
  op,         \* the operation that holds the pager lock, and where it is
  reply       \* the data the last step returned to a reader

vars == <<disk, pages, op, reply>>

Page ==
  [block : Block \cup {NoBlock}, buf : Value, dirty : 0 .. Word - 1,
   used : 0 .. Word - 1, lru : Nat]

(* lru is the rank of the page's time stamp: 1 for the oldest.             *)
NewPage ==
  [block |-> NoBlock, buf |-> Blank, dirty |-> 0, used |-> 0, lru |-> Len(pages) + 1]

Idle == [at |-> "idle"]

(* A miss has chosen a page and has to empty and fill it.                  *)
Fill(i, b, v, write) ==
  [at |-> "fill", page |-> i, block |-> b, buf |-> v, write |-> write]

(* ufs_pager_flush is at page n; free is set inside ufs_pager_free.        *)
Flush(n, free) == [at |-> "flush", n |-> n, free |-> free]

-----------------------------------------------------------------------------
(* ufs_pager_find_block returns the first page that has the block.         *)
Hit(b, i) ==
  /\ i \in 1 .. Len(pages)
  /\ pages[i].block = b
  /\ \A j \in 1 .. i - 1 : pages[j].block # b

(* Faulty variant: the search stops one page short.                        *)
CachedShort(b) == \E i \in 1 .. Len(pages) - 1 : pages[i].block = b

Cached(b) == \E i \in 1 .. Len(pages) : pages[i].block = b

(* Faulty variant: the counter is not checked.                             *)
IncUnchecked(count, reset) == count + 1

(* ufs_pager_inc: the counter restarts instead of overflowing.             *)
Inc(count, reset) == IF count = Word - 1 THEN reset ELSE count + 1

(* Faulty variant: a write hit does not mark the page.                     *)
IncDirtyNot(count) == count

(* page->dirty++ has no such check.                                        *)
IncDirty(count) == IF count = Word - 1 THEN 0 ELSE count + 1

(* page->lru = utime64(NULL)                                               *)
Stamp(ps, i) ==
  [j \in 1 .. Len(ps) |->
     [ps[j] EXCEPT !.lru = IF j = i THEN Len(ps)
                           ELSE IF @ > ps[i].lru THEN @ - 1 ELSE @]]

Room == Len(pages) < MaxPages \/ Len(pages) = 0

(* Least used, then least recently used.                                   *)
IsLru(i) ==
  \A j \in 1 .. Len(pages) \ {i} :
     \/ pages[i].used < pages[j].used
     \/ pages[i].used = pages[j].used /\ pages[i].lru < pages[j].lru

(* ufs_pager_lru_page, for an operation that goes on with a page.          *)
LruPage(b, v, write) ==
  \/ /\ Room
     /\ pages' = Append(pages, NewPage)
     /\ op' = Fill(Len(pages) + 1, b, v, write)
  \/ /\ ~Room
     /\ \E i \in 1 .. Len(pages) : IsLru(i) /\ op' = Fill(i, b, v, write)
     /\ UNCHANGED pages

(* ... and when there is no storage for a page.                            *)
NoPage ==
  /\ Room
  /\ "page" \in FaultAt
  /\ op' = Idle
  /\ UNCHANGED pages

Init ==
  /\ disk \in [Block -> Value]
  /\ pages = << >>
  /\ op = Idle
  /\ reply = NoReply

-----------------------------------------------------------------------------
(* ufs_pager_read *)

ReadHit(b) ==
  /\ op = Idle
  /\ \E i \in 1 .. Len(pages) :
        /\ Hit(b, i)
        /\ pages' = Stamp([pages EXCEPT ![i].used = Inc(@, 1)], i)
        /\ reply' = [block |-> b, value |-> pages[i].buf]
  /\ UNCHANGED <<disk, op>>

ReadMiss(b) ==
  /\ op = Idle
  /\ ~Cached(b)
  /\ LruPage(b, Blank, FALSE) \/ NoPage
  /\ reply' = NoReply
  /\ UNCHANGED disk

(* ufs_pager_write *)

WriteHit(b, v) ==
  /\ op = Idle
  /\ \E i \in 1 .. Len(pages) :
        /\ Hit(b, i)
        /\ pages[i].dirty < MaxDeferred
        /\ pages' = Stamp([pages EXCEPT ![i].used = Inc(@, 1), ![i].buf = v,
                                        ![i].dirty = IncDirty(@)], i)
  /\ reply' = NoReply
  /\ UNCHANGED <<disk, op>>

WriteMiss(b, v) ==
  /\ op = Idle
  /\ ~Cached(b)
  /\ disk' = [disk EXCEPT ![b] = v]
  /\ LruPage(b, v, TRUE) \/ NoPage
  /\ reply' = NoReply

WriteMissFails(b) ==
  /\ op = Idle
  /\ ~Cached(b)
  /\ "write" \in FaultAt
  /\ reply' = NoReply
  /\ UNCHANGED <<disk, pages, op>>

-----------------------------------------------------------------------------
(* Faulty variant: the mark is cleared and nothing is written.             *)
PageFlushUnwritten(i) ==
  /\ pages' = [pages EXCEPT ![i].dirty = 0]
  /\ UNCHANGED disk

(* ufs_page_flush of page i, when the write succeeds.                      *)
PageFlush(i) ==
  /\ disk' = [disk EXCEPT ![pages[i].block] = pages[i].buf]
  /\ pages' = [pages EXCEPT ![i].dirty = 0]

(* The chosen page is dirty and is flushed before it is used again.        *)
Evict ==
  /\ op.at = "fill"
  /\ pages[op.page].dirty # 0
  /\ PageFlush(op.page)
  /\ reply' = NoReply
  /\ UNCHANGED op

(* Faulty variant: the error of ufs_page_flush is ignored.                 *)
EvictFailsIgnored ==
  /\ op.at = "fill"
  /\ pages[op.page].dirty # 0
  /\ "write" \in FaultAt
  /\ pages' = [pages EXCEPT ![op.page].dirty = 0]
  /\ reply' = NoReply
  /\ UNCHANGED <<disk, op>>

EvictFails ==
  /\ op.at = "fill"
  /\ pages[op.page].dirty # 0
  /\ "write" \in FaultAt
  /\ op' = Idle
  /\ reply' = NoReply
  /\ UNCHANGED <<disk, pages>>

(* The page takes the block: reset page with new cache data.               *)
Refill(v) ==
  /\ op.at = "fill"
  /\ pages[op.page].dirty = 0
  /\ pages' = Stamp([pages EXCEPT ![op.page].block = op.block, ![op.page].buf = v,
                                  ![op.page].dirty = 0, ![op.page].used = 1], op.page)
  /\ op' = Idle
  /\ UNCHANGED disk

ReadRefill ==
  /\ op.at = "fill"
  /\ ~op.write
  /\ Refill(disk[op.block])
  /\ reply' = [block |-> op.block, value |-> disk[op.block]]

ReadRefillFails ==
  /\ op.at = "fill"
  /\ ~op.write
  /\ pages[op.page].dirty = 0
  /\ "read" \in FaultAt
  /\ op' = Idle
  /\ reply' = NoReply
  /\ UNCHANGED <<disk, pages>>

WriteRefill ==
  /\ op.at = "fill"
  /\ op.write
  /\ Refill(op.buf)
  /\ reply' = NoReply

-----------------------------------------------------------------------------
(* ufs_pager_flush, called by ufs_sync or by ufs_pager_free.               *)

FlushStart ==
  /\ op = Idle
  /\ \E free \in BOOLEAN : op' = Flush(1, free)
  /\ reply' = NoReply
  /\ UNCHANGED <<disk, pages>>

(* Faulty variant: a clean page is not stepped over.                       *)
FlushPageStays ==
  /\ op.at = "flush"
  /\ op.n <= Len(pages)
  /\ IF pages[op.n].dirty # 0 THEN PageFlush(op.n) ELSE UNCHANGED <<disk, pages>>
  /\ op' = Flush(op.n + (IF pages[op.n].dirty # 0 THEN 1 ELSE 0), op.free)
  /\ reply' = NoReply

FlushPage ==
  /\ op.at = "flush"
  /\ op.n <= Len(pages)
  /\ IF pages[op.n].dirty # 0 THEN PageFlush(op.n) ELSE UNCHANGED <<disk, pages>>
  /\ op' = Flush(op.n + 1, op.free)
  /\ reply' = NoReply

(* ufs_pager_free frees the pages whatever the flush returned.             *)
Discard == pages' = IF op.free THEN << >> ELSE pages

FlushFails ==
  /\ op.at = "flush"
  /\ op.n <= Len(pages)
  /\ pages[op.n].dirty # 0
  /\ "write" \in FaultAt
  /\ Discard
  /\ op' = Idle
  /\ reply' = NoReply
  /\ UNCHANGED disk

FlushEnd ==
  /\ op.at = "flush"
  /\ op.n > Len(pages)
  /\ Discard
  /\ op' = Idle
  /\ reply' = NoReply
  /\ UNCHANGED disk

(* The machine stops: the cache is gone, the dataset is not.               *)
Crash ==
  /\ Crashes
  /\ pages' = << >>
  /\ op' = Idle
  /\ reply' = NoReply
  /\ UNCHANGED disk

-----------------------------------------------------------------------------
(* The rest of an operation that has started.                              *)
Continue ==
  \/ Evict
  \/ EvictFails
  \/ ReadRefill
  \/ ReadRefillFails
  \/ WriteRefill
  \/ FlushPage
  \/ FlushFails
  \/ FlushEnd

Next ==
  \/ \E b \in Block : ReadHit(b) \/ ReadMiss(b) \/ WriteMissFails(b)
  \/ \E b \in Block, v \in Value : WriteHit(b, v) \/ WriteMiss(b, v)
  \/ FlushStart
  \/ Continue
  \/ Crash

Spec == Init /\ [][Next]_vars

(* The task that holds the pager lock runs.                                *)
FairSpec == Spec /\ WF_vars(Continue)

-----------------------------------------------------------------------------
(* Properties *)

OpOK ==
  \/ op = Idle
  \/ \E i \in 1 .. Len(pages), b \in Block, v \in Value, write \in BOOLEAN :
        op = Fill(i, b, v, write)
  \/ \E n \in 1 .. Len(pages) + 1, free \in BOOLEAN : op = Flush(n, free)

TypeOK ==
  /\ disk \in [Block -> Value]
  /\ pages \in Seq(Page)
  /\ OpOK
  /\ reply = NoReply \/ reply \in [block : Block, value : Value]

(* No block is in two pages: a second copy would keep an old value and     *)
(* write it over the new one (ufs_pager_find_block stops at the first).    *)
OneCopy ==
  \A i, j \in 1 .. Len(pages) :
     pages[i].block = pages[j].block /\ pages[i].block # NoBlock => i = j

(* A page that differs from the disk is marked: "buffer needs to be        *)
(* written to disk (deferred write)", the comment on dirty in pager.h.     *)
DeferredMarked ==
  \A i \in 1 .. Len(pages) :
     pages[i].block # NoBlock /\ pages[i].dirty = 0
        => pages[i].buf = disk[pages[i].block]

(* The contents of the blocks as the file system sees them, over a disk    *)
(* with these contents and these pages.                                    *)
Contents(ps, contents) ==
  [b \in Block |->
     IF \E i \in 1 .. Len(ps) : ps[i].block = b
     THEN ps[CHOOSE i \in 1 .. Len(ps) : ps[i].block = b].buf
     ELSE contents[b]]

View == Contents(pages, disk)

(* When ufs_pager_flush returns zero nothing is left to write: the disk    *)
(* holds what the file system sees, every deferred write included.         *)
FlushComplete == [][FlushEnd => disk = View]_vars

(* Every operation gives the pager lock back, or every task that uses the  *)
(* disk would wait for it.                                                 *)
PagerReturns == op # Idle ~> op = Idle

(* The pager implements the device: reads return the last write whatever   *)
(* was evicted, flushed or deferred in between, and only a crash, or a     *)
(* write error while ufs_pager_free gives the cache up, loses a write.     *)
Device == INSTANCE BlockDevice
            WITH mem <- View, stable <- disk,
                 Lossy <- Crashes \/ "write" \in FaultAt

DeviceSpec == Device!Spec

=============================================================================
