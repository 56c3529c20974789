----------------------------- MODULE UfsFileMap -----------------------------
(***************************************************************************)
(* The blocks of a file: ufs_datablock_addr (UFSDAADR), which says where   *)
(* the number of a block is kept, ufs_datablock_last (UFSDALST), _link     *)
(* (UFSDALNK), _add_leaf (UFSDAALF), _unlink (UFSDAULK), _remove_leaf      *)
(* (UFSDARML), _remove_self (UFSDARMS), _foreach (UFSDAFOR) with _loop1    *)
(* and _loop2, and the two that grow and shrink a file, _expand (UFSDAEXP) *)
(* and _contract (UFSDACON), as _size_change (UFSDACHG) calls them.        *)
(*                                                                         *)
(* An inode has NDirect numbers of data blocks, and one number each of an  *)
(* index block, an index of index blocks, and an index of those.  The      *)
(* operators take and return a record m:                                   *)
(*   size, addr    of the inode in storage (struct ufs_dinode)             *)
(*   saved         size and addr of the inode on the disk                  *)
(*   free          the free blocks, last in, first out, as UfsFreeBlock    *)
(*                 hands them out                                          *)
(*   disk          the contents of the blocks, as words                    *)
(*   bad           the block that cannot be read or written during the     *)
(*                 call, 0 for none                                        *)
(*   blk, error    what the function returned                              *)
(***************************************************************************)
EXTENDS Integers, Sequences, FiniteSets, SequencesExt

CONSTANTS
  NDirect,    \* UFS_NADDR_DIRECT (16)
  BlkSize,    \* disk->blksize, a power of two
  Per,        \* UFS_DADDR_PER_BLOCK: block numbers in an index block
  Start,      \* datablock_start_sector
  Volume,     \* volume_size
  Word        \* 2^32: sizes are below Word

DataBlock == Start .. Volume - 1
Cell      == 0 .. BlkSize - 1
Slot      == 0 .. NDirect + 2
Index1    == NDirect
Index2    == NDirect + 1
Index3    == NDirect + 2

ASSUME MapAssumption ==
  /\ NDirect \in Nat \ {0} /\ BlkSize \in Nat \ {0}
  /\ Per \in 2 .. BlkSize
  /\ Start \in Nat \ {0} /\ Volume \in Nat /\ Word \in Nat
  /\ Start <= Volume /\ Volume <= Word /\ BlkSize < Word /\ Word % BlkSize = 0
  /\ Per * BlkSize < Word
  /\ Per * Per * BlkSize < Word \/ (Per * Per * BlkSize) % Word = 0  \* powers of two

Zeros == [i \in Cell |-> 0]

(* ufs_datablock_number_sanity *)
Sane(blk) == blk >= Start /\ blk < Volume

CONSTANTS
  File,       \* the inodes of files
  Sizes,      \* the sizes that files are changed to
  Bad,        \* blocks whose reads and writes may fail during a call, 0 for none
  MaxCalls    \* bound on the calls of a behaviour

VARIABLES
  file,       \* size, addr and saved of each file
  free,       \* the free blocks
  disk,       \* the contents of the blocks
  rc,         \* what the last call returned
  bad,        \* the block that failed during the last call
  calls       \* number of calls so far

mapVars == <<file, free, disk, rc, bad, calls>>

-----------------------------------------------------------------------------
(* ufs_datablock_addr *)

(* UFS_ROUND_BSIZE and the ROUND of ufs_datablock_addr, as unsigned words. *)
Round(x, unit) == (((x + unit - 1) % Word) \div unit) * unit

NBlk(size) == Round(size, BlkSize) \div BlkSize

DirectSize == NDirect * BlkSize
Size1 == (Per * BlkSize) % Word
Size2 == (Per * Per * BlkSize) % Word

At(level, index) == [level |-> level, index |-> index]

(* The code divides by idx2_sz, which is zero when it does not fit a word. *)
Undefined == At(4, << >>)

(* The entry that reaches the end of rest, when an entry reaches unit.     *)
Entry(rest, unit) == Round(rest, unit) \div unit - 1

(* The place of the last block of a file of sz bytes.                      *)
Addr(sz) ==
  LET Two(rest, i)   == <<i, (rest - i * Size1) \div BlkSize - 1>>
      Three(rest, i) == <<i>> \o Two(rest - i * Size2, Entry(rest - i * Size2, Size1))
      Place(in1) ==
        IF in1 <= 0 THEN At(0, <<(in1 + DirectSize) \div BlkSize - 1>>)
        ELSE IF in1 <= Size1 THEN At(1, <<in1 \div BlkSize - 1>>)
        ELSE IF in1 - Size1 <= Size2 THEN At(2, Two(in1 - Size1, Entry(in1 - Size1, Size1)))
        ELSE IF Size2 = 0 THEN Undefined
        ELSE At(3, Three(in1 - Size1 - Size2, Entry(in1 - Size1 - Size2, Size2)))
  IN IF sz = 0 THEN At(0, <<0>>) ELSE Place(Round(sz, BlkSize) - DirectSize)

-----------------------------------------------------------------------------
(* Reading the map *)

(* ufs_datablock_link *)
Link(m, list, n) ==
  LET Named(blk) == IF Sane(blk) THEN blk ELSE 0
  IN IF Sane(list) /\ list # m.bad THEN Named(m.disk[list][n]) ELSE 0

(* ufs_datablock_last: the block that holds byte offset - 1, 0 for none.   *)
LastBlk(m, offset) ==
  LET At1(list, i) == Link(m, list, i)
      At2(list, i) == At1(At1(list, i[1]), i[2])
      Found(at) ==
        CASE at.level = 0 -> m.addr[at.index[1]]
          [] at.level = 1 -> At1(m.addr[Index1], at.index[1])
          [] at.level = 2 -> At2(m.addr[Index2], at.index)
          [] at.level = 3 /\ at.index[3] < Per -> At1(At2(m.addr[Index3], at.index), at.index[3])
          [] OTHER -> 0
  IN Found(Addr(offset))

(* The blocks that ufs_datablock_loop1 and _loop2 get from an index block. *)
Loop1(m, list) == [k \in 1 .. Per |-> Link(m, list, k - 1)]
Loop2(m, list) == FlattenSeq([j \in 1 .. Per |-> Loop1(m, Link(m, list, j - 1))])
Loop3(m, list) == FlattenSeq([j \in 1 .. Per |-> Loop2(m, Link(m, list, j - 1))])

(* Faulty: the last block, when it is not full, is not a block.           *)
ForEachFull(m) ==
  [k \in {j \in 1 .. NDirect : j <= m.size \div BlkSize} |->
     [blk |-> m.addr[k - 1], bytes |-> BlkSize]]

(* ufs_datablock_foreach: the blocks func is called with, and their bytes. *)
ForEach(m) ==
  LET places == [i \in 1 .. NDirect |-> m.addr[i - 1]] \o Loop1(m, m.addr[Index1])
                  \o Loop2(m, m.addr[Index2]) \o Loop3(m, m.addr[Index3])
      last   == NBlk(m.size)
      sane   == {k \in 1 .. Len(places) : \A j \in 1 .. k : Sane(places[j])}
  IN [k \in {j \in sane : j <= last} |->
        [blk |-> places[k], bytes |-> IF k = last THEN m.size - (k - 1) * BlkSize ELSE BlkSize]]

-----------------------------------------------------------------------------
(* Changing the map *)

(* Faulty: the error is taken for a block.                                 *)
AllocateError(m) ==
  IF m.free = << >> THEN [m EXCEPT !.blk = -1]
  ELSE [m EXCEPT !.blk = Last(m.free), !.free = Front(m.free), !.disk[Last(m.free)] = Zeros]

(* ufs_datablock_allocate: the block is zeroed.  When that fails it is no  *)
(* longer in the list.                                                     *)
Allocate(m) ==
  LET blk == Last(m.free)
      a   == [m EXCEPT !.free = Front(m.free)]
  IN IF m.free = << >> THEN [m EXCEPT !.blk = 0, !.error = "ENOSPC"]
     ELSE IF blk = m.bad THEN [a EXCEPT !.blk = 0, !.error = "EIO"]
     ELSE [a EXCEPT !.blk = blk, !.disk[blk] = Zeros]

(* ufs_datablock_deallocate *)
Deallocate(m, blk) ==
  IF Sane(blk) THEN [m EXCEPT !.free = Append(@, blk), !.error = "ok"]
  ELSE [m EXCEPT !.error = "EIO"]

(* ufs_datablock_add_leaf: no block is the only sign of an error, and a    *)
(* block that was allocated stays so.                                      *)
AddLeaf(m, up, n) ==
  LET Linked(a) ==
        IF a.error # "ok" \/ up = m.bad THEN [a EXCEPT !.blk = 0, !.error = m.error]
        ELSE [a EXCEPT !.disk[up][n] = a.blk]
  IN IF Sane(up) THEN Linked(Allocate(m)) ELSE [m EXCEPT !.blk = 0]

(* ufs_datablock_unlink *)
Unlink(m, list, n) ==
  IF list = m.bad THEN [m EXCEPT !.blk = 0]
  ELSE [m EXCEPT !.blk = m.disk[list][n], !.disk[list][n] = 0]

(* ufs_datablock_remove_leaf: the block that entry n names is given back.  *)
RemoveLeaf(m, up, n) ==
  LET Freed(u) == [Deallocate(u, u.blk) EXCEPT !.error = m.error]
  IN IF Sane(up) THEN Freed(Unlink(m, up, n)) ELSE m

(* Faulty: the index block is not given back.                             *)
RemoveSelfKeeps(m, up) == IF ~Sane(up) THEN [m EXCEPT !.blk = 0] ELSE Unlink(m, up, 0)

(* ufs_datablock_remove_self: the index block is given back, and the block *)
(* of its first entry returned.                                            *)
RemoveSelf(m, up) ==
  IF ~Sane(up) THEN [m EXCEPT !.blk = 0]
  ELSE [Deallocate(Unlink(m, up, 0), up) EXCEPT !.error = m.error]

(* Faulty: only the size is written, or only the inode in storage changes. *)
WritebackSize(m, size) == [m EXCEPT !.size = size, !.saved.size = size]

(* The inode is written back to the disk.                                  *)
Writeback(m, size) ==
  [m EXCEPT !.size = size, !.saved = [size |-> size, addr |-> m.addr]]

Descend(m, depth) == FoldLeft(LAMBDA x, d : AddLeaf(x, x.blk, 0), m, [d \in 1 .. depth |-> d])

(* A block goes into an index of the first, second or third kind, in list; *)
(* where the place before it, from, has another path, the path is made.    *)
Grow1(m, list, to) == AddLeaf(m, list, to[1])

Grow2(m, list, from, to) ==
  LET Leaf(x) == AddLeaf(x, Link(x, list, to[1]), to[2])
  IN Leaf(IF from[1] = to[1] THEN m ELSE AddLeaf(m, list, to[1]))

Grow3(m, list, from, to) ==
  LET Leaf(x, mid) == AddLeaf(x, Link(x, mid, to[2]), to[3])
      Low(x, mid)  == Leaf(IF from[2] = to[2] THEN x ELSE AddLeaf(x, mid, to[2]), mid)
      Top(x)       == Low(x, Link(x, list, to[1]))
  IN Top(IF from[1] = to[1] THEN m ELSE AddLeaf(m, list, to[1]))

(* A block goes to the first place of a level; its number into the inode.  *)
GrowLevel(m, to) ==
  LET New(a) ==
        IF a.error # "ok" THEN a
        ELSE IF to.level = 0 THEN [a EXCEPT !.addr[to.index[1]] = a.blk]
        ELSE Descend([a EXCEPT !.addr[NDirect + to.level - 1] = a.blk], to.level)
  IN New(Allocate(m))

(* One turn of the loop of ufs_datablock_expand, for the block after sz.   *)
GrowStep(m, sz) ==
  LET Turn(from, to) ==
        CASE to = Undefined -> [m EXCEPT !.error = "undefined"]
          [] to.level = 0 \/ to.level = from.level + 1 -> GrowLevel(m, to)
          [] to.level = 1 /\ from.level = 1 -> Grow1(m, m.addr[Index1], to.index)
          [] to.level = 2 /\ from.level = 2 -> Grow2(m, m.addr[Index2], from.index, to.index)
          [] to.level = 3 /\ from.level = 3 -> Grow3(m, m.addr[Index3], from.index, to.index)
  IN Turn(Addr(sz), Addr(sz + BlkSize))

(* Without a block the inode gets its old addresses back, and the blocks   *)
(* that were allocated are not given back.  After the other error it keeps *)
(* the new ones.                                                           *)
Grow(m, sz, old) ==
  LET Kept(g) == IF g.error = "ok" /\ g.blk = 0
                 THEN [g EXCEPT !.addr = old.addr, !.error = "ENOSPC"] ELSE g
  IN IF m.error = "ok" THEN Kept(GrowStep(m, sz)) ELSE m

(* ufs_datablock_expand *)
Expand(m, diff) ==
  LET new   == (m.size + diff) % Word
      turns == NBlk(new) - NBlk(m.size)
      Done(grown) == IF grown.error = "ok" THEN Writeback(grown, new) ELSE grown
  IN Done(FoldLeft(LAMBDA x, i : Grow(x, m.size + (i - 1) * BlkSize, m), m,
                   [i \in 1 .. turns |-> i]))

(* The block at a place leaves the index in list, then the index blocks    *)
(* that the place before it, to, does not need.                            *)
Shrink2(m, list, from, to) ==
  LET Top(x) == IF from[1] = to[1] THEN x ELSE RemoveLeaf(x, list, from[1])
  IN Top(RemoveLeaf(m, Link(m, list, from[1]), from[2]))

Shrink3(m, list, from, to) ==
  LET Top(x)      == IF from[1] = to[1] THEN x ELSE RemoveLeaf(x, list, from[1])
      Mid(x)      == IF from[2] = to[2] THEN x ELSE RemoveLeaf(x, Link(x, list, from[1]), from[2])
      Low(x, mid) == RemoveLeaf(x, Link(x, mid, from[2]), from[3])
  IN Top(Mid(Low(m, Link(m, list, from[1]))))

(* The last block of a level goes, and the index blocks above it.          *)
ShrinkLevel(m, slot, depth) ==
  LET Leaf(x) == Deallocate(x, x.blk)
  IN Leaf(FoldLeft(LAMBDA x, i : RemoveSelf(x, x.blk),
                   [m EXCEPT !.blk = m.addr[slot], !.addr[slot] = 0],
                   [i \in 1 .. depth |-> i]))

(* One turn of the loop of ufs_datablock_contract, for the block that ends *)
(* at sz.  The last turn of a file that gets empty may go below zero.      *)
ShrinkStep(m, sz) ==
  LET Turn(from, to) ==
        CASE from.level # to.level -> ShrinkLevel(m, NDirect + from.level - 1, from.level)
          [] to.level = 0 /\ from.level = 0 -> Deallocate(m, m.addr[from.index[1]])
          [] to.level = 1 /\ from.level = 1 -> RemoveLeaf(m, m.addr[Index1], from.index[1])
          [] to.level = 2 /\ from.level = 2 -> Shrink2(m, m.addr[Index2], from.index, to.index)
          [] to.level = 3 /\ from.level = 3 -> Shrink3(m, m.addr[Index3], from.index, to.index)
  IN Turn(Addr(sz), Addr((sz + Word - BlkSize) % Word))

(* Faulty: the blocks of the difference, not the difference in blocks.     *)
ContractByBytes(m, diff) ==
  Writeback(FoldLeft(LAMBDA x, i : ShrinkStep(x, (m.size + Word - (i - 1) * BlkSize) % Word),
                     m, [i \in 1 .. NBlk(diff) |-> i]),
            m.size - diff)

(* ufs_datablock_contract *)
Contract(m, diff) ==
  LET new   == (m.size - diff) % Word
      turns == NBlk(m.size) - NBlk(new)
      cut   == FoldLeft(LAMBDA x, i : ShrinkStep(x, (m.size + Word - (i - 1) * BlkSize) % Word),
                        m, [i \in 1 .. turns |-> i])
  IN Writeback(cut, new)

(* ufs_datablock_size_change: the difference is a signed word.             *)
SizeChange(m, size) ==
  LET up == (size - m.size) % Word IN
  IF up = 0 THEN m
  ELSE IF 2 * up < Word THEN Expand(m, up)
  ELSE Contract(m, Word - up)

-----------------------------------------------------------------------------
(* Files whose sizes change *)

View(f) ==
  [size |-> file[f].size, addr |-> file[f].addr, saved |-> file[f].saved,
   free |-> free, disk |-> disk, bad |-> 0, blk |-> 0, error |-> "ok"]

NoAddr == [i \in Slot |-> 0]

MapInit ==
  /\ file = [f \in File |-> [size |-> 0, addr |-> NoAddr,
                             saved |-> [size |-> 0, addr |-> NoAddr]]]
  /\ free = [i \in 1 .. Volume - Start |-> Volume - i]
  /\ disk = [b \in DataBlock |-> Zeros]
  /\ rc = "ok" /\ bad = 0
  /\ calls = 0

Store(f, m) ==
  /\ file' = [file EXCEPT ![f] = [size |-> m.size, addr |-> m.addr, saved |-> m.saved]]
  /\ free' = m.free
  /\ disk' = m.disk
  /\ bad' = m.bad

Call ==
  /\ calls < MaxCalls /\ rc # "undefined"
  /\ calls' = calls + 1

(* Truncation at open and seeks, writes and new directory entries.         *)
Resize(f, size, broken) ==
  LET m == SizeChange([View(f) EXCEPT !.bad = broken], size) IN
  /\ Call
  /\ Store(f, m)
  /\ rc' = m.error

MapNext == \E f \in File, size \in Sizes, broken \in Bad : Resize(f, size, broken)

MapSpec == MapInit /\ [][MapNext]_mapVars

-----------------------------------------------------------------------------
(* Properties *)

MapTypeOK ==
  /\ \A f \in File :
        /\ file[f].size \in 0 .. Word - 1 /\ file[f].saved.size \in 0 .. Word - 1
        /\ file[f].addr \in [Slot -> {0} \cup DataBlock]
        /\ file[f].saved.addr \in [Slot -> {0} \cup DataBlock]
  /\ free \in Seq(DataBlock)
  /\ DOMAIN disk = DataBlock

(* The data blocks of a file, in order, and its index blocks.              *)
Data(m) == [k \in 1 .. NBlk(m.size) |-> LastBlk(m, k * BlkSize)]

Index(m) ==
  LET places == {Addr(k * BlkSize) : k \in 1 .. NBlk(m.size)}
      Below(list, p) == Link(m, list, p.index[1])
  IN UNION {  IF p.level = 0 THEN {}
              ELSE IF p.level = 1 THEN {m.addr[Index1]}
              ELSE IF p.level = 2 THEN {m.addr[Index2], Below(m.addr[Index2], p)}
              ELSE {m.addr[Index3], Below(m.addr[Index3], p),
                    Link(m, Below(m.addr[Index3], p), p.index[2])} : p \in places}

Owned(f) == Range(Data(View(f))) \cup Index(View(f))

Lost == DataBlock \ (Range(free) \cup UNION {Owned(f) : f \in File})

(* Every byte of every file has a block, no block is used for two things,  *)
(* and no block in use is free, however the files grew and shrank and      *)
(* wherever an expansion stopped for want of blocks.                       *)
BlocksDisjoint ==
  /\ \A f \in File :
        LET m == View(f) IN
        /\ \A k \in DOMAIN Data(m) : Sane(Data(m)[k])
        /\ IsInjective(Data(m))
        /\ Range(Data(m)) \cap Index(m) = {}
        /\ \A g \in File \ {f} : Owned(f) \cap Owned(g) = {}
        /\ Owned(f) \cap Range(free) = {}
  /\ IsInjective(free)

(* ufs_datablock_foreach, which walks the map from its start, and          *)
(* ufs_datablock_last, which computes a place in it, find the same blocks. *)
WalkAgrees ==
  \A f \in File : [k \in DOMAIN ForEach(View(f)) |-> ForEach(View(f))[k].blk] = Data(View(f))

(* The inode on the disk names the same blocks as the one in storage, also *)
(* after an expansion that failed and left new numbers in storage.         *)
SavedSame ==
  \A f \in File :
     LET onDisk == [View(f) EXCEPT !.size = file[f].saved.size, !.addr = file[f].saved.addr]
     IN Data(onDisk) = Data(View(f)) /\ Index(onDisk) = Index(View(f))

(* Only a call that fails, or during which a block cannot be read, loses   *)
(* blocks: every other call leaves each block free or in a file.           *)
LostByFailure == [][rc' = "ok" /\ bad' = 0 => Lost' \subseteq Lost]_mapVars

=============================================================================
