----------------------------- MODULE UfsFileIO ------------------------------
(***************************************************************************)
(* The calls on file handles: ufs_fopen with ufs_open and ufs_file_mode,   *)
(* ufs_fclose, ufs_fread, ufs_fwrite, ufs_fgets, ufs_fputs, ufs_fgetc,     *)
(* ufs_fputc, ufs_fseek, ufs_fsync and ufs_clearerr, with the functions    *)
(* below them.  A handle keeps one block of its file in a buffer.          *)
(*                                                                         *)
(* The operators take and return a record x: that of UfsFileMap (size,     *)
(* addr, saved, free, disk, bad, blk, error) with the fields of the handle *)
(* (mode as read and write, pos, blkpos, blkno, buf, and the indicators    *)
(* eof, err and dirty), and                                                *)
(*   got      the bytes read                                               *)
(*   outside  the uses of a handle that the code does not provide for      *)
(***************************************************************************)
EXTENDS UfsFileMap, TLC

CONSTANTS
  Handle,       \* struct ufs_file
  ModeStrings,  \* the mode strings that files are opened with
  ReadSizes, WriteSizes,  \* <<size, nitems>> of ufs_fread and ufs_fwrite
  Offsets,      \* offsets of ufs_fseek
  OldSizes      \* the sizes of the files at the start: a set of functions

VARIABLES
  handle,       \* the file handles
  got,          \* the bytes that the last call returned
  put,          \* the bytes that the last call was given
  outside

ioVars == <<mapVars, handle, got, put, outside>>

Whence == {"SET", "CUR", "END", "other"}

Closed ==
  [open |-> FALSE, of |-> << >>, read |-> FALSE, write |-> FALSE, pos |-> 0, blkpos |-> 0,
   blkno |-> 0, buf |-> Zeros, eof |-> FALSE, err |-> "ok", dirty |-> FALSE]

(* A line ends at a newline. *)
Newline(c) == c % 3 = 0

Failed(x, e) == [x EXCEPT !.err = e]

Outside(x, kind) == [x EXCEPT !.outside = @ \cup {kind}]

-----------------------------------------------------------------------------
(* ufs_file_mode: the flags of a mode string, which is a sequence here.    *)
FileMode(mode) ==
  LET Flags(i, set) ==
        CASE mode[i] = "r" -> {"read"}
          [] mode[i] = "w" -> IF i = 1 THEN {"write", "create", "trunc"} ELSE {"write"}
          [] mode[i] = "a" -> IF i = 1 THEN {"write", "create", "append"} ELSE {}
          [] mode[i] = "b" -> IF i = 1 THEN {} ELSE {"binary"}
          [] mode[i] = "+" -> IF i = 1 THEN {}
                              ELSE IF "read" \in set THEN {"write"}
                              ELSE IF "write" \in set THEN {"read"} ELSE {}
          [] OTHER -> {}
  IN FoldLeft(LAMBDA set, i : set \cup Flags(i, set), {}, [i \in 1 .. Len(mode) |-> i])

(* ufs_file_sync; the result of the write is not looked at.                *)
Sync(x) ==
  LET Written(w) == IF w.blkno = w.bad THEN Outside(w, "io") ELSE [w EXCEPT !.disk[w.blkno] = w.buf]
      To(b) == IF b = 0 THEN Outside(x, "io") ELSE Written([x EXCEPT !.blkno = b, !.dirty = FALSE])
  IN IF ~x.dirty THEN x
     ELSE To(IF x.blkno = 0 THEN LastBlk(x, x.pos) ELSE x.blkno)

(* Faulty: the buffer is replaced, the number of its block is not.         *)
FetchUnnamed(x, blk) == [x EXCEPT !.buf = x.disk[blk]]

(* The block that holds byte offset - 1 is read into the buffer.  When the *)
(* read fails, blkno already names it.                                     *)
Fetch(x, blk) ==
  IF blk = x.bad THEN Outside(Failed([x EXCEPT !.blkno = blk], "EIO"), "io")
  ELSE [x EXCEPT !.blkno = blk, !.buf = x.disk[blk]]

Load(x, offset) ==
  LET Placed(y) == IF y.err = "ok" THEN [y EXCEPT !.blkpos = y.pos % BlkSize] ELSE y
      From(blk) == IF blk = 0 THEN Failed(x, "EIO") ELSE Placed(Fetch(x, blk))
  IN From(LastBlk(x, offset))

-----------------------------------------------------------------------------
(* Reading *)

(* ufs_file_getc.  A changed buffer is not written before it is replaced.  *)
Get(x) ==
  LET Taken(y) ==
        IF y.err # "ok" THEN y
        ELSE [y EXCEPT !.got = Append(@, y.buf[y.blkpos]), !.blkpos = @ + 1, !.pos = @ + 1]
  IN IF x.eof \/ x.err # "ok" THEN x
     ELSE IF ~x.read THEN Failed(x, "EPERM")
     ELSE IF x.pos >= x.size THEN [x EXCEPT !.eof = TRUE]
     ELSE Taken(IF x.blkpos < BlkSize THEN x
                ELSE Load(IF x.dirty THEN Outside(x, "unsynced") ELSE x, x.pos + 1))

(* ufs_file_getn copies by the piece what ufs_file_getc gets by the byte.  *)
GetN(x, n) == FoldLeft(LAMBDA y, i : Get(y), x, [i \in 1 .. n |-> i])

(* ufs_fgets *)
GetLine(x, num) ==
  LET Ended(y) == y.got # << >> /\ Newline(Last(y.got))
  IN IF ~x.read THEN Failed(x, "EPERM")
     ELSE FoldLeft(LAMBDA y, i : IF Ended(y) THEN y ELSE Get(y), x, [i \in 1 .. num - 1 |-> i])

-----------------------------------------------------------------------------
(* Writing *)

(* The byte c goes into the buffer, unless an error occurred.              *)
Place(x, c) ==
  IF x.err # "ok" THEN x
  ELSE [x EXCEPT !.buf[x.blkpos] = c, !.blkpos = @ + 1, !.pos = @ + 1, !.dirty = TRUE]

(* Faulty: a changed buffer is replaced without being written.             *)
PutUnsynced(x, c, ahead) ==
  IF x.err # "ok" THEN x
  ELSE Place(IF x.blkpos < BlkSize THEN x ELSE Load(x, x.pos + ahead), c)

(* Behind the end of the buffer, the next block is loaded first.           *)
Put(x, c, ahead) ==
  IF x.err # "ok" THEN x
  ELSE Place(IF x.blkpos < BlkSize THEN x ELSE Load(Sync(x), x.pos + ahead), c)

(* ufs_file_putn: the file gets its new size before the bytes are copied.  *)
PutN(x, data) ==
  LET end == (x.pos + Len(data)) % Word
      Copied(y) == IF y.error # "ok" THEN Failed(y, y.error)
                   ELSE FoldLeft(LAMBDA z, c : Put(z, c, 1),
                                 [y EXCEPT !.eof = @ /\ end <= x.size], data)
  IN IF x.err # "ok" THEN x
     ELSE IF ~x.write THEN Failed(x, "EPERM")
     ELSE Copied(IF end > x.size THEN SizeChange(x, end) ELSE x)

(* ufs_file_putc, which loads the block of the byte before.                *)
PutC(x, c) ==
  LET Behind(y) == IF y.blkpos >= BlkSize THEN Outside(y, "putc") ELSE y
      Copied(y) == IF y.error # "ok" THEN Failed(y, y.error) ELSE Put(Behind(y), c, 0)
  IN IF x.err # "ok" THEN x
     ELSE IF ~x.write THEN Failed(x, "EPERM")
     ELSE Copied(IF x.pos >= x.size THEN SizeChange(x, x.pos + 1) ELSE x)

(* The items of ufs_fwrite; one item, or items of one byte, are written at *)
(* once.                                                                   *)
PutItems(x, data, size) ==
  IF size = 1 \/ Len(data) = size THEN PutN(x, data)
  ELSE FoldLeft(LAMBDA y, i : PutN(y, SubSeq(data, (i - 1) * size + 1, i * size)),
                x, [i \in 1 .. Len(data) \div size |-> i])

-----------------------------------------------------------------------------
(* Positions *)

(* Where ufs_fseek goes; -1 when it is refused. *)
Target(x, offset, whence) ==
  LET From(base) ==
        IF base + offset < 0 THEN -1
        ELSE IF base + offset >= Word THEN -1
        ELSE base + offset
  IN CASE whence = "SET" -> IF offset >= 0 THEN offset ELSE 0
       [] whence = "CUR" -> From(x.pos)
       [] whence = "END" -> From(x.size)
       [] OTHER -> 0

(* The buffer and the block that a new position needs: the block of the    *)
(* byte before it.                                                         *)
Settle(x, pos) ==
  LET Buffered(y, blk) ==
        IF blk = 0 /\ y.blkno # 0 THEN Outside([y EXCEPT !.buf = Zeros], "hole")
        ELSE IF blk = 0 THEN [y EXCEPT !.buf = Zeros]
        ELSE IF blk = y.blkno THEN y
        ELSE Fetch(y, blk)
  IN Buffered([x EXCEPT !.pos = pos, !.blkpos = pos % BlkSize, !.err = "ok"], LastBlk(x, pos))

Marked(x, pos) ==
  LET atEnd == IF pos > 0 /\ pos % BlkSize = 0 THEN Outside(x, "boundary") ELSE x
  IN IF pos > NBlk(x.size) * BlkSize THEN Outside(atEnd, "hole") ELSE atEnd

(* ufs_fseek to a position: a file that is only written ends there.        *)
SeekTo(x, pos) ==
  LET only == x.write /\ ~x.read
      Seen(y)    == IF y.err # "ok" THEN y ELSE [y EXCEPT !.eof = pos >= y.size]
      Cut(y)     == IF y.error # "ok" THEN Failed(Outside(y, "freed"), y.error)
                    ELSE Seen(Settle(Marked(y, pos), pos))
      Synced(y)  == Cut(IF only /\ pos < y.size THEN SizeChange(y, pos) ELSE y)
      Grown(y)   == IF y.error # "ok" THEN Failed(y, y.error)
                    ELSE Synced(IF x.write THEN Sync(y) ELSE y)
  IN Grown(IF only /\ pos > x.size THEN SizeChange(x, pos) ELSE x)

Seek(x, offset, whence) ==
  LET To(pos) == IF pos = -1 THEN Failed(x, "EINVAL") ELSE SeekTo(x, pos)
  IN To(Target(x, offset, whence))

-----------------------------------------------------------------------------
(* The calls *)

(* The bytes of a call are its own. *)
Bytes(n) == [i \in 1 .. n |-> 16 * (calls + 1) + i]

(* Files of earlier times: sizes that were reached, and bytes.             *)
Filled(m, size) ==
  LET grown == SizeChange(m, size)
      Byte(k, c) == IF (k - 1) * BlkSize + c < size THEN (k - 1) * BlkSize + c + 1 ELSE 0
  IN FoldLeft(LAMBDA x, k : [x EXCEPT !.disk[LastBlk(x, k * BlkSize)] = [c \in Cell |-> Byte(k, c)]],
              grown, [k \in 1 .. NBlk(size) |-> k])

Old(sizes) ==
  FoldLeft(LAMBDA acc, f :
             LET m == Filled([size |-> 0, addr |-> NoAddr, saved |-> [size |-> 0, addr |-> NoAddr],
                              free |-> acc.free, disk |-> acc.disk, bad |-> 0, blk |-> 0, error |-> "ok"],
                             sizes[f])
             IN [file |-> [acc.file EXCEPT ![f] = [size |-> m.size, addr |-> m.addr,
                                                   saved |-> m.saved]],
                 free |-> m.free, disk |-> m.disk],
           [file |-> [f \in File |-> << >>], free |-> [i \in 1 .. Volume - Start |-> Volume - i],
            disk |-> [b \in DataBlock |-> Zeros]],
           SetToSeq(File))

IoInit ==
  /\ \E sizes \in OldSizes :
        /\ file = Old(sizes).file
        /\ free = Old(sizes).free
        /\ disk = Old(sizes).disk
  /\ handle = [h \in Handle |-> Closed]
  /\ got = << >> /\ put = << >> /\ outside = {}
  /\ rc = "ok" /\ bad = 0 /\ calls = 0

With(f, desc, broken) ==
  [View(f) EXCEPT !.bad = broken] @@ desc @@ [got |-> << >>, outside |-> outside]

(* The file was cut to nothing: the buffer is that of a free block, and no *)
(* harm is done if the file gets it again, as the next to be allocated.    *)
Stale(h) ==
  /\ handle[h].open /\ handle[h].blkno # 0 /\ file[handle[h].of].size = 0
  /\ free = << >> \/ Last(free) # handle[h].blkno

(* The end of a call on h, with the result x, that was given data.         *)
End(h, x, data) ==
  /\ Call
  /\ Store(x.of, x)
  /\ handle' = [handle EXCEPT ![h] = IF x.open THEN [k \in DOMAIN Closed |-> x[k]] ELSE Closed]
  /\ got' = x.got
  /\ put' = data
  /\ rc' = x.err
  /\ outside' = x.outside \cup (IF \E k \in Handle : Stale(k)' THEN {"freed"} ELSE {})

(* ufs_fopen and ufs_open, of a file that exists and may be accessed.      *)
Fopen(h, f, mode) ==
  LET flags  == FileMode(mode)
      desc   == [Closed EXCEPT !.open = TRUE, !.of = f, !.read = "read" \in flags,
                               !.write = "write" \in flags]
      second == \E k \in Handle : handle[k].open /\ handle[k].of = f
      Saved(x) == Writeback(x, x.size)
      Opened(x) ==
        Saved(Seek(IF "trunc" \in flags THEN [SizeChange(x, 0) EXCEPT !.error = "ok"] ELSE x,
                   0, IF "append" \in flags THEN "END" ELSE "SET"))
  IN /\ ~handle[h].open
     /\ IF flags \cap {"read", "write"} = {}
        THEN /\ Call /\ rc' = "EINVAL"
             /\ UNCHANGED <<file, free, disk, bad, handle, got, put, outside>>
        ELSE \E broken \in Bad :
               LET x == With(f, desc, broken)
               IN End(h, Opened(IF second THEN Outside(x, "shared") ELSE x), << >>)

(* A call on an open handle. *)
On(h, Op(_), data) ==
  /\ handle[h].open
  /\ \E broken \in Bad : End(h, Op(With(handle[h].of, handle[h], broken)), data)

Fread(h, size, nitems) == On(h, LAMBDA x : GetN(x, size * nitems), << >>)

Fgetc(h) == On(h, Get, << >>)

Fgets(h, num) == On(h, LAMBDA x : GetLine(x, num), << >>)

Fwrite(h, size, nitems) ==
  On(h, LAMBDA x : PutItems(x, Bytes(size * nitems), size), Bytes(size * nitems))

Fputs(h, n) == On(h, LAMBDA x : PutN(x, Bytes(n)), Bytes(n))

Fputc(h) == On(h, LAMBDA x : PutC(x, Bytes(1)[1]), Bytes(1))

Fseek(h, offset, whence) == On(h, LAMBDA x : Seek(x, offset, whence), << >>)

Fsync(h) == On(h, Sync, << >>)

Clearerr(h) == On(h, LAMBDA x : [x EXCEPT !.err = "ok"], << >>)

Fclose(h) == On(h, LAMBDA x : [Sync(x) EXCEPT !.open = FALSE], << >>)

IoNext ==
  \E h \in Handle :
     \/ \E f \in File, mode \in ModeStrings : Fopen(h, f, mode)
     \/ \E s \in ReadSizes : Fread(h, s[1], s[2])
     \/ \E s \in WriteSizes : Fwrite(h, s[1], s[2]) \/ Fputs(h, s[1])
     \/ \E s \in ReadSizes : Fgets(h, s[1])
     \/ Fgetc(h) \/ Fputc(h)
     \/ \E offset \in Offsets, whence \in Whence : Fseek(h, offset, whence)
     \/ Fsync(h) \/ Clearerr(h) \/ Fclose(h)

IoSpec == IoInit /\ [][IoNext]_ioVars

-----------------------------------------------------------------------------
(* Properties *)

(* The uses of a handle after which its buffer may go to a block that is   *)
(* not its file's.                                                         *)
Astray == outside \cap {"hole", "freed", "shared"} # {}

(* A changed buffer is written to a block of its own file: never to a      *)
(* block of another file, a free block or an index block; also after a     *)
(* seek to a block boundary, a byte put behind a block, or a failed read.  *)
DirtyInFile ==
  \A h \in Handle :
     LET m == View(handle[h].of)
         b == IF handle[h].blkno = 0 THEN LastBlk(m, handle[h].pos) ELSE handle[h].blkno
     IN handle[h].dirty /\ ~Astray => b \in Range(Data(m))

(* Reads, writes, seeks and truncations leave the blocks of the files      *)
(* apart.                                                                  *)
MapIntact == Astray \/ BlocksDisjoint

(* The bytes of a file: those of a changed buffer, and those on the disk.  *)
Content(f) ==
  LET Base(h)  == handle[h].pos - handle[h].blkpos
      Over(i)  == {h \in Handle : /\ handle[h].of = f /\ handle[h].dirty
                                  /\ i \in Base(h) .. Base(h) + BlkSize - 1}
      Stored(i) == LET b == LastBlk(View(f), i + 1)
                   IN IF b \in DataBlock THEN disk[b][i % BlkSize] ELSE 0
  IN [k \in 1 .. file[f].size |->
        LET i == k - 1 IN
        IF Over(i) = {} THEN Stored(i)
        ELSE LET h == CHOOSE h \in Over(i) : TRUE IN handle[h].buf[i - Base(h)]]

Contents == [f \in File |-> Content(f)]

Descs == [h \in Handle |-> [open |-> handle[h].open, file |-> handle[h].of, pos |-> handle[h].pos,
                            writeOnly |-> handle[h].write /\ ~handle[h].read]]

BF == INSTANCE ByteFile WITH content <- Contents, desc <- Descs

(* Within the rules, a file is a sequence of bytes.                        *)
ByteFileSpec == BF!Spec

(* A seek to a block boundary is within the rules: "newpos is the desired  *)
(* file offset" (ufs#fsee.c:72).                                           *)
AnySeek == INSTANCE ByteFile WITH content <- Contents, desc <- Descs,
                                  outside <- outside \ {"boundary"}

SeekSpec == AnySeek!Spec

(* A call on one file changes no byte of another, whatever failed before.  *)
OtherFiles ==
  [][\A f \in File :
       Astray' \/ Content(f)' = Content(f)
         \/ \E h \in Handle : handle[h] # handle'[h] /\ f \in {handle[h].of, handle'[h].of}]_ioVars

=============================================================================
