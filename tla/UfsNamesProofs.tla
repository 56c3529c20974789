--------------------------- MODULE UfsNamesProofs ---------------------------
(***************************************************************************)
(* Proofs about the names of files, for any disks and directories that are *)
(* in order when they are mounted, any number of sessions and calls, and   *)
(* whatever a call is refused for want of an inode or of a block.          *)
(***************************************************************************)
EXTENDS UfsNames, FoldProofs

-----------------------------------------------------------------------------
(* What is true of the inodes I of the nodes A, those that are not lost.   *)

Owners == User \cup {NoUser} \cup {Formatted[n].owner : n \in DOMAIN Formatted}
Groups == {"", "ADMIN", "STGADMIN"} \cup {GroupOf[u] : u \in User \ {NoUser}}
            \cup {Formatted[n].group : n \in DOMAIN Formatted}
Ent    == [name : Name, ino : Nat]
Record == [kind : {"free", "file", "dir"}, nlink : Nat, ent : Seq(Ent),
           owner : Owners, group : Groups, mode : Rights]
Inodes == [Node -> Record]

(* The node that an entry names, and the entries that name directories.    *)
Child(I, d, k) == <<d[1], I[d].ent[k].ino>>
Subs(I, d)     == {k \in DOMAIN I[d].ent : I[d].ent[k].name \notin Dots /\ I[Child(I, d, k)].kind = "dir"}

(* The link count of a directory is at least the number of directories in  *)
(* it.                                                                     *)
Good(I) ==
  /\ \A d \in Node : \A k \in DOMAIN I[d].ent :
       Child(I, d, k) \in Node /\ I[Child(I, d, k)].kind # "free"
  /\ \A n \in Node : I[n].kind # "dir" => I[n].ent = << >>
  /\ \A n \in Node : I[n].kind = "dir" => Cardinality(Subs(I, n)) <= I[n].nlink

Closed(I, A) == \A d \in A : \A k \in DOMAIN I[d].ent : Child(I, d, k) \in A

(* A directory that has not been removed starts with itself; its other     *)
(* entries are names, all but the second, and so are those of one that has *)
(* been removed.                                                           *)
Dotted(I, n)  == I[n].ent # << >> /\ I[n].ent[1].ino = n[2]
NamesIn(I, d) == {k \in DOMAIN I[d].ent : Dotted(I, d) => k > 2}
Dirs(I, A)    == {n \in A : I[n].kind = "dir"}

Begins(I, n) ==
  Len(I[n].ent) >= 2 /\ I[n].ent[1].name = "." /\ I[n].ent[2].name = ".."

(* ".." names the directory that has the name of n.                        *)
HasParent(I, A, n) ==
  /\ Child(I, n, 2) \in Dirs(I, A)
  /\ IF n[2] = RootInode THEN Child(I, n, 2) = n
     ELSE \E k \in NamesIn(I, Child(I, n, 2)) : Child(I, Child(I, n, 2), k) = n

(* A name of a directory is its only one.                                  *)
NamedOnce(I, d, k) ==
  LET c == Child(I, d, k) IN
  I[c].kind = "dir" =>
    /\ c[2] # RootInode /\ Dotted(I, c) /\ Child(I, c, 2) = d
    /\ \A j \in NamesIn(I, d) : Child(I, d, j) = c => j = k

(* The shape of the tree, but for the node m that gets another name.       *)
ShapeBut(I, A, m) ==
  /\ \A d \in Disk : Dotted(I, RootOf(d)) /\ RootOf(d) # m
  /\ \A n \in Dirs(I, A) : Dotted(I, n) => Begins(I, n) /\ (n # m => HasParent(I, A, n))
  /\ \A d \in Dirs(I, A) : \A k \in NamesIn(I, d) : Child(I, d, k) # m => NamedOnce(I, d, k)

Shape(I, A) == ShapeBut(I, A, << >>)

(* The entries of A that name n, and the link counts.                      *)
Refs(I, A, n) == {p \in A \X Nat : p[2] \in DOMAIN I[p[1]].ent /\ Child(I, p[1], p[2]) = n}
Bal(I, A, n)  == I[n].nlink - Cardinality(Refs(I, A, n))
Counted(I, A) == \A n \in A : Bal(I, A, n) = 0

Sound(I, A)   == Good(I) /\ Closed(I, A) /\ \A d \in Disk : RootOf(d) \in Dirs(I, A)
Ordered(I, A) == Shape(I, A) /\ Counted(I, A)

(* Without names that were cut or used twice "." and ".." are at the start *)
(* of a directory only, and one that was removed is empty.                 *)
Tidy(I, A) ==
  \A n \in Dirs(I, A) :
    IF Dotted(I, n) THEN \A k \in NamesIn(I, n) : I[n].ent[k].name \notin Dots
    ELSE I[n].ent = << >> /\ I[n].nlink = 0

-----------------------------------------------------------------------------
(* The invariant                                                           *)

Active == Node \ lost

Makes   == {"create", "mkdir"}
Deletes == {"rmdir", "remove"}

(* What a call that has followed its path knows of the directory, still.   *)
CallOK(s, c) ==
  /\ c.dir \in Dirs(inode, Active)
  /\ c.path.abs \in BOOLEAN /\ c.path.names \in Seq(Plain \cup Dots) /\ c.path.names # << >>
  /\ c.op \in Makes =>
       /\ c.perm \in Rights /\ c.at \in 0 .. Len(c.path.names)
       /\ \/ outside # {} \/ c.at < Len(c.path.names) \/ inode[c.dir].nlink = 0
          \/ Auth(UserOf[s], c.dir, "w")
  /\ c.op \in Deletes =>
       /\ c.last \in Active /\ inode[c.last].kind # "free"
       /\ Auth(UserOf[s], c.dir, "w") /\ Auth(UserOf[s], c.last, "w")

Types ==
  /\ inode \in Inodes /\ room \in [Disk -> Nat] /\ calls \in 0 .. MaxCalls
  /\ lost \in SUBSET Node /\ \A n \in lost : inode[n].kind # "free"
  /\ cwd \in [Session -> [cur_dir : Dirs(inode, Active), path : Seq(Plain \cup Dots)]]

NamesInv ==
  /\ Types
  /\ Sound(inode, Active)
  /\ DOMAIN call = Session
  /\ \A s \in Session : call[s] = Idle \/ (call[s].op \in Makes \cup Deletes /\ CallOK(s, call[s]))
  /\ "onto" \notin outside => Ordered(inode, Active)
  /\ outside = {} => Tidy(inode, Active)

-----------------------------------------------------------------------------
(* Nodes and places                                                        *)

LEMMA NodeFacts ==
  /\ IsFiniteSet(Node)
  /\ \A n \in Node : n = <<n[1], n[2]>> /\ n[1] \in Disk /\ n[2] \in Nat
  /\ \A d \in Disk : RootOf(d)[1] = d /\ RootOf(d)[2] = RootInode
<1> DEFINE family == {{d} \X (RootInode .. LastInode[d]) : d \in Disk}
<1>1. IsFiniteSet(family)
  <2> DEFINE f == [d \in Disk |-> {d} \X (RootInode .. LastInode[d])]
  <2>1. f \in Surjection(Disk, family)
    BY DEF Surjection
  <2> HIDE DEF f, family
  <2> QED
    BY <2>1, NamesAssumption, FS_Surjection
<1>2. \A S \in family : IsFiniteSet(S)
  <2> TAKE S \in family
  <2>1. PICK d \in Disk : S = {d} \X (RootInode .. LastInode[d])
    OBVIOUS
  <2>2. IsFiniteSet({d})
    BY FS_Singleton
  <2>3. IsFiniteSet(RootInode .. LastInode[d])
    <3>1. LastInode[d] \in Nat
      BY NamesAssumption
    <3>2. LastInode[d] \in Int /\ RootInode \in Int
      BY <3>1 DEF RootInode
    <3> QED
      BY <3>2, FS_Interval
  <2> QED
    BY <2>1, <2>2, <2>3, FS_Product
<1>3. IsFiniteSet(Node)
  <2> HIDE DEF family
  <2>1. IsFiniteSet(UNION family)
    BY <1>1, <1>2, FS_UNION
  <2> QED
    BY <2>1 DEF Node, family
<1>4. ASSUME NEW n \in Node PROVE n = <<n[1], n[2]>> /\ n[1] \in Disk /\ n[2] \in Nat
  <2>1. PICK d \in Disk : n \in {d} \X (RootInode .. LastInode[d])
    BY DEF Node
  <2>2. LastInode[d] \in Nat
    BY NamesAssumption
  <2> QED
    BY <2>1, <2>2 DEF RootInode
<1> QED
  BY <1>3, <1>4 DEF RootOf

(* Place is the first entry with the name.                                 *)
LEMMA PlaceFacts ==
  ASSUME NEW fs, NEW d, NEW name, fs.inode[d].ent \in Seq(Ent)
  PROVE  /\ Place(fs, d, name) \in Nat
         /\ Place(fs, d, name) = 0 <=> \A k \in DOMAIN fs.inode[d].ent : fs.inode[d].ent[k].name # name
         /\ Place(fs, d, name) # 0 =>
              /\ Place(fs, d, name) \in DOMAIN fs.inode[d].ent
              /\ fs.inode[d].ent[Place(fs, d, name)].name = name
              /\ \A k \in DOMAIN fs.inode[d].ent :
                   fs.inode[d].ent[k].name = name => Place(fs, d, name) <= k
<1> DEFINE ent == fs.inode[d].ent
           S == {k \in 1 .. Len(ent) : ent[k].name = name}
<1>1. Len(ent) \in Nat /\ DOMAIN ent = 1 .. Len(ent)
  BY LenProperties
<1>2. Place(fs, d, name) = IF S # {} THEN Min(S) ELSE 0
  BY DEF Place, SelectInSeq
<1>3. ASSUME S # {} PROVE Min(S) \in S /\ \A k \in S : Min(S) <= k
  <2>1. S \in SUBSET Nat
    BY <1>1
  <2>2. \E n \in S : \A m \in S : n <= m
    <3> HIDE DEF S
    <3> QED
      BY <1>3, <2>1, LeastNat
  <2> QED
    BY <2>2 DEF Min
<1> QED
  <2> HIDE DEF ent
  <2>0. ent \in Seq(Ent)
    BY DEF ent
  <2>1. CASE S = {}
    <3>1. \A k \in DOMAIN ent : ent[k].name # name
      BY <1>1, <2>1
    <3> HIDE DEF S
    <3> QED
      BY <1>2, <2>1, <3>1 DEF ent
  <2>2. CASE S # {}
    <3>1. Min(S) \in S /\ (\A k \in S : Min(S) <= k) /\ Place(fs, d, name) = Min(S)
      BY <1>2, <1>3, <2>2
    <3>2. Min(S) \in 1 .. Len(ent) /\ ent[Min(S)].name = name
      BY <3>1
    <3> HIDE DEF S
    <3>3. \A k \in DOMAIN ent : ent[k].name = name => Min(S) <= k
      BY <1>1, <3>1 DEF S
    <3> QED
      BY <1>1, <3>1, <3>2, <3>3 DEF ent
  <2> QED
    BY <2>1, <2>2 DEF ent

-----------------------------------------------------------------------------
(* The steps that the calls are made of, from inodes I to inodes J         *)

Results == {"ok", "ENOENT", "ENOSPC", "EEXIST", "ENOTEMPTY", "EINVAL", "endless"}
FS      == [inode : Inodes, room : [Disk -> Nat], rc : Results]

(* Nothing but entries and link counts changes.                            *)
Rest(I, J) ==
  \A x \in Node : /\ J[x].kind = I[x].kind /\ J[x].owner = I[x].owner
                  /\ J[x].group = I[x].group /\ J[x].mode = I[x].mode

(* The entries without the one at p.                                       *)
CutAt(ent, p) == [k \in 1 .. Len(ent) - 1 |-> IF k = p THEN ent[Len(ent)] ELSE ent[k]]

One(I, n) == IF I[n].kind = "dir" THEN 1 ELSE 0

Added(I, J, d, n, name) ==
  /\ Rest(I, J)
  /\ \A x \in Node :
       /\ J[x].ent = IF x = d THEN Append(I[x].ent, [name |-> name, ino |-> n[2]]) ELSE I[x].ent
       /\ J[x].nlink = I[x].nlink + (IF x = d THEN One(I, n) ELSE 0)

Removed(I, J, d, p) ==
  /\ Rest(I, J)
  /\ \A x \in Node :
       /\ J[x].ent = IF x = d THEN CutAt(I[x].ent, p) ELSE I[x].ent
       /\ J[x].nlink = I[x].nlink - (IF x = d THEN One(I, Child(I, d, p)) ELSE 0)

Replaced(I, J, c, p, i) ==
  /\ Rest(I, J)
  /\ \A x \in Node :
       /\ J[x].ent = IF x = c THEN [I[x].ent EXCEPT ![p].ino = i] ELSE I[x].ent
       /\ J[x].nlink = I[x].nlink

Relinked(I, J, n, v) ==
  /\ Rest(I, J)
  /\ \A x \in Node : J[x].ent = I[x].ent /\ J[x].nlink = IF x = n THEN v ELSE I[x].nlink

Emptied(I, J, c) ==
  /\ Rest(I, J)
  /\ \A x \in Node : /\ J[x].ent = IF x = c THEN << >> ELSE I[x].ent
                     /\ J[x].nlink = IF x = c THEN 0 ELSE I[x].nlink

LEMMA CutFacts ==
  ASSUME NEW ent \in Seq(Ent), NEW p \in DOMAIN ent
  PROVE  /\ Front([ent EXCEPT ![p] = Last(ent)]) = CutAt(ent, p)
         /\ CutAt(ent, p) \in Seq(Ent) /\ Len(CutAt(ent, p)) = Len(ent) - 1
         /\ DOMAIN CutAt(ent, p) = 1 .. Len(ent) - 1 /\ Len(ent) - 1 \in Nat
<1> DEFINE s == [ent EXCEPT ![p] = Last(ent)]
           L == Len(ent)
<1>1. L \in Nat /\ L # 0 /\ DOMAIN ent = 1 .. L /\ p \in 1 .. L
  BY LenProperties
<1>2. Last(ent) = ent[L] /\ ent[L] \in Ent
  BY <1>1, ElementOfSeq DEF Last
<1>3. s \in Seq(Ent) /\ Len(s) = L
  BY <1>1, <1>2, ExceptSeq
<1>4. \A k \in 1 .. L : s[k] = IF k = p THEN ent[L] ELSE ent[k]
  BY <1>1, <1>2
<1>5. CutAt(ent, p) \in Seq(Ent) /\ Len(CutAt(ent, p)) = L - 1
  <2>1. \A k \in 1 .. L - 1 : CutAt(ent, p)[k] \in Ent
    <3> TAKE k \in 1 .. L - 1
    <3>1. k \in 1 .. L
      BY <1>1
    <3>2. ent[k] \in Ent
      BY <1>1, <3>1, ElementOfSeq
    <3> QED
      BY <1>2, <3>2 DEF CutAt
  <2>2. L - 1 \in Nat
    BY <1>1
  <2>3. CutAt(ent, p) \in [1 .. L - 1 -> Ent]
    BY <2>1 DEF CutAt
  <2> QED
    BY <2>2, <2>3, SeqDef, LenProperties
<1>6. Front(s) \in Seq(Ent) /\ Len(Front(s)) = L - 1 /\ \A k \in 1 .. L - 1 : Front(s)[k] = s[k]
  <2> HIDE DEF s
  <2> QED
    BY <1>1, <1>3, SubSeqProperties DEF Front
<1>7. Front(s) = CutAt(ent, p)
  <2>1. \A k \in 1 .. L - 1 : Front(s)[k] = CutAt(ent, p)[k]
    <3> HIDE DEF s
    <3> QED
      BY <1>1, <1>4, <1>6 DEF CutAt
  <2> HIDE DEF s
  <2> QED
    BY <1>5, <1>6, <2>1, SeqEqual
<1> QED
  BY <1>1, <1>5, <1>7, LenProperties

LEMMA DivFacts ==
  ASSUME NEW a \in Nat, NEW d \in Nat \ {0}
  PROVE  a \div d \in Nat /\ d * (a \div d) <= a /\ a < d * (a \div d) + d
OBVIOUS

LEMMA BlocksFacts ==
  ASSUME NEW m \in Nat, NEW n \in Nat, m <= n
  PROVE  Blocks(m) \in Nat /\ Blocks(n) \in Nat /\ Blocks(m) <= Blocks(n)
<1> DEFINE a == m + PerBlock - 1
           b == n + PerBlock - 1
           q == a \div PerBlock
           r == b \div PerBlock
<1>1. PerBlock \in Nat \ {0} /\ a \in Nat /\ b \in Nat /\ a <= b
  <2>1. PerBlock \in Nat \ {0}
    BY NamesAssumption
  <2> QED
    BY <2>1
<1>2. q \in Nat /\ PerBlock * q <= a
  <2> HIDE DEF a
  <2> QED
    BY <1>1, DivFacts
<1>3. r \in Nat /\ b < PerBlock * r + PerBlock
  <2> HIDE DEF b
  <2> QED
    BY <1>1, DivFacts
<1>4. q <= r
  <2> HIDE DEF q, r, a, b
  <2> SUFFICES ASSUME r + 1 <= q PROVE FALSE
    BY <1>2, <1>3
  <2>1. PICK e \in Nat : q = r + 1 + e
    <3>1. q - (r + 1) \in Nat /\ q = r + 1 + (q - (r + 1))
      BY <1>2, <1>3
    <3> QED
      BY <3>1
  <2>2. PerBlock * q = PerBlock * r + PerBlock + PerBlock * e
    BY <2>1, <1>1, <1>3
  <2>3. PerBlock * e \in Nat /\ PerBlock * r \in Nat
    BY <2>1, <1>1, <1>3
  <2> QED
    BY <1>1, <1>2, <1>3, <2>2, <2>3
<1> QED
  BY <1>2, <1>3, <1>4 DEF Blocks

(* A record with the entries replaced is one still.                        *)
LEMMA RecordFacts ==
  ASSUME NEW r \in Record
  PROVE  /\ r.kind \in {"free", "file", "dir"} /\ r.nlink \in Nat /\ r.ent \in Seq(Ent)
         /\ r.owner \in Owners /\ r.group \in Groups /\ r.mode \in Rights
         /\ \A e \in Seq(Ent) : /\ [r EXCEPT !.ent = e] \in Record
                                /\ [r EXCEPT !.ent = e].ent = e
                                /\ [r EXCEPT !.ent = e].kind = r.kind
                                /\ [r EXCEPT !.ent = e].nlink = r.nlink
                                /\ [r EXCEPT !.ent = e].owner = r.owner
                                /\ [r EXCEPT !.ent = e].group = r.group
                                /\ [r EXCEPT !.ent = e].mode = r.mode
         /\ \A v \in Nat :      /\ [r EXCEPT !.nlink = v] \in Record
                                /\ [r EXCEPT !.nlink = v].ent = r.ent
                                /\ [r EXCEPT !.nlink = v].kind = r.kind
                                /\ [r EXCEPT !.nlink = v].nlink = v
                                /\ [r EXCEPT !.nlink = v].owner = r.owner
                                /\ [r EXCEPT !.nlink = v].group = r.group
                                /\ [r EXCEPT !.nlink = v].mode = r.mode
BY DEF Record

LEMMA FSFacts ==
  ASSUME NEW fs \in FS
  PROVE  /\ fs.inode \in Inodes /\ fs.room \in [Disk -> Nat] /\ fs.rc \in Results
         /\ \A rc \in Results : /\ Fails(fs, rc) \in FS /\ Fails(fs, rc).rc = rc
                                /\ Fails(fs, rc).inode = fs.inode /\ Fails(fs, rc).room = fs.room
         /\ \A n \in Node, r \in Record :
              /\ [fs EXCEPT !.inode[n] = r] \in FS
              /\ [fs EXCEPT !.inode[n] = r].inode = [fs.inode EXCEPT ![n] = r]
              /\ [fs EXCEPT !.inode[n] = r].room = fs.room
              /\ [fs EXCEPT !.inode[n] = r].rc = fs.rc
BY DEF FS, Inodes, Fails

(* A change of one link count.                                             *)
LEMMA RelinkFacts ==
  ASSUME NEW fs \in FS, NEW n \in Node, NEW v \in Nat
  PROVE  LET r == [fs EXCEPT !.inode[n].nlink = v] IN
         /\ r \in FS /\ r.rc = fs.rc /\ r.room = fs.room
         /\ Relinked(fs.inode, r.inode, n, v)
<1> DEFINE r == [fs EXCEPT !.inode[n].nlink = v]
<1>1. fs.inode[n] \in Record
  BY FSFacts DEF Inodes
<1>2. r = [fs EXCEPT !.inode[n] = [fs.inode[n] EXCEPT !.nlink = v]]
  OBVIOUS
<1>3. r \in FS /\ r.rc = fs.rc /\ r.room = fs.room
      /\ r.inode = [fs.inode EXCEPT ![n] = [fs.inode[n] EXCEPT !.nlink = v]]
  BY <1>1, <1>2, RecordFacts, FSFacts
<1>4. \A x \in Node : r.inode[x] = IF x = n THEN [fs.inode[n] EXCEPT !.nlink = v] ELSE fs.inode[x]
  BY <1>3, FSFacts DEF Inodes
<1> DEFINE new == [fs.inode[n] EXCEPT !.nlink = v]
<1>6. /\ new.ent = fs.inode[n].ent /\ new.nlink = v /\ new.kind = fs.inode[n].kind
      /\ new.owner = fs.inode[n].owner /\ new.group = fs.inode[n].group
      /\ new.mode = fs.inode[n].mode
  BY <1>1, RecordFacts
<1>7. \A x \in Node : r.inode[x] = IF x = n THEN new ELSE fs.inode[x]
  BY <1>4
<1> HIDE DEF r, new
<1>5. Relinked(fs.inode, r.inode, n, v)
  BY <1>6, <1>7 DEF Relinked, Rest
<1> QED
  BY <1>3, <1>5 DEF r

(* ufs_datablock_expand and _contract.                                     *)
LEMMA ResizeFacts ==
  ASSUME NEW fs \in FS, NEW d \in Node, NEW ent \in Seq(Ent),
         Blocks(Len(ent)) - Blocks(Len(fs.inode[d].ent)) <= fs.room[d[1]]
  PROVE  /\ Resize(fs, d, ent) \in FS /\ Resize(fs, d, ent).rc = fs.rc
         /\ Rest(fs.inode, Resize(fs, d, ent).inode)
         /\ \A x \in Node :
              /\ Resize(fs, d, ent).inode[x].ent = IF x = d THEN ent ELSE fs.inode[x].ent
              /\ Resize(fs, d, ent).inode[x].nlink = fs.inode[x].nlink
<1> DEFINE r == Resize(fs, d, ent)
           new == [fs.inode[d] EXCEPT !.ent = ent]
           left == fs.room[d[1]] + Blocks(Len(fs.inode[d].ent)) - Blocks(Len(ent))
           room1 == [fs.room EXCEPT ![d[1]] = left]
<1>1. fs.inode[d] \in Record /\ new \in Record /\ d[1] \in Disk
  BY FSFacts, RecordFacts, NodeFacts DEF Inodes
<1>2. left \in Nat
  <2>1. Len(ent) \in Nat /\ Len(fs.inode[d].ent) \in Nat
    BY <1>1, RecordFacts, LenProperties
  <2>2. Blocks(Len(ent)) \in Nat /\ Blocks(Len(fs.inode[d].ent)) \in Nat
    BY <2>1, BlocksFacts
  <2>3. fs.room[d[1]] \in Nat
    BY <1>1, FSFacts
  <2> QED
    BY <2>2, <2>3
<1>3. r = [[fs EXCEPT !.inode[d] = new] EXCEPT !.room = room1]
  BY DEF Resize, FS
<1>4. room1 \in [Disk -> Nat]
  <2> HIDE DEF left
  <2> QED
    BY <1>2, FSFacts
<1>5. r \in FS /\ r.rc = fs.rc /\ r.inode = [fs.inode EXCEPT ![d] = new]
  <2> HIDE DEF room1, new, r
  <2>1. [fs EXCEPT !.inode[d] = new] \in FS /\ [fs EXCEPT !.inode[d] = new].rc = fs.rc
        /\ [fs EXCEPT !.inode[d] = new].inode = [fs.inode EXCEPT ![d] = new]
    BY <1>1, FSFacts
  <2> QED
    BY <1>3, <1>4, <2>1 DEF FS
<1>6. \A x \in Node : r.inode[x] = IF x = d THEN new ELSE fs.inode[x]
  <2> HIDE DEF new, r
  <2> QED
    BY <1>5, FSFacts DEF Inodes
<1>8. /\ new.ent = ent /\ new.nlink = fs.inode[d].nlink /\ new.kind = fs.inode[d].kind
      /\ new.owner = fs.inode[d].owner /\ new.group = fs.inode[d].group
      /\ new.mode = fs.inode[d].mode
  BY <1>1, RecordFacts
<1>7. Rest(fs.inode, r.inode)
  <2> HIDE DEF r, new
  <2> QED
    BY <1>6, <1>8 DEF Rest
<1> QED
  <2> HIDE DEF r, new
  <2>1. \A x \in Node : /\ r.inode[x].ent = IF x = d THEN ent ELSE fs.inode[x].ent
                        /\ r.inode[x].nlink = fs.inode[x].nlink
    BY <1>6, <1>8
  <2> QED
    BY <1>5, <1>7, <2>1 DEF r

-----------------------------------------------------------------------------
(* What the operators on directories do                                    *)

Same(fs, r) == r.inode = fs.inode /\ r.room = fs.room

LEMMA OneFacts == \A I, n : One(I, n) \in Nat
  BY DEF One

LEMMA EntryFacts == \A name, i : Entry(name, i) = [name |-> name, ino |-> i]
  BY DEF Entry

LEMMA AddEntryFacts ==
  ASSUME NEW fs \in FS, NEW d \in Node, NEW n \in Node, n[1] = d[1], NEW name \in Name, fs.rc = "ok"
  PROVE  LET r == AddEntry(fs, d, n[2], name) IN
         /\ r \in FS
         /\ r.rc \in {"ok", "ENOSPC"}
         /\ IF r.rc = "ok" THEN Added(fs.inode, r.inode, d, n, name) ELSE Same(fs, r)
<1> DEFINE r == AddEntry(fs, d, n[2], name)
           e == [name |-> name, ino |-> n[2]]
           ent == Append(fs.inode[d].ent, e)
           more == Resize(fs, d, ent)
<1>0. n = <<d[1], n[2]>> /\ n[2] \in Nat /\ Entry(name, n[2]) = e /\ e \in Ent
  BY NodeFacts, EntryFacts DEF Ent
<1>1. CASE ~ Fits(fs, d, 1)
  <2>1. r = Fails(fs, "ENOSPC") /\ "ENOSPC" \in Results /\ "ENOSPC" # "ok"
    BY <1>1 DEF AddEntry, Results
  <2> QED
    BY <2>1, FSFacts DEF Same
<1>2. CASE Fits(fs, d, 1)
  <2>1. fs.inode[d] \in Record /\ fs.inode[d].ent \in Seq(Ent)
    BY FSFacts, RecordFacts DEF Inodes
  <2>2. ent \in Seq(Ent) /\ Len(ent) = Len(fs.inode[d].ent) + 1
    BY <1>0, <2>1, AppendProperties
  <2>3. /\ more \in FS /\ more.rc = "ok" /\ Rest(fs.inode, more.inode)
        /\ \A x \in Node : /\ more.inode[x].ent = IF x = d THEN ent ELSE fs.inode[x].ent
                           /\ more.inode[x].nlink = fs.inode[x].nlink
    <3> HIDE DEF ent
    <3>1. Blocks(Len(ent)) - Blocks(Len(fs.inode[d].ent)) <= fs.room[d[1]]
      BY <1>2, <2>2 DEF Fits
    <3> QED
      BY <2>2, <3>1, ResizeFacts
  <2>4. r = IF fs.inode[n].kind = "dir" THEN [more EXCEPT !.inode[d].nlink = @ + 1] ELSE more
    <3>1. <<d[1], n[2]>> = n
      BY <1>0
    <3> QED
      BY <1>0, <1>2, <3>1 DEF AddEntry, IsDir
  <2> HIDE DEF more, r
  <2>5. CASE fs.inode[n].kind # "dir"
    <3>1. r = more /\ One(fs.inode, n) = 0
      BY <2>4, <2>5 DEF One
    <3>2. \A x \in Node : fs.inode[x].nlink \in Nat
      BY FSFacts, RecordFacts DEF Inodes
    <3>3. Added(fs.inode, r.inode, d, n, name)
      BY <2>3, <3>1, <3>2 DEF Added
    <3> QED
      BY <2>3, <3>1, <3>3 DEF r
  <2>6. CASE fs.inode[n].kind = "dir"
    <3> DEFINE v == more.inode[d].nlink + 1
    <3>1. r = [more EXCEPT !.inode[d].nlink = v] /\ One(fs.inode, n) = 1
      BY <2>4, <2>6 DEF One
    <3>2. \A x \in Node : fs.inode[x].nlink \in Nat
      BY FSFacts, RecordFacts DEF Inodes
    <3>3. v \in Nat /\ v = fs.inode[d].nlink + 1
      BY <2>3, <3>2
    <3>4. r \in FS /\ r.rc = more.rc /\ Relinked(more.inode, r.inode, d, v)
      <4> HIDE DEF v
      <4> QED
        BY <2>3, <3>1, <3>3, RelinkFacts
    <3> HIDE DEF v
    <3>5. Added(fs.inode, r.inode, d, n, name)
      BY <2>3, <3>1, <3>2, <3>3, <3>4 DEF Added, Relinked, Rest
    <3> QED
      BY <2>3, <3>4, <3>5 DEF r
  <2> QED
    BY <2>5, <2>6
<1> QED
  BY <1>1, <1>2

(* The entries of a directory that are good.                               *)
LEMMA GoodFacts ==
  ASSUME NEW I \in Inodes, Good(I), NEW d \in Node, NEW k \in DOMAIN I[d].ent
  PROVE  /\ I[d].ent \in Seq(Ent) /\ Len(I[d].ent) \in Nat /\ DOMAIN I[d].ent = 1 .. Len(I[d].ent)
         /\ I[d].ent # << >> /\ I[d].kind = "dir"
         /\ I[d].ent[k] \in Ent /\ I[d].ent[k].name \in Name /\ I[d].ent[k].ino \in Nat
         /\ Child(I, d, k) \in Node /\ I[Child(I, d, k)].kind \in {"file", "dir"}
         /\ Child(I, d, k)[1] = d[1] /\ Child(I, d, k)[2] = I[d].ent[k].ino
<1>1. I[d] \in Record /\ I[d].ent \in Seq(Ent)
  BY RecordFacts DEF Inodes
<1>2. Len(I[d].ent) \in Nat /\ DOMAIN I[d].ent = 1 .. Len(I[d].ent)
  BY <1>1, LenProperties
<1>3. I[d].ent # << >>
  BY <1>2, EmptySeq
<1>4. I[d].ent[k] \in Ent
  BY <1>1, <1>2, ElementOfSeq
<1>5. Child(I, d, k) \in Node /\ I[Child(I, d, k)].kind # "free" /\ I[d].kind = "dir"
  BY <1>3 DEF Good
<1>6. I[Child(I, d, k)].kind \in {"free", "file", "dir"}
  BY <1>5, RecordFacts DEF Inodes
<1> QED
  BY <1>1, <1>2, <1>3, <1>4, <1>5, <1>6 DEF Ent, Child

LEMMA SubsFacts ==
  ASSUME NEW I \in Inodes, NEW d \in Node
  PROVE  /\ IsFiniteSet(Subs(I, d)) /\ Cardinality(Subs(I, d)) \in Nat
         /\ Subs(I, d) # {} => Cardinality(Subs(I, d)) >= 1
<1>1. I[d].ent \in Seq(Ent)
  BY RecordFacts DEF Inodes
<1>2. DOMAIN I[d].ent = 1 .. Len(I[d].ent) /\ Len(I[d].ent) \in Nat
  BY <1>1, LenProperties
<1>3. IsFiniteSet(DOMAIN I[d].ent)
  BY <1>2, FS_Interval
<1>4. IsFiniteSet(Subs(I, d))
  <2>1. Subs(I, d) \in SUBSET (DOMAIN I[d].ent)
    BY DEF Subs
  <2> QED
    BY <1>3, <2>1, FS_Subset
<1> QED
  BY <1>4, FS_CardinalityType, FS_EmptySet

LEMMA RemoveEntryFacts ==
  ASSUME NEW fs \in FS, NEW d \in Node, NEW name, fs.rc = "ok", Good(fs.inode),
         name \in Dots /\ Has(fs, d, name) => fs.inode[Child(fs.inode, d, Place(fs, d, name))].kind # "dir"
  PROVE  LET r == RemoveEntry(fs, d, name) IN
         /\ r \in FS
         /\ IF Has(fs, d, name)
            THEN r.rc = "ok" /\ Removed(fs.inode, r.inode, d, Place(fs, d, name))
            ELSE r.rc = "ENOENT" /\ Same(fs, r)
<1> DEFINE r == RemoveEntry(fs, d, name)
           p == Place(fs, d, name)
           I == fs.inode
           cut == CutAt(I[d].ent, p)
           less == Resize(fs, d, cut)
<1>1. CASE ~ Has(fs, d, name)
  <2>1. r = Fails(fs, "ENOENT") /\ "ENOENT" \in Results
    BY <1>1 DEF RemoveEntry, Results
  <2> QED
    BY <1>1, <2>1, FSFacts DEF Same
<1>2. CASE Has(fs, d, name)
  <2>1. I \in Inodes /\ I[d].ent \in Seq(Ent)
    BY FSFacts, RecordFacts DEF Inodes
  <2>2. p \in DOMAIN I[d].ent /\ I[d].ent[p].name = name
    <3> HIDE DEF I
    <3> QED
      BY <1>2, <2>1, PlaceFacts DEF Has, I
  <2>3. cut \in Seq(Ent) /\ Len(cut) = Len(I[d].ent) - 1 /\ Len(cut) \in Nat
        /\ Front([I[d].ent EXCEPT ![p] = Last(I[d].ent)]) = cut
    BY <2>1, <2>2, CutFacts
  <2>4. /\ less \in FS /\ less.rc = "ok" /\ Rest(I, less.inode)
        /\ \A x \in Node : /\ less.inode[x].ent = IF x = d THEN cut ELSE I[x].ent
                           /\ less.inode[x].nlink = I[x].nlink
    <3> HIDE DEF cut, p
    <3>1. Len(cut) \in Nat /\ Len(I[d].ent) \in Nat /\ Len(cut) <= Len(I[d].ent)
      BY <2>1, <2>3, LenProperties
    <3>2. /\ Blocks(Len(cut)) \in Nat /\ Blocks(Len(I[d].ent)) \in Nat
          /\ Blocks(Len(cut)) <= Blocks(Len(I[d].ent))
      BY <3>1, BlocksFacts
    <3>3. fs.room[d[1]] \in Nat
      BY FSFacts, NodeFacts
    <3>4. Blocks(Len(cut)) - Blocks(Len(I[d].ent)) <= fs.room[d[1]]
      BY <3>2, <3>3
    <3>5. cut \in Seq(Ent) /\ Blocks(Len(cut)) - Blocks(Len(fs.inode[d].ent)) <= fs.room[d[1]]
      BY <2>3, <3>4
    <3>6. /\ Resize(fs, d, cut) \in FS /\ Resize(fs, d, cut).rc = fs.rc
          /\ Rest(fs.inode, Resize(fs, d, cut).inode)
          /\ \A x \in Node :
               /\ Resize(fs, d, cut).inode[x].ent = IF x = d THEN cut ELSE fs.inode[x].ent
               /\ Resize(fs, d, cut).inode[x].nlink = fs.inode[x].nlink
      BY <3>5, ResizeFacts
    <3> QED
      BY <3>6
  <2> DEFINE c == Child(I, d, p)
  <2>5. r = IF I[c].kind = "dir" THEN [less EXCEPT !.inode[d].nlink = @ - 1] ELSE less
    BY <1>2, <2>3 DEF RemoveEntry, IsDir, Target, Child
  <2>6. \A x \in Node : I[x].nlink \in Nat
    BY <2>1, RecordFacts DEF Inodes
  <2> HIDE DEF cut
  <2>7. CASE I[c].kind # "dir"
    <3>1. r = less /\ One(I, c) = 0
      BY <2>5, <2>7 DEF One
    <3> HIDE DEF less, r, p, I
    <3>3. Removed(I, r.inode, d, p)
      BY <2>4, <2>6, <3>1 DEF Removed, cut
    <3> QED
      BY <1>2, <2>4, <3>1, <3>3 DEF r, p, I
  <2>8. CASE I[c].kind = "dir"
    <3> DEFINE v == less.inode[d].nlink - 1
    <3>1. r = [less EXCEPT !.inode[d].nlink = v] /\ One(I, c) = 1
      BY <2>5, <2>8 DEF One
    <3>2. I[d].nlink >= 1
      <4>1. p \in Subs(I, d)
        BY <1>2, <2>2, <2>8 DEF Subs
      <4>2. Cardinality(Subs(I, d)) >= 1 /\ Cardinality(Subs(I, d)) \in Nat
        BY <2>1, <4>1, SubsFacts
      <4>3. Cardinality(Subs(I, d)) <= I[d].nlink
        BY <2>1, <2>2, GoodFacts DEF Good
      <4> QED
        BY <2>6, <4>2, <4>3
    <3> HIDE DEF less, r, p, I
    <3>3. v \in Nat /\ v = I[d].nlink - 1
      BY <2>4, <2>6, <3>2
    <3>4. r \in FS /\ r.rc = less.rc /\ Relinked(less.inode, r.inode, d, v)
      <4> HIDE DEF v
      <4> QED
        BY <2>4, <3>1, <3>3, RelinkFacts
    <3> HIDE DEF v
    <3>5. Removed(I, r.inode, d, p)
      BY <2>4, <2>6, <3>1, <3>3, <3>4 DEF Removed, Relinked, Rest, cut
    <3> QED
      BY <1>2, <2>4, <3>4, <3>5 DEF r, p, I
  <2> QED
    BY <2>7, <2>8
<1> QED
  BY <1>1, <1>2

LEMMA ReplaceEntryFacts ==
  ASSUME NEW fs \in FS, NEW d \in Node, NEW name, NEW i \in Nat, fs.rc = "ok"
  PROVE  LET r == ReplaceEntry(fs, d, name, i) IN
         /\ r \in FS
         /\ IF Has(fs, d, name)
            THEN r.rc = "ok" /\ Replaced(fs.inode, r.inode, d, Place(fs, d, name), i)
            ELSE r.rc = "ENOENT" /\ Same(fs, r)
<1> DEFINE r == ReplaceEntry(fs, d, name, i)
           p == Place(fs, d, name)
           I == fs.inode
           ent == [I[d].ent EXCEPT ![p].ino = i]
           new == [I[d] EXCEPT !.ent = ent]
<1>1. CASE ~ Has(fs, d, name)
  <2>1. r = Fails(fs, "ENOENT") /\ "ENOENT" \in Results
    BY <1>1 DEF ReplaceEntry, Results
  <2> QED
    BY <1>1, <2>1, FSFacts DEF Same
<1>2. CASE Has(fs, d, name)
  <2>1. I \in Inodes /\ I[d] \in Record /\ I[d].ent \in Seq(Ent)
    BY FSFacts, RecordFacts DEF Inodes
  <2>2. p \in DOMAIN I[d].ent
    <3> HIDE DEF I
    <3> QED
      BY <1>2, <2>1, PlaceFacts DEF Has, I
  <2>3. r = [fs EXCEPT !.inode[d].ent[p].ino = i]
    BY <1>2 DEF ReplaceEntry
  <2>4. r = [fs EXCEPT !.inode[d] = new]
    BY <2>3
  <2>5. ent \in Seq(Ent)
    <3> DEFINE e == [I[d].ent[p] EXCEPT !.ino = i]
    <3>1. p \in 1 .. Len(I[d].ent)
      BY <2>1, <2>2, LenProperties
    <3>2. I[d].ent[p] \in Ent
      BY <2>1, <3>1, ElementOfSeq
    <3>3. e \in Ent
      BY <3>2 DEF Ent
    <3>4. ent = [I[d].ent EXCEPT ![p] = e]
      OBVIOUS
    <3> HIDE DEF e
    <3> QED
      BY <2>1, <3>1, <3>3, <3>4, ExceptSeq
  <2> HIDE DEF ent
  <2>6. /\ new \in Record /\ new.ent = ent /\ new.nlink = I[d].nlink /\ new.kind = I[d].kind
        /\ new.owner = I[d].owner /\ new.group = I[d].group /\ new.mode = I[d].mode
    BY <2>1, <2>5, RecordFacts
  <2> HIDE DEF new, r
  <2>7. r \in FS /\ r.rc = "ok" /\ r.inode = [I EXCEPT ![d] = new]
    BY <2>4, <2>6, FSFacts
  <2>8. \A x \in Node : r.inode[x] = IF x = d THEN new ELSE I[x]
    BY <2>1, <2>7 DEF Inodes
  <2> HIDE DEF I, p
  <2>9. Replaced(I, r.inode, d, p, i)
    BY <2>6, <2>8 DEF Replaced, Rest, ent
  <2> QED
    BY <1>2, <2>7, <2>9 DEF I, p, r
<1> QED
  BY <1>1, <1>2

-----------------------------------------------------------------------------
(* The entries after a step                                                *)

LEMMA InodeFacts ==
  ASSUME NEW I \in Inodes, NEW x \in Node
  PROVE  /\ I[x] \in Record /\ I[x].ent \in Seq(Ent) /\ I[x].nlink \in Nat
         /\ I[x].kind \in {"free", "file", "dir"} /\ Len(I[x].ent) \in Nat
         /\ DOMAIN I[x].ent = 1 .. Len(I[x].ent)
         /\ \A k \in 1 .. Len(I[x].ent) : I[x].ent[k] \in Ent
         /\ I[x].ent = << >> <=> Len(I[x].ent) = 0
<1>1. I[x] \in Record
  BY DEF Inodes
<1>2. I[x].ent \in Seq(Ent) /\ I[x].nlink \in Nat /\ I[x].kind \in {"free", "file", "dir"}
  BY <1>1, RecordFacts
<1> QED
  BY <1>1, <1>2, LenProperties, ElementOfSeq, EmptySeq

LEMMA AddedEntries ==
  ASSUME NEW I \in Inodes, NEW J \in Inodes, NEW d \in Node, NEW n \in Node, n[1] = d[1],
         NEW name \in Name, Added(I, J, d, n, name)
  PROVE  /\ \A x \in Node : x # d => J[x].ent = I[x].ent
         /\ Len(J[d].ent) = Len(I[d].ent) + 1
         /\ DOMAIN J[d].ent = 1 .. Len(I[d].ent) + 1
         /\ \A k \in 1 .. Len(I[d].ent) : J[d].ent[k] = I[d].ent[k]
         /\ J[d].ent[Len(I[d].ent) + 1] = [name |-> name, ino |-> n[2]]
         /\ Child(J, d, Len(I[d].ent) + 1) = n
<1> DEFINE e == [name |-> name, ino |-> n[2]]
<1>1. e \in Ent /\ n = <<d[1], n[2]>> /\ e.ino = n[2]
  BY NodeFacts DEF Ent
<1>2. J[d].ent = Append(I[d].ent, e) /\ \A x \in Node : x # d => J[x].ent = I[x].ent
  BY DEF Added
<1>3. I[d].ent \in Seq(Ent) /\ Len(I[d].ent) \in Nat
  BY InodeFacts
<1> HIDE DEF e
<1>4. /\ J[d].ent \in Seq(Ent) /\ Len(J[d].ent) = Len(I[d].ent) + 1
      /\ \A k \in 1 .. Len(I[d].ent) : J[d].ent[k] = I[d].ent[k]
      /\ J[d].ent[Len(I[d].ent) + 1] = e
  BY <1>1, <1>2, <1>3, AppendProperties
<1>5. DOMAIN J[d].ent = 1 .. Len(I[d].ent) + 1
  BY <1>4, LenProperties
<1> QED
  BY <1>1, <1>2, <1>4, <1>5 DEF Child, e

LEMMA RemovedEntries ==
  ASSUME NEW I \in Inodes, NEW J \in Inodes, NEW d \in Node, NEW p \in DOMAIN I[d].ent,
         Removed(I, J, d, p)
  PROVE  /\ \A x \in Node : x # d => J[x].ent = I[x].ent
         /\ Len(I[d].ent) \in Nat /\ Len(I[d].ent) # 0 /\ p \in 1 .. Len(I[d].ent)
         /\ Len(J[d].ent) = Len(I[d].ent) - 1
         /\ DOMAIN J[d].ent = 1 .. Len(I[d].ent) - 1
         /\ \A k \in 1 .. Len(I[d].ent) - 1 :
              /\ J[d].ent[k] = I[d].ent[IF k = p THEN Len(I[d].ent) ELSE k]
              /\ Child(J, d, k) = Child(I, d, IF k = p THEN Len(I[d].ent) ELSE k)
<1>1. J[d].ent = CutAt(I[d].ent, p) /\ \A x \in Node : x # d => J[x].ent = I[x].ent
  BY DEF Removed
<1>2. I[d].ent \in Seq(Ent) /\ Len(I[d].ent) \in Nat /\ DOMAIN I[d].ent = 1 .. Len(I[d].ent)
  BY InodeFacts
<1>3. \A k \in 1 .. Len(I[d].ent) - 1 : J[d].ent[k] = I[d].ent[IF k = p THEN Len(I[d].ent) ELSE k]
  BY <1>1 DEF CutAt
<1>4. Len(J[d].ent) = Len(I[d].ent) - 1 /\ DOMAIN J[d].ent = 1 .. Len(I[d].ent) - 1
  BY <1>1, <1>2, CutFacts
<1> QED
  BY <1>1, <1>2, <1>3, <1>4 DEF Child

LEMMA ReplacedEntries ==
  ASSUME NEW I \in Inodes, NEW J \in Inodes, NEW c \in Node, NEW p \in DOMAIN I[c].ent,
         NEW n \in Node, n[1] = c[1], Replaced(I, J, c, p, n[2])
  PROVE  /\ \A x \in Node : x # c => J[x].ent = I[x].ent
         /\ Len(J[c].ent) = Len(I[c].ent) /\ DOMAIN J[c].ent = DOMAIN I[c].ent
         /\ \A k \in DOMAIN I[c].ent :
              /\ J[c].ent[k].name = I[c].ent[k].name
              /\ k # p => J[c].ent[k] = I[c].ent[k]
         /\ Child(J, c, p) = n
<1>1. /\ J[c].ent = [I[c].ent EXCEPT ![p].ino = n[2]]
      /\ \A x \in Node : x # c => J[x].ent = I[x].ent
  BY DEF Replaced
<1>2. /\ I[c].ent \in Seq(Ent) /\ Len(I[c].ent) \in Nat /\ DOMAIN I[c].ent = 1 .. Len(I[c].ent)
      /\ J[c].ent \in Seq(Ent) /\ I[c].ent[p] \in Ent
  BY InodeFacts
<1>3. DOMAIN J[c].ent = DOMAIN I[c].ent
  BY <1>1
<1>4. \A k \in DOMAIN I[c].ent : k # p => J[c].ent[k] = I[c].ent[k]
  BY <1>1
<1>5. J[c].ent[p] = [I[c].ent[p] EXCEPT !.ino = n[2]]
  BY <1>1
<1>6. J[c].ent[p].name = I[c].ent[p].name /\ J[c].ent[p].ino = n[2]
  BY <1>2, <1>5 DEF Ent
<1>7. Len(J[c].ent) = Len(I[c].ent)
  <2>1. Len(J[c].ent) \in Nat /\ DOMAIN J[c].ent = 1 .. Len(J[c].ent)
    BY <1>2, LenProperties
  <2>2. 1 .. Len(J[c].ent) = 1 .. Len(I[c].ent)
    BY <1>2, <1>3, <2>1
  <2> HIDE <1>1, <1>2, <1>3, <1>4, <1>5, <1>6
  <2>3. Len(I[c].ent) \in Nat
    BY InodeFacts
  <2> DEFINE a == Len(J[c].ent)
             b == Len(I[c].ent)
  <2>4. a \in Nat /\ b \in Nat /\ 1 .. a = 1 .. b
    BY <2>1, <2>2, <2>3
  <2> HIDE DEF a, b
  <2>5. a = b
    <3>1. a \in 1 .. b \/ a = 0
      BY <2>4
    <3>2. b \in 1 .. a \/ b = 0
      BY <2>4
    <3> QED
      BY <2>4, <3>1, <3>2
  <2> QED
    BY <2>5 DEF a, b
<1>8. Child(J, c, p) = n
  BY <1>6, NodeFacts DEF Child
<1> QED
  BY <1>1, <1>3, <1>4, <1>6, <1>7, <1>8

-----------------------------------------------------------------------------
(* Every step keeps the directories good                                   *)

LEMMA AddedGood ==
  ASSUME NEW I \in Inodes, NEW J \in Inodes, NEW d \in Node, NEW n \in Node, n[1] = d[1],
         NEW name \in Name, Added(I, J, d, n, name),
         Good(I), I[d].kind = "dir", I[n].kind # "free"
  PROVE  Good(J)
<1> DEFINE L == Len(I[d].ent)
<1>1. /\ \A x \in Node : x # d => J[x].ent = I[x].ent
      /\ DOMAIN J[d].ent = 1 .. L + 1 /\ DOMAIN I[d].ent = 1 .. L /\ L \in Nat
      /\ \A k \in 1 .. L : J[d].ent[k] = I[d].ent[k]
      /\ Child(J, d, L + 1) = n /\ J[d].ent[L + 1].name = name
  <2>1. L \in Nat /\ DOMAIN I[d].ent = 1 .. L
    BY InodeFacts
  <2>2. /\ \A x \in Node : x # d => J[x].ent = I[x].ent
        /\ DOMAIN J[d].ent = 1 .. L + 1
        /\ \A k \in 1 .. L : J[d].ent[k] = I[d].ent[k]
        /\ Child(J, d, L + 1) = n
        /\ J[d].ent[L + 1] = [name |-> name, ino |-> n[2]]
    BY AddedEntries
  <2> QED
    BY <2>1, <2>2
<1>2. \A x \in Node : J[x].kind = I[x].kind
  BY DEF Added, Rest
<1> HIDE DEF L
<1>3. \A k \in 1 .. L : Child(J, d, k) = Child(I, d, k)
  BY <1>1 DEF Child
<1>4. \A x \in Node : x # d => \A k \in DOMAIN I[x].ent : Child(J, x, k) = Child(I, x, k)
  BY <1>1 DEF Child
<1>5. \A x \in Node : \A k \in DOMAIN J[x].ent : Child(J, x, k) \in Node /\ J[Child(J, x, k)].kind # "free"
  <2> TAKE x \in Node
  <2> TAKE k \in DOMAIN J[x].ent
  <2>1. CASE x # d
    BY <1>1, <1>2, <1>4, <2>1 DEF Good
  <2>2. CASE x = d /\ k = L + 1
    BY <1>1, <1>2, <2>2
  <2>3. CASE x = d /\ k # L + 1
    <3>1. k \in 1 .. L
      BY <1>1, <2>3
    <3> QED
      BY <1>1, <1>2, <1>3, <2>3, <3>1 DEF Good
  <2> QED
    BY <2>1, <2>2, <2>3
<1>6. \A x \in Node : J[x].kind # "dir" => J[x].ent = << >>
  BY <1>1, <1>2 DEF Good
<1>7. ASSUME NEW x \in Node, J[x].kind = "dir" PROVE Cardinality(Subs(J, x)) <= J[x].nlink
  <2>1. CASE x # d
    <3>1. Subs(J, x) = Subs(I, x)
      <4>1. \A k \in DOMAIN I[x].ent : J[Child(J, x, k)].kind = I[Child(I, x, k)].kind
        BY <1>2, <1>4, <2>1 DEF Good
      <4> QED
        BY <1>1, <2>1, <4>1 DEF Subs
    <3>2. J[x].nlink = I[x].nlink
      <4>1. I[x].nlink \in Nat
        BY InodeFacts
      <4> QED
        BY <2>1, <4>1 DEF Added
    <3> QED
      BY <1>2, <1>7, <3>1, <3>2 DEF Good
  <2>2. CASE x = d
    <3>1. \A k \in 1 .. L : J[Child(J, d, k)].kind = I[Child(I, d, k)].kind
      BY <1>1, <1>2, <1>3 DEF Good
    <3>2. Subs(J, d) = Subs(I, d) \cup (IF name \notin Dots /\ I[n].kind = "dir" THEN {L + 1} ELSE {})
      BY <1>1, <1>2, <3>1 DEF Subs
    <3>3. IsFiniteSet(Subs(I, d)) /\ Cardinality(Subs(I, d)) \in Nat
      BY SubsFacts
    <3>4. Cardinality(Subs(J, d)) <= Cardinality(Subs(I, d)) + One(I, n)
      <4>1. CASE name \notin Dots /\ I[n].kind = "dir"
        <5>1. Subs(J, d) = Subs(I, d) \cup {L + 1} /\ One(I, n) = 1
          BY <3>2, <4>1 DEF One
        <5>2. Cardinality(Subs(I, d) \cup {L + 1}) \in {Cardinality(Subs(I, d)), Cardinality(Subs(I, d)) + 1}
          BY <3>3, FS_AddElement
        <5> QED
          BY <3>3, <5>1, <5>2
      <4>2. CASE ~ (name \notin Dots /\ I[n].kind = "dir")
        <5>1. Subs(J, d) = Subs(I, d) /\ One(I, n) \in Nat
          BY <3>2, <4>2, OneFacts
        <5> QED
          BY <3>3, <5>1
      <4> QED
        BY <4>1, <4>2
    <3>5. J[d].nlink = I[d].nlink + One(I, n)
      BY DEF Added
    <3>6. Cardinality(Subs(I, d)) <= I[d].nlink /\ I[d].nlink \in Nat
      BY InodeFacts DEF Good
    <3>7. Cardinality(Subs(J, d)) \in Nat /\ One(I, n) \in Nat
      BY SubsFacts, OneFacts
    <3> QED
      BY <2>2, <3>3, <3>4, <3>5, <3>6, <3>7
  <2> QED
    BY <2>1, <2>2
<1> QED
  BY <1>5, <1>6, <1>7 DEF Good

LEMMA RemovedGood ==
  ASSUME NEW I \in Inodes, NEW J \in Inodes, NEW d \in Node, NEW p \in DOMAIN I[d].ent,
         Removed(I, J, d, p), Good(I),
         I[d].ent[p].name \notin Dots \/ I[Child(I, d, p)].kind # "dir"
  PROVE  Good(J)
<1> DEFINE L == Len(I[d].ent)
           old(k) == IF k = p THEN L ELSE k
<1>1. /\ \A x \in Node : x # d => J[x].ent = I[x].ent
      /\ L \in Nat /\ L # 0 /\ p \in 1 .. L
      /\ DOMAIN J[d].ent = 1 .. L - 1 /\ DOMAIN I[d].ent = 1 .. L
      /\ \A k \in 1 .. L - 1 : J[d].ent[k] = I[d].ent[old(k)] /\ Child(J, d, k) = Child(I, d, old(k))
  <2>1. DOMAIN I[d].ent = 1 .. L
    BY InodeFacts
  <2>2. /\ \A x \in Node : x # d => J[x].ent = I[x].ent
        /\ L \in Nat /\ L # 0 /\ p \in 1 .. L
        /\ DOMAIN J[d].ent = 1 .. L - 1
        /\ \A k \in 1 .. L - 1 :
             /\ J[d].ent[k] = I[d].ent[IF k = p THEN L ELSE k]
             /\ Child(J, d, k) = Child(I, d, IF k = p THEN L ELSE k)
    BY RemovedEntries
  <2> QED
    BY <2>1, <2>2
<1>2. \A x \in Node : J[x].kind = I[x].kind
  BY DEF Removed, Rest
<1>3. \A k \in 1 .. L - 1 : old(k) \in 1 .. L
  BY <1>1
<1> HIDE DEF L
<1>4. \A x \in Node : x # d => \A k \in DOMAIN I[x].ent : Child(J, x, k) = Child(I, x, k)
  BY <1>1 DEF Child
<1>5. \A x \in Node : \A k \in DOMAIN J[x].ent : Child(J, x, k) \in Node /\ J[Child(J, x, k)].kind # "free"
  <2> TAKE x \in Node
  <2> TAKE k \in DOMAIN J[x].ent
  <2>1. CASE x # d
    BY <1>1, <1>2, <1>4, <2>1 DEF Good
  <2>2. CASE x = d
    <3>1. old(k) \in DOMAIN I[d].ent /\ Child(J, d, k) = Child(I, d, old(k))
      BY <1>1, <1>3, <2>2
    <3> QED
      BY <1>2, <2>2, <3>1 DEF Good
  <2> QED
    BY <2>1, <2>2
<1>6. \A x \in Node : J[x].kind # "dir" => J[x].ent = << >>
  <2>1. I[d].kind = "dir"
    BY GoodFacts
  <2> QED
    BY <1>1, <1>2, <2>1 DEF Good
<1>7. ASSUME NEW x \in Node, J[x].kind = "dir" PROVE Cardinality(Subs(J, x)) <= J[x].nlink
  <2>1. CASE x # d
    <3>1. Subs(J, x) = Subs(I, x)
      <4>1. \A k \in DOMAIN I[x].ent : J[Child(J, x, k)].kind = I[Child(I, x, k)].kind
        BY <1>2, <1>4, <2>1 DEF Good
      <4> QED
        BY <1>1, <2>1, <4>1 DEF Subs
    <3>2. J[x].nlink = I[x].nlink
      <4>1. I[x].nlink \in Nat
        BY InodeFacts
      <4> QED
        BY <2>1, <4>1 DEF Removed
    <3> QED
      BY <1>2, <1>7, <3>1, <3>2 DEF Good
  <2>2. CASE x = d
    <3> DEFINE S == Subs(I, d)
    <3>1. \A k \in 1 .. L - 1 : k \in Subs(J, d) <=> old(k) \in S
      <4> TAKE k \in 1 .. L - 1
      <4>1. old(k) \in 1 .. L /\ J[d].ent[k] = I[d].ent[old(k)] /\ Child(J, d, k) = Child(I, d, old(k))
        BY <1>1, <1>3
      <4>2. J[Child(J, d, k)].kind = I[Child(I, d, old(k))].kind
        BY <1>1, <1>2, <4>1 DEF Good
      <4> QED
        BY <1>1, <4>1, <4>2 DEF Subs
    <3>2. Subs(J, d) \subseteq 1 .. L - 1 /\ S \subseteq 1 .. L
      BY <1>1 DEF Subs
    <3>3. Subs(J, d) = IF p = L \/ L \notin S THEN S \ {p}
                       ELSE (S \ {L}) \cup {p}
      <4> HIDE DEF S
      <4>0. \A k \in 1 .. L : k \in 1 .. L - 1 <=> k # L
        BY <1>1
      <4>4. \A k \in 1 .. L - 1 : k # p => (k \in Subs(J, d) <=> k \in S)
        BY <3>1
      <4>5. p # L => (p \in Subs(J, d) <=> L \in S)
        <5>1. p # L => p \in 1 .. L - 1
          BY <1>1, <4>0
        <5> QED
          BY <3>1, <5>1
      <4>1. CASE p = L
        BY <1>1, <3>2, <4>0, <4>4, <4>1
      <4>2. CASE p # L /\ L \notin S
        BY <1>1, <3>2, <4>0, <4>4, <4>5, <4>2
      <4>3. CASE p # L /\ L \in S
        BY <1>1, <3>2, <4>0, <4>4, <4>5, <4>3
      <4> QED
        BY <4>1, <4>2, <4>3
    <3>4. IsFiniteSet(S) /\ Cardinality(S) \in Nat /\ Cardinality(Subs(J, d)) \in Nat
      BY SubsFacts
    <3>5. Cardinality(S \ {p}) = (IF p \in S THEN Cardinality(S) - 1 ELSE Cardinality(S))
          /\ Cardinality(S \ {L}) = (IF L \in S THEN Cardinality(S) - 1 ELSE Cardinality(S))
          /\ IsFiniteSet(S \ {L})
      <4> HIDE DEF S
      <4> QED
        BY <3>4, FS_RemoveElement
    <3>6. Cardinality((S \ {L}) \cup {p}) = (IF p \in S \ {L} THEN Cardinality(S \ {L}) ELSE Cardinality(S \ {L}) + 1)
      <4> HIDE DEF S
      <4> QED
        BY <3>5, FS_AddElement
    <3>7. Cardinality(Subs(J, d)) <= Cardinality(S) - (IF p \in S THEN 1 ELSE 0)
      <4> HIDE DEF S
      <4> QED
        BY <3>3, <3>4, <3>5, <3>6
    <3>8. p \in S <=> One(I, Child(I, d, p)) = 1
      BY <1>1 DEF One, Subs
    <3>9. J[d].nlink = I[d].nlink - One(I, Child(I, d, p)) /\ One(I, Child(I, d, p)) \in {0, 1}
      BY DEF Removed, One
    <3>10. Cardinality(S) <= I[d].nlink /\ I[d].nlink \in Nat
      BY <1>2, <1>7, <2>2, InodeFacts DEF Good
    <3> HIDE DEF S
    <3> QED
      BY <2>2, <3>4, <3>7, <3>8, <3>9, <3>10
  <2> QED
    BY <2>1, <2>2
<1> QED
  BY <1>5, <1>6, <1>7 DEF Good

LEMMA ReplacedGood ==
  ASSUME NEW I \in Inodes, NEW J \in Inodes, NEW c \in Node, NEW p \in DOMAIN I[c].ent,
         NEW n \in Node, n[1] = c[1], Replaced(I, J, c, p, n[2]), Good(I),
         I[c].ent[p].name \in Dots, I[n].kind # "free"
  PROVE  Good(J)
<1>1. /\ \A x \in Node : x # c => J[x].ent = I[x].ent
      /\ DOMAIN J[c].ent = DOMAIN I[c].ent
      /\ \A k \in DOMAIN I[c].ent : J[c].ent[k].name = I[c].ent[k].name
      /\ \A k \in DOMAIN I[c].ent : k # p => J[c].ent[k] = I[c].ent[k]
      /\ Child(J, c, p) = n
  BY ReplacedEntries
<1>2. \A x \in Node : J[x].kind = I[x].kind /\ J[x].nlink = I[x].nlink
  BY DEF Replaced, Rest
<1>3. \A x \in Node : \A k \in DOMAIN I[x].ent : (x # c \/ k # p) => Child(J, x, k) = Child(I, x, k)
  BY <1>1 DEF Child
<1>4. \A x \in Node : DOMAIN J[x].ent = DOMAIN I[x].ent
  BY <1>1
<1>5. \A x \in Node : \A k \in DOMAIN J[x].ent : Child(J, x, k) \in Node /\ J[Child(J, x, k)].kind # "free"
  BY <1>1, <1>2, <1>3, <1>4 DEF Good
<1>6. \A x \in Node : J[x].kind # "dir" => J[x].ent = << >>
  <2>1. I[c].kind = "dir"
    BY GoodFacts
  <2> QED
    BY <1>1, <1>2, <2>1 DEF Good
<1>7. ASSUME NEW x \in Node, J[x].kind = "dir" PROVE Cardinality(Subs(J, x)) <= J[x].nlink
  <2>1. ASSUME NEW k \in DOMAIN I[x].ent
        PROVE  k \in Subs(J, x) <=> k \in Subs(I, x)
    <3>1. CASE x # c \/ k # p
      <4>1. J[Child(J, x, k)].kind = I[Child(I, x, k)].kind
        BY <1>2, <1>3, <2>1, <3>1 DEF Good
      <4>2. J[x].ent[k].name = I[x].ent[k].name
        BY <1>1, <2>1
      <4> QED
        BY <1>4, <2>1, <4>1, <4>2 DEF Subs
    <3>2. CASE x = c /\ k = p
      BY <1>1, <3>2 DEF Subs
    <3> QED
      BY <3>1, <3>2
  <2>2. Subs(J, x) \subseteq DOMAIN I[x].ent /\ Subs(I, x) \subseteq DOMAIN I[x].ent
    BY <1>4 DEF Subs
  <2>3. Subs(J, x) = Subs(I, x)
    BY <2>1, <2>2
  <2> QED
    BY <1>2, <1>7, <2>3 DEF Good
<1> QED
  BY <1>5, <1>6, <1>7 DEF Good

LEMMA EmptiedGood ==
  ASSUME NEW I \in Inodes, NEW J \in Inodes, NEW c \in Node, Emptied(I, J, c), Good(I)
  PROVE  Good(J)
<1>1. /\ \A x \in Node : J[x].kind = I[x].kind
      /\ \A x \in Node : x # c => J[x].ent = I[x].ent /\ J[x].nlink = I[x].nlink
      /\ J[c].ent = << >> /\ J[c].nlink = 0
  BY DEF Emptied, Rest
<1>2. DOMAIN J[c].ent = {}
  BY <1>1
<1>3. \A x \in Node : x # c => \A k \in DOMAIN I[x].ent : Child(J, x, k) = Child(I, x, k)
  BY <1>1 DEF Child
<1>4. \A x \in Node : \A k \in DOMAIN J[x].ent : Child(J, x, k) \in Node /\ J[Child(J, x, k)].kind # "free"
  BY <1>1, <1>2, <1>3 DEF Good
<1>5. ASSUME NEW x \in Node, J[x].kind = "dir" PROVE Cardinality(Subs(J, x)) <= J[x].nlink
  <2>1. CASE x # c
    <3>1. \A k \in DOMAIN I[x].ent : J[Child(J, x, k)].kind = I[Child(I, x, k)].kind
      BY <1>1, <1>3, <2>1 DEF Good
    <3>2. Subs(J, x) = Subs(I, x)
      BY <1>1, <2>1, <3>1 DEF Subs
    <3> QED
      BY <1>1, <1>5, <2>1, <3>2 DEF Good
  <2>2. CASE x = c
    <3>1. Subs(J, c) = {}
      BY <1>2 DEF Subs
    <3> QED
      BY <1>1, <2>2, <3>1, FS_EmptySet
  <2> QED
    BY <2>1, <2>2
<1> QED
  BY <1>1, <1>4, <1>5 DEF Good

LEMMA RelinkedGood ==
  ASSUME NEW I \in Inodes, NEW J \in Inodes, NEW n \in Node, NEW v, Relinked(I, J, n, v), Good(I),
         I[n].kind # "dir"
  PROVE  Good(J)
<1>1. /\ \A x \in Node : J[x].kind = I[x].kind /\ J[x].ent = I[x].ent
      /\ \A x \in Node : x # n => J[x].nlink = I[x].nlink
  BY DEF Relinked, Rest
<1>2. \A x \in Node : \A k \in DOMAIN I[x].ent : Child(J, x, k) = Child(I, x, k)
  BY <1>1 DEF Child
<1>3. \A x \in Node : Subs(J, x) = Subs(I, x)
  <2> TAKE x \in Node
  <2>1. \A k \in DOMAIN I[x].ent : J[Child(J, x, k)].kind = I[Child(I, x, k)].kind
    BY <1>1, <1>2 DEF Good
  <2> QED
    BY <1>1, <2>1 DEF Subs
<1> QED
  BY <1>1, <1>2, <1>3 DEF Good

(* A new inode, at n.                                                      *)
Dotting(n, d) == <<[name |-> ".", ino |-> n[2]], [name |-> "..", ino |-> d[2]]>>

Made(I, J, n, d, r) ==
  /\ \A x \in Node : J[x] = IF x = n THEN r ELSE I[x]
  /\ I[n].kind = "free"
  /\ \/ r.kind = "file" /\ r.ent = << >> /\ r.nlink = 1
     \/ r.kind = "dir" /\ r.ent = Dotting(n, d) /\ r.nlink = 2

LEMMA DottingFacts ==
  ASSUME NEW n, NEW d
  PROVE  /\ DOMAIN Dotting(n, d) = {1, 2} /\ Len(Dotting(n, d)) = 2 /\ Dotting(n, d) # << >>
         /\ Dotting(n, d)[1] = [name |-> ".", ino |-> n[2]]
         /\ Dotting(n, d)[2] = [name |-> "..", ino |-> d[2]]
BY DEF Dotting

LEMMA MadeGood ==
  ASSUME NEW I \in Inodes, NEW J \in Inodes, NEW n \in Node, NEW d \in Node, n[1] = d[1],
         NEW r \in Record, Made(I, J, n, d, r), Good(I), I[d].kind = "dir"
  PROVE  Good(J)
<1>0. n # d /\ J[d] = I[d] /\ J[n] = r
  BY DEF Made
<1>1. \A x \in Node : x # n => J[x] = I[x]
  BY DEF Made
<1>2. ASSUME NEW x \in Node, x # n, NEW k \in DOMAIN I[x].ent
      PROVE  /\ Child(J, x, k) = Child(I, x, k) /\ Child(I, x, k) \in Node
             /\ J[Child(J, x, k)].kind = I[Child(I, x, k)].kind /\ I[Child(I, x, k)].kind # "free"
  <2>1. Child(J, x, k) = Child(I, x, k)
    BY <1>1, <1>2 DEF Child
  <2>2. Child(I, x, k) \in Node /\ I[Child(I, x, k)].kind # "free"
    BY DEF Good
  <2>3. Child(I, x, k) # n
    BY <2>2 DEF Made
  <2> QED
    BY <1>1, <2>1, <2>2, <2>3
<1>3. ASSUME r.kind = "dir", NEW k \in DOMAIN r.ent
      PROVE  /\ r.ent[k].name \in Dots
             /\ Child(J, n, k) \in Node /\ J[Child(J, n, k)].kind # "free"
  <2>1. r.ent = Dotting(n, d)
    BY <1>3 DEF Made
  <2>2. k \in {1, 2}
    <3>1. DOMAIN r.ent = {1, 2}
      BY <2>1, DottingFacts
    <3> QED
      BY <1>3, <3>1
  <2>3. r.ent[1] = [name |-> ".", ino |-> n[2]] /\ r.ent[2] = [name |-> "..", ino |-> d[2]]
    BY <2>1, DottingFacts
  <2>4. Child(J, n, 1) = n /\ Child(J, n, 2) = d
    BY <1>0, <2>3, NodeFacts DEF Child
  <2> QED
    BY <1>0, <1>3, <2>2, <2>3, <2>4 DEF Dots
<1>4. r.kind # "dir" => r.ent = << >>
  BY DEF Made
<1>5. \A x \in Node : \A k \in DOMAIN J[x].ent : Child(J, x, k) \in Node /\ J[Child(J, x, k)].kind # "free"
  <2> TAKE x \in Node
  <2> TAKE k \in DOMAIN J[x].ent
  <2>1. CASE x = n
    BY <1>0, <1>3, <1>4, <2>1
  <2>2. CASE x # n
    BY <1>1, <1>2, <2>2
  <2> QED
    BY <2>1, <2>2
<1>6. \A x \in Node : J[x].kind # "dir" => J[x].ent = << >>
  BY <1>0, <1>1, <1>4 DEF Good
<1>7. ASSUME NEW x \in Node, J[x].kind = "dir" PROVE Cardinality(Subs(J, x)) <= J[x].nlink
  <2>1. CASE x # n
    <3>1. Subs(J, x) = Subs(I, x)
      BY <1>1, <1>2, <2>1 DEF Subs
    <3> QED
      BY <1>1, <1>7, <2>1, <3>1 DEF Good
  <2>2. CASE x = n
    <3>1. Subs(J, n) = {}
      BY <1>0, <1>3, <1>7, <2>2 DEF Subs
    <3>2. J[n].nlink = 2
      BY <1>0, <1>7, <2>2 DEF Made
    <3> QED
      BY <2>2, <3>1, <3>2, FS_EmptySet
  <2> QED
    BY <2>1, <2>2
<1> QED
  BY <1>5, <1>6, <1>7 DEF Good

-----------------------------------------------------------------------------
(* Every step keeps the entries inside the active nodes                    *)

LEMMA AddedClosed ==
  ASSUME NEW I \in Inodes, NEW J \in Inodes, NEW d \in Node, NEW n \in Node, n[1] = d[1],
         NEW name \in Name, Added(I, J, d, n, name), NEW A \in SUBSET Node, Closed(I, A), n \in A
  PROVE  Closed(J, A)
<1>1. /\ \A x \in Node : x # d => J[x].ent = I[x].ent
      /\ Len(J[d].ent) = Len(I[d].ent) + 1
      /\ DOMAIN J[d].ent = 1 .. Len(I[d].ent) + 1
      /\ \A k \in 1 .. Len(I[d].ent) : J[d].ent[k] = I[d].ent[k]
      /\ J[d].ent[Len(I[d].ent) + 1] = [name |-> name, ino |-> n[2]]
      /\ Child(J, d, Len(I[d].ent) + 1) = n
  BY AddedEntries
<1>2. DOMAIN I[d].ent = 1 .. Len(I[d].ent) /\ Len(I[d].ent) \in Nat
  BY InodeFacts
<1> SUFFICES ASSUME NEW x \in A, NEW k \in DOMAIN J[x].ent PROVE Child(J, x, k) \in A
  BY DEF Closed
<1>3. CASE x # d
  <2>1. J[x].ent = I[x].ent
    BY <1>1, <1>3
  <2> QED
    BY <2>1 DEF Closed, Child
<1>4. CASE x = d /\ k \in 1 .. Len(I[d].ent)
  <2>1. J[d].ent[k] = I[d].ent[k] /\ k \in DOMAIN I[d].ent
    BY <1>1, <1>2, <1>4
  <2> QED
    BY <1>4, <2>1 DEF Closed, Child
<1>5. CASE x = d /\ k = Len(I[d].ent) + 1
  BY <1>1, <1>5
<1> QED
  BY <1>1, <1>2, <1>3, <1>4, <1>5

LEMMA RemovedClosed ==
  ASSUME NEW I \in Inodes, NEW J \in Inodes, NEW d \in Node, NEW p \in DOMAIN I[d].ent,
         Removed(I, J, d, p), NEW A \in SUBSET Node, Closed(I, A)
  PROVE  Closed(J, A)
<1> DEFINE L == Len(I[d].ent)
<1>1. /\ \A x \in Node : x # d => J[x].ent = I[x].ent
      /\ L \in Nat /\ p \in 1 .. L
      /\ DOMAIN J[d].ent = 1 .. L - 1
      /\ \A k \in 1 .. L - 1 : Child(J, d, k) = Child(I, d, IF k = p THEN L ELSE k)
  BY RemovedEntries
<1>2. DOMAIN I[d].ent = 1 .. L
  BY InodeFacts
<1> HIDE DEF L
<1> SUFFICES ASSUME NEW x \in A, NEW k \in DOMAIN J[x].ent PROVE Child(J, x, k) \in A
  BY DEF Closed
<1>3. CASE x # d
  <2>1. J[x].ent = I[x].ent
    BY <1>1, <1>3
  <2> QED
    BY <2>1 DEF Closed, Child
<1>4. CASE x = d
  <2> DEFINE q == IF k = p THEN L ELSE k
  <2>1. q \in DOMAIN I[d].ent /\ Child(J, d, k) = Child(I, d, q)
    BY <1>1, <1>2, <1>4
  <2> HIDE DEF q
  <2> QED
    BY <1>4, <2>1 DEF Closed
<1> QED
  BY <1>3, <1>4

LEMMA ReplacedClosed ==
  ASSUME NEW I \in Inodes, NEW J \in Inodes, NEW c \in Node, NEW p \in DOMAIN I[c].ent,
         NEW n \in Node, n[1] = c[1], Replaced(I, J, c, p, n[2]),
         NEW A \in SUBSET Node, Closed(I, A), n \in A
  PROVE  Closed(J, A)
<1>1. /\ \A x \in Node : x # c => J[x].ent = I[x].ent
      /\ DOMAIN J[c].ent = DOMAIN I[c].ent
      /\ \A k \in DOMAIN I[c].ent : k # p => J[c].ent[k] = I[c].ent[k]
      /\ Child(J, c, p) = n
  BY ReplacedEntries
<1> SUFFICES ASSUME NEW x \in A, NEW k \in DOMAIN J[x].ent PROVE Child(J, x, k) \in A
  BY DEF Closed
<1>2. CASE x = c /\ k = p
  BY <1>1, <1>2
<1>3. CASE x # c \/ k # p
  <2>1. J[x].ent[k] = I[x].ent[k] /\ k \in DOMAIN I[x].ent
    BY <1>1, <1>3
  <2> QED
    BY <2>1 DEF Closed, Child
<1> QED
  BY <1>2, <1>3

-----------------------------------------------------------------------------
(* How the steps change the entries that name a node, and the difference   *)
(* between its link count and their number                                 *)

LEMMA RefsFacts ==
  ASSUME NEW I \in Inodes, NEW A \in SUBSET Node, NEW n
  PROVE  IsFiniteSet(Refs(I, A, n)) /\ Cardinality(Refs(I, A, n)) \in Nat
<1> DEFINE At(x) == {x} \X (1 .. Len(I[x].ent))
           family == {At(x) : x \in A}
<1>1. IsFiniteSet(A)
  BY NodeFacts, FS_Subset
<1>2. IsFiniteSet(family)
  <2> DEFINE f == [x \in A |-> At(x)]
  <2>1. f \in Surjection(A, family)
    BY DEF Surjection
  <2> HIDE DEF f, family
  <2> QED
    BY <1>1, <2>1, FS_Surjection
<1>3. \A S \in family : IsFiniteSet(S)
  <2> TAKE S \in family
  <2>1. PICK x \in A : S = At(x)
    OBVIOUS
  <2>2. IsFiniteSet({x})
    BY FS_Singleton
  <2>3. IsFiniteSet(1 .. Len(I[x].ent))
    <3>1. Len(I[x].ent) \in Int
      BY InodeFacts
    <3> QED
      BY <3>1, FS_Interval
  <2> QED
    BY <2>1, <2>2, <2>3, FS_Product
<1>4. IsFiniteSet(UNION family)
  <2> HIDE DEF family
  <2> QED
    BY <1>2, <1>3, FS_UNION
<1>5. Refs(I, A, n) \in SUBSET (UNION family)
  <2>1. \A x \in A : DOMAIN I[x].ent = 1 .. Len(I[x].ent)
    BY InodeFacts
  <2>2. ASSUME NEW q \in Refs(I, A, n) PROVE q \in UNION family
    <3>1. q[1] \in A /\ q \in At(q[1])
      BY <2>1 DEF Refs
    <3> QED
      BY <3>1
  <2> QED
    BY <2>2
<1> QED
  BY <1>4, <1>5, FS_Subset, FS_CardinalityType

(* A set where an element is taken out, is put in, or is put in the place  *)
(* of another.                                                             *)
LEMMA StepCardinality ==
  ASSUME NEW S, IsFiniteSet(S), NEW p
  PROVE  /\ Cardinality(S \ {p}) = Cardinality(S) - (IF p \in S THEN 1 ELSE 0)
         /\ Cardinality(S \cup {p}) = Cardinality(S) + (IF p \in S THEN 0 ELSE 1)
<1>1. Cardinality(S) \in Nat
  BY FS_CardinalityType
<1>2. Cardinality(S \ {p}) = IF p \in S THEN Cardinality(S) - 1 ELSE Cardinality(S)
  BY FS_RemoveElement
<1>3. Cardinality(S \cup {p}) = IF p \in S THEN Cardinality(S) ELSE Cardinality(S) + 1
  BY FS_AddElement
<1> QED
  BY <1>1, <1>2, <1>3

LEMMA SwapCardinality ==
  ASSUME NEW S, IsFiniteSet(S), NEW p, NEW q, p # q, q \in S
  PROVE  Cardinality((S \ {q}) \cup {p}) = Cardinality(S) - (IF p \in S THEN 1 ELSE 0)
<1>1. Cardinality(S) \in Nat
  BY FS_CardinalityType
<1>2. IsFiniteSet(S \ {q}) /\ Cardinality(S \ {q}) = Cardinality(S) - 1
  BY FS_RemoveElement
<1>3. Cardinality((S \ {q}) \cup {p}) =
        IF p \in S \ {q} THEN Cardinality(S \ {q}) ELSE Cardinality(S \ {q}) + 1
  BY <1>2, FS_AddElement
<1> QED
  BY <1>1, <1>2, <1>3

LEMMA AddedBal ==
  ASSUME NEW I \in Inodes, NEW J \in Inodes, NEW d \in Node, NEW n \in Node, n[1] = d[1],
         NEW name \in Name, Added(I, J, d, n, name), NEW A \in SUBSET Node, d \in A, NEW m \in Node
  PROVE  Bal(J, A, m) = Bal(I, A, m) + (IF m = d THEN One(I, n) ELSE 0) - (IF m = n THEN 1 ELSE 0)
<1> DEFINE L == Len(I[d].ent)
           S == Refs(I, A, m)
           q == <<d, L + 1>>
<1>1. /\ \A x \in Node : x # d => J[x].ent = I[x].ent
      /\ Len(J[d].ent) = L + 1
      /\ DOMAIN J[d].ent = 1 .. L + 1
      /\ \A k \in 1 .. L : J[d].ent[k] = I[d].ent[k]
      /\ J[d].ent[L + 1] = [name |-> name, ino |-> n[2]]
      /\ Child(J, d, L + 1) = n
  BY AddedEntries
<1>2. DOMAIN I[d].ent = 1 .. L /\ L \in Nat /\ I[m].nlink \in Nat /\ One(I, n) \in Nat
  BY InodeFacts, OneFacts
<1> HIDE DEF L
<1>3. \A x \in Node : \A k \in Nat :
        (k \in DOMAIN J[x].ent /\ Child(J, x, k) = m)
          <=> (k \in DOMAIN I[x].ent /\ Child(I, x, k) = m) \/ (x = d /\ k = L + 1 /\ m = n)
  <2> TAKE x \in Node
  <2> TAKE k \in Nat
  <2>1. CASE x # d
    BY <1>1, <2>1 DEF Child
  <2>2. CASE x = d /\ k \in 1 .. L
    BY <1>1, <1>2, <2>2 DEF Child
  <2>3. CASE x = d /\ k = L + 1
    BY <1>1, <1>2, <2>3
  <2>4. CASE x = d /\ k \notin 1 .. L + 1
    BY <1>1, <1>2, <2>4
  <2> QED
    BY <1>2, <2>1, <2>2, <2>3, <2>4
<1>4. q \in A \X Nat /\ q \notin S
  BY <1>2 DEF Refs
<1>5. Refs(J, A, m) = IF m = n THEN S \cup {q} ELSE S
  <2>1. \A y \in A \X Nat : y[1] \in Node /\ y[2] \in Nat /\ y = <<y[1], y[2]>>
    OBVIOUS
  <2>2. ASSUME NEW y \in A \X Nat
        PROVE  y \in Refs(J, A, m) <=> y \in S \/ (y = q /\ m = n)
    BY <1>3, <2>1 DEF Refs
  <2>3. Refs(J, A, m) \subseteq A \X Nat /\ S \subseteq A \X Nat
    BY DEF Refs
  <2> HIDE DEF S, q
  <2> QED
    BY <1>4, <2>2, <2>3
<1>6. IsFiniteSet(S) /\ Cardinality(S) \in Nat
  BY RefsFacts
<1>7. Cardinality(S \cup {q}) = Cardinality(S) + 1
  <2> HIDE DEF S, q
  <2> QED
    BY <1>4, <1>6, StepCardinality
<1>8. J[m].nlink = I[m].nlink + (IF m = d THEN One(I, n) ELSE 0)
  BY DEF Added
<1>9. Cardinality(Refs(J, A, m)) = Cardinality(S) + (IF m = n THEN 1 ELSE 0)
  <2> HIDE DEF S, q
  <2> QED
    BY <1>5, <1>6, <1>7
<1>10. Bal(J, A, m) = J[m].nlink - Cardinality(Refs(J, A, m)) /\ Bal(I, A, m) = I[m].nlink - Cardinality(S)
  BY DEF Bal
<1> HIDE DEF S
<1> QED
  BY <1>2, <1>6, <1>8, <1>9, <1>10

LEMMA RemovedBal ==
  ASSUME NEW I \in Inodes, NEW J \in Inodes, NEW d \in Node, NEW p \in DOMAIN I[d].ent,
         Removed(I, J, d, p), NEW A \in SUBSET Node, d \in A, NEW m \in Node
  PROVE  Bal(J, A, m) = Bal(I, A, m) - (IF m = d THEN One(I, Child(I, d, p)) ELSE 0)
                          + (IF m = Child(I, d, p) THEN 1 ELSE 0)
<1> DEFINE L == Len(I[d].ent)
           S == Refs(I, A, m)
           T == Refs(J, A, m)
           P == <<d, p>>
           Q == <<d, L>>
           c == Child(I, d, p)
<1>1. /\ \A x \in Node : x # d => J[x].ent = I[x].ent
      /\ L \in Nat /\ L # 0 /\ p \in 1 .. L
      /\ DOMAIN J[d].ent = 1 .. L - 1
      /\ \A k \in 1 .. L - 1 : Child(J, d, k) = Child(I, d, IF k = p THEN L ELSE k)
  BY RemovedEntries
<1>2. DOMAIN I[d].ent = 1 .. L /\ I[m].nlink \in Nat /\ One(I, c) \in Nat
  BY InodeFacts, OneFacts
<1> HIDE DEF L
<1>3. \A x \in A : x # d => \A k \in Nat : <<x, k>> \in T <=> <<x, k>> \in S
  BY <1>1 DEF Refs, Child
<1>4. \A k \in Nat : <<d, k>> \in T <=> k \in 1 .. L - 1 /\ <<d, IF k = p THEN L ELSE k>> \in S
  <2> TAKE k \in Nat
  <2>1. <<d, k>> \in T <=> k \in 1 .. L - 1 /\ Child(J, d, k) = m
    BY <1>1 DEF Refs
  <2>2. CASE k \in 1 .. L - 1
    <3> DEFINE j == IF k = p THEN L ELSE k
    <3>1. j \in 1 .. L /\ j \in Nat /\ Child(J, d, k) = Child(I, d, j)
      BY <1>1, <2>2
    <3> HIDE DEF j
    <3>2. <<d, j>> \in S <=> Child(I, d, j) = m
      BY <1>2, <3>1 DEF Refs
    <3> QED
      BY <2>1, <2>2, <3>1, <3>2 DEF j
  <2> QED
    BY <2>1, <2>2
<1>5. T \subseteq A \X Nat /\ S \subseteq A \X Nat
  BY DEF Refs
<1>6. \A k \in Nat : <<d, k>> \in S => k \in 1 .. L
  BY <1>2 DEF Refs
<1>7. P \in S <=> m = c
  BY <1>1, <1>2 DEF Refs
<1>8. T = IF p = L \/ Q \notin S THEN S \ {P} ELSE (S \ {Q}) \cup {P}
  <2> HIDE DEF S, T, c
  <2>1. ASSUME NEW x \in A, NEW k \in Nat, x # d
        PROVE  <<x, k>> \in T <=> <<x, k>> \in IF p = L \/ Q \notin S THEN S \ {P} ELSE (S \ {Q}) \cup {P}
    BY <1>3, <2>1
  <2>2. ASSUME NEW k \in Nat
        PROVE  <<d, k>> \in T <=> <<d, k>> \in IF p = L \/ Q \notin S THEN S \ {P} ELSE (S \ {Q}) \cup {P}
    <3>0. k \in 1 .. L - 1 <=> k \in 1 .. L /\ k # L
      BY <1>1
    <3>1. CASE k = p /\ p = L
      BY <1>1, <1>4, <3>0, <3>1
    <3>2. CASE k = p /\ p # L
      BY <1>1, <1>4, <3>0, <3>2
    <3>3. CASE k # p /\ k = L
      BY <1>1, <1>4, <3>0, <3>3
    <3>4. CASE k # p /\ k # L
      BY <1>1, <1>4, <1>6, <3>0, <3>4
    <3> QED
      BY <3>1, <3>2, <3>3, <3>4
  <2> DEFINE U == IF p = L \/ Q \notin S THEN S \ {P} ELSE (S \ {Q}) \cup {P}
  <2>3. U \subseteq A \X Nat
    <3>1. P \in A \X Nat
      BY <1>1
    <3> QED
      BY <1>5, <3>1
  <2>4. \A y \in A \X Nat : y[1] \in A /\ y[2] \in Nat /\ y = <<y[1], y[2]>>
    OBVIOUS
  <2>5. \A y \in A \X Nat : y \in T <=> y \in U
    <3> TAKE y \in A \X Nat
    <3>1. CASE y[1] = d
      <4>1. y = <<d, y[2]>> /\ y[2] \in Nat
        BY <2>4, <3>1
      <4> QED
        BY <2>2, <4>1
    <3>2. CASE y[1] # d
      BY <2>1, <2>4, <3>2
    <3> QED
      BY <3>1, <3>2
  <2> HIDE DEF U
  <2>6. T = U
    BY <1>5, <2>3, <2>5
  <2> QED
    BY <2>6 DEF U
<1>9. IsFiniteSet(S) /\ Cardinality(S) \in Nat
  BY RefsFacts
<1>10. Cardinality(T) = Cardinality(S) - (IF m = c THEN 1 ELSE 0)
  <2> HIDE DEF S, T, c
  <2>1. CASE p = L \/ Q \notin S
    BY <1>7, <1>8, <1>9, <2>1, StepCardinality
  <2>2. CASE p # L /\ Q \in S
    <3>1. P # Q
      BY <2>2
    <3>2. T = (S \ {Q}) \cup {P}
      BY <1>8, <2>2
    <3> HIDE DEF P, Q
    <3>3. Cardinality((S \ {Q}) \cup {P}) = Cardinality(S) - (IF P \in S THEN 1 ELSE 0)
      BY <1>9, <2>2, <3>1, SwapCardinality
    <3> QED
      BY <1>7, <3>2, <3>3
  <2> QED
    BY <2>1, <2>2
<1>11. J[m].nlink = I[m].nlink - (IF m = d THEN One(I, c) ELSE 0)
  BY DEF Removed
<1>12. Bal(J, A, m) = J[m].nlink - Cardinality(T) /\ Bal(I, A, m) = I[m].nlink - Cardinality(S)
  BY DEF Bal
<1> HIDE DEF S, T, c
<1>13. Bal(J, A, m) = Bal(I, A, m) - (IF m = d THEN One(I, c) ELSE 0) + (IF m = c THEN 1 ELSE 0)
  BY <1>2, <1>9, <1>10, <1>11, <1>12
<1> QED
  BY <1>13 DEF c

LEMMA ReplacedBal ==
  ASSUME NEW I \in Inodes, NEW J \in Inodes, NEW c \in Node, NEW p \in DOMAIN I[c].ent,
         NEW n \in Node, n[1] = c[1], Replaced(I, J, c, p, n[2]),
         NEW A \in SUBSET Node, c \in A, NEW m \in Node
  PROVE  Bal(J, A, m) = Bal(I, A, m) + (IF m = Child(I, c, p) THEN 1 ELSE 0) - (IF m = n THEN 1 ELSE 0)
<1> DEFINE S == Refs(I, A, m)
           T == Refs(J, A, m)
           P == <<c, p>>
           o == Child(I, c, p)
<1>1. /\ \A x \in Node : x # c => J[x].ent = I[x].ent
      /\ DOMAIN J[c].ent = DOMAIN I[c].ent
      /\ \A k \in DOMAIN I[c].ent : k # p => J[c].ent[k] = I[c].ent[k]
      /\ Child(J, c, p) = n
  BY ReplacedEntries
<1>2. DOMAIN I[c].ent \subseteq Nat /\ I[m].nlink \in Nat /\ P \in A \X Nat
  BY InodeFacts
<1>3. \A y \in A \X Nat : y # P => (y \in T <=> y \in S)
  <2> TAKE y \in A \X Nat
  <2>1. CASE y[1] # c
    <3>1. J[y[1]].ent = I[y[1]].ent
      BY <1>1, <2>1
    <3> QED
      BY <3>1 DEF Refs, Child
  <2>2. CASE y[1] = c /\ y[2] # p
    <3>1. y[2] \in DOMAIN I[c].ent => Child(J, c, y[2]) = Child(I, c, y[2])
      BY <1>1, <2>2 DEF Child
    <3> QED
      BY <1>1, <2>2, <3>1 DEF Refs
  <2> QED
    BY <2>1, <2>2
<1>4. (P \in T <=> m = n) /\ (P \in S <=> m = o)
  BY <1>1, <1>2 DEF Refs
<1>5. T \subseteq A \X Nat /\ S \subseteq A \X Nat
  BY DEF Refs
<1>6. IsFiniteSet(S) /\ Cardinality(S) \in Nat
  BY RefsFacts
<1>7. Cardinality(T) = Cardinality(S) - (IF m = o THEN 1 ELSE 0) + (IF m = n THEN 1 ELSE 0)
  <2> HIDE DEF S, T, P, o
  <2>1. CASE m = n
    <3>1. T = S \cup {P}
      BY <1>2, <1>3, <1>4, <1>5, <2>1
    <3>2. Cardinality(S \cup {P}) = Cardinality(S) + (IF P \in S THEN 0 ELSE 1)
      BY <1>6, StepCardinality
    <3> QED
      BY <1>4, <1>6, <2>1, <3>1, <3>2
  <2>2. CASE m # n
    <3>1. T = S \ {P}
      BY <1>2, <1>3, <1>4, <1>5, <2>2
    <3>2. Cardinality(S \ {P}) = Cardinality(S) - (IF P \in S THEN 1 ELSE 0)
      BY <1>6, StepCardinality
    <3> QED
      BY <1>4, <1>6, <2>2, <3>1, <3>2
  <2> QED
    BY <2>1, <2>2
<1>8. J[m].nlink = I[m].nlink
  BY DEF Replaced
<1>9. Bal(J, A, m) = J[m].nlink - Cardinality(T) /\ Bal(I, A, m) = I[m].nlink - Cardinality(S)
  BY DEF Bal
<1> HIDE DEF S, T, o
<1>10. Bal(J, A, m) = Bal(I, A, m) + (IF m = o THEN 1 ELSE 0) - (IF m = n THEN 1 ELSE 0)
  BY <1>2, <1>6, <1>7, <1>8, <1>9
<1> QED
  BY <1>10 DEF o

LEMMA RelinkedBal ==
  ASSUME NEW I \in Inodes, NEW J \in Inodes, NEW n \in Node, NEW v \in Nat, Relinked(I, J, n, v),
         NEW A \in SUBSET Node, NEW m \in Node
  PROVE  Bal(J, A, m) = Bal(I, A, m) + (IF m = n THEN v - I[n].nlink ELSE 0)
<1>1. \A x \in A : J[x].ent = I[x].ent
  BY DEF Relinked
<1>2. Refs(J, A, m) = Refs(I, A, m)
  BY <1>1 DEF Refs, Child
<1>3. Cardinality(Refs(I, A, m)) \in Nat
  BY RefsFacts
<1>4. I[m].nlink \in Nat /\ I[n].nlink \in Nat /\ J[m].nlink = IF m = n THEN v ELSE I[m].nlink
  BY InodeFacts DEF Relinked
<1> QED
  BY <1>2, <1>3, <1>4 DEF Bal

(* A directory that has only itself and e in it is emptied.                *)
LEMMA EmptiedBal ==
  ASSUME NEW I \in Inodes, NEW J \in Inodes, NEW c \in Node, Emptied(I, J, c),
         NEW A \in SUBSET Node, c \in A, DOMAIN I[c].ent = {1, 2}, Child(I, c, 1) = c,
         NEW m \in Node, m # c
  PROVE  Bal(J, A, m) = Bal(I, A, m) + (IF m = Child(I, c, 2) THEN 1 ELSE 0)
<1> DEFINE S == Refs(I, A, m)
           T == Refs(J, A, m)
           P == <<c, 2>>
           o == Child(I, c, 2)
<1>1. /\ \A x \in Node : x # c => J[x].ent = I[x].ent
      /\ J[c].ent = << >> /\ J[m].nlink = I[m].nlink
  BY DEF Emptied
<1>2. T = S \ {P}
  <2>1. DOMAIN J[c].ent = {}
    BY <1>1
  <2>2. ASSUME NEW y \in A \X Nat PROVE y \in T <=> y \in S /\ y # P
    <3>1. CASE y[1] # c
      <4>1. J[y[1]].ent = I[y[1]].ent
        BY <1>1, <3>1
      <4> QED
        BY <3>1, <4>1 DEF Refs, Child
    <3>2. CASE y[1] = c
      <4>1. y \notin T
        BY <2>1, <3>2 DEF Refs
      <4>2. y \in S => y[2] = 2
        BY <3>2 DEF Refs
      <4> QED
        BY <3>2, <4>1, <4>2
    <3> QED
      BY <3>1, <3>2
  <2>3. T \subseteq A \X Nat /\ S \subseteq A \X Nat
    BY DEF Refs
  <2> HIDE DEF S, T, P
  <2> QED
    BY <2>2, <2>3
<1>3. P \in S <=> m = o
  BY DEF Refs
<1>4. IsFiniteSet(S) /\ Cardinality(S) \in Nat /\ I[m].nlink \in Nat
  BY RefsFacts, InodeFacts
<1>5. Bal(J, A, m) = J[m].nlink - Cardinality(T) /\ Bal(I, A, m) = I[m].nlink - Cardinality(S)
  BY DEF Bal
<1> HIDE DEF S, T, o, P
<1>6. Cardinality(S \ {P}) = Cardinality(S) - (IF P \in S THEN 1 ELSE 0)
  BY <1>4, StepCardinality
<1>7. Bal(J, A, m) = Bal(I, A, m) + (IF m = o THEN 1 ELSE 0)
  BY <1>1, <1>2, <1>3, <1>4, <1>5, <1>6
<1> QED
  BY <1>7 DEF o

(* No entry names a node that is free.                                     *)
LEMMA FreeRefs ==
  ASSUME NEW I \in Inodes, Good(I), NEW A \in SUBSET Node, NEW n \in Node, I[n].kind = "free"
  PROVE  Refs(I, A, n) = {} /\ I[n].ent = << >>
<1>1. ASSUME NEW y \in Refs(I, A, n) PROVE FALSE
  BY <1>1 DEF Refs, Good
<1> QED
  BY <1>1 DEF Good

LEMMA MadeBal ==
  ASSUME NEW I \in Inodes, NEW J \in Inodes, NEW n \in Node, NEW d \in Node, n[1] = d[1],
         NEW r \in Record, Made(I, J, n, d, r), Good(I), I[d].kind = "dir",
         NEW A \in SUBSET Node, n \in A, Bal(I, A, n) = 0, NEW m \in Node
  PROVE  Bal(J, A, m) = IF m = n THEN 1
                        ELSE IF r.kind = "dir" /\ m = d THEN Bal(I, A, m) - 1 ELSE Bal(I, A, m)
<1> DEFINE S == Refs(I, A, m)
           T == Refs(J, A, m)
<1>0. n # d /\ \A x \in Node : x # n => J[x] = I[x]
  BY DEF Made
<1>1. J[n] = r
  BY DEF Made
<1>2. Refs(I, A, n) = {} /\ I[n].ent = << >>
  BY FreeRefs DEF Made
<1>3. IsFiniteSet(S) /\ Cardinality(S) \in Nat /\ I[m].nlink \in Nat
  BY RefsFacts, InodeFacts
<1>4. \A x \in A : x # n => \A k \in Nat : <<x, k>> \in T <=> <<x, k>> \in S
  BY <1>0 DEF Refs, Child
<1>5. \A k \in Nat : <<n, k>> \notin S
  BY <1>2 DEF Refs
<1>6. T \subseteq A \X Nat /\ S \subseteq A \X Nat
  BY DEF Refs
<1>7. Bal(J, A, m) = J[m].nlink - Cardinality(T) /\ Bal(I, A, m) = I[m].nlink - Cardinality(S)
  BY DEF Bal
<1>8. CASE r.kind # "dir"
  <2>1. r.ent = << >> /\ r.nlink = 1
    BY <1>8 DEF Made
  <2>2. \A k \in Nat : <<n, k>> \notin T
    BY <1>1, <2>1 DEF Refs
  <2>3. T = S
    <3> HIDE DEF S, T
    <3>1. \A y \in A \X Nat : y[1] \in A /\ y[2] \in Nat /\ y = <<y[1], y[2]>>
      OBVIOUS
    <3> QED
      BY <1>4, <1>5, <1>6, <2>2, <3>1
  <2>4. CASE m = n
    <3>1. T = {}
      BY <1>2, <2>3, <2>4
    <3>2. Cardinality(T) = 0
      BY <3>1, FS_EmptySet
    <3>3. J[m].nlink = 1
      BY <1>1, <2>1, <2>4
    <3> QED
      BY <1>7, <2>4, <3>2, <3>3
  <2>5. CASE m # n
    <3>1. J[m].nlink = I[m].nlink
      BY <1>0, <2>5
    <3> HIDE DEF S, T
    <3>2. Bal(J, A, m) = Bal(I, A, m)
      BY <1>7, <2>3, <3>1
    <3> QED
      BY <1>8, <2>5, <3>2
  <2> QED
    BY <2>4, <2>5
<1>9. CASE r.kind = "dir"
  <2>1. r.ent = Dotting(n, d) /\ r.nlink = 2
    BY <1>9 DEF Made
  <2>2. /\ DOMAIN J[n].ent = {1, 2}
        /\ J[n].ent[1] = [name |-> ".", ino |-> n[2]] /\ J[n].ent[2] = [name |-> "..", ino |-> d[2]]
    BY <1>1, <2>1, DottingFacts
  <2>3. Child(J, n, 1) = n /\ Child(J, n, 2) = d
    BY <2>2, NodeFacts DEF Child
  <2>4. \A k \in Nat : <<n, k>> \in T <=> (k = 1 /\ m = n) \/ (k = 2 /\ m = d)
    BY <2>2, <2>3 DEF Refs
  <2>5. T = S \cup (IF m = n THEN {<<n, 1>>} ELSE IF m = d THEN {<<n, 2>>} ELSE {})
    <3> HIDE DEF S, T
    <3>1. \A y \in A \X Nat : y[1] \in A /\ y[2] \in Nat /\ y = <<y[1], y[2]>>
      OBVIOUS
    <3>2. <<n, 1>> \in A \X Nat /\ <<n, 2>> \in A \X Nat
      OBVIOUS
    <3>3. \A y \in A \X Nat : y \in T <=>
            y \in S \cup (IF m = n THEN {<<n, 1>>} ELSE IF m = d THEN {<<n, 2>>} ELSE {})
      <4> TAKE y \in A \X Nat
      <4>1. CASE y[1] # n
        BY <1>4, <3>1, <4>1
      <4>2. CASE y[1] = n
        <5>1. y = <<n, y[2]>> /\ y[2] \in Nat
          BY <3>1, <4>2
        <5> QED
          BY <1>0, <1>5, <2>4, <5>1
      <4> QED
        BY <4>1, <4>2
    <3> QED
      BY <1>6, <3>2, <3>3
  <2>6. CASE m = n
    <3>1. T = {<<n, 1>>}
      BY <1>2, <2>5, <2>6
    <3>2. Cardinality(T) = 1
      BY <3>1, FS_Singleton
    <3>3. J[m].nlink = 2
      BY <1>1, <2>1, <2>6
    <3> QED
      BY <1>7, <2>6, <3>2, <3>3
  <2>7. CASE m = d
    <3>1. T = S \cup {<<n, 2>>} /\ <<n, 2>> \notin S /\ m # n
      BY <1>0, <1>5, <2>5, <2>7
    <3>2. J[m].nlink = I[m].nlink
      BY <1>0, <3>1
    <3> HIDE DEF S, T
    <3>3. Cardinality(T) = Cardinality(S) + 1
      BY <1>3, <3>1, StepCardinality
    <3> QED
      BY <1>3, <1>7, <1>9, <2>7, <3>1, <3>2, <3>3
  <2>8. CASE m # n /\ m # d
    <3>1. T = S
      BY <2>5, <2>8
    <3> QED
      BY <1>0, <1>7, <2>8, <3>1
  <2> QED
    BY <2>6, <2>7, <2>8
<1> QED
  BY <1>8, <1>9

-----------------------------------------------------------------------------
(* The shape of the tree                                                   *)

LEMMA NodesNotEmpty == \A n \in Node : n # << >>
<1> TAKE n \in Node
<1>1. n = <<n[1], n[2]>>
  BY NodeFacts
<1>2. n # << >>
  <2>1. Len(<<n[1], n[2]>>) = 2 /\ Len(<< >>) = 0
    OBVIOUS
  <2> QED
    BY <1>1, <2>1
<1> QED
  BY <1>2

(* What can be named, in a directory of the shape.                         *)
LEMMA NamesFacts ==
  ASSUME NEW I \in Inodes, NEW d \in Node
  PROVE  /\ NamesIn(I, d) \subseteq DOMAIN I[d].ent /\ DOMAIN I[d].ent \subseteq Nat
         /\ Dotted(I, d) => 1 \in DOMAIN I[d].ent /\ Child(I, d, 1) = d
         /\ 1 \in DOMAIN I[d].ent /\ Child(I, d, 1) = d => Dotted(I, d)
         /\ Begins(I, d) => {1, 2} \subseteq DOMAIN I[d].ent
         /\ \A k \in DOMAIN I[d].ent : k \notin NamesIn(I, d) <=> Dotted(I, d) /\ k \in {1, 2}
<1>1. DOMAIN I[d].ent = 1 .. Len(I[d].ent) /\ Len(I[d].ent) \in Nat
      /\ (I[d].ent = << >> <=> Len(I[d].ent) = 0)
  BY InodeFacts
<1>2. d = <<d[1], d[2]>>
  BY NodeFacts
<1>3. Child(I, d, 1) = d <=> I[d].ent[1].ino = d[2]
  BY <1>2 DEF Child
<1>4. Dotted(I, d) <=> 1 \in DOMAIN I[d].ent /\ Child(I, d, 1) = d
  BY <1>1, <1>3 DEF Dotted
<1> QED
  BY <1>1, <1>4 DEF NamesIn, Begins

(* A step that does to the names of nodes other than m nothing but move    *)
(* them within their directory keeps the shape.                            *)
LEMMA ShapeKept ==
  ASSUME NEW I \in Inodes, NEW J \in Inodes, NEW A \in SUBSET Node, NEW m, NEW old,
         ShapeBut(I, A, m), Closed(I, A), \A d \in Disk : RootOf(d) \in Dirs(I, A),
         \A x \in A : x # m => J[x].kind = I[x].kind,
         m \in Dirs(I, A) => m \in Dirs(J, A),
         \A x \in Dirs(J, A) : /\ x # m => (Dotted(J, x) <=> Dotted(I, x))
                               /\ Dotted(J, x) => Begins(J, x)
                               /\ x # m /\ Dotted(J, x) => Child(J, x, 2) = Child(I, x, 2),
         \A x \in Dirs(J, A) : \A k \in NamesIn(J, x) : Child(J, x, k) # m =>
             /\ x \in Dirs(I, A) /\ old[x][k] \in NamesIn(I, x)
             /\ Child(J, x, k) = Child(I, x, old[x][k])
             /\ \A j \in NamesIn(J, x) : old[x][j] = old[x][k] => j = k,
         \A x \in Dirs(I, A) : \A k \in NamesIn(I, x) : Child(I, x, k) # m =>
             \E j \in NamesIn(J, x) : Child(J, x, j) = Child(I, x, k)
  PROVE  ShapeBut(J, A, m)
<1>1. \A x \in A : x # m => (x \in Dirs(J, A) <=> x \in Dirs(I, A))
  BY DEF Dirs
<1>2. \A x \in Dirs(I, A) : x \in Dirs(J, A) /\ x \in A /\ x \in Node
  BY <1>1 DEF Dirs
<1>3. \A d \in Disk : Dotted(J, RootOf(d)) /\ RootOf(d) # m
  BY <1>2 DEF ShapeBut
<1>4. ASSUME NEW x \in Dirs(J, A), Dotted(J, x), x # m PROVE HasParent(J, A, x)
  <2>1. x \in Dirs(I, A) /\ Dotted(I, x) /\ Child(J, x, 2) = Child(I, x, 2)
    BY <1>1, <1>4 DEF Dirs
  <2>2. HasParent(I, A, x)
    BY <1>4, <2>1 DEF ShapeBut
  <2> DEFINE e == Child(I, x, 2)
  <2>3. e \in Dirs(I, A) /\ e \in Dirs(J, A)
    BY <1>2, <2>2 DEF HasParent
  <2>4. CASE x[2] = RootInode
    BY <2>1, <2>2, <2>3, <2>4 DEF HasParent
  <2>5. CASE x[2] # RootInode
    <3>1. PICK k \in NamesIn(I, e) : Child(I, e, k) = x
      BY <2>2, <2>5 DEF HasParent
    <3>2. \E j \in NamesIn(J, e) : Child(J, e, j) = x
      BY <1>4, <2>3, <3>1
    <3> QED
      BY <2>1, <2>3, <2>5, <3>2 DEF HasParent
  <2> QED
    BY <2>4, <2>5
<1>5. ASSUME NEW x \in Dirs(J, A), NEW k \in NamesIn(J, x), Child(J, x, k) # m
      PROVE  NamedOnce(J, x, k)
  <2> DEFINE c == Child(J, x, k)
             i == old[x][k]
  <2>1. x \in Dirs(I, A) /\ i \in NamesIn(I, x) /\ c = Child(I, x, i)
    BY <1>5
  <2>2. c \in A
    BY <2>1, NamesFacts DEF Closed, Dirs
  <2>3. SUFFICES ASSUME J[c].kind = "dir"
                 PROVE  /\ c[2] # RootInode /\ Dotted(J, c) /\ Child(J, c, 2) = x
                        /\ \A j \in NamesIn(J, x) : Child(J, x, j) = c => j = k
    BY DEF NamedOnce
  <2>4. I[c].kind = "dir" /\ c \in Dirs(J, A)
    BY <1>5, <2>2, <2>3 DEF Dirs
  <2>5. NamedOnce(I, x, i)
    BY <1>5, <2>1 DEF ShapeBut
  <2>6. /\ c[2] # RootInode /\ Dotted(I, c) /\ Child(I, c, 2) = x
        /\ \A j \in NamesIn(I, x) : Child(I, x, j) = c => j = i
    BY <2>1, <2>4, <2>5 DEF NamedOnce
  <2>7. ASSUME NEW j \in NamesIn(J, x), Child(J, x, j) = c PROVE j = k
    <3>1. old[x][j] \in NamesIn(I, x) /\ Child(I, x, old[x][j]) = c
      BY <1>5, <2>7
    <3>2. old[x][j] = i
      BY <2>6, <3>1
    <3> QED
      BY <1>5, <3>2
  <2> QED
    BY <1>5, <2>4, <2>6, <2>7
<1> QED
  BY <1>3, <1>4, <1>5 DEF ShapeBut

LEMMA AddedShape ==
  ASSUME NEW I \in Inodes, NEW J \in Inodes, NEW d \in Node, NEW n \in Node, n[1] = d[1],
         NEW name \in Name, Added(I, J, d, n, name), NEW A \in SUBSET Node,
         ShapeBut(I, A, n), Closed(I, A), \A e \in Disk : RootOf(e) \in Dirs(I, A),
         d \in Dirs(I, A), n \in A, d # n \/ Dotted(I, d)
  PROVE  /\ ShapeBut(J, A, n)
         /\ \A x \in Node : Dotted(J, x) <=> Dotted(I, x)
         /\ \A x \in Node : x # d => NamesIn(J, x) = NamesIn(I, x)
         /\ NamesIn(J, d) = NamesIn(I, d) \cup {Len(I[d].ent) + 1}
         /\ \A x \in Node : \A k \in DOMAIN I[x].ent : Child(J, x, k) = Child(I, x, k)
<1> DEFINE L == Len(I[d].ent)
           old == [x \in Node |-> [k \in Nat |-> k]]
<1>1. /\ \A x \in Node : x # d => J[x].ent = I[x].ent
      /\ Len(J[d].ent) = L + 1
      /\ DOMAIN J[d].ent = 1 .. L + 1
      /\ \A k \in 1 .. L : J[d].ent[k] = I[d].ent[k]
      /\ J[d].ent[L + 1] = [name |-> name, ino |-> n[2]]
      /\ Child(J, d, L + 1) = n
  BY AddedEntries
<1>2. DOMAIN I[d].ent = 1 .. L /\ L \in Nat /\ (I[d].ent = << >> <=> L = 0) /\ (J[d].ent # << >>)
  <2>1. L + 1 # 0
    BY InodeFacts
  <2> QED
    BY <1>1, <2>1, InodeFacts
<1> HIDE DEF L
<1>3. \A x \in Node : J[x].kind = I[x].kind
  BY DEF Added, Rest
<1>4. Dirs(J, A) = Dirs(I, A)
  BY <1>3 DEF Dirs
<1>5. \A x \in Node : \A k \in DOMAIN I[x].ent :
        k \in DOMAIN J[x].ent /\ J[x].ent[k] = I[x].ent[k] /\ Child(J, x, k) = Child(I, x, k)
  <2> TAKE x \in Node
  <2> TAKE k \in DOMAIN I[x].ent
  <2>1. CASE x # d
    BY <1>1, <2>1 DEF Child
  <2>2. CASE x = d
    <3>1. k \in 1 .. L /\ k \in 1 .. L + 1
      BY <1>2, <2>2
    <3> QED
      BY <1>1, <2>2, <3>1 DEF Child
  <2> QED
    BY <2>1, <2>2
<1>6. \A x \in Node : Dotted(J, x) <=> Dotted(I, x)
  <2> TAKE x \in Node
  <2>1. CASE x # d
    BY <1>1, <2>1 DEF Dotted
  <2>2. CASE x = d /\ L # 0
    BY <1>1, <1>2, <2>2 DEF Dotted
  <2>3. CASE x = d /\ L = 0
    <3>1. ~ Dotted(I, d)
      BY <1>2, <2>3 DEF Dotted
    <3>2. n[2] # d[2]
      BY <3>1, NodeFacts
    <3> QED
      BY <1>1, <2>3, <3>1, <3>2 DEF Dotted
  <2> QED
    BY <2>1, <2>2, <2>3
<1>7. ASSUME NEW x \in Dirs(I, A), Dotted(I, x) PROVE Begins(I, x) /\ Begins(J, x) /\ Child(J, x, 2) = Child(I, x, 2)
  <2>1. Begins(I, x) /\ x \in Node
    BY <1>7 DEF ShapeBut, Dirs
  <2>2. {1, 2} \subseteq DOMAIN I[x].ent
    BY <2>1, NamesFacts
  <2>3. Len(J[x].ent) >= 2
    BY <1>1, <1>2, <2>1 DEF Begins
  <2> QED
    BY <1>5, <2>1, <2>2, <2>3 DEF Begins
<1>8. \A x \in Node : x # d => NamesIn(J, x) = NamesIn(I, x)
  BY <1>1, <1>6 DEF NamesIn
<1>9. NamesIn(J, d) = NamesIn(I, d) \cup {L + 1}
  <2>1. Dotted(I, d) => L + 1 > 2
    BY <1>2, <1>7 DEF Begins, L
  <2> QED
    BY <1>1, <1>2, <1>6, <2>1 DEF NamesIn
<1>10. ASSUME NEW x \in Dirs(J, A), NEW k \in NamesIn(J, x), Child(J, x, k) # n
       PROVE  /\ x \in Dirs(I, A) /\ old[x][k] = k /\ k \in NamesIn(I, x) /\ Child(J, x, k) = Child(I, x, k)
              /\ \A j \in NamesIn(J, x) : old[x][j] = old[x][k] => j = k
  <2>1. x \in Node /\ x \in Dirs(I, A)
    BY <1>4 DEF Dirs
  <2>2. k \in NamesIn(I, x)
    BY <1>1, <1>8, <1>9, <1>10, <2>1
  <2>3. \A j \in NamesIn(J, x) : j \in Nat
    BY <2>1, NamesFacts
  <2> QED
    BY <1>5, <2>1, <2>2, <2>3, NamesFacts
<1>11. ASSUME NEW x \in Dirs(I, A), NEW k \in NamesIn(I, x)
       PROVE  k \in NamesIn(J, x) /\ Child(J, x, k) = Child(I, x, k)
  BY <1>5, <1>8, <1>9, NamesFacts DEF Dirs
<1> HIDE DEF old
<1>12. ShapeBut(J, A, n)
  <2>1. \A x \in A : x # n => J[x].kind = I[x].kind
    BY <1>3
  <2>2. \A x \in Dirs(J, A) : /\ x # n => (Dotted(J, x) <=> Dotted(I, x))
                              /\ Dotted(J, x) => Begins(J, x)
                              /\ x # n /\ Dotted(J, x) => Child(J, x, 2) = Child(I, x, 2)
    BY <1>4, <1>6, <1>7 DEF Dirs
  <2>3. \A x \in Dirs(J, A) : \A k \in NamesIn(J, x) : Child(J, x, k) # n =>
             /\ x \in Dirs(I, A) /\ old[x][k] \in NamesIn(I, x)
             /\ Child(J, x, k) = Child(I, x, old[x][k])
             /\ \A j \in NamesIn(J, x) : old[x][j] = old[x][k] => j = k
    BY <1>10
  <2>4. \A x \in Dirs(I, A) : \A k \in NamesIn(I, x) : Child(I, x, k) # n =>
             \E j \in NamesIn(J, x) : Child(J, x, j) = Child(I, x, k)
    BY <1>11
  <2> QED
    BY <1>4, <2>1, <2>2, <2>3, <2>4, ShapeKept
<1> QED
  BY <1>5, <1>6, <1>8, <1>9, <1>12 DEF L


(* The names of n.                                                         *)
Sites(I, A, n) == {q \in A \X Nat : q[2] \in NamesIn(I, q[1]) /\ Child(I, q[1], q[2]) = n}

LEMMA RemovedShape ==
  ASSUME NEW I \in Inodes, NEW J \in Inodes, NEW d \in Node, NEW p \in NamesIn(I, d),
         Removed(I, J, d, p), NEW A \in SUBSET Node,
         ShapeBut(I, A, Child(I, d, p)), Closed(I, A), \A e \in Disk : RootOf(e) \in Dirs(I, A),
         d \in Dirs(I, A), d # Child(I, d, p) \/ Dotted(I, d)
  PROVE  /\ ShapeBut(J, A, Child(I, d, p))
         /\ \A x \in Node : Dotted(J, x) <=> Dotted(I, x)
         /\ \A x \in Node : x # d => NamesIn(J, x) = NamesIn(I, x)
         /\ Len(I[d].ent) \in Nat /\ NamesIn(J, d) = NamesIn(I, d) \ {Len(I[d].ent)}
         /\ \A x \in Node, k \in {1, 2} : k \in DOMAIN I[x].ent /\ Dotted(I, x) =>
              k \in DOMAIN J[x].ent /\ J[x].ent[k] = I[x].ent[k]
<1> DEFINE L == Len(I[d].ent)
           n == Child(I, d, p)
           old == [x \in Node |-> [k \in Nat |-> IF x = d /\ k = p THEN L ELSE k]]
<1>1. p \in DOMAIN I[d].ent /\ DOMAIN I[d].ent \subseteq Nat
  BY NamesFacts
<1>2. /\ \A x \in Node : x # d => J[x].ent = I[x].ent
      /\ L \in Nat /\ L # 0 /\ p \in 1 .. L
      /\ Len(J[d].ent) = L - 1
      /\ DOMAIN J[d].ent = 1 .. L - 1
      /\ \A k \in 1 .. L - 1 : /\ J[d].ent[k] = I[d].ent[IF k = p THEN L ELSE k]
                               /\ Child(J, d, k) = Child(I, d, IF k = p THEN L ELSE k)
  <2>1. /\ \A x \in Node : x # d => J[x].ent = I[x].ent
        /\ L \in Nat /\ L # 0 /\ p \in 1 .. L
        /\ DOMAIN J[d].ent = 1 .. L - 1
        /\ \A k \in 1 .. L - 1 :
             /\ J[d].ent[k] = I[d].ent[IF k = p THEN L ELSE k]
             /\ Child(J, d, k) = Child(I, d, IF k = p THEN L ELSE k)
    BY <1>1, RemovedEntries
  <2>2. Len(J[d].ent) = L - 1
    BY <1>1, RemovedEntries
  <2> HIDE DEF L, old, n
  <2> QED
    BY <2>1, <2>2
<1>3. DOMAIN I[d].ent = 1 .. L
  BY InodeFacts
<1>4. J[d].ent = << >> <=> L - 1 = 0
  BY <1>2, InodeFacts
<1>5. Dotted(I, d) => p > 2
  BY DEF NamesIn
<1> HIDE DEF L
<1>6. \A x \in Node : J[x].kind = I[x].kind
  BY DEF Removed, Rest
<1>7. Dirs(J, A) = Dirs(I, A)
  BY <1>6 DEF Dirs
<1>8. \A k \in {1, 2} : k \in DOMAIN I[d].ent /\ Dotted(I, d) => k \in DOMAIN J[d].ent /\ J[d].ent[k] = I[d].ent[k]
  BY <1>2, <1>3, <1>5
<1>9. Dotted(J, d) <=> Dotted(I, d)
  <2>1. CASE Dotted(I, d)
    <3>1. 1 \in DOMAIN I[d].ent
      BY <2>1, NamesFacts
    <3> QED
      BY <1>2, <1>4, <1>8, <2>1, <3>1 DEF Dotted
  <2>2. CASE ~ Dotted(I, d)
    <3> SUFFICES ASSUME Dotted(J, d) PROVE FALSE
      BY <2>2
    <3>1. 1 \in DOMAIN J[d].ent /\ Child(J, d, 1) = d
      BY NamesFacts
    <3>2. PICK j \in 1 .. L : Child(I, d, j) = d /\ (j = 1 \/ j = L)
      BY <1>2, <3>1
    <3>3. j \in NamesIn(I, d)
      BY <1>3, <2>2 DEF NamesIn
    <3>4. NamedOnce(I, d, j)
      BY <2>2, <3>2, <3>3 DEF ShapeBut
    <3> QED
      BY <2>2, <3>2, <3>4 DEF NamedOnce, Dirs
  <2> QED
    BY <2>1, <2>2
<1>10. \A x \in Node : Dotted(J, x) <=> Dotted(I, x)
  BY <1>2, <1>9 DEF Dotted
<1>11. \A x \in Node, k \in {1, 2} : k \in DOMAIN I[x].ent /\ Dotted(I, x) =>
              k \in DOMAIN J[x].ent /\ J[x].ent[k] = I[x].ent[k]
  BY <1>2, <1>8
<1>12. \A x \in Node : x # d => NamesIn(J, x) = NamesIn(I, x)
  BY <1>2, <1>10 DEF NamesIn
<1>13. NamesIn(J, d) = NamesIn(I, d) \ {L}
  BY <1>2, <1>3, <1>9 DEF NamesIn
<1>14. L \in NamesIn(I, d)
  BY <1>2, <1>3, <1>5 DEF NamesIn
<1>15. ASSUME NEW x \in Dirs(I, A), Dotted(I, x) PROVE Begins(J, x) /\ Child(J, x, 2) = Child(I, x, 2)
  <2>1. Begins(I, x) /\ x \in Node
    BY <1>15 DEF ShapeBut, Dirs
  <2>2. {1, 2} \subseteq DOMAIN I[x].ent
    BY <2>1, NamesFacts
  <2>3. \A k \in {1, 2} : k \in DOMAIN J[x].ent /\ J[x].ent[k] = I[x].ent[k]
    BY <1>11, <1>15, <2>1, <2>2
  <2>4. Len(J[x].ent) >= 2
    BY <2>1, <2>3, InodeFacts
  <2> QED
    BY <2>1, <2>3, <2>4 DEF Begins, Child
<1>16. ASSUME NEW x \in Dirs(J, A), NEW k \in NamesIn(J, x), Child(J, x, k) # n
       PROVE  /\ x \in Dirs(I, A) /\ old[x][k] \in NamesIn(I, x) /\ Child(J, x, k) = Child(I, x, old[x][k])
              /\ \A j \in NamesIn(J, x) : old[x][j] = old[x][k] => j = k
  <2>1. x \in Node /\ x \in Dirs(I, A)
    BY <1>7 DEF Dirs
  <2>2. \A j \in NamesIn(J, x) : j \in Nat
    BY <2>1, NamesFacts
  <2>3. CASE x # d
    <3>1. \A j \in NamesIn(J, x) : old[x][j] = j
      BY <2>1, <2>2, <2>3
    <3>2. Child(J, x, k) = Child(I, x, k)
      BY <1>2, <2>1, <2>3 DEF Child
    <3> QED
      BY <1>12, <2>1, <2>3, <3>1, <3>2
  <2>4. CASE x = d
    <3>1. \A j \in NamesIn(J, d) : old[d][j] = IF j = p THEN L ELSE j
      BY <2>2, <2>4
    <3>2. \A j \in NamesIn(J, d) : j \in 1 .. L - 1 /\ j \in NamesIn(I, d) /\ j # L
      BY <1>2, <1>13 DEF NamesIn
    <3>3. k \in NamesIn(J, d)
      BY <2>4
    <3> HIDE DEF old
    <3> QED
      BY <1>2, <1>14, <2>1, <2>4, <3>1, <3>2, <3>3
  <2> QED
    BY <2>3, <2>4
<1>17. ASSUME NEW x \in Dirs(I, A), NEW k \in NamesIn(I, x), Child(I, x, k) # n
       PROVE  \E j \in NamesIn(J, x) : Child(J, x, j) = Child(I, x, k)
  <2>1. x \in Node
    BY DEF Dirs
  <2>2. CASE x # d
    <3>1. Child(J, x, k) = Child(I, x, k)
      BY <1>2, <2>1, <2>2 DEF Child
    <3> QED
      BY <1>12, <2>1, <2>2, <3>1
  <2>3. CASE x = d /\ k # L
    <3>1. k \in NamesIn(J, d) /\ k # p
      BY <1>13, <1>17, <2>3
    <3>2. k \in 1 .. L - 1
      BY <1>2, <3>1 DEF NamesIn
    <3> QED
      BY <1>2, <2>3, <3>1, <3>2
  <2>4. CASE x = d /\ k = L
    <3>1. p # L /\ p \in NamesIn(J, d)
      BY <1>13, <1>17, <2>4
    <3>2. p \in 1 .. L - 1
      BY <1>2, <3>1 DEF NamesIn
    <3> QED
      BY <1>2, <2>4, <3>1, <3>2
  <2> QED
    BY <2>2, <2>3, <2>4
<1> HIDE DEF old
<1>18. ShapeBut(J, A, n)
  <2>1. \A x \in A : x # n => J[x].kind = I[x].kind
    BY <1>6
  <2>2. \A x \in Dirs(J, A) : /\ x # n => (Dotted(J, x) <=> Dotted(I, x))
                              /\ Dotted(J, x) => Begins(J, x)
                              /\ x # n /\ Dotted(J, x) => Child(J, x, 2) = Child(I, x, 2)
    BY <1>7, <1>10, <1>15 DEF Dirs
  <2>3. \A x \in Dirs(J, A) : \A k \in NamesIn(J, x) : Child(J, x, k) # n =>
             /\ x \in Dirs(I, A) /\ old[x][k] \in NamesIn(I, x)
             /\ Child(J, x, k) = Child(I, x, old[x][k])
             /\ \A j \in NamesIn(J, x) : old[x][j] = old[x][k] => j = k
    BY <1>16
  <2>4. \A x \in Dirs(I, A) : \A k \in NamesIn(I, x) : Child(I, x, k) # n =>
             \E j \in NamesIn(J, x) : Child(J, x, j) = Child(I, x, k)
    BY <1>17
  <2> HIDE DEF n
  <2>5. ShapeBut(I, A, n)
    BY DEF n
  <2> QED
    BY <1>7, <2>1, <2>2, <2>3, <2>4, <2>5, ShapeKept
<1> QED
  BY <1>2, <1>10, <1>11, <1>12, <1>13, <1>18 DEF L

LEMMA ReplacedShape ==
  ASSUME NEW I \in Inodes, NEW J \in Inodes, NEW n \in Node, NEW t \in Node, t[1] = n[1],
         Replaced(I, J, n, 2, t[2]), NEW A \in SUBSET Node,
         ShapeBut(I, A, n), Closed(I, A), \A e \in Disk : RootOf(e) \in Dirs(I, A),
         n \in Dirs(I, A), Dotted(I, n)
  PROVE  /\ ShapeBut(J, A, n) /\ Child(J, n, 2) = t
         /\ \A x \in Node : (Dotted(J, x) <=> Dotted(I, x)) /\ NamesIn(J, x) = NamesIn(I, x)
         /\ \A x \in Node : \A k \in NamesIn(I, x) : J[x].ent[k] = I[x].ent[k]
<1> DEFINE old == [x \in Node |-> [k \in Nat |-> k]]
<1>1. {1, 2} \subseteq DOMAIN I[n].ent /\ Begins(I, n)
  <2>1. Begins(I, n)
    BY DEF ShapeBut
  <2> QED
    BY <2>1, NamesFacts
<1>2. /\ \A x \in Node : x # n => J[x].ent = I[x].ent
      /\ Len(J[n].ent) = Len(I[n].ent) /\ DOMAIN J[n].ent = DOMAIN I[n].ent
      /\ \A k \in DOMAIN I[n].ent :
           /\ J[n].ent[k].name = I[n].ent[k].name
           /\ k # 2 => J[n].ent[k] = I[n].ent[k]
      /\ Child(J, n, 2) = t
  BY <1>1, ReplacedEntries
<1>3. Dirs(J, A) = Dirs(I, A) /\ \A x \in Node : J[x].kind = I[x].kind
  BY DEF Dirs, Replaced, Rest
<1>4. \A x \in Node : x # n => (Dotted(J, x) <=> Dotted(I, x)) /\ NamesIn(J, x) = NamesIn(I, x)
  BY <1>2 DEF Dotted, NamesIn
<1>5. Dotted(J, n)
  <2>1. J[n].ent # << >>
    BY <1>1, <1>2, InodeFacts
  <2>2. J[n].ent[1] = I[n].ent[1]
    BY <1>1, <1>2
  <2> QED
    BY <2>1, <2>2 DEF Dotted
<1>6. NamesIn(J, n) = NamesIn(I, n) /\ \A k \in NamesIn(I, n) : k # 2 /\ k \in DOMAIN I[n].ent
  BY <1>2, <1>5 DEF NamesIn
<1>7. \A x \in Node : (Dotted(J, x) <=> Dotted(I, x)) /\ NamesIn(J, x) = NamesIn(I, x)
  BY <1>4, <1>5, <1>6
<1>8. \A x \in Node : \A k \in NamesIn(I, x) : J[x].ent[k] = I[x].ent[k]
  BY <1>2, <1>6
<1>9. \A x \in Node : \A k \in NamesIn(I, x) : Child(J, x, k) = Child(I, x, k)
  BY <1>8 DEF Child
<1>10. Begins(J, n)
  BY <1>1, <1>2 DEF Begins
<1>11. ShapeBut(J, A, n)
  <2>1. \A x \in A : x # n => J[x].kind = I[x].kind
    BY <1>3
  <2>2. \A x \in Dirs(J, A) : /\ x # n => (Dotted(J, x) <=> Dotted(I, x))
                              /\ Dotted(J, x) => Begins(J, x)
                              /\ x # n /\ Dotted(J, x) => Child(J, x, 2) = Child(I, x, 2)
    <3> TAKE x \in Dirs(J, A)
    <3>1. x \in Node /\ x \in Dirs(I, A)
      BY <1>3 DEF Dirs
    <3>2. CASE x = n
      BY <1>10, <3>2
    <3>3. CASE x # n
      BY <1>2, <1>4, <3>1, <3>3 DEF ShapeBut, Begins, Child
    <3> QED
      BY <3>2, <3>3
  <2>3. \A x \in Dirs(J, A) : \A k \in NamesIn(J, x) : Child(J, x, k) # n =>
             /\ x \in Dirs(I, A) /\ old[x][k] \in NamesIn(I, x)
             /\ Child(J, x, k) = Child(I, x, old[x][k])
             /\ \A j \in NamesIn(J, x) : old[x][j] = old[x][k] => j = k
    <3> TAKE x \in Dirs(J, A)
    <3>1. x \in Node /\ x \in Dirs(I, A)
      BY <1>3 DEF Dirs
    <3>2. \A j \in NamesIn(J, x) : j \in Nat /\ old[x][j] = j
      BY <3>1, NamesFacts
    <3> QED
      BY <1>7, <1>9, <3>1, <3>2
  <2>4. \A x \in Dirs(I, A) : \A k \in NamesIn(I, x) : Child(I, x, k) # n =>
             \E j \in NamesIn(J, x) : Child(J, x, j) = Child(I, x, k)
    BY <1>7, <1>9 DEF Dirs
  <2> HIDE DEF old
  <2> QED
    BY <1>3, <2>1, <2>2, <2>3, <2>4, ShapeKept
<1> QED
  BY <1>2, <1>7, <1>8, <1>11

(* Without a change of entries.                                            *)
LEMMA RelinkedShape ==
  ASSUME NEW I \in Inodes, NEW J \in Inodes, NEW n \in Node, NEW v, Relinked(I, J, n, v),
         NEW A \in SUBSET Node
  PROVE  /\ \A x \in Node : J[x].ent = I[x].ent /\ (Dotted(J, x) <=> Dotted(I, x)) /\ NamesIn(J, x) = NamesIn(I, x)
         /\ Dirs(J, A) = Dirs(I, A)
         /\ Closed(I, A) => Closed(J, A)
         /\ Closed(I, A) /\ (\A e \in Disk : RootOf(e) \in Dirs(I, A)) =>
              \A m : ShapeBut(I, A, m) => ShapeBut(J, A, m)
<1> DEFINE old == [x \in Node |-> [k \in Nat |-> k]]
<1>1. \A x \in Node : J[x].ent = I[x].ent /\ J[x].kind = I[x].kind
  BY DEF Relinked, Rest
<1>2. \A x \in Node : (Dotted(J, x) <=> Dotted(I, x)) /\ NamesIn(J, x) = NamesIn(I, x)
  BY <1>1 DEF Dotted, NamesIn
<1>3. Dirs(J, A) = Dirs(I, A)
  BY <1>1 DEF Dirs
<1>4. \A x \in Node : \A k : Child(J, x, k) = Child(I, x, k)
  BY <1>1 DEF Child
<1>5. Closed(I, A) => Closed(J, A)
  BY <1>1, <1>4 DEF Closed
<1>6. ASSUME Closed(I, A), \A e \in Disk : RootOf(e) \in Dirs(I, A), NEW m, ShapeBut(I, A, m)
      PROVE  ShapeBut(J, A, m)
  <2>1. \A x \in A : x # m => J[x].kind = I[x].kind
    BY <1>1
  <2>2. \A x \in Dirs(J, A) : /\ x # m => (Dotted(J, x) <=> Dotted(I, x))
                              /\ Dotted(J, x) => Begins(J, x)
                              /\ x # m /\ Dotted(J, x) => Child(J, x, 2) = Child(I, x, 2)
    BY <1>1, <1>2, <1>3, <1>4, <1>6 DEF Begins, ShapeBut, Dirs
  <2>3. \A x \in Dirs(J, A) : \A k \in NamesIn(J, x) : Child(J, x, k) # m =>
             /\ x \in Dirs(I, A) /\ old[x][k] \in NamesIn(I, x)
             /\ Child(J, x, k) = Child(I, x, old[x][k])
             /\ \A j \in NamesIn(J, x) : old[x][j] = old[x][k] => j = k
    <3> TAKE x \in Dirs(J, A)
    <3>1. x \in Node /\ x \in Dirs(I, A)
      BY <1>3 DEF Dirs
    <3>2. \A j \in NamesIn(J, x) : j \in Nat /\ old[x][j] = j
      BY <3>1, NamesFacts
    <3> QED
      BY <1>2, <1>4, <3>1, <3>2
  <2>4. \A x \in Dirs(I, A) : \A k \in NamesIn(I, x) : Child(I, x, k) # m =>
             \E j \in NamesIn(J, x) : Child(J, x, j) = Child(I, x, k)
    BY <1>2, <1>4 DEF Dirs
  <2> HIDE DEF old
  <2>5. m \in Dirs(I, A) => m \in Dirs(J, A)
    BY <1>3
  <2> QED
    BY <1>6, <2>1, <2>2, <2>3, <2>4, <2>5, ShapeKept
<1> QED
  BY <1>1, <1>2, <1>3, <1>5, <1>6

LEMMA EmptiedShape ==
  ASSUME NEW I \in Inodes, NEW J \in Inodes, NEW n \in Node, Emptied(I, J, n), NEW A \in SUBSET Node,
         ShapeBut(I, A, n), Closed(I, A), \A e \in Disk : RootOf(e) \in Dirs(I, A),
         DOMAIN I[n].ent = {1, 2}, Dotted(I, n), n \in A
  PROVE  ShapeBut(J, A, n)
<1> DEFINE old == [x \in Node |-> [k \in Nat |-> k]]
<1>1. \A x \in Node : J[x].kind = I[x].kind /\ (x # n => J[x].ent = I[x].ent)
  BY DEF Emptied, Rest
<1>2. J[n].ent = << >>
  BY DEF Emptied
<1>3. \A x \in Node : x # n => (Dotted(J, x) <=> Dotted(I, x)) /\ NamesIn(J, x) = NamesIn(I, x)
  BY <1>1 DEF Dotted, NamesIn
<1>4. ~ Dotted(J, n) /\ NamesIn(J, n) = {} /\ NamesIn(I, n) = {}
  BY <1>2 DEF Dotted, NamesIn
<1>5. Dirs(J, A) = Dirs(I, A)
  BY <1>1 DEF Dirs
<1>6. \A x \in Node : x # n => \A k : Child(J, x, k) = Child(I, x, k)
  BY <1>1 DEF Child
<1> QED
  <2>1. \A x \in A : x # n => J[x].kind = I[x].kind
    BY <1>1
  <2>2. \A x \in Dirs(J, A) : /\ x # n => (Dotted(J, x) <=> Dotted(I, x))
                              /\ Dotted(J, x) => Begins(J, x)
                              /\ x # n /\ Dotted(J, x) => Child(J, x, 2) = Child(I, x, 2)
    BY <1>1, <1>3, <1>4, <1>5, <1>6 DEF Begins, ShapeBut, Dirs
  <2>3. \A x \in Dirs(J, A) : \A k \in NamesIn(J, x) : Child(J, x, k) # n =>
             /\ x \in Dirs(I, A) /\ old[x][k] \in NamesIn(I, x)
             /\ Child(J, x, k) = Child(I, x, old[x][k])
             /\ \A j \in NamesIn(J, x) : old[x][j] = old[x][k] => j = k
    <3> TAKE x \in Dirs(J, A)
    <3>1. x \in Node /\ x \in Dirs(I, A)
      BY <1>5 DEF Dirs
    <3>2. \A j \in NamesIn(J, x) : j \in Nat /\ old[x][j] = j
      BY <3>1, NamesFacts
    <3> QED
      BY <1>3, <1>4, <1>6, <3>1, <3>2
  <2>4. \A x \in Dirs(I, A) : \A k \in NamesIn(I, x) : Child(I, x, k) # n =>
             \E j \in NamesIn(J, x) : Child(J, x, j) = Child(I, x, k)
    BY <1>3, <1>4, <1>6 DEF Dirs
  <2> HIDE DEF old
  <2> QED
    BY <1>5, <2>1, <2>2, <2>3, <2>4, ShapeKept

(* A node but the root of a disk may be left out of the shape.             *)
LEMMA ShapeWeaker ==
  ASSUME NEW I \in Inodes, NEW A \in SUBSET Node, Shape(I, A), Closed(I, A),
         NEW n \in Node, \A e \in Disk : RootOf(e) # n
  PROVE  ShapeBut(I, A, n)
<1>1. \A x \in Dirs(I, A) : x # << >>
  BY NodesNotEmpty DEF Dirs
<1>2. \A d \in Dirs(I, A) : \A k \in NamesIn(I, d) : Child(I, d, k) # << >>
  BY NodesNotEmpty DEF Dirs, Closed, NamesIn
<1> QED
  BY <1>1, <1>2 DEF Shape, ShapeBut

LEMMA MadeClosed ==
  ASSUME NEW I \in Inodes, NEW J \in Inodes, NEW n \in Node, NEW d \in Node, n[1] = d[1],
         NEW r \in Record, Made(I, J, n, d, r), Good(I),
         NEW A \in SUBSET Node, n \in A, d \in A, Closed(I, A)
  PROVE  Closed(J, A) /\ Closed(J, A \ {n})
<1> DEFINE B == A \ {n}
<1>1. /\ \A x \in Node : x # n => J[x] = I[x]
      /\ J[n] = r /\ I[n].kind = "free"
      /\ \/ r.kind = "file" /\ r.ent = << >>
         \/ r.kind = "dir" /\ r.ent = Dotting(n, d)
  BY DEF Made, Good
<1>4. /\ DOMAIN Dotting(n, d) = {1, 2} /\ Len(Dotting(n, d)) = 2 /\ Dotting(n, d) # << >>
      /\ Dotting(n, d)[1] = [name |-> ".", ino |-> n[2]]
      /\ Dotting(n, d)[2] = [name |-> "..", ino |-> d[2]]
  BY DottingFacts
<1>8. \A x \in Node : x # n => \A k : Child(J, x, k) = Child(I, x, k)
  BY <1>1 DEF Child
<1>9. \A x \in Node : x # n => \A k \in DOMAIN I[x].ent : Child(I, x, k) # n
  BY <1>1 DEF Good
<1>11. Closed(J, A)
  <2>1. ASSUME NEW x \in A, NEW k \in DOMAIN J[x].ent PROVE Child(J, x, k) \in A
    <3>1. CASE x # n
      BY <1>1, <1>8, <2>1, <3>1 DEF Closed
    <3>2. CASE x = n
      <4>1. r.ent = Dotting(n, d) /\ k \in {1, 2}
        BY <1>1, <1>4, <2>1, <3>2
      <4>2. n = <<n[1], n[2]>> /\ d = <<d[1], d[2]>> /\ n[1] = d[1]
        BY NodeFacts
      <4>3. Child(J, n, 1) = n /\ Child(J, n, 2) = d
        BY <1>1, <1>4, <4>1, <4>2 DEF Child
      <4> QED
        BY <3>2, <4>1, <4>3
    <3> QED
      BY <3>1, <3>2
  <2> QED
    BY <2>1 DEF Closed
<1>12. Closed(J, B)
  <2>1. ASSUME NEW x \in B, NEW k \in DOMAIN J[x].ent PROVE Child(J, x, k) \in B
    <3>1. x # n /\ x \in Node /\ x \in A
      OBVIOUS
    <3>2. Child(J, x, k) # n
      BY <1>1, <1>8, <1>9, <2>1, <3>1
    <3> QED
      BY <1>11, <2>1, <3>1, <3>2 DEF Closed
  <2> QED
    BY <2>1 DEF Closed
<1> QED
  BY <1>11, <1>12

LEMMA MadeShape ==
  ASSUME NEW I \in Inodes, NEW J \in Inodes, NEW n \in Node, NEW d \in Node, n[1] = d[1],
         NEW r \in Record, Made(I, J, n, d, r), Good(I),
         NEW A \in SUBSET Node, n \in A, d \in A, Shape(I, A), Closed(I, A),
         \A e \in Disk : RootOf(e) \in Dirs(I, A)
  PROVE  /\ ShapeBut(J, A, n) /\ Shape(J, A \ {n}) /\ Closed(J, A) /\ Closed(J, A \ {n})
         /\ \A x \in Node : x # n => J[x] = I[x] /\ (Dotted(J, x) <=> Dotted(I, x)) /\ NamesIn(J, x) = NamesIn(I, x)
         /\ NamesIn(J, n) = {} /\ Sites(J, A, n) = {}
         /\ r.kind = "dir" => Dotted(J, n) /\ Child(J, n, 2) = d
<1> DEFINE old == [x \in Node |-> [k \in Nat |-> k]]
           B == A \ {n}
<1>1. /\ \A x \in Node : x # n => J[x] = I[x]
      /\ J[n] = r /\ I[n].kind = "free" /\ I[n].ent = << >>
      /\ \/ r.kind = "file" /\ r.ent = << >>
         \/ r.kind = "dir" /\ r.ent = Dotting(n, d)
  BY DEF Made, Good
<1>2. n \notin Dirs(I, A) /\ \A e \in Disk : RootOf(e) # n
  BY <1>1 DEF Dirs
<1>3. ShapeBut(I, A, n)
  BY <1>2, ShapeWeaker
<1>4. /\ DOMAIN Dotting(n, d) = {1, 2} /\ Len(Dotting(n, d)) = 2 /\ Dotting(n, d) # << >>
      /\ Dotting(n, d)[1] = [name |-> ".", ino |-> n[2]]
      /\ Dotting(n, d)[2] = [name |-> "..", ino |-> d[2]]
  BY DottingFacts
<1>5. r.kind = "dir" => Dotted(J, n) /\ Begins(J, n) /\ Child(J, n, 2) = d
  <2>1. n[1] = d[1] /\ d = <<d[1], d[2]>>
    BY NodeFacts
  <2> QED
    BY <1>1, <1>4, <2>1 DEF Dotted, Begins, Child
<1>6. NamesIn(J, n) = {}
  BY <1>1, <1>4, <1>5 DEF NamesIn
<1>7. \A x \in Node : x # n => (Dotted(J, x) <=> Dotted(I, x)) /\ NamesIn(J, x) = NamesIn(I, x)
  BY <1>1 DEF Dotted, NamesIn
<1>8. \A x \in Node : x # n => \A k : Child(J, x, k) = Child(I, x, k)
  BY <1>1 DEF Child
<1>9. \A x \in Node : x # n => \A k \in DOMAIN I[x].ent : Child(I, x, k) # n
  BY <1>1 DEF Good
<1>10. Sites(J, A, n) = {}
  BY <1>1, <1>6, <1>8, <1>9 DEF Sites, NamesIn
<1>11. Closed(J, A) /\ Closed(J, B)
  BY MadeClosed
<1>13. \A x \in A : x # n => (x \in Dirs(J, A) <=> x \in Dirs(I, A))
  BY <1>1 DEF Dirs
<1>14. ShapeBut(J, A, n)
  <2>1. \A x \in A : x # n => J[x].kind = I[x].kind
    BY <1>1
  <2>2. \A x \in Dirs(J, A) : /\ x # n => (Dotted(J, x) <=> Dotted(I, x))
                              /\ Dotted(J, x) => Begins(J, x)
                              /\ x # n /\ Dotted(J, x) => Child(J, x, 2) = Child(I, x, 2)
    <3> TAKE x \in Dirs(J, A)
    <3>1. x \in Node /\ x \in A /\ J[x].kind = "dir"
      BY DEF Dirs
    <3>2. CASE x = n
      BY <1>1, <1>5, <3>1, <3>2
    <3>3. CASE x # n
      BY <1>1, <1>3, <1>7, <1>8, <1>13, <3>1, <3>3 DEF ShapeBut, Begins
    <3> QED
      BY <3>2, <3>3
  <2>3. \A x \in Dirs(J, A) : \A k \in NamesIn(J, x) : Child(J, x, k) # n =>
             /\ x \in Dirs(I, A) /\ old[x][k] \in NamesIn(I, x)
             /\ Child(J, x, k) = Child(I, x, old[x][k])
             /\ \A j \in NamesIn(J, x) : old[x][j] = old[x][k] => j = k
    <3> TAKE x \in Dirs(J, A)
    <3>1. x \in Node /\ x \in A
      BY DEF Dirs
    <3>2. \A j \in NamesIn(J, x) : j \in Nat /\ old[x][j] = j
      BY <3>1, NamesFacts
    <3> QED
      BY <1>6, <1>7, <1>8, <1>13, <3>1, <3>2
  <2>4. \A x \in Dirs(I, A) : \A k \in NamesIn(I, x) : Child(I, x, k) # n =>
             \E j \in NamesIn(J, x) : Child(J, x, j) = Child(I, x, k)
    BY <1>2, <1>7, <1>8 DEF Dirs
  <2> HIDE DEF old
  <2> QED
    BY <1>2, <1>3, <2>1, <2>2, <2>3, <2>4, ShapeKept
<1>15. Shape(J, B)
  <2>1. \A e \in Disk : Dotted(J, RootOf(e)) /\ RootOf(e) # << >>
    BY <1>14, NodesNotEmpty DEF ShapeBut, Dirs
  <2>2. ASSUME NEW x \in Dirs(J, B), Dotted(J, x) PROVE Begins(J, x) /\ HasParent(J, B, x)
    <3>1. x \in Dirs(J, A) /\ x # n /\ x \in Node /\ Begins(J, x) /\ HasParent(J, A, x)
      BY <1>14, <2>2 DEF ShapeBut, Dirs
    <3>2. 2 \in DOMAIN J[x].ent
      BY <3>1, NamesFacts
    <3>3. Child(J, x, 2) # n
      BY <1>1, <1>8, <1>9, <3>1, <3>2
    <3> QED
      BY <3>1, <3>3 DEF HasParent, Dirs
  <2>3. ASSUME NEW x \in Dirs(J, B), NEW k \in NamesIn(J, x) PROVE NamedOnce(J, x, k)
    <3>1. x \in Dirs(J, A) /\ x # n /\ x \in Node
      BY DEF Dirs
    <3>2. Child(J, x, k) # n
      BY <1>1, <1>8, <1>9, <2>3, <3>1 DEF NamesIn
    <3> QED
      BY <1>14, <2>3, <3>1, <3>2 DEF ShapeBut
  <2> QED
    BY <2>1, <2>2, <2>3 DEF Shape, ShapeBut
<1> QED
  BY <1>1, <1>5, <1>6, <1>7, <1>10, <1>11, <1>14, <1>15

(* The names of n after a step.                                            *)
LEMMA AddedSites ==
  ASSUME NEW I \in Inodes, NEW J \in Inodes, NEW A \in SUBSET Node, NEW d \in A, NEW n \in Node,
         NEW L \in Nat,
         \A x \in Node : x # d => NamesIn(J, x) = NamesIn(I, x),
         NamesIn(J, d) = NamesIn(I, d) \cup {L},
         \A x \in Node : \A k \in NamesIn(I, x) : Child(J, x, k) = Child(I, x, k),
         Child(J, d, L) = n
  PROVE  Sites(J, A, n) = Sites(I, A, n) \cup {<<d, L>>}
<1>1. ASSUME NEW q \in A \X Nat PROVE q \in Sites(J, A, n) <=> q \in Sites(I, A, n) \cup {<<d, L>>}
  <2>1. q = <<q[1], q[2]>> /\ q[1] \in A /\ q[2] \in Nat /\ q[1] \in Node
    OBVIOUS
  <2>2. CASE q[1] # d
    BY <2>1, <2>2 DEF Sites
  <2>3. CASE q[1] = d /\ q[2] = L
    BY <2>1, <2>3 DEF Sites
  <2>4. CASE q[1] = d /\ q[2] # L
    BY <2>1, <2>4 DEF Sites
  <2> QED
    BY <2>2, <2>3, <2>4
<1>2. Sites(J, A, n) \subseteq A \X Nat /\ Sites(I, A, n) \cup {<<d, L>>} \subseteq A \X Nat
  BY DEF Sites
<1> QED
  BY <1>1, <1>2

(* One name is as good as another of the directory d, of n = Child(I,d,p). *)
LEMMA RemovedSites ==
  ASSUME NEW I \in Inodes, NEW J \in Inodes, NEW d \in Node, NEW p \in NamesIn(I, d),
         Removed(I, J, d, p), NEW A \in SUBSET Node, d \in A,
         \A x \in Node : x # d => NamesIn(J, x) = NamesIn(I, x),
         NamesIn(J, d) = NamesIn(I, d) \ {Len(I[d].ent)}
  PROVE  LET n == Child(I, d, p) IN
         /\ Sites(I, A, n) = {<<d, p>>} => Sites(J, A, n) = {}
         /\ \A t, q : Sites(I, A, n) = {<<d, p>>, <<t, q>>} /\ <<t, q>> # <<d, p>> =>
              \E j : Sites(J, A, n) = {<<t, j>>}
<1> DEFINE L == Len(I[d].ent)
           n == Child(I, d, p)
<1>1. p \in DOMAIN I[d].ent /\ DOMAIN I[d].ent = 1 .. L
  BY InodeFacts DEF NamesIn
<1>2. /\ \A x \in Node : x # d => J[x].ent = I[x].ent
      /\ L \in Nat /\ L # 0 /\ p \in 1 .. L
      /\ DOMAIN J[d].ent = 1 .. L - 1
      /\ \A k \in 1 .. L - 1 :
           /\ J[d].ent[k] = I[d].ent[IF k = p THEN L ELSE k]
           /\ Child(J, d, k) = Child(I, d, IF k = p THEN L ELSE k)
  BY <1>1, RemovedEntries
<1>3. L \in NamesIn(I, d)
  BY <1>1, <1>2 DEF NamesIn
<1>4. \A x \in Node : x # d => \A k : Child(J, x, k) = Child(I, x, k)
  BY <1>2 DEF Child
<1>5. \A k \in NamesIn(J, d) : k \in 1 .. L - 1 /\ k \in NamesIn(I, d) /\ k # L
  BY <1>2 DEF NamesIn
<1> HIDE DEF L, n
<1>6. ASSUME NEW q \in A \X Nat
      PROVE  q \in Sites(J, A, n) <=>
               \/ q \in Sites(I, A, n) /\ (q[1] # d \/ (q[2] # p /\ q[2] # L))
               \/ q = <<d, p>> /\ p # L /\ <<d, L>> \in Sites(I, A, n)
  <2>1. q = <<q[1], q[2]>> /\ q[1] \in A /\ q[2] \in Nat /\ q[1] \in Node
    OBVIOUS
  <2>2. CASE q[1] # d
    BY <1>4, <2>1, <2>2 DEF Sites
  <2>3. CASE q[1] = d /\ q[2] = p
    <3>1. p # L => p \in NamesIn(J, d) /\ Child(J, d, p) = Child(I, d, L)
      BY <1>2, <1>5 DEF L
    <3>2. p = L => p \notin NamesIn(J, d)
      BY DEF L
    <3> QED
      BY <1>2, <1>3, <2>1, <2>3, <3>1, <3>2 DEF Sites
  <2>4. CASE q[1] = d /\ q[2] # p
    <3>1. q[2] \in NamesIn(J, d) <=> q[2] \in NamesIn(I, d) /\ q[2] # L
      BY DEF L
    <3>2. q[2] \in NamesIn(J, d) => Child(J, d, q[2]) = Child(I, d, q[2])
      BY <1>2, <1>5, <2>4
    <3> QED
      BY <2>1, <2>4, <3>1, <3>2 DEF Sites
  <2> QED
    BY <2>2, <2>3, <2>4
<1>7. Sites(J, A, n) \subseteq A \X Nat /\ Sites(I, A, n) \subseteq A \X Nat
  BY DEF Sites
<1>8. ASSUME Sites(I, A, n) = {<<d, p>>} PROVE Sites(J, A, n) = {}
  <2>1. p # L => <<d, L>> \notin Sites(I, A, n)
    BY <1>8
  <2> QED
    BY <1>6, <1>7, <1>8, <2>1
<1>9. ASSUME NEW t, NEW q, Sites(I, A, n) = {<<d, p>>, <<t, q>>}, <<t, q>> # <<d, p>>
      PROVE  \E j : Sites(J, A, n) = {<<t, j>>}
  <2>1. <<t, q>> \in A \X Nat /\ <<d, p>> \in A \X Nat
    BY <1>7, <1>9
  <2>2. CASE t = d /\ q = L
    <3>1. p # L /\ <<d, L>> \in Sites(I, A, n)
      BY <1>9, <2>2
    <3>2. Sites(J, A, n) = {<<d, p>>}
      BY <1>6, <1>7, <1>9, <2>1, <2>2, <3>1
    <3> QED
      BY <2>2, <3>2
  <2>3. CASE ~ (t = d /\ q = L)
    <3>1. p # L => <<d, L>> \notin Sites(I, A, n)
      BY <1>9, <2>3
    <3>2. <<t, q>> \in Sites(J, A, n)
      BY <1>6, <1>9, <2>1, <2>3
    <3>3. \A x \in A \X Nat : x \in Sites(J, A, n) => x = <<t, q>>
      BY <1>6, <1>9, <3>1
    <3>4. Sites(J, A, n) = {<<t, q>>}
      BY <1>7, <3>2, <3>3
    <3> QED
      BY <3>4
  <2> QED
    BY <2>2, <2>3
<1> QED
  BY <1>8, <1>9 DEF n

(* The shape is whole again once the node that was left out of it has one  *)
(* name, or has none and is no directory any more, or is a file.           *)
LEMMA ShapeWhole ==
  ASSUME NEW J \in Inodes, NEW A \in SUBSET Node, NEW n \in A, ShapeBut(J, A, n),
         \A e \in Disk : RootOf(e) \in Dirs(J, A),
         \/ J[n].kind # "dir"
         \/ ~ Dotted(J, n) /\ Sites(J, A, n) = {}
         \/ \E e, j : /\ Sites(J, A, n) = {<<e, j>>} /\ e \in Dirs(J, A)
                      /\ Dotted(J, n) /\ Child(J, n, 2) = e /\ n[2] # RootInode
  PROVE  Shape(J, A)
<1>1. \A e \in Disk : Dotted(J, RootOf(e)) /\ RootOf(e) # << >>
  BY NodesNotEmpty DEF ShapeBut, Dirs
<1>2. ASSUME NEW x \in Dirs(J, A), Dotted(J, x) PROVE Begins(J, x) /\ HasParent(J, A, x)
  <2>1. CASE x # n
    BY <1>2, <2>1 DEF ShapeBut
  <2>2. CASE x = n
    <3>1. PICK e, j : /\ Sites(J, A, n) = {<<e, j>>} /\ e \in Dirs(J, A)
                      /\ Dotted(J, n) /\ Child(J, n, 2) = e /\ n[2] # RootInode
      BY <1>2, <2>2 DEF Dirs
    <3>2. <<e, j>> \in Sites(J, A, n)
      BY <3>1
    <3>3. j \in NamesIn(J, e) /\ Child(J, e, j) = n
      BY <3>2 DEF Sites
    <3>4. HasParent(J, A, n)
      BY <3>1, <3>3 DEF HasParent
    <3> QED
      BY <1>2, <2>2, <3>4 DEF ShapeBut
  <2> QED
    BY <2>1, <2>2
<1>3. ASSUME NEW d \in Dirs(J, A), NEW k \in NamesIn(J, d) PROVE NamedOnce(J, d, k)
  <2>1. CASE Child(J, d, k) # n
    BY <1>3, <2>1 DEF ShapeBut
  <2>2. CASE Child(J, d, k) = n /\ J[n].kind # "dir"
    BY <2>2 DEF NamedOnce
  <2>3. CASE Child(J, d, k) = n /\ J[n].kind = "dir"
    <3>0. d \in Node /\ d \in A
      BY DEF Dirs
    <3>1. \A j \in NamesIn(J, d) : j \in Nat
      BY <3>0, NamesFacts
    <3>2. \A j \in NamesIn(J, d) : Child(J, d, j) = n => <<d, j>> \in Sites(J, A, n)
      BY <3>0, <3>1 DEF Sites
    <3>3. Sites(J, A, n) # {}
      BY <1>3, <2>3, <3>2
    <3>4. PICK e, i : /\ Sites(J, A, n) = {<<e, i>>} /\ e \in Dirs(J, A)
                      /\ Dotted(J, n) /\ Child(J, n, 2) = e /\ n[2] # RootInode
      BY <2>3, <3>3
    <3>5. \A j \in NamesIn(J, d) : Child(J, d, j) = n => d = e /\ j = i
      BY <3>2, <3>4
    <3> QED
      BY <1>3, <2>3, <3>4, <3>5 DEF NamedOnce
  <2> QED
    BY <2>1, <2>2, <2>3
<1> QED
  BY <1>1, <1>2, <1>3 DEF Shape, ShapeBut

-----------------------------------------------------------------------------
(* Deleting                                                                *)

(* A name of a directory is the only one of it on the disk.                *)
LEMMA SingleName ==
  ASSUME NEW I \in Inodes, NEW A \in SUBSET Node, Shape(I, A), Closed(I, A), Good(I),
         NEW d \in Dirs(I, A), NEW k \in NamesIn(I, d), I[Child(I, d, k)].kind = "dir"
  PROVE  LET n == Child(I, d, k) IN
         /\ Sites(I, A, n) = {<<d, k>>}
         /\ n \in Dirs(I, A) /\ n[2] # RootInode /\ Dotted(I, n) /\ Child(I, n, 2) = d
         /\ \A e \in Disk : RootOf(e) # n
<1> DEFINE n == Child(I, d, k)
<1>1. d \in Node /\ d \in A /\ k \in DOMAIN I[d].ent /\ k \in Nat
  BY NamesFacts DEF Dirs
<1>2. n \in A /\ n \in Dirs(I, A)
  BY <1>1 DEF Closed, Dirs
<1>3. \A x \in Dirs(I, A) : \A j \in NamesIn(I, x) : Child(I, x, j) = n => NamedOnce(I, x, j)
  <2>1. n # << >>
    BY <1>2, NodesNotEmpty
  <2> QED
    BY <2>1 DEF Shape, ShapeBut
<1>4. NamedOnce(I, d, k)
  BY <1>3
<1>5. /\ n[2] # RootInode /\ Dotted(I, n) /\ Child(I, n, 2) = d
      /\ \A j \in NamesIn(I, d) : Child(I, d, j) = n => j = k
  BY <1>4 DEF NamedOnce
<1> HIDE DEF n
<1>6. ASSUME NEW x \in A, NEW j \in NamesIn(I, x), Child(I, x, j) = n PROVE x = d /\ j = k
  <2>1. x \in Dirs(I, A)
    <3>1. x \in Node /\ j \in DOMAIN I[x].ent
      BY DEF NamesIn
    <3>2. I[x].ent # << >>
      BY <3>1, GoodFacts
    <3> QED
      BY <3>1, <3>2 DEF Good, Dirs
  <2>2. NamedOnce(I, x, j) /\ I[n].kind = "dir"
    BY <1>2, <1>3, <1>6, <2>1 DEF Dirs
  <2>3. Child(I, n, 2) = x
    BY <1>6, <2>2 DEF NamedOnce
  <2> QED
    BY <1>5, <1>6, <2>3
<1>7. <<d, k>> \in Sites(I, A, n)
  BY <1>1 DEF Sites, n
<1>8. \A q \in Sites(I, A, n) : q = <<d, k>>
  <2> TAKE q \in Sites(I, A, n)
  <2>1. q = <<q[1], q[2]>> /\ q[1] \in A /\ q[2] \in NamesIn(I, q[1]) /\ Child(I, q[1], q[2]) = n
    BY DEF Sites
  <2> QED
    BY <1>6, <2>1
<1>9. \A e \in Disk : RootOf(e) # n
  BY <1>5, NodeFacts
<1> QED
  BY <1>2, <1>5, <1>7, <1>8, <1>9 DEF n

(* What a delete of the entry at p does to directories in order.           *)
Deleted(I, J, d, p) ==
  LET n == Child(I, d, p) IN
  /\ p \in NamesIn(I, d) /\ n # d /\ J[n].ent = << >>
  /\ I[n].kind = "dir" => Dotted(I, n) /\ NamesIn(I, n) = {} /\ J[n].nlink = 0
  /\ J[d].ent = CutAt(I[d].ent, p)
  /\ \A x \in Node : x \notin {d, n} => J[x].ent = I[x].ent /\ J[x].nlink = I[x].nlink
  /\ \A x \in Node : Dotted(J, x) <=> Dotted(I, x) /\ x # n

LEMMA DeletedTidy ==
  ASSUME NEW I \in Inodes, NEW J \in Inodes, NEW A \in SUBSET Node, Tidy(I, A), Rest(I, J),
         NEW d \in Dirs(I, A), NEW p, Deleted(I, J, d, p)
  PROVE  Tidy(J, A)
<1> DEFINE n == Child(I, d, p)
           L == Len(I[d].ent)
<1>1. d \in Node /\ p \in DOMAIN I[d].ent /\ p \in NamesIn(I, d)
  BY DEF Deleted, Dirs, NamesIn
<1>2. DOMAIN I[d].ent = 1 .. L /\ L \in Nat /\ I[d].ent \in Seq(Ent) /\ I[d].ent # << >>
  BY <1>1, InodeFacts
<1>3. DOMAIN CutAt(I[d].ent, p) = 1 .. L - 1
  BY <1>1, <1>2, CutFacts
<1>4. /\ n # d /\ J[n].ent = << >> /\ (I[n].kind = "dir" => J[n].nlink = 0)
      /\ J[d].ent = CutAt(I[d].ent, p)
      /\ \A x \in Node : x \notin {d, n} => J[x].ent = I[x].ent /\ J[x].nlink = I[x].nlink
      /\ \A x \in Node : Dotted(J, x) <=> Dotted(I, x) /\ x # n
  BY DEF Deleted
<1>5. Dirs(J, A) = Dirs(I, A)
  BY DEF Rest, Dirs
<1>6. Dotted(I, d) /\ \A k \in NamesIn(I, d) : I[d].ent[k].name \notin Dots
  BY <1>2 DEF Tidy
<1>7. L \in NamesIn(I, d)
  BY <1>1, <1>2 DEF NamesIn
<1>8. ASSUME NEW k \in NamesIn(J, d) PROVE J[d].ent[k].name \notin Dots
  <2>1. k \in 1 .. L - 1 /\ k > 2
    BY <1>3, <1>4, <1>6 DEF NamesIn, Dirs
  <2>2. J[d].ent[k] = IF k = p THEN I[d].ent[L] ELSE I[d].ent[k]
    BY <1>4, <2>1 DEF CutAt
  <2>3. k \in NamesIn(I, d)
    BY <1>2, <2>1 DEF NamesIn
  <2> QED
    BY <1>6, <1>7, <2>2, <2>3
<1> HIDE DEF n, L
<1>9. ASSUME NEW x \in Dirs(J, A)
      PROVE  IF Dotted(J, x) THEN \A k \in NamesIn(J, x) : J[x].ent[k].name \notin Dots
             ELSE J[x].ent = << >> /\ J[x].nlink = 0
  <2>1. x \in Node /\ x \in Dirs(I, A) /\ I[x].kind = "dir"
    BY <1>5 DEF Dirs
  <2>2. CASE x = d
    BY <1>1, <1>4, <1>6, <1>8, <2>2
  <2>3. CASE x = n
    BY <1>4, <2>1, <2>3
  <2>4. CASE x \notin {d, n}
    <3>1. J[x].ent = I[x].ent /\ J[x].nlink = I[x].nlink /\ (Dotted(J, x) <=> Dotted(I, x))
      BY <1>4, <2>1, <2>4
    <3>2. NamesIn(J, x) = NamesIn(I, x)
      BY <3>1 DEF NamesIn
    <3> QED
      BY <2>1, <3>1, <3>2 DEF Tidy
  <2> QED
    BY <2>2, <2>3, <2>4
<1> QED
  BY <1>9 DEF Tidy

(* An entry of a file is one of the names.                                 *)
LEMMA FileNames ==
  ASSUME NEW I \in Inodes, NEW A \in SUBSET Node, Shape(I, A), NEW d \in Dirs(I, A),
         NEW p \in DOMAIN I[d].ent, I[Child(I, d, p)].kind # "dir"
  PROVE  p \in NamesIn(I, d)
<1>1. d \in Node /\ I[d].kind = "dir"
  BY DEF Dirs
<1>2. ASSUME Dotted(I, d) PROVE p \notin {1, 2}
  <2>1. HasParent(I, A, d) /\ Child(I, d, 1) = d
    BY <1>1, <1>2, NodesNotEmpty, NamesFacts DEF Shape, ShapeBut
  <2>2. I[Child(I, d, 2)].kind = "dir"
    BY <2>1 DEF HasParent, Dirs
  <2> QED
    BY <1>1, <2>1, <2>2
<1> QED
  BY <1>1, <1>2, NamesFacts

LEMMA FileDeleted ==
  ASSUME NEW I \in Inodes, NEW H \in Inodes, NEW J \in Inodes, NEW A \in SUBSET Node, Sound(I, A),
         NEW d \in Dirs(I, A), NEW p \in DOMAIN I[d].ent, NEW v \in Nat,
         Relinked(I, H, Child(I, d, p), v), Removed(H, J, d, p), I[Child(I, d, p)].kind # "dir",
         v = (IF I[Child(I, d, p)].nlink = 0 THEN 0 ELSE I[Child(I, d, p)].nlink - 1)
  PROVE  /\ Sound(J, A) /\ Rest(I, J) /\ \A x \in Node : x # d => J[x].ent = I[x].ent
         /\ Ordered(I, A) => Ordered(J, A) /\ Deleted(I, J, d, p)
<1> DEFINE n == Child(I, d, p)
<1>1. d \in Node /\ d \in A /\ n \in Node /\ n \in A /\ n # d /\ Good(I) /\ Closed(I, A)
      /\ I[d].kind = "dir" /\ p \in Nat
  BY InodeFacts DEF Sound, Good, Closed, Dirs
<1>2. /\ \A x \in Node : H[x].ent = I[x].ent /\ (Dotted(H, x) <=> Dotted(I, x)) /\ NamesIn(H, x) = NamesIn(I, x)
      /\ Dirs(H, A) = Dirs(I, A)
      /\ Closed(I, A) => Closed(H, A)
      /\ Closed(I, A) /\ (\A e \in Disk : RootOf(e) \in Dirs(I, A)) =>
           \A m : ShapeBut(I, A, m) => ShapeBut(H, A, m)
  BY <1>1, RelinkedShape
<1>3. Good(H)
  BY <1>1, RelinkedGood
<1>4. Child(H, d, p) = n /\ p \in DOMAIN H[d].ent /\ H[n].kind = I[n].kind
  BY <1>1, <1>2 DEF Child, Relinked, Rest
<1>5. Good(J) /\ Closed(J, A)
  BY <1>1, <1>2, <1>3, <1>4, RemovedGood, RemovedClosed
<1>6. Rest(I, J) /\ Dirs(J, A) = Dirs(I, A)
  BY DEF Relinked, Removed, Rest, Dirs
<1>7. Sound(J, A)
  BY <1>5, <1>6 DEF Sound
<1>8. \A x \in Node : x # d => J[x].ent = I[x].ent
  BY <1>2 DEF Removed
<1>9. ASSUME Ordered(I, A) PROVE Ordered(J, A) /\ Deleted(I, J, d, p)
  <2>1. p \in NamesIn(I, d)
    BY <1>1, <1>9, FileNames DEF Ordered
  <2>2. \A e \in Disk : RootOf(e) # n
    BY DEF Sound, Dirs
  <2>3. ShapeBut(H, A, n)
    <3>1. ShapeBut(I, A, n)
      BY <1>1, <1>9, <2>2, ShapeWeaker DEF Ordered
    <3> QED
      BY <1>1, <1>2, <3>1 DEF Sound
  <2>4. /\ ShapeBut(J, A, Child(H, d, p))
        /\ \A x \in Node : Dotted(J, x) <=> Dotted(H, x)
        /\ \A x \in Node : x # d => NamesIn(J, x) = NamesIn(H, x)
        /\ Len(H[d].ent) \in Nat /\ NamesIn(J, d) = NamesIn(H, d) \ {Len(H[d].ent)}
        /\ \A x \in Node, k \in {1, 2} : k \in DOMAIN H[x].ent /\ Dotted(H, x) =>
             k \in DOMAIN J[x].ent /\ J[x].ent[k] = H[x].ent[k]
    <3>1. p \in NamesIn(H, d) /\ d \in Dirs(H, A) /\ Closed(H, A) /\ ShapeBut(H, A, Child(H, d, p))
          /\ d # Child(H, d, p)
      BY <1>1, <1>2, <1>4, <2>1, <2>3
    <3>2. \A e \in Disk : RootOf(e) \in Dirs(H, A)
      BY <1>2 DEF Sound
    <3> QED
      BY <1>1, <3>1, <3>2, RemovedShape
  <2>5. Shape(J, A)
    <3>1. J[n].kind # "dir" /\ ShapeBut(J, A, n) /\ \A e \in Disk : RootOf(e) \in Dirs(J, A)
      BY <1>1, <1>4, <1>6, <1>7, <2>4 DEF Rest, Sound
    <3> QED
      BY <1>1, <3>1, ShapeWhole
  <2>6. v = I[n].nlink - 1
    <3>1. <<d, p>> \in Refs(I, A, n)
      BY <1>1 DEF Refs
    <3>2. IsFiniteSet(Refs(I, A, n)) /\ Cardinality(Refs(I, A, n)) \in Nat
      BY RefsFacts
    <3>3. Cardinality(Refs(I, A, n)) # 0
      BY <3>1, <3>2, FS_EmptySet
    <3>4. Bal(I, A, n) = 0 /\ I[n].nlink \in Nat
      BY <1>1, <1>9, InodeFacts DEF Ordered, Counted
    <3> QED
      BY <3>2, <3>3, <3>4 DEF Bal
  <2>7. ASSUME NEW m \in A PROVE Bal(J, A, m) = 0
    <3>1. Bal(I, A, m) = 0 /\ m \in Node /\ I[n].nlink \in Nat
      BY <1>1, <1>9, InodeFacts DEF Ordered, Counted
    <3>2. Bal(H, A, m) = Bal(I, A, m) + (IF m = n THEN v - I[n].nlink ELSE 0)
      BY <1>1, <3>1, RelinkedBal
    <3>3. Bal(J, A, m) = Bal(H, A, m) - (IF m = d THEN One(H, Child(H, d, p)) ELSE 0)
                            + (IF m = Child(H, d, p) THEN 1 ELSE 0)
      BY <1>1, <1>4, <3>1, RemovedBal
    <3>4. One(H, n) = 0
      BY <1>4 DEF One
    <3> HIDE DEF n
    <3> QED
      BY <1>4, <2>6, <3>1, <3>2, <3>3, <3>4
  <2>8. J[n].ent = << >> /\ I[n].ent = << >>
    BY <1>1, <1>8 DEF Good
  <2>9. J[d].ent = CutAt(I[d].ent, p)
    BY <1>1, <1>2 DEF Removed
  <2>10. \A x \in Node : x \notin {d, n} => J[x].ent = I[x].ent /\ J[x].nlink = I[x].nlink
    <3> TAKE x \in Node
    <3>1. ASSUME x \notin {d, n} PROVE J[x].nlink = I[x].nlink
      <4>1. J[x].nlink = H[x].nlink - 0 /\ H[x].nlink = I[x].nlink
        BY <3>1 DEF Removed, Relinked
      <4>2. I[x].nlink \in Nat
        BY InodeFacts
      <4> QED
        BY <4>1, <4>2
    <3> QED
      BY <1>8, <3>1
  <2>11. \A x \in Node : Dotted(J, x) <=> Dotted(I, x) /\ x # n
    <3>1. ~ Dotted(I, n)
      BY <2>8 DEF Dotted
    <3> QED
      BY <1>2, <2>4, <3>1
  <2>12. Deleted(I, J, d, p)
    BY <1>1, <2>1, <2>8, <2>9, <2>10, <2>11 DEF Deleted
  <2> QED
    BY <2>5, <2>7, <2>12 DEF Ordered, Counted
<1> QED
  BY <1>6, <1>7, <1>8, <1>9

(* A directory that may be deleted, by a name that is not "." or "..".     *)
LEMMA DirReady ==
  ASSUME NEW I \in Inodes, NEW A \in SUBSET Node, Sound(I, A), Shape(I, A),
         NEW d \in Dirs(I, A), NEW p \in DOMAIN I[d].ent, I[d].ent[p].name \notin Dots,
         I[Child(I, d, p)].kind = "dir", Len(I[Child(I, d, p)].ent) \in {0, 2}
  PROVE  LET n == Child(I, d, p) IN
         /\ p \in NamesIn(I, d) /\ n # d /\ n \in Dirs(I, A)
         /\ DOMAIN I[n].ent = {1, 2} /\ NamesIn(I, n) = {} /\ Dotted(I, n)
         /\ Child(I, n, 1) = n /\ Child(I, n, 2) = d
         /\ Sites(I, A, n) = {<<d, p>>} /\ \A e \in Disk : RootOf(e) # n
<1> DEFINE n == Child(I, d, p)
<1>1. d \in Node /\ d \in A /\ Good(I) /\ Closed(I, A)
  BY DEF Sound, Dirs
<1>2. p \in NamesIn(I, d)
  <2>1. ASSUME Dotted(I, d) PROVE p \notin {1, 2}
    <3>1. Begins(I, d)
      BY <2>1 DEF Shape, ShapeBut
    <3> QED
      BY <3>1 DEF Begins, Dots
  <2> QED
    BY <1>1, <2>1, NamesFacts
<1>3. /\ Sites(I, A, n) = {<<d, p>>}
      /\ n \in Dirs(I, A) /\ n[2] # RootInode /\ Dotted(I, n) /\ Child(I, n, 2) = d
      /\ \A e \in Disk : RootOf(e) # n
  BY <1>1, <1>2, SingleName
<1>4. n \in Node
  BY <1>3 DEF Dirs
<1> HIDE DEF n
<1>5. Len(I[n].ent) = 2 /\ DOMAIN I[n].ent = {1, 2}
  <2>1. Len(I[n].ent) # 0
    BY <1>3, <1>4, InodeFacts DEF Dotted
  <2>2. Len(I[n].ent) = 2
    BY <2>1 DEF n
  <2> QED
    BY <1>4, <2>2, InodeFacts
<1>6. NamesIn(I, n) = {}
  BY <1>3, <1>5 DEF NamesIn
<1>7. n # d
  BY <1>2, <1>6
<1>8. Child(I, n, 1) = n
  BY <1>3, <1>4, NamesFacts
<1> QED
  BY <1>2, <1>3, <1>5, <1>6, <1>7, <1>8 DEF n

LEMMA DirDeleted ==
  ASSUME NEW I \in Inodes, NEW H \in Inodes, NEW J \in Inodes, NEW A \in SUBSET Node, Sound(I, A),
         NEW d \in Dirs(I, A), NEW p \in DOMAIN I[d].ent, I[d].ent[p].name \notin Dots,
         Emptied(I, H, Child(I, d, p)), Removed(H, J, d, p), d # Child(I, d, p),
         I[Child(I, d, p)].kind = "dir", Len(I[Child(I, d, p)].ent) \in {0, 2}
  PROVE  /\ Sound(J, A) /\ Rest(I, J)
         /\ \A x \in Node : x \notin {d, Child(I, d, p)} => J[x].ent = I[x].ent
         /\ Ordered(I, A) => Ordered(J, A) /\ Deleted(I, J, d, p)
<1> DEFINE n == Child(I, d, p)
<1>1. d \in Node /\ d \in A /\ n \in Node /\ n \in A /\ n # d /\ Good(I) /\ Closed(I, A)
      /\ I[d].kind = "dir" /\ p \in Nat
  BY InodeFacts DEF Sound, Good, Closed, Dirs
<1>2. /\ \A x \in Node : (x # n => H[x].ent = I[x].ent /\ H[x].nlink = I[x].nlink) /\ H[x].kind = I[x].kind
      /\ H[n].ent = << >> /\ H[n].nlink = 0
  BY <1>1 DEF Emptied, Rest
<1>3. Good(H)
  BY <1>1, EmptiedGood
<1>4. Child(H, d, p) = n /\ p \in DOMAIN H[d].ent /\ H[d].ent = I[d].ent
  BY <1>1, <1>2 DEF Child
<1>5. Closed(H, A)
  BY <1>1, <1>2 DEF Closed, Child
<1>6. Good(J) /\ Closed(J, A)
  <2>1. H[d].ent[p].name \notin Dots
    BY <1>4
  <2> QED
    BY <1>1, <1>3, <1>4, <1>5, <2>1, RemovedGood, RemovedClosed
<1>7. Rest(I, J) /\ Dirs(J, A) = Dirs(I, A) /\ Dirs(H, A) = Dirs(I, A)
  BY DEF Emptied, Removed, Rest, Dirs
<1>8. Sound(J, A)
  BY <1>6, <1>7 DEF Sound
<1>9. \A x \in Node : x \notin {d, n} => J[x].ent = I[x].ent
  BY <1>2 DEF Removed
<1>10. ASSUME Ordered(I, A) PROVE Ordered(J, A) /\ Deleted(I, J, d, p)
  <2>1. /\ p \in NamesIn(I, d) /\ n # d /\ n \in Dirs(I, A)
        /\ DOMAIN I[n].ent = {1, 2} /\ NamesIn(I, n) = {} /\ Dotted(I, n)
        /\ Child(I, n, 1) = n /\ Child(I, n, 2) = d
        /\ Sites(I, A, n) = {<<d, p>>} /\ \A e \in Disk : RootOf(e) # n
    BY <1>10, DirReady DEF Ordered
  <2> HIDE DEF n
  <2>2. ShapeBut(I, A, n)
    BY <1>1, <1>10, <2>1, ShapeWeaker DEF Ordered
  <2>3. ShapeBut(H, A, n)
    BY <1>1, <2>1, <2>2, EmptiedShape DEF Sound, n
  <2>4. /\ \A x \in Node : Dotted(H, x) <=> Dotted(I, x) /\ x # n
        /\ \A x \in Node : x # n => NamesIn(H, x) = NamesIn(I, x)
        /\ NamesIn(H, n) = {}
    <3>1. \A x \in Node : x # n => (Dotted(H, x) <=> Dotted(I, x)) /\ NamesIn(H, x) = NamesIn(I, x)
      BY <1>2 DEF Dotted, NamesIn
    <3>2. ~ Dotted(H, n) /\ NamesIn(H, n) = {}
      BY <1>2 DEF Dotted, NamesIn
    <3> QED
      BY <3>1, <3>2
  <2>5. /\ ShapeBut(J, A, Child(H, d, p))
        /\ \A x \in Node : Dotted(J, x) <=> Dotted(H, x)
        /\ \A x \in Node : x # d => NamesIn(J, x) = NamesIn(H, x)
        /\ Len(H[d].ent) \in Nat /\ NamesIn(J, d) = NamesIn(H, d) \ {Len(H[d].ent)}
        /\ \A x \in Node, k \in {1, 2} : k \in DOMAIN H[x].ent /\ Dotted(H, x) =>
             k \in DOMAIN J[x].ent /\ J[x].ent[k] = H[x].ent[k]
    <3>1. p \in NamesIn(H, d) /\ d \in Dirs(H, A) /\ ShapeBut(H, A, Child(H, d, p)) /\ d # Child(H, d, p)
      BY <1>1, <1>4, <1>7, <2>1, <2>3, <2>4
    <3>2. \A e \in Disk : RootOf(e) \in Dirs(H, A)
      BY <1>7 DEF Sound
    <3> QED
      BY <1>1, <1>5, <3>1, <3>2, RemovedShape
  <2>6. Sites(H, A, n) = {<<d, p>>}
    <3>1. \A q \in A \X Nat : q[2] \in NamesIn(H, q[1]) /\ Child(H, q[1], q[2]) = n
                           <=> q[2] \in NamesIn(I, q[1]) /\ Child(I, q[1], q[2]) = n
      <4> TAKE q \in A \X Nat
      <4>1. q[1] \in Node
        OBVIOUS
      <4>2. CASE q[1] = n
        BY <2>1, <2>4, <4>2
      <4>3. CASE q[1] # n
        BY <1>2, <2>4, <4>1, <4>3 DEF Child
      <4> QED
        BY <4>2, <4>3
    <3> QED
      BY <2>1, <3>1 DEF Sites
  <2>7. Sites(J, A, n) = {}
    <3>1. p \in NamesIn(H, d)
      BY <1>1, <2>1, <2>4
    <3>2. Sites(H, A, Child(H, d, p)) = {<<d, p>>}
      BY <1>4, <2>6
    <3>3. Sites(J, A, Child(H, d, p)) = {}
      BY <1>1, <2>5, <3>1, <3>2, RemovedSites
    <3> QED
      BY <1>4, <3>3
  <2>8. ~ Dotted(J, n) /\ J[n].ent = << >> /\ J[n].nlink = 0
    <3>1. J[n].ent = H[n].ent /\ J[n].nlink = H[n].nlink - 0
      BY <1>1, <2>1 DEF Removed
    <3> QED
      BY <1>2, <3>1 DEF Dotted
  <2>9. Shape(J, A)
    <3>1. ShapeBut(J, A, n) /\ \A e \in Disk : RootOf(e) \in Dirs(J, A)
      BY <1>4, <1>8, <2>5 DEF Sound
    <3> QED
      BY <1>1, <2>7, <2>8, <3>1, ShapeWhole
  <2>10. Refs(J, A, n) = {}
    <3> SUFFICES ASSUME NEW q \in Refs(J, A, n) PROVE FALSE
      OBVIOUS
    <3>1. q \in A \X Nat /\ q[1] \in Node /\ q[1] \in A /\ q[2] \in DOMAIN J[q[1]].ent /\ Child(J, q[1], q[2]) = n
      BY DEF Refs
    <3> DEFINE x == q[1]
    <3>2. q[2] \notin NamesIn(J, x)
      BY <2>7, <3>1 DEF Sites
    <3>3. Dotted(J, x) /\ q[2] \in {1, 2}
      BY <3>1, <3>2, NamesFacts
    <3>4. x # n
      BY <2>8, <3>3
    <3>5. x \in Dirs(J, A)
      BY <1>6, <3>1, <3>3 DEF Good, Dotted, Dirs
    <3>6. HasParent(J, A, x) /\ Child(J, x, 1) = x
      BY <2>9, <3>1, <3>3, <3>5, NodesNotEmpty, NamesFacts DEF Shape, ShapeBut
    <3>7. Child(J, x, 2) = n
      BY <3>1, <3>3, <3>4, <3>6
    <3>8. \E k \in NamesIn(J, n) : Child(J, n, k) = x
      BY <3>4, <3>6, <3>7 DEF HasParent
    <3> QED
      BY <2>8, <3>8 DEF NamesIn
  <2>11. ASSUME NEW m \in A PROVE Bal(J, A, m) = 0
    <3>1. Bal(I, A, m) = 0 /\ m \in Node
      BY <1>10 DEF Ordered, Counted
    <3>2. CASE m = n
      <4>1. Cardinality(Refs(J, A, n)) = 0
        BY <2>10, FS_EmptySet
      <4> QED
        BY <2>8, <3>2, <4>1 DEF Bal
    <3>3. CASE m # n
      <4>1. Bal(H, A, m) = Bal(I, A, m) + (IF m = Child(I, n, 2) THEN 1 ELSE 0)
        BY <1>1, <2>1, <3>1, <3>3, EmptiedBal DEF n
      <4>2. Bal(J, A, m) = Bal(H, A, m) - (IF m = d THEN One(H, Child(H, d, p)) ELSE 0)
                              + (IF m = Child(H, d, p) THEN 1 ELSE 0)
        BY <1>1, <1>4, <3>1, RemovedBal
      <4>3. One(H, n) = 1
        BY <1>1, <1>2, <2>1 DEF One, Dirs
      <4> QED
        BY <1>4, <2>1, <3>1, <3>3, <4>1, <4>2, <4>3
    <3> QED
      BY <3>2, <3>3
  <2>12. J[d].ent = CutAt(I[d].ent, p)
    BY <1>1, <1>2, <2>1 DEF Removed
  <2>13. \A x \in Node : x \notin {d, n} => J[x].ent = I[x].ent /\ J[x].nlink = I[x].nlink
    <3> TAKE x \in Node
    <3>1. ASSUME x \notin {d, n} PROVE J[x].nlink = I[x].nlink
      <4>1. J[x].nlink = H[x].nlink - 0 /\ H[x].nlink = I[x].nlink
        BY <1>2, <3>1 DEF Removed
      <4>2. I[x].nlink \in Nat
        BY InodeFacts
      <4> QED
        BY <4>1, <4>2
    <3> QED
      BY <1>9, <3>1
  <2>14. \A x \in Node : Dotted(J, x) <=> Dotted(I, x) /\ x # n
    BY <2>4, <2>5
  <2>15. Deleted(I, J, d, p)
    BY <2>1, <2>8, <2>12, <2>13, <2>14 DEF Deleted, n
  <2> QED
    BY <2>9, <2>11, <2>15 DEF Ordered, Counted
<1> QED
  BY <1>7, <1>8, <1>9, <1>10

LEMMA LessFacts ==
  ASSUME NEW v \in Nat
  PROVE  Max({v - 1, 0}) = IF v = 0 THEN 0 ELSE v - 1
<1> DEFINE S == {v - 1, 0}
           m == IF v = 0 THEN 0 ELSE v - 1
<1>1. m \in S /\ \A y \in S : m >= y
  OBVIOUS
<1>2. \A x \in S : (\A y \in S : x >= y) => x = m
  OBVIOUS
<1>3. Max(S) = CHOOSE x \in S : \A y \in S : x >= y
  BY DEF Max
<1> HIDE DEF S, m
<1>4. Max(S) = m
  BY <1>1, <1>2, <1>3
<1> QED
  BY <1>4 DEF S, m

(* The place of a name depends on the entries of the directory only.       *)
LEMMA SamePlace ==
  ASSUME NEW fs, NEW gs, NEW d, NEW e, NEW name, gs.inode[e].ent = fs.inode[d].ent
  PROVE  Place(gs, e, name) = Place(fs, d, name)
BY DEF Place

LEMMA SameSound ==
  ASSUME NEW fs \in FS, NEW rc \in Results
  PROVE  Fails(fs, rc) \in FS /\ Fails(fs, rc).rc = rc /\ Fails(fs, rc).inode = fs.inode
         /\ Fails(fs, rc).room = fs.room /\ Rest(fs.inode, Fails(fs, rc).inode)
BY FSFacts DEF Rest

LEMMA DeallocateFacts ==
  ASSUME NEW fs \in FS, fs.rc = "ok", NEW A \in SUBSET Node, Sound(fs.inode, A),
         NEW d \in Dirs(fs.inode, A), NEW name
  PROVE  LET r == DeallocateFile(fs, d, name)
             I == fs.inode
             J == r.inode
             p == Place(fs, d, name)
         IN  /\ r \in FS /\ Rest(I, J) /\ Sound(J, A)
             /\ r.rc = "ok" => Has(fs, d, name)
             /\ \A x \in Node : J[x].ent # I[x].ent => Has(fs, d, name) /\ (x = d \/ x = Child(I, d, p))
             /\ Ordered(I, A) => IF r.rc = "ok" THEN Ordered(J, A) /\ Deleted(I, J, d, p) ELSE J = I
<1> DEFINE r == DeallocateFile(fs, d, name)
           I == fs.inode
           p == Place(fs, d, name)
           n == Child(I, d, p)
           v == Max({I[n].nlink - 1, 0})
           f == [fs EXCEPT !.inode[n].nlink = v]
           empty == [Resize(fs, n, << >>) EXCEPT !.inode[n].nlink = 0]
           Good1(s) == /\ s \in FS /\ Rest(I, s.inode) /\ Sound(s.inode, A)
                       /\ s.rc = "ok" => Has(fs, d, name)
                       /\ \A x \in Node : s.inode[x].ent # I[x].ent => Has(fs, d, name) /\ (x = d \/ x = n)
                       /\ Ordered(I, A) => IF s.rc = "ok" THEN Ordered(s.inode, A) /\ Deleted(I, s.inode, d, p)
                                           ELSE s.inode = I
<1>1. d \in Node /\ d \in A /\ I \in Inodes /\ I[d].ent \in Seq(Ent) /\ Good(I)
  BY FSFacts, InodeFacts DEF Dirs, Sound
<1>2. p # 0 => p \in DOMAIN I[d].ent /\ I[d].ent[p].name = name
  BY <1>1, PlaceFacts
<1>3. Target(fs, d, name) = n
  BY DEF Target, Child
<1>4. r = IF p = 0 THEN Fails(fs, "ENOENT")
          ELSE IF I[n].kind # "dir" THEN RemoveEntry(f, d, name)
          ELSE IF name \in Dots THEN Fails(fs, "EINVAL")
          ELSE IF Len(I[n].ent) \notin {0, 2} THEN Fails(fs, "ENOTEMPTY")
          ELSE RemoveEntry(empty, d, name)
  BY <1>3 DEF DeallocateFile, Has, IsDir
<1>5. ASSUME NEW rc \in Results, rc # "ok" PROVE Good1(Fails(fs, rc))
  BY <1>5, SameSound
<1>6. {"ENOENT", "EINVAL", "ENOTEMPTY"} \subseteq Results \ {"ok"}
  BY DEF Results
<1>7. ASSUME p # 0 PROVE n \in Node /\ n \in A /\ Has(fs, d, name)
  BY <1>1, <1>2, <1>7 DEF Sound, Good, Closed, Has
<1> HIDE DEF r, p, n, v, f, empty
<1>8. ASSUME p # 0, I[n].kind # "dir" PROVE Good1(RemoveEntry(f, d, name))
  <2> DEFINE s == RemoveEntry(f, d, name)
  <2>1. I[n].nlink \in Nat
    BY <1>1, <1>7, <1>8, InodeFacts
  <2>2. v = (IF I[n].nlink = 0 THEN 0 ELSE I[n].nlink - 1) /\ v \in Nat
    BY <2>1, LessFacts DEF v
  <2>3. f \in FS /\ f.rc = "ok" /\ Relinked(I, f.inode, n, v)
    <3>1. n \in Node
      BY <1>7, <1>8
    <3> QED
      BY <2>2, <3>1, RelinkFacts DEF f
  <2>4. f.inode[d].ent = I[d].ent /\ f.inode[n].kind = I[n].kind
    BY <1>1, <1>7, <1>8, <2>3 DEF Relinked, Rest
  <2>5. Place(f, d, name) = p /\ Has(f, d, name) /\ Child(f.inode, d, p) = n
    BY <1>8, <2>4, SamePlace DEF Has, Child, p, n
  <2>6. Good(f.inode)
    BY <1>1, <1>7, <1>8, <2>3, FSFacts, RelinkedGood
  <2>7. s \in FS /\ s.rc = "ok" /\ Removed(f.inode, s.inode, d, p)
    BY <1>1, <1>8, <2>3, <2>4, <2>5, <2>6, RemoveEntryFacts
  <2> HIDE DEF s
  <2>8. /\ Sound(s.inode, A) /\ Rest(I, s.inode) /\ \A x \in Node : x # d => s.inode[x].ent = I[x].ent
        /\ Ordered(I, A) => Ordered(s.inode, A) /\ Deleted(I, s.inode, d, p)
    <3>1. f.inode \in Inodes /\ s.inode \in Inodes
      BY <2>3, <2>7, FSFacts
    <3>2. p \in DOMAIN I[d].ent /\ I[Child(I, d, p)].kind # "dir" /\ Relinked(I, f.inode, Child(I, d, p), v)
          /\ v = (IF I[Child(I, d, p)].nlink = 0 THEN 0 ELSE I[Child(I, d, p)].nlink - 1)
      BY <1>2, <1>8, <2>2, <2>3 DEF n
    <3> QED
      BY <1>1, <2>2, <2>7, <3>1, <3>2, FileDeleted
  <2> QED
    BY <1>7, <1>8, <2>7, <2>8 DEF s
<1>9. ASSUME p # 0, I[n].kind = "dir", name \notin Dots, Len(I[n].ent) \in {0, 2}
      PROVE  Good1(RemoveEntry(empty, d, name))
  <2> DEFINE s == RemoveEntry(empty, d, name)
             t == Resize(fs, n, << >>)
  <2>1. n \in Node /\ n \in A /\ p \in DOMAIN I[d].ent /\ I[d].ent[p].name = name
    BY <1>2, <1>7, <1>9
  <2>2. /\ t \in FS /\ t.rc = "ok"
        /\ Rest(I, t.inode)
        /\ \A x \in Node : /\ t.inode[x].ent = IF x = n THEN << >> ELSE I[x].ent
                           /\ t.inode[x].nlink = I[x].nlink
    <3>1. Len(I[n].ent) \in Nat /\ Len(<< >>) = 0 /\ << >> \in Seq(Ent)
      BY <1>1, <2>1, InodeFacts
    <3>2. Blocks(0) \in Nat /\ Blocks(Len(I[n].ent)) \in Nat /\ Blocks(0) <= Blocks(Len(I[n].ent))
      BY <3>1, BlocksFacts
    <3>3. fs.room[n[1]] \in Nat
      BY <2>1, FSFacts, NodeFacts
    <3>4. Blocks(Len(<< >>)) - Blocks(Len(fs.inode[n].ent)) <= fs.room[n[1]]
      BY <3>1, <3>2, <3>3
    <3> DEFINE e == << >>
    <3> HIDE DEF e, I
    <3>5. e \in Seq(Ent) /\ Blocks(Len(e)) - Blocks(Len(fs.inode[n].ent)) <= fs.room[n[1]]
      BY <3>1, <3>4 DEF e
    <3>6. /\ Resize(fs, n, e) \in FS /\ Resize(fs, n, e).rc = fs.rc
          /\ Rest(fs.inode, Resize(fs, n, e).inode)
          /\ \A x \in Node :
               /\ Resize(fs, n, e).inode[x].ent = IF x = n THEN e ELSE fs.inode[x].ent
               /\ Resize(fs, n, e).inode[x].nlink = fs.inode[x].nlink
      BY <2>1, <3>5, ResizeFacts
    <3> QED
      BY <3>6 DEF e, I
  <2> HIDE DEF t
  <2>3. empty \in FS /\ empty.rc = "ok" /\ Relinked(t.inode, empty.inode, n, 0)
    <3>1. empty = [t EXCEPT !.inode[n].nlink = 0]
      BY DEF empty, t
    <3> QED
      BY <2>1, <2>2, <3>1, RelinkFacts
  <2>4. Emptied(I, empty.inode, n)
    <3>1. Rest(I, empty.inode)
      BY <2>2, <2>3 DEF Relinked, Rest
    <3>2. \A x \in Node : /\ empty.inode[x].ent = IF x = n THEN << >> ELSE I[x].ent
                          /\ empty.inode[x].nlink = IF x = n THEN 0 ELSE I[x].nlink
      BY <2>2, <2>3 DEF Relinked
    <3> QED
      BY <3>1, <3>2 DEF Emptied
  <2>5. empty.inode \in Inodes
    BY <2>3, FSFacts
  <2>6. Good(empty.inode)
    BY <1>1, <2>1, <2>4, <2>5, EmptiedGood
  <2>7. CASE n # d
    <3>1. empty.inode[d].ent = I[d].ent
      BY <1>1, <2>4, <2>7 DEF Emptied
    <3>2. Place(empty, d, name) = p /\ Has(empty, d, name)
      BY <1>9, <3>1, SamePlace DEF Has, p
    <3>3. s \in FS /\ s.rc = "ok" /\ Removed(empty.inode, s.inode, d, p)
      BY <1>1, <1>9, <2>3, <2>6, <3>2, RemoveEntryFacts
    <3> HIDE DEF s
    <3>4. /\ Sound(s.inode, A) /\ Rest(I, s.inode)
          /\ \A x \in Node : x \notin {d, Child(I, d, p)} => s.inode[x].ent = I[x].ent
          /\ Ordered(I, A) => Ordered(s.inode, A) /\ Deleted(I, s.inode, d, p)
      <4>1. s.inode \in Inodes
        BY <3>3, FSFacts
      <4>2. /\ I[Child(I, d, p)].kind = "dir" /\ Emptied(I, empty.inode, Child(I, d, p))
            /\ Len(I[Child(I, d, p)].ent) \in {0, 2} /\ d # Child(I, d, p)
        BY <1>9, <2>4, <2>7 DEF n
      <4>3. I[d].ent[p].name \notin Dots
        BY <1>9, <2>1
      <4> QED
        BY <1>1, <2>1, <2>5, <3>3, <4>1, <4>2, <4>3, DirDeleted
    <3> QED
      BY <1>7, <1>9, <3>3, <3>4 DEF s, n
  <2>8. CASE n = d
    <3>1. empty.inode[d].ent = << >>
      BY <1>1, <2>4, <2>8 DEF Emptied
    <3>2. ~ Has(empty, d, name)
      <4>1. empty.inode[d].ent \in Seq(Ent) /\ DOMAIN empty.inode[d].ent = {}
        BY <3>1
      <4> QED
        BY <4>1, PlaceFacts DEF Has
    <3>3. s \in FS /\ s.rc = "ENOENT" /\ Same(empty, s)
      BY <1>1, <1>9, <2>3, <2>6, <3>2, RemoveEntryFacts
    <3>4. s.inode = empty.inode
      BY <3>3 DEF Same
    <3>5. Sound(empty.inode, A)
      <4>1. Dirs(empty.inode, A) = Dirs(I, A)
        BY <2>4 DEF Emptied, Rest, Dirs
      <4>2. \A x \in Node : x # n => empty.inode[x].ent = I[x].ent
        BY <2>4 DEF Emptied
      <4>3. empty.inode[n].ent = << >>
        BY <3>1, <2>8
      <4>4. Closed(empty.inode, A)
        BY <2>1, <4>2, <4>3 DEF Closed, Child, Sound
      <4> QED
        BY <2>6, <4>1, <4>4 DEF Sound
    <3>6. ~ Ordered(I, A)
      <4> SUFFICES ASSUME Shape(I, A) PROVE FALSE
        BY DEF Ordered
      <4>1. Child(I, d, p) # d
        <5>1. I[Child(I, d, p)].kind = "dir" /\ Len(I[Child(I, d, p)].ent) \in {0, 2} /\ I[d].ent[p].name \notin Dots
          BY <1>9, <2>1 DEF n
        <5> QED
          BY <1>1, <2>1, <5>1, DirReady
      <4> QED
        BY <2>8, <4>1 DEF n
    <3>7. \A x \in Node : s.inode[x].ent # I[x].ent => x = n
      BY <2>4, <3>4 DEF Emptied
    <3>8. Rest(I, s.inode)
      BY <2>4, <3>4 DEF Emptied
    <3> HIDE DEF s
    <3> QED
      BY <1>7, <1>9, <3>3, <3>4, <3>5, <3>6, <3>7, <3>8 DEF s
  <2> QED
    BY <2>7, <2>8
<1>10. Good1(r)
  <2> HIDE DEF Good1
  <2> QED
    BY <1>4, <1>5, <1>6, <1>8, <1>9
<1> QED
  BY <1>10 DEF r, p, n

-----------------------------------------------------------------------------
(* Making                                                                  *)

LEMMA MadeAdded ==
  ASSUME NEW I \in Inodes, NEW H \in Inodes, NEW J \in Inodes, NEW A \in SUBSET Node, Sound(I, A),
         NEW n \in Node, n \in A, NEW d \in Dirs(I, A), n[1] = d[1], NEW r \in Record,
         Made(I, H, n, d, r), NEW name \in Name, Added(H, J, d, n, name)
  PROVE  /\ Sound(J, A)
         /\ \A x \in Node : x \notin {d, n} => J[x].ent = I[x].ent
         /\ Ordered(I, A) => Ordered(J, A) /\ \A x \in Dirs(I, A) : Dotted(J, x) <=> Dotted(I, x)
         /\ Ordered(I, A) /\ Tidy(I, A) /\ Dotted(I, d) /\ name \notin Dots => Tidy(J, A)
<1> DEFINE L == Len(H[d].ent)
<1>1. d \in Node /\ d \in A /\ I[d].kind = "dir" /\ Good(I) /\ Closed(I, A)
  BY DEF Dirs, Sound
<1>2. /\ \A x \in Node : x # n => H[x] = I[x]
      /\ H[n] = r /\ I[n].kind = "free" /\ n # d
      /\ \/ r.kind = "file" /\ r.ent = << >>
         \/ r.kind = "dir" /\ r.ent = Dotting(n, d)
  BY <1>1 DEF Made
<1>3. Good(H) /\ Closed(H, A)
  BY <1>1, MadeGood, MadeClosed
<1>4. H[d].kind = "dir" /\ H[n].kind # "free" /\ d \in Dirs(H, A)
  BY <1>1, <1>2 DEF Dirs
<1>5. Good(J) /\ Closed(J, A)
  BY <1>1, <1>3, <1>4, AddedGood, AddedClosed
<1>6. \A x \in Node : J[x].kind = H[x].kind
  BY DEF Added, Rest
<1>7. \A e \in Disk : RootOf(e) \in Dirs(I, A) /\ RootOf(e) # n /\ RootOf(e) \in Dirs(H, A) /\ RootOf(e) \in Dirs(J, A)
  BY <1>2, <1>6 DEF Sound, Dirs
<1>8. Sound(J, A)
  BY <1>5, <1>7 DEF Sound
<1>9. \A x \in Node : x \notin {d, n} => J[x].ent = I[x].ent
  BY <1>2 DEF Added
<1>10. L \in Nat
  BY <1>1, InodeFacts
<1> HIDE DEF L
<1>11. ASSUME Ordered(I, A)
       PROVE  /\ Ordered(J, A) /\ \A x \in Dirs(I, A) : Dotted(J, x) <=> Dotted(I, x)
              /\ Tidy(I, A) /\ Dotted(I, d) /\ name \notin Dots => Tidy(J, A)
  <2>1. /\ ShapeBut(H, A, n) /\ Shape(H, A \ {n}) /\ Closed(H, A) /\ Closed(H, A \ {n})
        /\ \A x \in Node : x # n => H[x] = I[x] /\ (Dotted(H, x) <=> Dotted(I, x)) /\ NamesIn(H, x) = NamesIn(I, x)
        /\ NamesIn(H, n) = {} /\ Sites(H, A, n) = {}
        /\ r.kind = "dir" => Dotted(H, n) /\ Child(H, n, 2) = d
    <3>1. Shape(I, A) /\ \A e \in Disk : RootOf(e) \in Dirs(I, A)
      BY <1>7, <1>11 DEF Ordered
    <3>2. Good(I) /\ Closed(I, A) /\ d \in Node /\ d \in A
      BY <1>1
    <3>3. ShapeBut(H, A, n) /\ Shape(H, A \ {n}) /\ Closed(H, A) /\ Closed(H, A \ {n})
          /\ NamesIn(H, n) = {} /\ Sites(H, A, n) = {}
      BY ONLY <3>1, <3>2, MadeShape, I \in Inodes, H \in Inodes, n \in Node, n[1] = d[1], r \in Record,
              Made(I, H, n, d, r), A \in SUBSET Node, n \in A
    <3>4. \A x \in Node : x # n => H[x] = I[x] /\ (Dotted(H, x) <=> Dotted(I, x)) /\ NamesIn(H, x) = NamesIn(I, x)
      BY <1>2 DEF Dotted, NamesIn
    <3>5. r.kind = "dir" => Dotted(H, n) /\ Child(H, n, 2) = d
      <4>1. /\ DOMAIN Dotting(n, d) = {1, 2} /\ Len(Dotting(n, d)) = 2 /\ Dotting(n, d) # << >>
            /\ Dotting(n, d)[1] = [name |-> ".", ino |-> n[2]]
            /\ Dotting(n, d)[2] = [name |-> "..", ino |-> d[2]]
        BY DottingFacts
      <4>2. n[1] = d[1] /\ d = <<d[1], d[2]>>
        BY <1>1, NodeFacts
      <4> QED
        BY <1>2, <4>1, <4>2 DEF Dotted, Child
    <3> QED
      BY <3>3, <3>4, <3>5
  <2>2. /\ ShapeBut(J, A, n)
        /\ \A x \in Node : Dotted(J, x) <=> Dotted(H, x)
        /\ \A x \in Node : x # d => NamesIn(J, x) = NamesIn(H, x)
        /\ NamesIn(J, d) = NamesIn(H, d) \cup {L + 1}
        /\ \A x \in Node : \A k \in DOMAIN H[x].ent : Child(J, x, k) = Child(H, x, k)
    BY <1>1, <1>2, <1>3, <1>4, <1>7, <2>1, AddedShape DEF L
  <2>3. /\ \A x \in Node : x # d => J[x].ent = H[x].ent
        /\ \A k \in 1 .. L : J[d].ent[k] = H[d].ent[k]
        /\ J[d].ent[L + 1] = [name |-> name, ino |-> n[2]]
        /\ Child(J, d, L + 1) = n
    <3>1. /\ \A x \in Node : x # d => J[x].ent = H[x].ent
          /\ Len(J[d].ent) = L + 1
          /\ DOMAIN J[d].ent = 1 .. L + 1
          /\ \A k \in 1 .. L : J[d].ent[k] = H[d].ent[k]
          /\ J[d].ent[L + 1] = [name |-> name, ino |-> n[2]]
          /\ Child(J, d, L + 1) = n
      BY <1>1, AddedEntries DEF L
    <3> QED
      BY <3>1
  <2>4. Sites(J, A, n) = {<<d, L + 1>>}
    <3>1. L + 1 \in Nat /\ \A x \in Node : \A k \in NamesIn(H, x) : Child(J, x, k) = Child(H, x, k)
      BY <1>10, <2>2 DEF NamesIn
    <3>2. Sites(J, A, n) = Sites(H, A, n) \cup {<<d, L + 1>>}
      BY <1>1, <2>2, <2>3, <3>1, AddedSites
    <3> QED
      BY <2>1, <3>2
  <2>5. n[2] # RootInode
    <3>1. n = <<n[1], n[2]>> /\ n[1] \in Disk
      BY NodeFacts
    <3> QED
      BY <1>7, <3>1 DEF RootOf
  <2>6. Shape(J, A)
    <3>1. CASE r.kind # "dir"
      <4>1. J[n].kind # "dir"
        BY <1>2, <1>6, <3>1
      <4> QED
        BY <1>7, <2>2, <4>1, ShapeWhole
    <3>2. CASE r.kind = "dir"
      <4>1. Dotted(J, n)
        BY <2>1, <2>2, <3>2
      <4>2. 2 \in DOMAIN H[n].ent
        <5>1. DOMAIN Dotting(n, d) = {1, 2}
          BY DottingFacts
        <5> QED
          BY <1>2, <3>2, <5>1
      <4>3. Child(J, n, 2) = d
        BY <2>1, <2>2, <3>2, <4>2
      <4>4. d \in Dirs(J, A)
        BY <1>1, <1>4, <1>6 DEF Dirs
      <4> QED
        BY <1>7, <2>2, <2>4, <2>5, <4>1, <4>3, <4>4, ShapeWhole
    <3> QED
      BY <3>1, <3>2
  <2>7. ASSUME NEW m \in A PROVE Bal(J, A, m) = 0
    <3>1. Bal(I, A, m) = 0 /\ Bal(I, A, n) = 0 /\ m \in Node
      BY <1>11 DEF Ordered, Counted
    <3>2. Bal(H, A, m) = IF m = n THEN 1
                         ELSE IF r.kind = "dir" /\ m = d THEN Bal(I, A, m) - 1 ELSE Bal(I, A, m)
      BY <1>1, <3>1, MadeBal
    <3>3. Bal(J, A, m) = Bal(H, A, m) + (IF m = d THEN One(H, n) ELSE 0) - (IF m = n THEN 1 ELSE 0)
      BY <1>1, <3>1, AddedBal
    <3>4. One(H, n) = IF r.kind = "dir" THEN 1 ELSE 0
      BY <1>2 DEF One
    <3> QED
      BY <1>2, <3>1, <3>2, <3>3, <3>4
  <2>8. \A x \in Dirs(I, A) : x # n /\ x \in Node /\ (Dotted(J, x) <=> Dotted(I, x))
    BY <1>2, <2>1, <2>2 DEF Dirs
  <2>9. ASSUME Tidy(I, A), Dotted(I, d), name \notin Dots, NEW x \in Dirs(J, A)
        PROVE  IF Dotted(J, x) THEN \A k \in NamesIn(J, x) : J[x].ent[k].name \notin Dots
               ELSE J[x].ent = << >> /\ J[x].nlink = 0
    <3>1. x \in Node /\ H[x].kind = "dir" /\ x \in A
      BY <1>6 DEF Dirs
    <3>2. CASE x = n
      BY <1>2, <2>1, <2>2, <3>1, <3>2
    <3>3. CASE x = d
      <4>1. \A k \in NamesIn(I, d) : I[d].ent[k].name \notin Dots
        BY <1>1, <2>9 DEF Tidy, Dirs
      <4>2. \A k \in NamesIn(I, d) : k \in 1 .. L
        BY <1>1, <1>2, InodeFacts DEF NamesIn, L
      <4>3. \A k \in NamesIn(J, d) : J[d].ent[k].name \notin Dots
        BY <1>1, <1>2, <2>1, <2>2, <2>3, <2>9, <4>1, <4>2
      <4> QED
        BY <1>1, <2>8, <2>9, <3>3, <4>3
    <3>4. CASE x \notin {d, n}
      <4>1. x \in Dirs(I, A) /\ J[x].ent = I[x].ent /\ NamesIn(J, x) = NamesIn(I, x)
            /\ (Dotted(J, x) <=> Dotted(I, x))
        BY <1>2, <1>9, <2>1, <2>2, <3>1, <3>4 DEF Dirs
      <4>2. J[x].nlink = I[x].nlink + 0 /\ I[x].nlink \in Nat
        BY <1>2, <3>1, <3>4, InodeFacts DEF Added
      <4> QED
        BY <2>9, <4>1, <4>2 DEF Tidy
    <3> QED
      BY <3>2, <3>3, <3>4
  <2> QED
    BY <2>6, <2>7, <2>8, <2>9 DEF Ordered, Counted, Tidy
<1> QED
  BY <1>8, <1>9, <1>11

LEMMA MadeLost ==
  ASSUME NEW I \in Inodes, NEW J \in Inodes, NEW A \in SUBSET Node, Sound(I, A),
         NEW n \in Node, n \in A, NEW d \in Dirs(I, A), n[1] = d[1], NEW r \in Record, Made(I, J, n, d, r)
  PROVE  LET B == A \ {n} IN
         /\ Sound(J, B)
         /\ Ordered(I, A) => Ordered(J, B)
         /\ Tidy(I, A) => Tidy(J, B)
<1> DEFINE B == A \ {n}
<1>1. d \in Node /\ d \in A /\ I[d].kind = "dir" /\ Good(I) /\ Closed(I, A)
      /\ \A e \in Disk : RootOf(e) \in Dirs(I, A)
  BY DEF Dirs, Sound
<1>2. /\ \A x \in Node : x # n => J[x] = I[x]
      /\ I[n].kind = "free" /\ I[n].ent = << >>
  BY <1>1 DEF Made, Good
<1>3. Good(J) /\ Closed(J, B)
  BY <1>1, MadeGood, MadeClosed
<1>4. \A e \in Disk : RootOf(e) \in Dirs(J, B)
  BY <1>1, <1>2 DEF Dirs
<1>5. ASSUME Ordered(I, A) PROVE Ordered(J, B)
  <2>1. Shape(J, B)
    <3>1. Shape(I, A)
      BY <1>5 DEF Ordered
    <3> QED
      BY ONLY <1>1, <3>1, MadeShape, I \in Inodes, J \in Inodes, n \in Node, n[1] = d[1], r \in Record,
              Made(I, J, n, d, r), A \in SUBSET Node, n \in A
  <2>2. ASSUME NEW m \in B PROVE Bal(J, B, m) = 0
    <3>1. \A q : q \in Refs(J, B, m) <=> q \in Refs(I, A, m)
      <4> TAKE q
      <4>1. CASE q \in A \X Nat /\ q[1] = n
        <5>1. q \notin B \X Nat
          BY <4>1
        <5>2. DOMAIN I[n].ent = {}
          BY <1>2
        <5> QED
          BY <4>1, <5>1, <5>2 DEF Refs
      <4>2. CASE q \in A \X Nat /\ q[1] # n
        <5>1. q \in B \X Nat /\ q[1] \in Node
          BY <4>2
        <5> QED
          BY <1>2, <4>2, <5>1 DEF Refs, Child
      <4>3. CASE q \notin A \X Nat
        BY <4>3 DEF Refs
      <4> QED
        BY <4>1, <4>2, <4>3
    <3>2. Refs(J, B, m) = Refs(I, A, m)
      BY <3>1
    <3>3. J[m] = I[m] /\ Bal(I, A, m) = 0
      BY <1>2, <1>5 DEF Ordered, Counted
    <3> QED
      BY <3>2, <3>3 DEF Bal
  <2> QED
    BY <2>1, <2>2 DEF Ordered, Counted
<1>6. ASSUME Tidy(I, A) PROVE Tidy(J, B)
  <2>1. ASSUME NEW x \in Dirs(J, B)
        PROVE  IF Dotted(J, x) THEN \A k \in NamesIn(J, x) : J[x].ent[k].name \notin Dots
               ELSE J[x].ent = << >> /\ J[x].nlink = 0
    <3>1. J[x] = I[x] /\ x \in Dirs(I, A)
      BY <1>2 DEF Dirs
    <3>2. (Dotted(J, x) <=> Dotted(I, x)) /\ NamesIn(J, x) = NamesIn(I, x)
      BY <3>1 DEF Dotted, NamesIn
    <3> QED
      BY <1>6, <3>1, <3>2 DEF Tidy
  <2> QED
    BY <2>1 DEF Tidy
<1> QED
  BY <1>3, <1>4, <1>5, <1>6 DEF Sound

(* The name that a new file gets is one.                                   *)
LEMMA LinkNameFacts ==
  ASSUME NEW path, path.abs \in BOOLEAN, path.names \in Seq(Plain \cup Dots), path.names # << >>
  PROVE  LinkName(path) \in Name
<1> DEFINE L   == Len(path.names)
           off == IF path.abs THEN 0 ELSE 1
           m   == Min({2 * L - off, NameMax})
           cut == m + off
<1>1. L \in Nat /\ L # 0 /\ DOMAIN path.names = 1 .. L /\ \A k \in 1 .. L : path.names[k] \in Plain \cup Dots
  BY ElementOfSeq, EmptySeq, LenProperties
<1>2. NameMax \in Nat \ {0}
  BY NamesAssumption
<1>3. off \in {0, 1}
  OBVIOUS
<1> HIDE DEF L, off
<1>4. 2 * L - off \in Nat \ {0}
  BY <1>1, <1>3
<1>5. m \in Nat \ {0} /\ m <= 2 * L - off
  <2> DEFINE S == {2 * L - off, NameMax}
             l == IF 2 * L - off <= NameMax THEN 2 * L - off ELSE NameMax
  <2>1. l \in S /\ (\A y \in S : l <= y) /\ l \in Nat \ {0} /\ l <= 2 * L - off
    BY <1>2, <1>4
  <2>2. \A x \in S : (\A y \in S : x <= y) => x = l
    BY <1>2, <1>4
  <2>3. m = CHOOSE x \in S : \A y \in S : x <= y
    BY DEF Min
  <2> HIDE DEF S, l, m
  <2>4. m = l
    BY <2>1, <2>2, <2>3
  <2> QED
    BY <2>1, <2>4
<1> HIDE DEF m
<1>6. ASSUME cut % 2 = 0 PROVE cut \div 2 \in 1 .. L
  <2>1. cut \in Nat /\ 1 <= cut /\ cut <= 2 * L
    BY <1>1, <1>3, <1>5
  <2> HIDE DEF cut
  <2>2. cut \div 2 \in Nat /\ cut = 2 * (cut \div 2)
    BY <1>6, <2>1
  <2> QED
    BY <1>1, <2>1, <2>2
<1>7. LinkName(path) = IF cut % 2 = 0 THEN path.names[cut \div 2] ELSE ""
  BY DEF LinkName, m, off, L
<1> QED
  BY <1>1, <1>6, <1>7 DEF Name

(* Kind, owner and mode of a file do not change.                           *)
Keeps(I, J) ==
  \A x \in Node : I[x].kind # "free" =>
    /\ J[x].kind = I[x].kind /\ J[x].owner = I[x].owner
    /\ J[x].group = I[x].group /\ J[x].mode = I[x].mode

Grown(I, J) == {x \in Node : I[x].kind = "free" /\ J[x].kind # "free"}

LEMMA NewInodeFacts ==
  ASSUME NEW u \in User \cup {NoUser}, NEW kind \in {"file", "dir"}, NEW perm \in Rights
  PROVE  LET r == NewInode(u, kind, perm) IN
         r \in Record /\ r.kind = kind /\ r.ent = << >> /\ r.nlink = IF kind = "dir" THEN 2 ELSE 1
<1> DEFINE g == IF u # NoUser THEN GroupOf[u] ELSE IF kind = "dir" THEN "ADMIN" ELSE "STGADMIN"
           l == IF kind = "dir" THEN 2 ELSE 1
           o == u
<1>1. g \in Groups
  BY DEF Groups
<1>2. o \in Owners
  BY DEF Owners
<1>3. l \in Nat /\ << >> \in Seq(Ent)
  BY EmptySeq
<1>4. NewInode(u, kind, perm) = [kind |-> kind, nlink |-> l, ent |-> << >>, owner |-> o, group |-> g, mode |-> perm]
  BY DEF NewInode
<1> HIDE DEF g, o
<1> QED
  BY <1>1, <1>2, <1>3, <1>4 DEF Record

(* The free inode that is taken.                                           *)
LEMMA FirstFree ==
  ASSUME NEW fs \in FS, NEW d \in Node, FreeInodes(fs, d[1]) # {}
  PROVE  LET n == CHOOSE x \in FreeInodes(fs, d[1]) : \A y \in FreeInodes(fs, d[1]) : x[2] <= y[2] IN
         n \in Node /\ n[1] = d[1] /\ fs.inode[n].kind = "free"
<1> DEFINE F == FreeInodes(fs, d[1])
           S == {x[2] : x \in F}
<1>1. F \subseteq Node
  BY DEF FreeInodes
<1>2. S \in SUBSET Nat /\ S # {}
  BY <1>1, NodeFacts
<1>3. PICK k \in S : \A j \in S : k <= j
  <2> HIDE DEF S
  <2> QED
    BY <1>2, LeastNat
<1>4. PICK x \in F : x[2] = k
  OBVIOUS
<1>5. \A y \in F : x[2] <= y[2]
  BY <1>3, <1>4
<1> HIDE DEF F
<1>6. (CHOOSE z \in F : \A y \in F : z[2] <= y[2]) \in F
  BY <1>5
<1> QED
  BY <1>6 DEF F, FreeInodes

IsPath(path) == path.abs \in BOOLEAN /\ path.names \in Seq(Plain \cup Dots) /\ path.names # << >>

(* The steps it consists of: an inode is written and gets an entry; the    *)
(* second or both may not be done.                                         *)
AllocateWay(r, I, d, path) ==
  \/ r.inode = I /\ r.rc # "ok"
  \/ \E n \in Node, q \in Record, H \in Inodes :
       /\ n[1] = d[1] /\ Made(I, H, n, d, q)
       /\ IF r.rc = "ok" THEN Added(H, r.inode, d, n, LinkName(path)) ELSE r.inode = H

(* What ufs_file_allocate does to the inodes I, with the result r: an      *)
(* inode that was written by a call that failed is left out of the disks.  *)
AllocateDone(r, I, A, d, path) ==
  LET J == r.inode
      B == IF r.rc = "ok" THEN A ELSE A \ Grown(I, J)
  IN  /\ r \in FS /\ Keeps(I, J) /\ Sound(J, B) /\ AllocateWay(r, I, d, path)
      /\ \A x \in Node : x # d /\ I[x].kind # "free" => J[x].ent = I[x].ent
      /\ r.rc # "ok" => J[d].ent = I[d].ent
      /\ Ordered(I, A) => Ordered(J, B) /\ \A x \in Dirs(I, A) : Dotted(J, x) <=> Dotted(I, x)
      /\ Ordered(I, A) /\ Tidy(I, A) /\ (r.rc = "ok" => Dotted(I, d) /\ LinkName(path) \notin Dots) =>
           Tidy(J, B)

LEMMA AllocateFacts ==
  ASSUME NEW fs \in FS, fs.rc = "ok", NEW A \in SUBSET Node, Sound(fs.inode, A),
         \A x \in Node : fs.inode[x].kind = "free" => x \in A,
         NEW d \in Dirs(fs.inode, A), NEW path, IsPath(path),
         NEW u \in User \cup {NoUser}, NEW kind \in {"file", "dir"}, NEW perm \in Rights
  PROVE  AllocateDone(Allocate(fs, d, path, u, kind, perm), fs.inode, A, d, path)
<1> DEFINE I == fs.inode
           Right1(s) ==
             LET J == s.inode
                 B == IF s.rc = "ok" THEN A ELSE A \ Grown(I, J)
             IN  /\ s \in FS /\ Keeps(I, J) /\ Sound(J, B) /\ AllocateWay(s, I, d, path)
                 /\ \A x \in Node : x # d /\ I[x].kind # "free" => J[x].ent = I[x].ent
                 /\ s.rc # "ok" => J[d].ent = I[d].ent
                 /\ Ordered(I, A) => Ordered(J, B) /\ \A x \in Dirs(I, A) : Dotted(J, x) <=> Dotted(I, x)
                 /\ Ordered(I, A) /\ Tidy(I, A) /\ (s.rc = "ok" => Dotted(I, d) /\ LinkName(path) \notin Dots) =>
                      Tidy(J, B)
           name == LinkName(path)
           n == CHOOSE x \in FreeInodes(fs, d[1]) : \A y \in FreeInodes(fs, d[1]) : x[2] <= y[2]
           new == NewInode(u, kind, perm)
           made == [fs EXCEPT !.inode[n] = new]
           full == Resize(made, n, <<Entry(".", n[2]), Entry("..", d[2])>>)
<1>1. Allocate(fs, d, path, u, kind, perm) =
        IF Exists(fs, d, path) THEN Fails(fs, "EEXIST")
        ELSE IF FreeInodes(fs, d[1]) = {} THEN Fails(fs, "ENOSPC")
        ELSE IF kind # "dir" THEN AddEntry(made, d, n[2], name)
        ELSE IF ~Fits(made, n, 2) THEN Fails(fs, "ENOSPC")
        ELSE AddEntry(full, d, n[2], name)
  BY DEF Allocate
<1>2. d \in Node /\ d \in A /\ I \in Inodes /\ I[d].kind = "dir" /\ name \in Name
  BY FSFacts, LinkNameFacts DEF Dirs, IsPath
<1> HIDE DEF name
<1>3. ASSUME NEW rc \in Results, rc # "ok" PROVE Right1(Fails(fs, rc))
  <2> DEFINE s == Fails(fs, rc)
  <2>1. s \in FS /\ s.rc = rc /\ s.inode = I
    BY SameSound
  <2> HIDE DEF s
  <2>2. Grown(I, s.inode) = {} /\ A \ Grown(I, s.inode) = A
    BY <2>1 DEF Grown
  <2>3. Keeps(I, s.inode) /\ AllocateWay(s, I, d, path)
    BY <1>3, <2>1 DEF Keeps, AllocateWay
  <2> QED
    BY <1>3, <2>1, <2>2, <2>3 DEF s
<1>4. ASSUME FreeInodes(fs, d[1]) # {},
             NEW hs \in FS, NEW r \in Record, hs.rc = "ok", Made(I, hs.inode, n, d, r)
      PROVE  Right1(AddEntry(hs, d, n[2], name))
  <2> DEFINE s == AddEntry(hs, d, n[2], name)
             H == hs.inode
             J == s.inode
             B == IF s.rc = "ok" THEN A ELSE A \ Grown(I, J)
  <2>1. n \in Node /\ n[1] = d[1] /\ I[n].kind = "free" /\ n \in A
    BY <1>2, <1>4, FirstFree
  <2> HIDE DEF n
  <2>2. /\ s \in FS /\ s.rc \in {"ok", "ENOSPC"}
        /\ IF s.rc = "ok" THEN Added(H, J, d, n, name) ELSE Same(hs, s)
    BY <1>2, <1>4, <2>1, AddEntryFacts
  <2>3. H \in Inodes /\ J \in Inodes
    BY <1>4, <2>2, FSFacts
  <2>4. \A x \in Node : H[x] = IF x = n THEN r ELSE I[x]
    BY <1>4 DEF Made
  <2>5. r.kind # "free"
    BY <1>4 DEF Made
  <2> HIDE DEF s, J, H
  <2>6. CASE s.rc = "ok"
    <3>1. Added(H, J, d, n, name)
      BY <2>2, <2>6
    <3>2. /\ Sound(J, A)
          /\ \A x \in Node : x \notin {d, n} => J[x].ent = I[x].ent
          /\ Ordered(I, A) => Ordered(J, A) /\ \A x \in Dirs(I, A) : Dotted(J, x) <=> Dotted(I, x)
          /\ Ordered(I, A) /\ Tidy(I, A) /\ Dotted(I, d) /\ name \notin Dots => Tidy(J, A)
      BY <1>2, <1>4, <2>1, <2>3, <3>1, MadeAdded DEF H
    <3>3. Keeps(I, J)
      BY <2>1, <2>4, <3>1 DEF Keeps, Added, Rest
    <3>4. B = A
      BY <2>6
    <3>5. AllocateWay(s, I, d, path)
      BY <1>4, <2>1, <2>3, <2>6, <3>1 DEF AllocateWay, name, H, J
    <3> HIDE DEF B
    <3> QED
      BY <2>1, <2>2, <2>6, <3>2, <3>3, <3>4, <3>5 DEF s, J, name, B
  <2>7. CASE s.rc # "ok"
    <3>1. J = H
      BY <2>2, <2>7 DEF Same, J, H
    <3>2. Grown(I, J) = {n}
      BY <2>1, <2>4, <2>5, <3>1 DEF Grown
    <3>3. /\ Sound(J, A \ {n})
          /\ Ordered(I, A) => Ordered(J, A \ {n})
          /\ Tidy(I, A) => Tidy(J, A \ {n})
      BY <1>2, <1>4, <2>1, <2>3, <3>1, MadeLost DEF H
    <3>4. Keeps(I, J)
      BY <2>1, <2>4, <3>1 DEF Keeps
    <3>5. \A x \in Node : x # n => J[x] = I[x] /\ (Dotted(J, x) <=> Dotted(I, x))
      BY <2>4, <3>1 DEF Dotted
    <3>6. d # n /\ n \notin Dirs(I, A) /\ \A x \in Dirs(I, A) : x \in Node
      BY <1>2, <2>1 DEF Dirs
    <3>7. B = A \ {n}
      BY <2>7, <3>2
    <3>9. AllocateWay(s, I, d, path)
      BY <1>4, <2>1, <2>3, <2>7, <3>1 DEF AllocateWay, H, J
    <3>8. /\ s \in FS /\ Keeps(I, J) /\ Sound(J, B)
          /\ \A x \in Node : x # d /\ I[x].kind # "free" => J[x].ent = I[x].ent
          /\ s.rc # "ok" => J[d].ent = I[d].ent
          /\ Ordered(I, A) => Ordered(J, B) /\ \A x \in Dirs(I, A) : Dotted(J, x) <=> Dotted(I, x)
          /\ Tidy(I, A) => Tidy(J, B)
      <4> HIDE DEF B
      <4> QED
        BY <1>2, <2>1, <2>2, <3>3, <3>4, <3>5, <3>6, <3>7
    <3> HIDE DEF B
    <3> QED
      BY <3>8, <3>9 DEF s, J, name, B
  <2> QED
    BY <2>6, <2>7
<1>5. /\ new \in Record /\ new.kind = kind /\ new.ent = << >>
      /\ new.nlink = IF kind = "dir" THEN 2 ELSE 1
  BY NewInodeFacts
<1>6. ASSUME FreeInodes(fs, d[1]) # {}
      PROVE  /\ n \in Node /\ n[1] = d[1] /\ I[n].kind = "free"
             /\ made \in FS /\ made.rc = "ok" /\ made.room = fs.room
             /\ made.inode = [I EXCEPT ![n] = new]
             /\ \A x \in Node : made.inode[x] = IF x = n THEN new ELSE I[x]
  <2>1. n \in Node /\ n[1] = d[1] /\ I[n].kind = "free"
    BY <1>2, <1>6, FirstFree
  <2> HIDE DEF n, new
  <2>2. made \in FS /\ made.rc = "ok" /\ made.room = fs.room /\ made.inode = [I EXCEPT ![n] = new]
    BY <1>5, <2>1, FSFacts
  <2>3. DOMAIN I = Node
    BY <1>2 DEF Inodes
  <2> QED
    BY <2>1, <2>2, <2>3
<1> HIDE DEF made, new, n
<1>7. ASSUME FreeInodes(fs, d[1]) # {}, kind # "dir" PROVE Made(I, made.inode, n, d, new)
  BY <1>5, <1>6, <1>7 DEF Made
<1>8. ASSUME FreeInodes(fs, d[1]) # {}, kind = "dir", Fits(made, n, 2)
      PROVE  full \in FS /\ full.rc = "ok" /\ \E r \in Record : Made(I, full.inode, n, d, r)
  <2> DEFINE e == Dotting(n, d)
             r == [new EXCEPT !.ent = e]
  <2>1. <<Entry(".", n[2]), Entry("..", d[2])>> = e
    BY EntryFacts DEF Dotting
  <2>2. e \in Seq(Ent) /\ Len(e) = 2
    <3>1. n[2] \in Nat /\ d[2] \in Nat
      BY <1>2, <1>6, <1>8, NodeFacts
    <3>2. [name |-> ".", ino |-> n[2]] \in Ent /\ [name |-> "..", ino |-> d[2]] \in Ent
      BY <3>1 DEF Ent, Name, Dots
    <3> QED
      BY <3>2 DEF Dotting
  <2> HIDE DEF e
  <2>3. made.inode[n].ent = << >>
    BY <1>5, <1>6, <1>8
  <2>4. Blocks(Len(e)) - Blocks(Len(made.inode[n].ent)) <= made.room[n[1]]
    BY <1>8, <2>2, <2>3 DEF Fits
  <2>5. full = Resize(made, n, e)
    BY <2>1
  <2>6. full \in FS /\ full.rc = made.rc
    <3>1. made \in FS /\ n \in Node /\ e \in Seq(Ent)
      BY <1>6, <1>8, <2>2
    <3>2. Resize(made, n, e) \in FS /\ Resize(made, n, e).rc = made.rc
      BY ONLY <2>4, <3>1, ResizeFacts
    <3> QED
      BY <2>5, <3>2
  <2>7. full.inode = [made.inode EXCEPT ![n].ent = e]
    BY <1>6, <1>8, <2>5 DEF Resize, FS
  <2>8. r \in Record /\ r.ent = e /\ r.kind = new.kind /\ r.nlink = new.nlink
    BY <1>5, <2>2, RecordFacts
  <2>9. \A x \in Node : full.inode[x] = IF x = n THEN r ELSE I[x]
    <3>1. made.inode \in Inodes
      BY <1>6, <1>8, FSFacts
    <3>2. DOMAIN made.inode = Node
      BY <3>1 DEF Inodes
    <3> QED
      BY <1>6, <1>8, <2>7, <3>2
  <2>10. Made(I, full.inode, n, d, r)
    BY <1>5, <1>6, <1>8, <2>8, <2>9 DEF Made, e
  <2> QED
    BY <1>6, <1>8, <2>6, <2>8, <2>10
<1> HIDE DEF full, Right1
<1>9. Right1(Allocate(fs, d, path, u, kind, perm))
  <2>1. {"EEXIST", "ENOSPC"} \subseteq Results \ {"ok"}
    BY DEF Results
  <2>2. CASE Exists(fs, d, path) \/ FreeInodes(fs, d[1]) = {} \/ (kind = "dir" /\ ~Fits(made, n, 2))
    BY <1>1, <1>3, <2>1, <2>2
  <2>3. CASE ~ Exists(fs, d, path) /\ FreeInodes(fs, d[1]) # {} /\ kind # "dir"
    BY <1>1, <1>4, <1>5, <1>6, <1>7, <2>3
  <2>4. CASE ~ Exists(fs, d, path) /\ FreeInodes(fs, d[1]) # {} /\ kind = "dir" /\ Fits(made, n, 2)
    BY <1>1, <1>4, <1>8, <2>4
  <2> QED
    BY <2>2, <2>3, <2>4
<1> QED
  BY <1>9 DEF Right1, AllocateDone

-----------------------------------------------------------------------------
(* Moving: an entry for n is added to pt, its entry p of pf is removed,    *)
(* and ".." of a directory is replaced.                                    *)

LEMMA TidyKept ==
  ASSUME NEW I \in Inodes, NEW J \in Inodes, NEW A \in SUBSET Node, Tidy(I, A), Rest(I, J),
         \A x \in Node : Dotted(J, x) <=> Dotted(I, x),
         \A x \in Dirs(I, A) : ~ Dotted(I, x) => J[x].ent = I[x].ent /\ J[x].nlink = I[x].nlink,
         \A x \in Dirs(I, A) : Dotted(I, x) => \A k \in NamesIn(J, x) :
            \/ J[x].ent[k].name \notin Dots
            \/ \E i \in NamesIn(I, x) : J[x].ent[k].name = I[x].ent[i].name
  PROVE  Tidy(J, A)
<1>1. ASSUME NEW x \in Dirs(J, A)
      PROVE  IF Dotted(J, x) THEN \A k \in NamesIn(J, x) : J[x].ent[k].name \notin Dots
             ELSE J[x].ent = << >> /\ J[x].nlink = 0
  <2>1. x \in Dirs(I, A) /\ x \in Node
    BY DEF Dirs, Rest
  <2>2. CASE Dotted(I, x)
    <3>1. \A k \in NamesIn(I, x) : I[x].ent[k].name \notin Dots
      BY <2>1, <2>2 DEF Tidy
    <3> QED
      BY <2>1, <2>2, <3>1
  <2>3. CASE ~ Dotted(I, x)
    BY <2>1, <2>3 DEF Tidy
  <2> QED
    BY <2>2, <2>3
<1> QED
  BY <1>1 DEF Tidy

LEMMA AddedTidy ==
  ASSUME NEW I \in Inodes, NEW J \in Inodes, NEW d \in Node, NEW n \in Node, n[1] = d[1],
         NEW name \in Name, Added(I, J, d, n, name), NEW A \in SUBSET Node, Tidy(I, A),
         \A x \in Node : Dotted(J, x) <=> Dotted(I, x), Dotted(I, d), name \notin Dots
  PROVE  Tidy(J, A)
<1> DEFINE L == Len(I[d].ent)
<1>1. /\ \A x \in Node : x # d => J[x].ent = I[x].ent
      /\ Len(J[d].ent) = L + 1
      /\ DOMAIN J[d].ent = 1 .. L + 1
      /\ \A k \in 1 .. L : J[d].ent[k] = I[d].ent[k]
      /\ J[d].ent[L + 1] = [name |-> name, ino |-> n[2]]
      /\ Child(J, d, L + 1) = n
  BY AddedEntries
<1>2. L \in Nat /\ DOMAIN I[d].ent = 1 .. L
  BY InodeFacts
<1> HIDE DEF L
<1>3. ASSUME NEW x \in Dirs(I, A), ~ Dotted(I, x) PROVE J[x].ent = I[x].ent /\ J[x].nlink = I[x].nlink
  <2>1. x \in Node /\ x # d
    BY <1>3 DEF Dirs
  <2>2. J[x].nlink = I[x].nlink + 0 /\ I[x].nlink \in Nat
    BY <2>1, InodeFacts DEF Added
  <2> QED
    BY <1>1, <2>1, <2>2
<1>4. ASSUME NEW x \in Dirs(I, A), Dotted(I, x), NEW k \in NamesIn(J, x)
      PROVE  J[x].ent[k].name \notin Dots \/ \E i \in NamesIn(I, x) : J[x].ent[k].name = I[x].ent[i].name
  <2>1. x \in Node
    BY DEF Dirs
  <2>2. CASE x # d
    <3>1. k \in NamesIn(I, x)
      BY <1>1, <1>4, <2>1, <2>2 DEF NamesIn
    <3> QED
      BY <1>1, <2>1, <2>2, <3>1
  <2>3. CASE x = d /\ k = L + 1
    BY <1>1, <2>3
  <2>4. CASE x = d /\ k # L + 1
    <3>1. k \in 1 .. L /\ k \in NamesIn(I, d)
      BY <1>1, <1>2, <1>4, <2>1, <2>4 DEF NamesIn
    <3> QED
      BY <1>1, <2>4, <3>1
  <2> QED
    BY <2>2, <2>3, <2>4
<1>5. Rest(I, J)
  BY DEF Added
<1> QED
  BY <1>3, <1>4, <1>5, TidyKept

LEMMA RemovedTidy ==
  ASSUME NEW I \in Inodes, NEW J \in Inodes, NEW A \in SUBSET Node, NEW d \in Dirs(I, A),
         NEW p \in NamesIn(I, d), Removed(I, J, d, p), Tidy(I, A),
         \A x \in Node : Dotted(J, x) <=> Dotted(I, x)
  PROVE  Tidy(J, A)
<1> DEFINE L == Len(I[d].ent)
<1>0. d \in Node /\ p \in DOMAIN I[d].ent
  BY DEF Dirs, NamesIn
<1>1. /\ \A x \in Node : x # d => J[x].ent = I[x].ent
      /\ L \in Nat /\ L # 0 /\ p \in 1 .. L
      /\ DOMAIN J[d].ent = 1 .. L - 1
      /\ \A k \in 1 .. L - 1 :
           /\ J[d].ent[k] = I[d].ent[IF k = p THEN L ELSE k]
           /\ Child(J, d, k) = Child(I, d, IF k = p THEN L ELSE k)
  BY <1>0, RemovedEntries
<1>2. DOMAIN I[d].ent = 1 .. L /\ I[d].ent # << >>
  BY <1>0, InodeFacts
<1>3. L \in NamesIn(I, d)
  BY <1>1, <1>2 DEF NamesIn
<1> HIDE DEF L
<1>4. Dotted(I, d)
  BY <1>2 DEF Tidy
<1>5. ASSUME NEW x \in Dirs(I, A), ~ Dotted(I, x) PROVE J[x].ent = I[x].ent /\ J[x].nlink = I[x].nlink
  <2>1. x \in Node /\ x # d
    BY <1>4, <1>5 DEF Dirs
  <2>2. J[x].nlink = I[x].nlink - 0 /\ I[x].nlink \in Nat
    BY <2>1, InodeFacts DEF Removed
  <2> QED
    BY <1>1, <2>1, <2>2
<1>6. ASSUME NEW x \in Dirs(I, A), Dotted(I, x), NEW k \in NamesIn(J, x)
      PROVE  \E i \in NamesIn(I, x) : J[x].ent[k].name = I[x].ent[i].name
  <2>1. x \in Node
    BY DEF Dirs
  <2>2. CASE x # d
    <3>1. k \in NamesIn(I, x)
      BY <1>1, <1>6, <2>1, <2>2 DEF NamesIn
    <3> QED
      BY <1>1, <2>1, <2>2, <3>1
  <2>3. CASE x = d
    <3>1. k \in 1 .. L - 1 /\ k \in NamesIn(I, d)
      BY <1>1, <1>2, <1>6, <2>1, <2>3 DEF NamesIn
    <3>2. J[d].ent[k] = I[d].ent[IF k = p THEN L ELSE k]
      BY <1>1, <3>1
    <3> QED
      BY <1>3, <2>3, <3>1, <3>2
  <2> QED
    BY <2>2, <2>3
<1>7. Rest(I, J)
  BY DEF Removed
<1> QED
  BY <1>5, <1>6, <1>7, TidyKept

LEMMA ReplacedTidy ==
  ASSUME NEW I \in Inodes, NEW J \in Inodes, NEW A \in SUBSET Node, NEW n \in Node, Dotted(I, n),
         NEW i, Replaced(I, J, n, 2, i), Tidy(I, A),
         \A x \in Node : (Dotted(J, x) <=> Dotted(I, x)) /\ NamesIn(J, x) = NamesIn(I, x),
         \A x \in Node : \A k \in NamesIn(I, x) : J[x].ent[k] = I[x].ent[k]
  PROVE  Tidy(J, A)
<1>1. Rest(I, J)
  BY DEF Replaced
<1>2. \A x \in Dirs(I, A) : ~ Dotted(I, x) => J[x].ent = I[x].ent /\ J[x].nlink = I[x].nlink
  BY DEF Replaced, Dirs
<1>3. \A x \in Dirs(I, A) : \A k \in NamesIn(J, x) :
        \E j \in NamesIn(I, x) : J[x].ent[k].name = I[x].ent[j].name
  BY DEF Dirs
<1> QED
  BY <1>1, <1>2, <1>3, TidyKept

LEMMA MovedOrdered ==
  ASSUME NEW K \in Inodes, NEW H \in Inodes, NEW G \in Inodes, NEW J \in Inodes,
         NEW A \in SUBSET Node, Sound(K, A), Ordered(K, A),
         NEW pf \in Dirs(K, A), NEW pt \in Dirs(K, A), pf[1] = pt[1],
         NEW p \in NamesIn(K, pf), NEW n, n = Child(K, pf, p),
         NEW to \in Name, Added(K, H, pt, n, to), Removed(H, G, pf, p),
         IF K[n].kind = "dir" /\ pf # pt THEN Replaced(G, J, n, 2, pt[2]) ELSE J = G
  PROVE  /\ Ordered(J, A) /\ \A x \in Node : Dotted(J, x) <=> Dotted(K, x)
         /\ Tidy(K, A) /\ Dotted(K, pt) /\ to \notin Dots => Tidy(J, A)
<1> DEFINE L == Len(K[pt].ent)
           isdir == K[n].kind = "dir"
<1>1. /\ pf \in Node /\ pf \in A /\ pt \in Node /\ pt \in A /\ Good(K) /\ Closed(K, A)
      /\ K[pf].kind = "dir" /\ K[pt].kind = "dir" /\ p \in DOMAIN K[pf].ent /\ p \in Nat
      /\ \A e \in Disk : RootOf(e) \in Dirs(K, A)
      /\ Shape(K, A)
  BY NamesFacts DEF Sound, Dirs, Ordered
<1>2. n \in Node /\ n \in A /\ n[1] = pf[1] /\ n[1] = pt[1]
  <2>1. n \in A
    BY <1>1 DEF Closed
  <2>2. n[1] = pf[1]
    BY DEF Child
  <2> QED
    BY <2>1, <2>2
<1>3. isdir => /\ Sites(K, A, n) = {<<pf, p>>} /\ n \in Dirs(K, A) /\ n[2] # RootInode
               /\ Dotted(K, n) /\ Child(K, n, 2) = pf
  BY <1>1, SingleName
<1>4. \A e \in Disk : RootOf(e) # n
  <2>1. CASE isdir
    BY <1>3, <2>1, NodeFacts
  <2>2. CASE ~ isdir
    BY <1>1, <2>2 DEF Dirs
  <2> QED
    BY <2>1, <2>2
<1>5. ShapeBut(K, A, n)
  BY <1>1, <1>2, <1>4, ShapeWeaker
<1>6. /\ \A x \in Node : H[x].kind = K[x].kind /\ G[x].kind = K[x].kind /\ J[x].kind = K[x].kind
      /\ Dirs(H, A) = Dirs(K, A) /\ Dirs(G, A) = Dirs(K, A) /\ Dirs(J, A) = Dirs(K, A)
      /\ Rest(K, H) /\ Rest(H, G) /\ Rest(K, J)
  BY DEF Added, Removed, Replaced, Rest, Dirs
<1>7. /\ \A x \in Node : x # pt => H[x].ent = K[x].ent
      /\ Len(H[pt].ent) = L + 1
      /\ DOMAIN H[pt].ent = 1 .. L + 1
      /\ \A k \in 1 .. L : H[pt].ent[k] = K[pt].ent[k]
      /\ H[pt].ent[L + 1] = [name |-> to, ino |-> n[2]]
      /\ Child(H, pt, L + 1) = n
  BY <1>1, <1>2, AddedEntries
<1>8. L \in Nat /\ DOMAIN K[pt].ent = 1 .. L
  BY <1>1, InodeFacts
<1>9. /\ ShapeBut(H, A, n)
      /\ \A x \in Node : Dotted(H, x) <=> Dotted(K, x)
      /\ \A x \in Node : x # pt => NamesIn(H, x) = NamesIn(K, x)
      /\ NamesIn(H, pt) = NamesIn(K, pt) \cup {L + 1}
      /\ \A x \in Node : \A k \in DOMAIN K[x].ent : Child(H, x, k) = Child(K, x, k)
  <2>1. pt # n \/ Dotted(K, pt)
    BY <1>1, <1>3
  <2> QED
    BY <1>1, <1>2, <1>5, <2>1, AddedShape
<1> HIDE DEF L, isdir
<1>10. p \in NamesIn(H, pf) /\ Child(H, pf, p) = n /\ p \in DOMAIN H[pf].ent
  <2>1. p \in NamesIn(H, pf)
    BY <1>1, <1>9
  <2>2. Child(H, pf, p) = n
    BY <1>1, <1>9
  <2> QED
    BY <2>1, <2>2 DEF NamesIn
<1>11. Closed(H, A)
  BY <1>1, <1>2, AddedClosed
<1>12. /\ ShapeBut(G, A, n)
       /\ \A x \in Node : Dotted(G, x) <=> Dotted(H, x)
       /\ \A x \in Node : x # pf => NamesIn(G, x) = NamesIn(H, x)
       /\ Len(H[pf].ent) \in Nat /\ NamesIn(G, pf) = NamesIn(H, pf) \ {Len(H[pf].ent)}
       /\ \A x \in Node, k \in {1, 2} : k \in DOMAIN H[x].ent /\ Dotted(H, x) =>
            k \in DOMAIN G[x].ent /\ G[x].ent[k] = H[x].ent[k]
  <2>1. pf # Child(H, pf, p) \/ Dotted(H, pf)
    BY <1>1, <1>3, <1>9, <1>10 DEF isdir
  <2>2. ShapeBut(H, A, Child(H, pf, p)) /\ pf \in Dirs(H, A) /\ \A e \in Disk : RootOf(e) \in Dirs(H, A)
    BY <1>1, <1>6, <1>9, <1>10
  <2>3. /\ ShapeBut(G, A, Child(H, pf, p))
        /\ \A x \in Node : Dotted(G, x) <=> Dotted(H, x)
        /\ \A x \in Node : x # pf => NamesIn(G, x) = NamesIn(H, x)
        /\ Len(H[pf].ent) \in Nat /\ NamesIn(G, pf) = NamesIn(H, pf) \ {Len(H[pf].ent)}
        /\ \A x \in Node, k \in {1, 2} : k \in DOMAIN H[x].ent /\ Dotted(H, x) =>
             k \in DOMAIN G[x].ent /\ G[x].ent[k] = H[x].ent[k]
    BY <1>1, <1>10, <1>11, <2>1, <2>2, RemovedShape
  <2> QED
    BY <1>10, <2>3
<1>13. Closed(G, A)
  BY <1>1, <1>10, <1>11, RemovedClosed
<1>14. \A e \in Disk : RootOf(e) \in Dirs(G, A) /\ RootOf(e) \in Dirs(J, A)
  BY <1>1, <1>6
<1>15. ASSUME isdir PROVE \E j : Sites(G, A, n) = {<<pt, j>>}
  <2>1. L + 1 \in Nat /\ \A x \in Node : \A k \in NamesIn(K, x) : Child(H, x, k) = Child(K, x, k)
    BY <1>8, <1>9 DEF NamesIn
  <2>2. Sites(H, A, n) = Sites(K, A, n) \cup {<<pt, L + 1>>}
    BY <1>1, <1>2, <1>7, <1>9, <2>1, AddedSites
  <2>3. Sites(H, A, Child(H, pf, p)) = {<<pf, p>>, <<pt, L + 1>>}
    BY <1>3, <1>10, <1>15, <2>2
  <2>4. <<pt, L + 1>> # <<pf, p>>
    BY <1>1, <1>8
  <2>5. \A t, q : Sites(H, A, Child(H, pf, p)) = {<<pf, p>>, <<t, q>>} /\ <<t, q>> # <<pf, p>> =>
          \E j : Sites(G, A, Child(H, pf, p)) = {<<t, j>>}
    BY <1>1, <1>10, <1>12, RemovedSites
  <2>6. \E j : Sites(G, A, Child(H, pf, p)) = {<<pt, j>>}
    BY <2>3, <2>4, <2>5
  <2> QED
    BY <1>10, <2>6
<1>16. ASSUME isdir
       PROVE  n \in Dirs(G, A) /\ Dotted(G, n) /\ 2 \in DOMAIN G[n].ent /\ Child(G, n, 2) = pf
  <2>1. Dotted(K, n) /\ Child(K, n, 2) = pf /\ n \in Dirs(K, A)
    BY <1>3, <1>16
  <2>2. Begins(K, n)
    BY <1>5, <2>1 DEF ShapeBut
  <2>3. 2 \in DOMAIN K[n].ent
    BY <1>2, <2>2, NamesFacts
  <2>4. 2 \in DOMAIN H[n].ent /\ Child(H, n, 2) = pf
    <3>1. 2 \in DOMAIN H[n].ent
      BY <1>2, <1>7, <1>8, <2>3
    <3> QED
      BY <1>2, <1>9, <2>1, <2>3, <3>1
  <2>5. Dotted(H, n)
    BY <1>2, <1>9, <2>1
  <2>6. 2 \in DOMAIN G[n].ent /\ G[n].ent[2] = H[n].ent[2]
    BY <1>2, <1>12, <2>4, <2>5
  <2> QED
    BY <1>2, <1>6, <1>12, <2>1, <2>4, <2>5, <2>6 DEF Child
<1>17. /\ ShapeBut(J, A, n)
       /\ \A x \in Node : (Dotted(J, x) <=> Dotted(G, x)) /\ NamesIn(J, x) = NamesIn(G, x)
       /\ \A x \in Node : \A k \in NamesIn(G, x) : J[x].ent[k] = G[x].ent[k]
       /\ isdir => Child(J, n, 2) = pt
  <2>1. CASE isdir /\ pf # pt
    <3>1. Replaced(G, J, n, 2, pt[2])
      BY <2>1 DEF isdir
    <3>2. /\ ShapeBut(J, A, n) /\ Child(J, n, 2) = pt
          /\ \A x \in Node : (Dotted(J, x) <=> Dotted(G, x)) /\ NamesIn(J, x) = NamesIn(G, x)
          /\ \A x \in Node : \A k \in NamesIn(G, x) : J[x].ent[k] = G[x].ent[k]
      BY <1>1, <1>2, <1>12, <1>13, <1>14, <1>16, <2>1, <3>1, ReplacedShape
    <3> QED
      BY <3>2
  <2>2. CASE ~ (isdir /\ pf # pt)
    <3>1. J = G
      BY <2>2 DEF isdir
    <3> QED
      BY <1>12, <1>16, <2>2, <3>1
  <2> QED
    BY <2>1, <2>2
<1>18. Shape(J, A)
  <2>1. CASE isdir
    <3>1. PICK j : Sites(G, A, n) = {<<pt, j>>}
      BY <1>15, <2>1
    <3>2. Sites(J, A, n) = Sites(G, A, n)
      <4>1. \A q \in A \X Nat : q[2] \in NamesIn(J, q[1]) /\ Child(J, q[1], q[2]) = n
                             <=> q[2] \in NamesIn(G, q[1]) /\ Child(G, q[1], q[2]) = n
        <5> TAKE q \in A \X Nat
        <5>1. q[1] \in Node
          OBVIOUS
        <5> QED
          BY <1>17, <5>1 DEF Child
      <4> QED
        BY <4>1 DEF Sites
    <3>3. Dotted(J, n) /\ Child(J, n, 2) = pt /\ n[2] # RootInode /\ pt \in Dirs(J, A)
      BY <1>2, <1>3, <1>6, <1>16, <1>17, <2>1
    <3> QED
      BY <1>2, <1>14, <1>17, <3>1, <3>2, <3>3, ShapeWhole
  <2>2. CASE ~ isdir
    <3>1. J[n].kind # "dir"
      BY <1>2, <1>6, <2>2 DEF isdir
    <3> QED
      BY <1>2, <1>14, <1>17, <3>1, ShapeWhole
  <2> QED
    BY <2>1, <2>2
<1>19. ASSUME NEW m \in A PROVE Bal(J, A, m) = 0
  <2>1. Bal(K, A, m) = 0 /\ m \in Node
    BY <1>19 DEF Ordered, Counted
  <2>2. Bal(H, A, m) = Bal(K, A, m) + (IF m = pt THEN One(K, n) ELSE 0) - (IF m = n THEN 1 ELSE 0)
    BY <1>1, <1>2, <2>1, AddedBal
  <2>3. Bal(G, A, m) = Bal(H, A, m) - (IF m = pf THEN One(H, Child(H, pf, p)) ELSE 0)
                          + (IF m = Child(H, pf, p) THEN 1 ELSE 0)
    BY <1>1, <1>10, <2>1, RemovedBal
  <2>4. One(K, n) = (IF isdir THEN 1 ELSE 0) /\ One(H, n) = IF isdir THEN 1 ELSE 0
    BY <1>2, <1>6 DEF One, isdir
  <2>5. CASE isdir /\ pf # pt
    <3>1. Replaced(G, J, n, 2, pt[2])
      BY <2>5 DEF isdir
    <3>2. Bal(J, A, m) = Bal(G, A, m) + (IF m = Child(G, n, 2) THEN 1 ELSE 0) - (IF m = pt THEN 1 ELSE 0)
      BY <1>1, <1>2, <1>16, <2>1, <2>5, <3>1, ReplacedBal
    <3> QED
      BY <1>10, <1>16, <2>1, <2>2, <2>3, <2>4, <2>5, <3>2
  <2>6. CASE ~ (isdir /\ pf # pt)
    <3>1. J = G
      BY <2>6 DEF isdir
    <3> QED
      BY <1>10, <2>1, <2>2, <2>3, <2>4, <2>6, <3>1
  <2> QED
    BY <2>5, <2>6
<1>20. \A x \in Node : Dotted(J, x) <=> Dotted(K, x)
  BY <1>9, <1>12, <1>17
<1>21. ASSUME Tidy(K, A), Dotted(K, pt), to \notin Dots PROVE Tidy(J, A)
  <2>1. Tidy(H, A)
    BY <1>1, <1>2, <1>9, <1>21, AddedTidy
  <2>2. Tidy(G, A)
    BY <1>6, <1>10, <1>12, <2>1, RemovedTidy
  <2>3. CASE isdir /\ pf # pt
    <3>1. Replaced(G, J, n, 2, pt[2])
      BY <2>3 DEF isdir
    <3> QED
      BY <1>2, <1>16, <1>17, <2>2, <2>3, <3>1, ReplacedTidy
  <2>4. CASE ~ (isdir /\ pf # pt)
    <3>1. J = G
      BY <2>4 DEF isdir
    <3> QED
      BY <2>2, <3>1
  <2> QED
    BY <2>3, <2>4
<1> QED
  BY <1>18, <1>19, <1>20, <1>21 DEF Ordered, Counted

(* The entry that is moved is still there once the entry of the new name   *)
(* is gone.                                                                *)
LEMMA NameKept ==
  ASSUME NEW I \in Inodes, NEW K \in Inodes, NEW A \in SUBSET Node, Sound(I, A),
         NEW pf \in Dirs(I, A), NEW pt \in Dirs(I, A), NEW p, Deleted(I, K, pt, p),
         NEW i \in NamesIn(I, pf), <<pf, i>> # <<pt, p>>,
         \A k \in DOMAIN I[pf].ent : I[pf].ent[k].name = I[pf].ent[i].name => k = i
  PROVE  \E j \in DOMAIN K[pf].ent :
           /\ K[pf].ent[j] = I[pf].ent[i]
           /\ \A k \in DOMAIN K[pf].ent : K[pf].ent[k].name = I[pf].ent[i].name => k = j
<1> DEFINE t == Child(I, pt, p)
           L == Len(I[pt].ent)
<1>1. /\ p \in NamesIn(I, pt) /\ t # pt
      /\ I[t].kind = "dir" => NamesIn(I, t) = {}
      /\ K[pt].ent = CutAt(I[pt].ent, p)
      /\ \A x \in Node : x \notin {pt, t} => K[x].ent = I[x].ent
  BY DEF Deleted
<1>2. pf \in Node /\ pt \in Node /\ I[pf].kind = "dir" /\ i \in DOMAIN I[pf].ent
  BY DEF Dirs, NamesIn
<1>3. pf # t
  BY <1>1, <1>2
<1>4. CASE pf # pt
  BY <1>1, <1>2, <1>3, <1>4
<1>5. CASE pf = pt
  <2>1. L \in Nat /\ DOMAIN I[pt].ent = 1 .. L /\ I[pt].ent \in Seq(Ent) /\ p \in 1 .. L /\ i \in 1 .. L
    BY <1>1, <1>2, <1>5, InodeFacts DEF NamesIn
  <2> HIDE DEF L
  <2>2. DOMAIN K[pt].ent = 1 .. L - 1 /\ \A k \in 1 .. L - 1 : K[pt].ent[k] = I[pt].ent[IF k = p THEN L ELSE k]
    BY <1>1 DEF CutAt, L
  <2>3. i # p
    BY <1>5
  <2>4. CASE i = L
    <3>1. p \in 1 .. L - 1 /\ K[pt].ent[p] = I[pt].ent[i]
      BY <2>1, <2>2, <2>3, <2>4
    <3>2. ASSUME NEW k \in 1 .. L - 1, K[pt].ent[k].name = I[pt].ent[i].name PROVE k = p
      <4> SUFFICES ASSUME k # p PROVE FALSE
        OBVIOUS
      <4>1. K[pt].ent[k] = I[pt].ent[k] /\ k \in 1 .. L
        BY <2>1, <2>2
      <4>2. k = i
        BY <1>5, <2>1, <3>2, <4>1
      <4> QED
        BY <2>1, <2>4, <4>2
    <3> QED
      BY <1>5, <2>2, <3>1, <3>2
  <2>5. CASE i # L
    <3>1. i \in 1 .. L - 1 /\ K[pt].ent[i] = I[pt].ent[i]
      BY <2>1, <2>2, <2>3, <2>5
    <3>2. ASSUME NEW k \in 1 .. L - 1, K[pt].ent[k].name = I[pt].ent[i].name PROVE k = i
      <4>1. CASE k # p
        <5>1. K[pt].ent[k] = I[pt].ent[k] /\ k \in 1 .. L
          BY <2>1, <2>2, <4>1
        <5> QED
          BY <1>5, <2>1, <3>2, <5>1
      <4>2. CASE k = p
        <5>1. K[pt].ent[k] = I[pt].ent[L] /\ L \in 1 .. L
          BY <2>1, <2>2, <4>2
        <5>2. L = i
          BY <1>5, <2>1, <3>2, <5>1
        <5> QED
          BY <2>5, <5>2
      <4> QED
        BY <4>1, <4>2
    <3> QED
      BY <1>5, <2>2, <3>1, <3>2
  <2> QED
    BY <2>4, <2>5
<1> QED
  BY <1>4, <1>5

(* An entry that is not "." or ".." is one of the names.                   *)
LEMMA PlainNames ==
  ASSUME NEW I \in Inodes, NEW A \in SUBSET Node, Shape(I, A), NEW d \in Dirs(I, A),
         NEW p \in DOMAIN I[d].ent, I[d].ent[p].name \notin Dots
  PROVE  p \in NamesIn(I, d)
<1>1. d \in Node
  BY DEF Dirs
<1>2. ASSUME Dotted(I, d) PROVE p \notin {1, 2}
  <2>1. Begins(I, d)
    BY <1>2 DEF Shape, ShapeBut
  <2> QED
    BY <2>1 DEF Begins, Dots
<1> QED
  BY <1>1, <1>2, NamesFacts

(* ".." of a directory that moves is at 2 still.                           *)
LEMMA MovedDots ==
  ASSUME NEW K \in Inodes, NEW H \in Inodes, NEW G \in Inodes,
         NEW A \in SUBSET Node, Sound(K, A), Shape(K, A),
         NEW pf \in Dirs(K, A), NEW pt \in Dirs(K, A), pf[1] = pt[1],
         NEW p \in NamesIn(K, pf), NEW n, n = Child(K, pf, p), K[n].kind = "dir",
         NEW to \in Name, Added(K, H, pt, n, to), Removed(H, G, pf, p)
  PROVE  2 \in DOMAIN G[n].ent /\ G[n].ent[1].name = "." /\ G[n].ent[2].name = ".."
<1>1. /\ pf \in Node /\ pt \in Node /\ p \in DOMAIN K[pf].ent /\ Good(K) /\ Closed(K, A)
  BY DEF Sound, Dirs, NamesIn
<1>2. n \in Dirs(K, A) /\ Dotted(K, n)
  BY <1>1, SingleName
<1>3. n \in Node /\ n[1] = pf[1]
  BY <1>2 DEF Dirs, Child
<1>4. Begins(K, n)
  BY <1>2 DEF Shape, ShapeBut
<1>5. 1 \in DOMAIN K[n].ent /\ 2 \in DOMAIN K[n].ent /\ K[n].ent[1].name = "." /\ K[n].ent[2].name = ".."
  BY <1>3, <1>4, NamesFacts DEF Begins
<1> DEFINE L == Len(K[pt].ent)
           M == Len(H[pf].ent)
<1>6. /\ \A x \in Node : x # pt => H[x].ent = K[x].ent
      /\ Len(H[pt].ent) = L + 1
      /\ DOMAIN H[pt].ent = 1 .. L + 1
      /\ \A k \in 1 .. L : H[pt].ent[k] = K[pt].ent[k]
      /\ H[pt].ent[L + 1] = [name |-> to, ino |-> n[2]]
      /\ Child(H, pt, L + 1) = n
  BY <1>1, <1>3, AddedEntries
<1>7. L \in Nat /\ DOMAIN K[pt].ent = 1 .. L
  BY <1>1, InodeFacts
<1>8. \A x \in Node : \A k \in DOMAIN K[x].ent : k \in DOMAIN H[x].ent /\ H[x].ent[k] = K[x].ent[k]
  <2> TAKE x \in Node
  <2> TAKE k \in DOMAIN K[x].ent
  <2>1. CASE x # pt
    BY <1>6, <2>1
  <2>2. CASE x = pt
    <3>1. k \in 1 .. L /\ k \in 1 .. L + 1
      BY <1>7, <2>2
    <3> HIDE DEF L
    <3> QED
      BY <1>6, <2>2, <3>1
  <2> QED
    BY <2>1, <2>2
<1>9. p \in DOMAIN H[pf].ent
  BY <1>1, <1>8
<1>10. /\ \A x \in Node : x # pf => G[x].ent = H[x].ent
       /\ M \in Nat /\ M # 0 /\ p \in 1 .. M
       /\ DOMAIN G[pf].ent = 1 .. M - 1
       /\ \A k \in 1 .. M - 1 :
            /\ G[pf].ent[k] = H[pf].ent[IF k = p THEN M ELSE k]
            /\ Child(G, pf, k) = Child(H, pf, IF k = p THEN M ELSE k)
  BY <1>1, <1>9, RemovedEntries
<1>11. \A k \in {1, 2} : k \in DOMAIN G[n].ent /\ G[n].ent[k] = H[n].ent[k]
  <2> HIDE DEF M
  <2>1. CASE n # pf
    BY <1>3, <1>5, <1>8, <1>10, <2>1
  <2>2. CASE n = pf
    <3>1. p > 2
      BY <1>2, <2>2 DEF NamesIn
    <3>2. \A k \in {1, 2} : k \in 1 .. M - 1 /\ k # p
      BY <1>10, <3>1
    <3> QED
      BY <1>10, <2>2, <3>2
  <2> QED
    BY <2>1, <2>2
<1> QED
  BY <1>3, <1>5, <1>8, <1>11

LEMMA MayFacts ==
  ASSUME NEW fs, NEW from, NEW start
  PROVE  CanDirmove(fs, from, start) \in {"ENOENT", "EINVAL", "ok", "endless"}
BY DEF CanDirmove

(* What a change of the names of a disk in order leaves in order.          *)
Stays(I, J, A) ==
  Ordered(J, A) /\ \A x \in Node : Dotted(J, x) => Dotted(I, x)

Single(I, d, name) ==
  \A j, k \in DOMAIN I[d].ent : I[d].ent[j].name = name /\ I[d].ent[k].name = name => j = k

(* The new name is free, or what has it is deleted.                        *)
LEMMA GoneFacts ==
  ASSUME NEW fs \in FS, fs.rc = "ok", NEW A \in SUBSET Node, Sound(fs.inode, A),
         NEW pf \in Dirs(fs.inode, A), NEW pt \in Dirs(fs.inode, A),
         NEW from \in Plain, NEW to \in Plain, Has(fs, pf, from)
  PROVE  LET gone == IF Has(fs, pt, to) THEN DeallocateFile(fs, pt, to) ELSE fs
             I == fs.inode
             K == gone.inode
             n == Child(I, pf, Place(fs, pf, from))
             p == Place(gone, pf, from)
         IN  /\ gone \in FS /\ Rest(I, K) /\ Sound(K, A)
             /\ Ordered(I, A) => Stays(I, K, A) /\ (Tidy(I, A) => Tidy(K, A)) /\ (Dotted(I, pt) => Dotted(K, pt))
             /\ gone.rc = "ok" /\ Ordered(I, A) /\ <<pf, from>> # <<pt, to>> /\ Single(I, pf, from) =>
                  /\ p \in NamesIn(K, pf) /\ Child(K, pf, p) = n /\ K[pf].ent[p].name = from
                  /\ Single(K, pf, from)
<1> DEFINE gone == IF Has(fs, pt, to) THEN DeallocateFile(fs, pt, to) ELSE fs
           I == fs.inode
           K == gone.inode
           i == Place(fs, pf, from)
           n == Child(I, pf, i)
           p == Place(gone, pf, from)
           q == Place(fs, pt, to)
<1>1. pf \in Node /\ pt \in Node /\ I \in Inodes /\ I[pf].ent \in Seq(Ent) /\ I[pt].ent \in Seq(Ent)
  BY FSFacts, InodeFacts DEF Dirs
<1>2. i \in DOMAIN I[pf].ent /\ I[pf].ent[i].name = from
  BY <1>1, PlaceFacts DEF Has
<1>3. from \notin Dots /\ to \notin Dots
  BY NamesAssumption
<1>4. Ordered(I, A) => i \in NamesIn(I, pf)
  BY <1>1, <1>2, <1>3, PlainNames DEF Ordered
<1>5. CASE ~ Has(fs, pt, to)
  <2>1. gone = fs
    BY <1>5
  <2> HIDE DEF gone
  <2>2. Rest(I, I)
    BY DEF Rest
  <2> QED
    BY <1>1, <1>2, <1>4, <2>1, <2>2 DEF gone, Stays
<1>6. CASE Has(fs, pt, to)
  <2>1. gone = DeallocateFile(fs, pt, to)
    BY <1>6
  <2>2. /\ gone \in FS /\ Rest(I, K) /\ Sound(K, A)
        /\ Ordered(I, A) => IF gone.rc = "ok" THEN Ordered(K, A) /\ Deleted(I, K, pt, q) ELSE K = I
    BY <2>1, DeallocateFacts
  <2>3. q \in DOMAIN I[pt].ent /\ I[pt].ent[q].name = to
    BY <1>1, <1>6, PlaceFacts DEF Has
  <2> HIDE DEF gone
  <2>4. K \in Inodes
    BY <2>2, FSFacts
  <2> HIDE DEF K, I
  <2>5. CASE Ordered(I, A) /\ gone.rc = "ok"
    <3>1. Ordered(K, A) /\ Deleted(I, K, pt, q)
      BY <2>2, <2>5
    <3>2. Stays(I, K, A) /\ (Dotted(I, pt) => Dotted(K, pt))
      BY <1>1, <3>1 DEF Deleted, Stays
    <3>3. Tidy(I, A) => Tidy(K, A)
      BY <1>1, <2>2, <2>4, <3>1, DeletedTidy DEF I
    <3>4. ASSUME <<pf, from>> # <<pt, to>>, Single(I, pf, from)
          PROVE  /\ p \in NamesIn(K, pf) /\ Child(K, pf, p) = n /\ K[pf].ent[p].name = from
                 /\ Single(K, pf, from)
      <4>1. <<pf, i>> # <<pt, q>>
        BY <1>2, <2>3, <3>4
      <4>2. \A k \in DOMAIN I[pf].ent : I[pf].ent[k].name = I[pf].ent[i].name => k = i
        BY <1>2, <3>4 DEF Single
      <4>3. Sound(I, A) /\ pf \in Dirs(I, A) /\ pt \in Dirs(I, A) /\ i \in NamesIn(I, pf)
        BY <1>4, <2>5 DEF I
      <4>4. PICK j \in DOMAIN K[pf].ent :
              /\ K[pf].ent[j] = I[pf].ent[i]
              /\ \A k \in DOMAIN K[pf].ent : K[pf].ent[k].name = I[pf].ent[i].name => k = j
        BY ONLY <1>1, <2>4, <3>1, <4>1, <4>2, <4>3, NameKept, A \in SUBSET Node
      <4>5. K[pf].ent[j].name = from /\ \A k \in DOMAIN K[pf].ent : K[pf].ent[k].name = from => k = j
        BY <1>2, <4>4
      <4>6. K[pf].ent \in Seq(Ent)
        BY <1>1, <2>4, InodeFacts
      <4>7. p # 0 /\ p \in DOMAIN K[pf].ent /\ K[pf].ent[p].name = from
        BY <4>5, <4>6, PlaceFacts DEF K
      <4>8. p = j
        BY <4>5, <4>7
      <4>9. Child(K, pf, p) = n
        BY <4>4, <4>8 DEF Child
      <4>10. p \in NamesIn(K, pf)
        <5>1. pf \in Dirs(K, A)
          BY <1>1, <2>2 DEF Rest, Dirs, I
        <5>2. Shape(K, A) /\ K[pf].ent[p].name \notin Dots
          BY <1>3, <3>1, <4>7 DEF Ordered
        <5> QED
          BY <2>4, <4>7, <5>1, <5>2, PlainNames
      <4> QED
        BY <4>5, <4>7, <4>9, <4>10 DEF Single
    <3> QED
      BY <2>2, <3>2, <3>3, <3>4 DEF K, I, gone
  <2>6. CASE Ordered(I, A) /\ gone.rc # "ok"
    <3>1. K = I
      BY <2>2, <2>6
    <3> QED
      BY <2>2, <2>6, <3>1 DEF Stays, K, I, gone
  <2>7. CASE ~ Ordered(I, A)
    BY <2>2, <2>7 DEF K, I, gone
  <2> QED
    BY <2>5, <2>6, <2>7
<1> QED
  BY <1>5, <1>6

(* The entry p of pf goes to pt with the name to, and ".." of a directory  *)
(* is replaced.                                                            *)
Moved(K, J, pf, p, pt, to) ==
  LET n == Child(K, pf, p) IN
  \E H, G \in Inodes :
    /\ Added(K, H, pt, n, to) /\ Removed(H, G, pf, p)
    /\ IF K[n].kind = "dir" /\ pf # pt THEN Replaced(G, J, n, 2, pt[2]) ELSE J = G

LEMMA RenameFacts ==
  ASSUME NEW fs \in FS, fs.rc = "ok", NEW A \in SUBSET Node, Sound(fs.inode, A),
         NEW pf \in Dirs(fs.inode, A), NEW pt \in Dirs(fs.inode, A), pf[1] = pt[1],
         NEW from \in Plain, NEW to \in Plain, Has(fs, pf, from)
  PROVE  LET r == RenameFile(fs, pf, from, pt, to)
             I == fs.inode
             J == r.inode
             n == Target(fs, pf, from)
             gone == IF Has(fs, pt, to) THEN DeallocateFile(fs, pt, to) ELSE fs
             K == gone.inode
         IN  /\ r \in FS /\ Rest(I, J) /\ Sound(J, A)
             /\ Ordered(I, A) /\ <<pf, from>> # <<pt, to>> /\ Single(I, pf, from) =>
                  /\ Stays(I, J, A) /\ (Tidy(I, A) /\ Dotted(I, pt) => Tidy(J, A))
                  /\ \/ J = K
                     \/ /\ gone.rc = "ok" /\ (IsDir(fs, n) => CanDirmove(gone, n, pt) = "ok")
                        /\ Moved(K, J, pf, Place(gone, pf, from), pt, to)
<1> DEFINE I == fs.inode
           n == Target(fs, pf, from)
           gone == IF Has(fs, pt, to) THEN DeallocateFile(fs, pt, to) ELSE fs
           may == IF IsDir(fs, n) THEN CanDirmove(gone, n, pt) ELSE "ok"
           both == AddEntry(gone, pt, n[2], to)
           moved == RemoveEntry(both, pf, from)
           up == ReplaceEntry(moved, n, "..", pt[2])
           Fine == Ordered(I, A) /\ <<pf, from>> # <<pt, to>> /\ Single(I, pf, from)
           K == gone.inode
           Way(J) == \/ J = K
                     \/ gone.rc = "ok" /\ may = "ok" /\ Moved(K, J, pf, Place(gone, pf, from), pt, to)
           Right1(s) == /\ s \in FS /\ Rest(I, s.inode) /\ Sound(s.inode, A)
                        /\ Fine => /\ Stays(I, s.inode, A) /\ (Tidy(I, A) /\ Dotted(I, pt) => Tidy(s.inode, A))
                                   /\ Way(s.inode)
           H == both.inode
           G == moved.inode
           p == Place(gone, pf, from)
           q == Place(both, pf, from)
<1>1. RenameFile(fs, pf, from, pt, to) =
        IF gone.rc # "ok" THEN gone
        ELSE IF may # "ok" THEN Fails(gone, may)
        ELSE IF both.rc # "ok" THEN both
        ELSE IF moved.rc # "ok" THEN moved
        ELSE IF IsDir(fs, n) /\ pf # pt THEN up
        ELSE moved
  BY DEF RenameFile
<1>2. may \in Results
  <2>1. CanDirmove(gone, n, pt) \in {"ENOENT", "EINVAL", "ok", "endless"}
    BY MayFacts
  <2> QED
    BY <2>1 DEF Results
<1>3. /\ gone \in FS /\ Rest(I, K) /\ Sound(K, A)
      /\ Ordered(I, A) => Stays(I, K, A) /\ (Tidy(I, A) => Tidy(K, A)) /\ (Dotted(I, pt) => Dotted(K, pt))
      /\ gone.rc = "ok" /\ Ordered(I, A) /\ <<pf, from>> # <<pt, to>> /\ Single(I, pf, from) =>
           /\ p \in NamesIn(K, pf) /\ Child(K, pf, p) = n /\ K[pf].ent[p].name = from
           /\ Single(K, pf, from)
  <2>1. n = Child(I, pf, Place(fs, pf, from))
    BY DEF Target, Child
  <2> QED
    BY <2>1, GoneFacts
<1>4. from \notin Dots /\ to \notin Dots /\ to \in Name
  BY NamesAssumption DEF Name
<1>5. pf \in Node /\ pt \in Node /\ pt \in A /\ I \in Inodes /\ Good(I)
  BY FSFacts DEF Dirs, Sound
<1>6. n \in Node /\ n \in A /\ n[1] = pt[1] /\ I[n].kind # "free"
  <2> DEFINE k == Place(fs, pf, from)
  <2>1. I[pf].ent \in Seq(Ent)
    BY <1>5, InodeFacts
  <2>2. k \in DOMAIN I[pf].ent
    BY <2>1, PlaceFacts DEF Has
  <2>3. n = Child(I, pf, k)
    BY DEF Target, Child
  <2> HIDE DEF k
  <2>4. n \in A /\ I[n].kind # "free" /\ pf \in A
    BY <1>5, <2>2, <2>3 DEF Sound, Closed, Good, Dirs
  <2> QED
    BY <2>3, <2>4 DEF Child
<1> HIDE DEF n, gone, may
<1>7. Right1(gone)
  BY <1>3
<1>8. Right1(Fails(gone, may))
  <2>1. Fails(gone, may) \in FS /\ Fails(gone, may).inode = gone.inode
    BY <1>2, <1>3, SameSound
  <2> QED
    BY <1>3, <2>1
<1>9. K \in Inodes /\ K[pf].kind = "dir" /\ K[pt].kind = "dir" /\ K[n].kind = I[n].kind
      /\ pf \in Dirs(K, A) /\ pt \in Dirs(K, A) /\ Good(K) /\ Closed(K, A)
  BY <1>3, <1>5, <1>6, FSFacts DEF Rest, Dirs, Sound
<1>10. ASSUME gone.rc = "ok"
       PROVE  /\ both \in FS /\ both.rc \in {"ok", "ENOSPC"}
              /\ IF both.rc = "ok" THEN Added(K, H, pt, n, to) ELSE Same(gone, both)
  BY <1>3, <1>4, <1>5, <1>6, <1>10, AddEntryFacts
<1>11. ASSUME gone.rc = "ok", both.rc # "ok" PROVE Right1(both)
  <2>1. both.inode = gone.inode /\ both \in FS
    BY <1>10, <1>11 DEF Same
  <2> QED
    BY <1>3, <2>1
<1> HIDE DEF both, K, H
<1>12. ASSUME gone.rc = "ok", both.rc = "ok"
       PROVE  Added(K, H, pt, n, to) /\ H \in Inodes /\ Good(H) /\ Closed(H, A) /\ Rest(K, H)
  <2>1. Added(K, H, pt, n, to) /\ H \in Inodes
    BY <1>10, <1>12, FSFacts DEF H
  <2>2. Good(H) /\ Closed(H, A)
    BY <1>4, <1>5, <1>6, <1>9, <2>1, AddedGood, AddedClosed
  <2> QED
    BY <2>1, <2>2 DEF Added
<1>13. ASSUME gone.rc = "ok", both.rc = "ok"
       PROVE  /\ moved \in FS
              /\ IF Has(both, pf, from) THEN moved.rc = "ok" /\ Removed(H, G, pf, q)
                 ELSE moved.rc = "ENOENT" /\ Same(both, moved)
  BY <1>4, <1>5, <1>10, <1>12, <1>13, RemoveEntryFacts DEF H
<1>14. ASSUME gone.rc = "ok", both.rc = "ok", Fine
       PROVE  Has(both, pf, from) /\ q = p
  <2>1. /\ p \in NamesIn(K, pf) /\ K[pf].ent[p].name = from /\ Single(K, pf, from)
    BY <1>3, <1>14
  <2> DEFINE L == Len(K[pt].ent)
  <2>2. /\ \A x \in Node : x # pt => H[x].ent = K[x].ent
        /\ Len(H[pt].ent) = L + 1
        /\ DOMAIN H[pt].ent = 1 .. L + 1
        /\ \A k \in 1 .. L : H[pt].ent[k] = K[pt].ent[k]
        /\ H[pt].ent[L + 1] = [name |-> to, ino |-> n[2]]
        /\ Child(H, pt, L + 1) = n
    BY <1>4, <1>5, <1>6, <1>9, <1>12, <1>14, AddedEntries
  <2>3. L \in Nat /\ DOMAIN K[pt].ent = 1 .. L
    BY <1>5, <1>9, InodeFacts
  <2>4. H[pf].ent \in Seq(Ent)
    BY <1>5, <1>12, <1>14, InodeFacts
  <2> HIDE DEF L
  <2>5. p \in DOMAIN K[pf].ent
    BY <2>1 DEF NamesIn
  <2>6. p \in DOMAIN H[pf].ent /\ H[pf].ent[p].name = from
    <3>1. CASE pf = pt
      <4>1. p \in 1 .. L /\ p \in 1 .. L + 1
        BY <2>3, <2>5, <3>1
      <4> QED
        BY <2>1, <2>2, <3>1, <4>1
    <3>2. CASE pf # pt
      BY <1>5, <2>1, <2>2, <2>5, <3>2
    <3> QED
      BY <3>1, <3>2
  <2>7. ASSUME NEW k \in DOMAIN H[pf].ent, H[pf].ent[k].name = from PROVE k = p
    <3>1. CASE pf # pt
      BY <1>5, <2>1, <2>2, <2>5, <2>7, <3>1 DEF Single
    <3>2. CASE pf = pt /\ k = L + 1
      BY <1>14, <2>2, <2>7, <3>2
    <3>3. CASE pf = pt /\ k # L + 1
      <4>1. k \in 1 .. L
        BY <2>2, <2>3, <2>7, <3>3
      <4>2. K[pf].ent[k].name = from /\ k \in DOMAIN K[pf].ent
        BY <2>2, <2>3, <2>7, <3>3, <4>1
      <4> QED
        BY <2>1, <2>5, <4>2 DEF Single
    <3> QED
      BY <3>1, <3>2, <3>3
  <2>8. q # 0 /\ q \in DOMAIN H[pf].ent /\ H[pf].ent[q].name = from
    BY <2>4, <2>6, PlaceFacts DEF H
  <2>9. q = p
    BY <2>7, <2>8
  <2> QED
    BY <2>8, <2>9 DEF Has
<1>15. ASSUME gone.rc = "ok", both.rc = "ok", moved.rc # "ok" PROVE Right1(moved)
  <2>1. ~ Has(both, pf, from) /\ moved.inode = H /\ moved \in FS
    BY <1>13, <1>15 DEF Same, H
  <2>2. ~ Fine
    BY <1>14, <1>15, <2>1
  <2>3. Rest(I, H)
    BY <1>3, <1>12, <1>15 DEF Rest, K
  <2>4. Dirs(H, A) = Dirs(K, A)
    BY <1>12, <1>15 DEF Rest, Dirs
  <2>5. Sound(H, A)
    BY <1>3, <1>12, <1>15, <2>4 DEF Sound, K
  <2> QED
    BY <2>1, <2>2, <2>3, <2>5
<1> HIDE DEF moved, G
<1>16. ASSUME gone.rc = "ok", both.rc = "ok", moved.rc = "ok"
       PROVE  /\ Removed(H, G, pf, q) /\ G \in Inodes /\ Good(G) /\ Closed(G, A)
              /\ Rest(I, G) /\ Dirs(G, A) = Dirs(I, A) /\ moved \in FS
  <2>1. Has(both, pf, from) /\ Removed(H, G, pf, q) /\ moved \in FS
    BY <1>13, <1>16
  <2>2. G \in Inodes
    BY <2>1, FSFacts DEF G
  <2>3. q \in DOMAIN H[pf].ent /\ H[pf].ent[q].name = from
    <3>1. H[pf].ent \in Seq(Ent)
      BY <1>5, <1>12, <1>16, InodeFacts
    <3> QED
      BY <2>1, <3>1, PlaceFacts DEF Has, H
  <2>4. Good(G) /\ Closed(G, A)
    BY <1>4, <1>5, <1>12, <1>16, <2>1, <2>2, <2>3, RemovedGood, RemovedClosed
  <2>5. Rest(I, G)
    BY <1>3, <1>12, <1>16, <2>1 DEF Rest, Removed, K
  <2>6. Dirs(G, A) = Dirs(I, A)
    BY <2>5 DEF Rest, Dirs
  <2> QED
    BY <2>1, <2>2, <2>4, <2>5, <2>6
<1> HIDE DEF I, q
<1>17. ASSUME gone.rc = "ok", both.rc = "ok", moved.rc = "ok", Fine, NEW J \in Inodes,
              IF K[n].kind = "dir" /\ pf # pt THEN Replaced(G, J, n, 2, pt[2]) ELSE J = G
       PROVE  Stays(I, J, A) /\ (Tidy(I, A) /\ Dotted(I, pt) => Tidy(J, A))
  <2>1. /\ p \in NamesIn(K, pf) /\ n = Child(K, pf, p)
        /\ Stays(I, K, A) /\ (Tidy(I, A) => Tidy(K, A)) /\ (Dotted(I, pt) => Dotted(K, pt))
    BY <1>3, <1>17 DEF K
  <2>2. Sound(K, A) /\ Ordered(K, A)
    BY <1>3, <2>1 DEF Stays, K
  <2>3. Added(K, H, pt, n, to) /\ H \in Inodes /\ G \in Inodes /\ Removed(H, G, pf, p)
    BY <1>12, <1>14, <1>16, <1>17
  <2> HIDE DEF p
  <2>4. /\ Ordered(J, A) /\ \A x \in Node : Dotted(J, x) <=> Dotted(K, x)
        /\ Tidy(K, A) /\ Dotted(K, pt) /\ to \notin Dots => Tidy(J, A)
    BY <1>4, <1>9, <1>17, <2>1, <2>2, <2>3, MovedOrdered
  <2> QED
    BY <1>4, <2>1, <2>4 DEF Stays
<1>18. ASSUME gone.rc = "ok", may = "ok", both.rc = "ok", moved.rc = "ok", Fine, NEW J \in Inodes,
              IF K[n].kind = "dir" /\ pf # pt THEN Replaced(G, J, n, 2, pt[2]) ELSE J = G
       PROVE  Way(J)
  <2>1. n = Child(K, pf, p)
    BY <1>3, <1>18 DEF K, I
  <2>2. Added(K, H, pt, n, to) /\ H \in Inodes /\ G \in Inodes /\ Removed(H, G, pf, p)
    BY <1>12, <1>14, <1>16, <1>18
  <2>3. Moved(K, J, pf, p, pt, to)
    <3> HIDE DEF p, Fine
    <3> QED
      BY <1>18, <2>1, <2>2 DEF Moved
  <2> QED
    BY <1>18, <2>3
<1> HIDE DEF Way
<1>19. ASSUME gone.rc = "ok", may = "ok", both.rc = "ok", moved.rc = "ok", ~ (IsDir(fs, n) /\ pf # pt)
       PROVE  Right1(moved)
  <2>1. Sound(G, A)
    BY <1>3, <1>16, <1>19 DEF Sound, I
  <2>2. K[n].kind = "dir" => pf = pt
    BY <1>9, <1>19 DEF IsDir, I
  <2>3. Fine => Stays(I, G, A) /\ (Tidy(I, A) /\ Dotted(I, pt) => Tidy(G, A)) /\ Way(G)
    <3> HIDE DEF Fine
    <3> QED
      BY <1>16, <1>17, <1>19, <1>18, <2>2
  <2> HIDE DEF Fine
  <2> QED
    BY <1>16, <1>19, <2>1, <2>3 DEF G
<1>20. ASSUME gone.rc = "ok", may = "ok", both.rc = "ok", moved.rc = "ok", IsDir(fs, n), pf # pt
       PROVE  Right1(up)
  <2> DEFINE c == Place(moved, n, "..")
             J == up.inode
  <2>1. pt[2] \in Nat /\ pt[1] = n[1] /\ moved \in FS
    BY <1>5, <1>6, <1>16, <1>20, NodeFacts
  <2>2. /\ up \in FS
        /\ IF Has(moved, n, "..") THEN up.rc = "ok" /\ Replaced(G, J, n, c, pt[2])
           ELSE up.rc = "ENOENT" /\ Same(moved, up)
    BY <1>6, <1>20, <2>1, ReplaceEntryFacts DEF G
  <2>3. J \in Inodes
    BY <2>2, FSFacts
  <2> HIDE DEF up, J
  <2>4. G[n].ent \in Seq(Ent)
    BY <1>6, <1>16, <1>20, InodeFacts
  <2>5. Has(moved, n, "..") => c \in DOMAIN G[n].ent /\ G[n].ent[c].name = ".."
    BY <2>4, PlaceFacts DEF Has, G
  <2>6. Good(J) /\ Closed(J, A) /\ Rest(G, J)
    <3>1. CASE Has(moved, n, "..")
      <4>1. Replaced(G, J, n, c, pt[2]) /\ c \in DOMAIN G[n].ent /\ G[n].ent[c].name \in Dots
        BY <2>2, <2>5, <3>1 DEF Dots
      <4>2. G[pt].kind # "free"
        <5>1. pt \in Dirs(I, A)
          BY DEF I
        <5>2. pt \in Dirs(G, A)
          BY <1>16, <1>20, <5>1
        <5> QED
          BY <5>2 DEF Dirs
      <4> HIDE DEF c
      <4>3. Good(J)
        BY <1>5, <1>6, <1>16, <1>20, <2>1, <2>3, <4>1, <4>2, ReplacedGood
      <4>4. Closed(J, A)
        BY <1>5, <1>6, <1>16, <1>20, <2>1, <2>3, <4>1, ReplacedClosed
      <4> QED
        BY <4>1, <4>3, <4>4 DEF Replaced
    <3>2. CASE ~ Has(moved, n, "..")
      <4>1. J = G
        BY <2>2, <3>2 DEF Same, G, J
      <4> QED
        BY <1>16, <1>20, <4>1 DEF Rest
    <3> QED
      BY <3>1, <3>2
  <2>7. Rest(I, J) /\ Sound(J, A)
    <3>1. Rest(I, J)
      BY <1>16, <1>20, <2>6 DEF Rest
    <3>2. Dirs(J, A) = Dirs(I, A)
      BY <3>1 DEF Rest, Dirs
    <3> QED
      BY <1>3, <2>6, <3>1, <3>2 DEF Sound, I
  <2>8. ASSUME Fine PROVE Stays(I, J, A) /\ (Tidy(I, A) /\ Dotted(I, pt) => Tidy(J, A)) /\ Way(J)
    <3>1. /\ p \in NamesIn(K, pf) /\ n = Child(K, pf, p) /\ Sound(K, A) /\ Shape(K, A)
      BY <1>3, <1>20, <2>8 DEF Stays, Ordered, K
    <3>2. Added(K, H, pt, n, to) /\ H \in Inodes /\ G \in Inodes /\ Removed(H, G, pf, p)
      BY <1>12, <1>14, <1>16, <1>20, <2>8
    <3>3. K[n].kind = "dir"
      BY <1>9, <1>20 DEF IsDir, I
    <3> HIDE DEF p, Fine
    <3>4. 2 \in DOMAIN G[n].ent /\ G[n].ent[1].name = "." /\ G[n].ent[2].name = ".."
      BY <1>4, <1>9, <3>1, <3>2, <3>3, MovedDots
    <3>5. Has(moved, n, "..") /\ c = 2
      <4>1. c # 0 /\ c <= 2 /\ c \in DOMAIN G[n].ent /\ c \in Nat /\ G[n].ent[c].name = ".."
        BY <2>4, <3>4, PlaceFacts DEF G
      <4>2. c # 1
        BY <3>4, <4>1
      <4> HIDE DEF c
      <4>3. c = 2
        BY <4>1, <4>2
      <4> QED
        BY <4>1, <4>3 DEF Has, c
    <3>6. Replaced(G, J, n, 2, pt[2])
      BY <2>2, <3>5
    <3> HIDE DEF c
    <3> QED
      BY <1>17, <1>20, <1>18, <2>3, <2>8, <3>3, <3>6
  <2> HIDE DEF Fine
  <2> QED
    BY <2>2, <2>7, <2>8 DEF J
<1> HIDE DEF Right1, up
<1>21. Right1(RenameFile(fs, pf, from, pt, to))
  BY <1>1, <1>7, <1>8, <1>11, <1>15, <1>19, <1>20
<1> QED
  BY <1>21 DEF Right1, Way, K, I, gone, may, n

LEMMA LinkFacts ==
  ASSUME NEW fs \in FS, fs.rc = "ok", NEW A \in SUBSET Node, Sound(fs.inode, A),
         NEW d \in Dirs(fs.inode, A), NEW n \in A, fs.inode[n].kind = "file", n[1] = d[1],
         NEW name \in Plain
  PROVE  LET a == AddEntry(fs, d, n[2], name)
             r == IF a.rc = "ok" THEN [a EXCEPT !.inode[n].nlink = @ + 1] ELSE a
             I == fs.inode
             J == r.inode
         IN  /\ r \in FS /\ Rest(I, J) /\ Sound(J, A)
             /\ J = I \/ \E H \in Inodes : Added(I, H, d, n, name) /\ \A x \in Node : J[x].ent = H[x].ent
             /\ Ordered(I, A) => Stays(I, J, A) /\ (Tidy(I, A) /\ Dotted(I, d) => Tidy(J, A))
<1> DEFINE I == fs.inode
           a == AddEntry(fs, d, n[2], name)
           H == a.inode
           r == [a EXCEPT !.inode[n].nlink = @ + 1]
           v == H[n].nlink + 1
           J == r.inode
<1>1. d \in Node /\ d \in A /\ I[d].kind = "dir" /\ n \in Node /\ I \in Inodes /\ Good(I) /\ Closed(I, A)
      /\ \A e \in Disk : RootOf(e) \in Dirs(I, A)
  BY FSFacts DEF Dirs, Sound
<1>2. name \in Name /\ name \notin Dots
  BY NamesAssumption DEF Name
<1>3. /\ a \in FS
      /\ a.rc \in {"ok", "ENOSPC"}
      /\ IF a.rc = "ok" THEN Added(I, H, d, n, name) ELSE Same(fs, a)
  BY <1>1, <1>2, AddEntryFacts
<1>4. CASE a.rc # "ok"
  <2>1. H = I
    BY <1>3, <1>4 DEF Same
  <2>2. Ordered(I, A) => Stays(I, H, A)
    BY <2>1 DEF Stays
  <2>3. Rest(I, H)
    BY <2>1 DEF Rest
  <2> HIDE DEF a, H
  <2> QED
    BY <1>3, <1>4, <2>1, <2>2, <2>3 DEF H, a
<1>5. CASE a.rc = "ok"
  <2>1. Added(I, H, d, n, name) /\ H \in Inodes /\ Good(H) /\ Closed(H, A)
    <3>1. Added(I, H, d, n, name) /\ H \in Inodes
      BY <1>3, <1>5, FSFacts
    <3> HIDE DEF H
    <3>2. Good(H)
      BY <1>1, <1>2, <3>1, AddedGood
    <3>3. Closed(H, A)
      BY <1>1, <1>2, <3>1, AddedClosed
    <3> QED
      BY <3>1, <3>2, <3>3
  <2>2. v \in Nat
    <3> HIDE DEF H
    <3> QED
      BY <1>1, <2>1, InodeFacts
  <2>3. r \in FS /\ r.rc = a.rc /\ Relinked(H, J, n, v)
    <3> HIDE DEF a
    <3>1. r = [a EXCEPT !.inode[n].nlink = v]
      BY <1>1, <1>3, FSFacts
    <3> HIDE DEF v
    <3> QED
      BY <1>1, <1>3, <2>2, <3>1, RelinkFacts
  <2>4. J \in Inodes
    BY <2>3, FSFacts
  <2>5. r = IF a.rc = "ok" THEN r ELSE a
    BY <1>5
  <2> HIDE DEF a, H, J, r
  <2>6. Rest(I, H) /\ Rest(H, J) /\ Rest(I, J)
    BY <2>1, <2>3 DEF Added, Relinked, Rest
  <2>7. Dirs(H, A) = Dirs(I, A) /\ Dirs(J, A) = Dirs(I, A) /\ I[n].kind # "dir" /\ H[n].kind = "file" /\ J[n].kind = "file"
    BY <1>1, <2>6 DEF Rest, Dirs
  <2>8. /\ \A x \in Node : J[x].ent = H[x].ent /\ (Dotted(J, x) <=> Dotted(H, x)) /\ NamesIn(J, x) = NamesIn(H, x)
        /\ Closed(J, A)
        /\ \A m : ShapeBut(H, A, m) => ShapeBut(J, A, m)
    BY <1>1, <2>1, <2>3, <2>4, <2>7, RelinkedShape
  <2>9. Good(J)
    BY <1>1, <2>1, <2>2, <2>3, <2>4, <2>7, RelinkedGood
  <2>10. Sound(J, A)
    BY <1>1, <2>7, <2>8, <2>9 DEF Sound
  <2>11. ASSUME Ordered(I, A)
         PROVE  Stays(I, J, A) /\ (Tidy(I, A) /\ Dotted(I, d) => Tidy(J, A))
    <3>1. n \notin Dirs(I, A) /\ d # n
      BY <1>1, <2>7 DEF Dirs
    <3>2. ShapeBut(I, A, n)
      BY <1>1, <2>11, <3>1, ShapeWeaker DEF Ordered
    <3>3. ShapeBut(H, A, n) /\ \A x \in Node : Dotted(H, x) <=> Dotted(I, x)
      BY <1>1, <1>2, <2>1, <3>1, <3>2, AddedShape
    <3>4. Shape(J, A)
      BY <1>1, <2>4, <2>7, <2>8, <3>3, ShapeWhole
    <3>5. Counted(J, A)
      <4> SUFFICES ASSUME NEW m \in A PROVE Bal(J, A, m) = 0
        BY DEF Counted
      <4>1. Bal(I, A, m) = 0 /\ m \in Node
        BY <2>11 DEF Ordered, Counted
      <4>2. Bal(H, A, m) = Bal(I, A, m) + (IF m = d THEN One(I, n) ELSE 0) - (IF m = n THEN 1 ELSE 0)
        BY <1>1, <1>2, <2>1, <4>1, AddedBal
      <4>3. Bal(J, A, m) = Bal(H, A, m) + (IF m = n THEN v - H[n].nlink ELSE 0)
        BY <1>1, <2>1, <2>2, <2>3, <2>4, <4>1, RelinkedBal
      <4>4. One(I, n) = 0 /\ v - H[n].nlink = 1
        <5>1. H[n].nlink \in Nat
          BY <1>1, <2>1, InodeFacts
        <5> QED
          BY <2>7, <5>1 DEF One
      <4> HIDE DEF v
      <4> QED
        BY <3>1, <4>1, <4>2, <4>3, <4>4
    <3>6. ASSUME Tidy(I, A), Dotted(I, d) PROVE Tidy(J, A)
      <4>1. Tidy(H, A)
        BY <1>1, <1>2, <2>1, <3>3, <3>6, AddedTidy
      <4>2. \A x \in Dirs(H, A) : ~ Dotted(H, x) => J[x].ent = H[x].ent /\ J[x].nlink = H[x].nlink
        BY <2>3, <2>7 DEF Relinked, Dirs
      <4>3. \A x \in Dirs(H, A) : \A k \in NamesIn(J, x) :
              \E i \in NamesIn(H, x) : J[x].ent[k].name = H[x].ent[i].name
        <5> SUFFICES ASSUME NEW x \in Dirs(H, A), NEW k \in NamesIn(J, x)
                     PROVE  \E i \in NamesIn(H, x) : J[x].ent[k].name = H[x].ent[i].name
          OBVIOUS
        <5>1. J[x].ent = H[x].ent /\ k \in NamesIn(H, x)
          BY <2>8 DEF Dirs
        <5> QED
          BY <5>1
      <4>4. \A x \in Dirs(H, A) : Dotted(H, x) => \A k \in NamesIn(J, x) :
              \/ J[x].ent[k].name \notin Dots
              \/ \E i \in NamesIn(H, x) : J[x].ent[k].name = H[x].ent[i].name
        BY <4>3
      <4>5. \A x \in Node : Dotted(J, x) <=> Dotted(H, x)
        BY <2>8
      <4> QED
        BY ONLY <2>1, <2>4, A \in SUBSET Node, <2>6, <4>1, <4>2, <4>4, <4>5, TidyKept
    <3> QED
      BY <2>8, <3>3, <3>4, <3>5, <3>6 DEF Stays, Ordered
  <2> HIDE DEF I
  <2>12. \E G \in Inodes : Added(I, G, d, n, name) /\ \A x \in Node : J[x].ent = G[x].ent
    BY <2>1, <2>8
  <2>13. LET s == IF a.rc = "ok" THEN r ELSE a IN
         /\ s \in FS /\ Rest(I, s.inode) /\ Sound(s.inode, A)
         /\ \E G \in Inodes : Added(I, G, d, n, name) /\ \A x \in Node : s.inode[x].ent = G[x].ent
         /\ Ordered(I, A) => Stays(I, s.inode, A) /\ (Tidy(I, A) /\ Dotted(I, d) => Tidy(s.inode, A))
    BY <2>3, <2>5, <2>6, <2>10, <2>11, <2>12 DEF J
  <2> QED
    BY <2>13 DEF I, a, r
<1> QED
  BY <1>4, <1>5

-----------------------------------------------------------------------------
(* Following a path                                                        *)

Searched == {"ok", "ENOTDIR", "EPERM", "EACCES", "ENOENT"}

(* A mounted disk is followed to a directory that is not lost.             *)
LEMMA FollowFacts ==
  ASSUME NamesInv, NEW n \in Active
  PROVE  /\ Follow(n) \in Active
         /\ n \in Dirs(inode, Active) => Follow(n) \in Dirs(inode, Active)
<1>1. CASE n \in DOMAIN Mounts
  <2>1. Follow(n) = RootOf(Mounts[n]) /\ Mounts[n] \in Disk
    BY <1>1, NamesAssumption DEF Follow
  <2> QED
    BY <2>1 DEF NamesInv, Sound, Dirs
<1>2. CASE n \notin DOMAIN Mounts
  BY <1>2 DEF Follow
<1> QED
  BY <1>1, <1>2

(* What a name leads to in a directory that is not lost.                   *)
LEMMA TargetFacts ==
  ASSUME NamesInv, NEW d \in Active, NEW name, Has(Now, d, name)
  PROVE  /\ Target(Now, d, name) \in Active /\ inode[Target(Now, d, name)].kind # "free"
         /\ d \in Dirs(inode, Active)
         /\ Target(Now, d, name) = Child(inode, d, Place(Now, d, name))
<1> DEFINE k == Place(Now, d, name)
<1>1. inode \in Inodes /\ d \in Node /\ Good(inode) /\ Closed(inode, Active) /\ Now.inode = inode
  BY DEF NamesInv, Types, Sound, Active, Now
<1>2. inode[d].ent \in Seq(Ent)
  BY <1>1, InodeFacts
<1>3. k \in DOMAIN inode[d].ent
  BY <1>1, <1>2, PlaceFacts DEF Has
<1>4. Target(Now, d, name) = Child(inode, d, k)
  BY <1>1 DEF Target, Child
<1> HIDE DEF k
<1>5. Child(inode, d, k) \in Active /\ inode[Child(inode, d, k)].kind # "free"
  BY <1>1, <1>3 DEF Good, Closed
<1>6. inode[d].kind = "dir"
  BY <1>1, <1>3, GoodFacts
<1> QED
  BY <1>4, <1>5, <1>6 DEF Dirs, k

(* ufs_lookup ends at a node that is not lost, and does not find the name  *)
(* only where a part of the path is missing, in a directory that has been  *)
(* removed, or in one that may be written.                                 *)
LEMMA LookupFacts ==
  ASSUME NamesInv, NEW s \in Session, NEW path, path.abs \in BOOLEAN, path.names \in Seq(Plain \cup Dots)
  PROVE  LET r == Lookup(s, path) IN
         /\ r.node \in Active /\ r.at \in 0 .. Len(path.names)
         /\ r.rc = "ENOENT" =>
              /\ path.names # << >>
              /\ \/ r.at < Len(path.names) \/ inode[r.node].nlink = 0
                 \/ Auth(UserOf[s], r.node, "w")
<1> DEFINE u == UserOf[s]
           n == Len(path.names)
           seq == [k \in 1 .. Len(path.names) |-> k]
           S == 1 .. n
           T == {w \in [rc : Searched, node : Active, at : 0 .. n] :
                   w.rc = "ENOENT" => n # 0 /\ (w.at < n \/ inode[w.node].nlink = 0 \/ Auth(u, w.node, "w"))}
           Step(w, k) ==
             LET dir == IF k = 1 THEN w.node ELSE Follow(w.node)
                 End(error) == [rc |-> error, node |-> dir, at |-> k]
             IN  IF w.rc # "ok" THEN w
                 ELSE IF ~IsDir(Now, dir) THEN End("ENOTDIR")
                 ELSE IF ~Auth(u, dir, "x") THEN End("EPERM")
                 ELSE IF inode[dir].nlink = 0 THEN End("ENOENT")
                 ELSE IF Has(Now, dir, path.names[k])
                      THEN [rc |-> "ok", node |-> Target(Now, dir, path.names[k]), at |-> k]
                 ELSE IF k = Len(path.names) /\ ~Auth(u, dir, "w") THEN End("EPERM")
                 ELSE End("ENOENT")
           start == IF path.abs THEN RootOf(RootDisk) ELSE cwd[s].cur_dir
           base == [rc |-> "ok", node |-> start, at |-> 0]
           F == [q \in T \X S |-> Step(q[1], seq[q[2]])]
           pick == [z \in SUBSET S |-> Max(z)]
           Iter(g) == g = [z \in SUBSET S |-> IF z = {} THEN base ELSE Step(g[z \ {Max(z)}], seq[Max(z)])]
<1>1. n \in Nat /\ DOMAIN seq = S /\ IsFiniteSet(S) /\ \A k \in S : seq[k] = k /\ k \in Nat /\ k <= n
  BY LenProperties, FS_Interval
<1>2. \A z \in SUBSET S : z # {} => pick[z] \in z /\ pick[z] = Max(z)
  BY <1>1, MaxInside
<1>3. ASSUME NEW w \in T, NEW k \in S PROVE Step(w, k) \in T
  <2> DEFINE dir == IF k = 1 THEN w.node ELSE Follow(w.node)
             End(error) == [rc |-> error, node |-> dir, at |-> k]
  <2>1. w \in [rc : Searched, node : Active, at : 0 .. n] /\ w.node \in Active
    OBVIOUS
  <2>2. dir \in Active
    BY <2>1, FollowFacts
  <2>3. k \in Nat /\ k <= n /\ n # 0
    BY <1>1
  <2> HIDE DEF dir, n
  <2>4. \A error \in {"ENOTDIR", "EPERM"} : End(error) \in T
    BY <2>2, <2>3 DEF Searched
  <2>5. k < n \/ inode[dir].nlink = 0 \/ Auth(u, dir, "w") => End("ENOENT") \in T
    BY <2>2, <2>3 DEF Searched
  <2>6. Has(Now, dir, path.names[k]) =>
          [rc |-> "ok", node |-> Target(Now, dir, path.names[k]), at |-> k] \in T
    <3> SUFFICES ASSUME Has(Now, dir, path.names[k])
                 PROVE  [rc |-> "ok", node |-> Target(Now, dir, path.names[k]), at |-> k] \in T
      OBVIOUS
    <3>1. Target(Now, dir, path.names[k]) \in Active
      BY <2>2, TargetFacts
    <3> QED
      BY <2>3, <3>1 DEF Searched
  <2>7. Step(w, k) = IF w.rc # "ok" THEN w
                     ELSE IF ~IsDir(Now, dir) THEN End("ENOTDIR")
                     ELSE IF ~Auth(u, dir, "x") THEN End("EPERM")
                     ELSE IF inode[dir].nlink = 0 THEN End("ENOENT")
                     ELSE IF Has(Now, dir, path.names[k])
                          THEN [rc |-> "ok", node |-> Target(Now, dir, path.names[k]), at |-> k]
                     ELSE IF k = n /\ ~Auth(u, dir, "w") THEN End("EPERM")
                     ELSE End("ENOENT")
    BY DEF dir, n
  <2> HIDE DEF T, Step, End
  <2>8. k = n \/ k < n
    BY <1>1, <2>3 DEF n
  <2> QED
    BY <2>4, <2>5, <2>6, <2>7, <2>8
<1>4. base \in T /\ F \in [T \X S -> T]
  <2>1. start \in Active
    BY NamesAssumption DEF NamesInv, Types, Sound, Dirs
  <2>2. base \in T
    <3> HIDE DEF start
    <3> QED
      BY <2>1 DEF Searched
  <2> HIDE DEF T, S, Step, base, seq
  <2>3. F \in [T \X S -> T]
    BY <1>1, <1>3
  <2> QED
    BY <2>2, <2>3
<1>5. PICK g : Iterates(g, S, T, base, F, pick)
  <2> HIDE DEF S, T, F, pick, base
  <2> QED
    BY <1>1, <1>2, <1>4, IterExists
<1>6. Iter(g)
  <2>1. ASSUME NEW z \in SUBSET S, z # {}
        PROVE  F[<<g[z \ {pick[z]}], pick[z]>>] = Step(g[z \ {Max(z)}], seq[Max(z)])
    <3>1. pick[z] = Max(z) /\ Max(z) \in S /\ z \ {Max(z)} \in SUBSET S
      BY <1>2, <2>1
    <3>2. g[z \ {Max(z)}] \in T
      BY <1>5, <3>1 DEF Iterates
    <3> HIDE DEF T, S, pick, Step, seq
    <3> QED
      BY <3>1, <3>2
  <2> HIDE DEF F, pick, T, Step, base, seq
  <2>2. g = [z \in SUBSET S |-> g[z]]
    BY <1>5 DEF Iterates
  <2>3. \A z \in SUBSET S : g[z] = IF z = {} THEN base ELSE F[<<g[z \ {pick[z]}], pick[z]>>]
    BY <1>5 DEF Iterates
  <2> QED
    BY <2>1, <2>2, <2>3
<1> DEFINE iter == CHOOSE g1 : Iter(g1)
<1>7. Iter(iter)
  <2> HIDE DEF Step, base, seq
  <2> QED
    BY <1>6
<1>8. Lookup(s, path) = iter[S]
  BY <1>1 DEF Lookup, FoldLeft, MapThenFoldSet
<1>9. iter[S] \in T
  <2>1. \A z \in SUBSET S : iter[z] = IF z = {} THEN base ELSE Step(iter[z \ {Max(z)}], seq[Max(z)])
    <3> HIDE DEF iter, Step, base, seq
    <3> QED
      BY <1>7
  <2>2. \A z \in SUBSET S : z # {} /\ iter[z \ {pick[z]}] \in T => iter[z] \in T
    <3> SUFFICES ASSUME NEW z \in SUBSET S, z # {}, iter[z \ {pick[z]}] \in T
                 PROVE  iter[z] \in T
      OBVIOUS
    <3>1. pick[z] = Max(z) /\ Max(z) \in S /\ seq[Max(z)] = Max(z)
      BY <1>1, <1>2
    <3> HIDE DEF iter, T, pick, Step, base, seq
    <3> QED
      BY <1>3, <2>1, <3>1
  <2>3. iter[{}] \in T
    <3> HIDE DEF iter, T, S, Step, base, seq
    <3> QED
      BY <1>4, <2>1
  <2>4. IsFiniteSet(S) /\ S \in SUBSET S /\ \A z \in SUBSET S : z # {} => pick[z] \in z
    BY <1>1, <1>2
  <2> HIDE DEF iter, T, S, pick
  <2>5. \A z \in SUBSET S : iter[z] \in T
    BY <2>2, <2>3, <2>4, IterStays
  <2> QED
    BY <2>4, <2>5
<1> QED
  <2> HIDE DEF iter
  <2> QED
    BY <1>8, <1>9

LEMMA FullFacts ==
  ASSUME NamesInv, NEW s \in Session, NEW path, path.abs \in BOOLEAN, path.names \in Seq(Plain \cup Dots)
  PROVE  Full(s, path).abs \in BOOLEAN /\ Full(s, path).names \in Seq(Plain \cup Dots)
<1>1. cwd[s].path \in Seq(Plain \cup Dots)
  BY DEF NamesInv, Types
<1>2. cwd[s].path \o path.names \in Seq(Plain \cup Dots)
  BY <1>1, ConcatProperties
<1> QED
  BY <1>2 DEF Full

(* ufs_lookup_minode ends at a directory; what it finds there is not lost. *)
LEMMA LookupMinodeFacts ==
  ASSUME NamesInv, NEW s \in Session, NEW path, path.abs \in BOOLEAN, path.names \in Seq(Plain \cup Dots)
  PROVE  LET r == LookupMinode(s, path) IN
         /\ r.at \in Nat
         /\ r.rc \in {"ok", "ENOENT"} => r.dir \in Dirs(inode, Active)
         /\ r.rc = "ENOENT" => Full(s, path).names # << >>
         /\ r.rc = "ok" => r.last \in Active /\ inode[r.last].kind # "free"
<1> DEFINE u == UserOf[s]
           names == Full(s, path).names
           n == Len(names)
           seq == [k \in 1 .. Len(names) |-> k]
           S == 1 .. n
           T == {w \in [rc : Searched, dir : Active, last : Active \cup {NoNode}, at : Nat] :
                   /\ w.rc \in {"ok", "ENOENT"} => w.dir \in Dirs(inode, Active)
                   /\ w.rc = "ENOENT" => n # 0
                   /\ w.rc = "ok" => w.last \in Active /\ inode[w.last].kind # "free"}
           Step(w, k) ==
             LET dir == Follow(w.last)
                 End(error) == [rc |-> error, dir |-> dir, last |-> NoNode, at |-> k]
             IN  IF w.rc # "ok" THEN w
                 ELSE IF ~Auth(u, w.last, "x") \/ ~Auth(u, dir, "x") THEN End("EACCES")
                 ELSE IF ~IsDir(Now, w.last) THEN End("ENOTDIR")
                 ELSE IF ~Has(Now, dir, names[k]) THEN End("ENOENT")
                 ELSE [rc |-> "ok", dir |-> dir, last |-> Target(Now, dir, names[k]), at |-> k]
           root == RootOf(RootDisk)
           base == [rc |-> "ok", dir |-> root, last |-> root, at |-> 0]
           F == [q \in T \X S |-> Step(q[1], seq[q[2]])]
           pick == [z \in SUBSET S |-> Max(z)]
           Iter(g) == g = [z \in SUBSET S |-> IF z = {} THEN base ELSE Step(g[z \ {Max(z)}], seq[Max(z)])]
<1>0. names \in Seq(Plain \cup Dots)
  BY FullFacts
<1>1. n \in Nat /\ DOMAIN seq = S /\ IsFiniteSet(S) /\ \A k \in S : seq[k] = k /\ k \in Nat /\ k <= n
  <2> HIDE DEF names
  <2> QED
    BY <1>0, LenProperties, FS_Interval
<1>2. \A z \in SUBSET S : z # {} => pick[z] \in z /\ pick[z] = Max(z)
  <2> HIDE DEF names
  <2> QED
    BY <1>1, MaxInside
<1>3. ASSUME NEW w \in T, NEW k \in S PROVE Step(w, k) \in T
  <2> DEFINE dir == Follow(w.last)
             End(error) == [rc |-> error, dir |-> dir, last |-> NoNode, at |-> k]
  <2> SUFFICES ASSUME w.rc = "ok" PROVE Step(w, k) \in T
    OBVIOUS
  <2>1. w.last \in Active /\ k \in Nat /\ n # 0
    BY <1>1
  <2>2. dir \in Active /\ (w.last \in Dirs(inode, Active) => dir \in Dirs(inode, Active))
    BY <2>1, FollowFacts
  <2>3. IsDir(Now, w.last) => w.last \in Dirs(inode, Active)
    BY <2>1 DEF IsDir, Now, Dirs
  <2> HIDE DEF dir, n, names
  <2>4. \A error \in {"EACCES", "ENOTDIR"} : End(error) \in T
    BY <2>1, <2>2 DEF Searched
  <2>5. IsDir(Now, w.last) => End("ENOENT") \in T
    BY <2>1, <2>2, <2>3 DEF Searched
  <2>6. Has(Now, dir, names[k]) =>
          [rc |-> "ok", dir |-> dir, last |-> Target(Now, dir, names[k]), at |-> k] \in T
    <3> SUFFICES ASSUME Has(Now, dir, names[k])
                 PROVE  [rc |-> "ok", dir |-> dir, last |-> Target(Now, dir, names[k]), at |-> k] \in T
      OBVIOUS
    <3>1. /\ Target(Now, dir, names[k]) \in Active /\ inode[Target(Now, dir, names[k])].kind # "free"
          /\ dir \in Dirs(inode, Active)
          /\ Target(Now, dir, names[k]) = Child(inode, dir, Place(Now, dir, names[k]))
      BY <2>2, TargetFacts
    <3> QED
      BY <2>1, <2>2, <3>1 DEF Searched
  <2>7. Step(w, k) = IF ~Auth(u, w.last, "x") \/ ~Auth(u, dir, "x") THEN End("EACCES")
                     ELSE IF ~IsDir(Now, w.last) THEN End("ENOTDIR")
                     ELSE IF ~Has(Now, dir, names[k]) THEN End("ENOENT")
                     ELSE [rc |-> "ok", dir |-> dir, last |-> Target(Now, dir, names[k]), at |-> k]
    BY DEF dir
  <2> HIDE DEF T, Step, End
  <2> QED
    BY <2>4, <2>5, <2>6, <2>7
<1>4. base \in T /\ F \in [T \X S -> T]
  <2>1. root \in Dirs(inode, Active)
    BY NamesAssumption DEF NamesInv, Sound
  <2>2. base \in T
    <3> HIDE DEF root
    <3>1. inode[root].kind # "free" /\ root \in Active
      BY <2>1 DEF Dirs
    <3> QED
      BY <2>1, <3>1 DEF Searched
  <2> HIDE DEF T, S, Step, base, seq
  <2>3. F \in [T \X S -> T]
    BY <1>1, <1>3
  <2> QED
    BY <2>2, <2>3
<1>5. PICK g : Iterates(g, S, T, base, F, pick)
  <2> HIDE DEF S, T, F, pick, base
  <2> QED
    BY <1>1, <1>2, <1>4, IterExists
<1>6. Iter(g)
  <2>1. ASSUME NEW z \in SUBSET S, z # {}
        PROVE  F[<<g[z \ {pick[z]}], pick[z]>>] = Step(g[z \ {Max(z)}], seq[Max(z)])
    <3>1. pick[z] = Max(z) /\ Max(z) \in S /\ z \ {Max(z)} \in SUBSET S
      BY <1>2, <2>1
    <3>2. g[z \ {Max(z)}] \in T
      BY <1>5, <3>1 DEF Iterates
    <3> HIDE DEF T, S, pick, Step, seq
    <3> QED
      BY <3>1, <3>2
  <2> HIDE DEF F, pick, T, Step, base, seq
  <2>2. g = [z \in SUBSET S |-> g[z]]
    BY <1>5 DEF Iterates
  <2>3. \A z \in SUBSET S : g[z] = IF z = {} THEN base ELSE F[<<g[z \ {pick[z]}], pick[z]>>]
    BY <1>5 DEF Iterates
  <2> QED
    BY <2>1, <2>2, <2>3
<1> DEFINE iter == CHOOSE g1 : Iter(g1)
<1>7. Iter(iter)
  <2> HIDE DEF Step, base, seq
  <2> QED
    BY <1>6
<1>8. LookupMinode(s, path) = iter[S]
  BY <1>1 DEF LookupMinode, FoldLeft, MapThenFoldSet
<1>9. iter[S] \in T
  <2>1. \A z \in SUBSET S : iter[z] = IF z = {} THEN base ELSE Step(iter[z \ {Max(z)}], seq[Max(z)])
    <3> HIDE DEF iter, Step, base, seq
    <3> QED
      BY <1>7
  <2>2. \A z \in SUBSET S : z # {} /\ iter[z \ {pick[z]}] \in T => iter[z] \in T
    <3> SUFFICES ASSUME NEW z \in SUBSET S, z # {}, iter[z \ {pick[z]}] \in T
                 PROVE  iter[z] \in T
      OBVIOUS
    <3>1. pick[z] = Max(z) /\ Max(z) \in S /\ seq[Max(z)] = Max(z)
      BY <1>1, <1>2
    <3> HIDE DEF iter, T, pick, Step, base, seq
    <3> QED
      BY <1>3, <2>1, <3>1
  <2>3. iter[{}] \in T
    <3> HIDE DEF iter, T, S, Step, base, seq
    <3> QED
      BY <1>4, <2>1
  <2>4. IsFiniteSet(S) /\ S \in SUBSET S /\ \A z \in SUBSET S : z # {} => pick[z] \in z
    BY <1>1, <1>2
  <2> HIDE DEF iter, T, S, pick
  <2>5. \A z \in SUBSET S : iter[z] \in T
    BY <2>2, <2>3, <2>4, IterStays
  <2> QED
    BY <2>4, <2>5
<1> QED
  <2> HIDE DEF iter
  <2> QED
    BY <1>8, <1>9

-----------------------------------------------------------------------------
(* The first parts of the calls                                            *)

(* The link count of a directory that has not been removed is not zero.    *)
LEMMA DottedCounts ==
  ASSUME NEW I \in Inodes, NEW A \in SUBSET Node, Counted(I, A), NEW n \in A, Dotted(I, n)
  PROVE  I[n].nlink # 0
<1>1. <<n, 1>> \in Refs(I, A, n)
  <2>1. 1 \in DOMAIN I[n].ent /\ Child(I, n, 1) = n
    BY NamesFacts
  <2> QED
    BY <2>1 DEF Refs
<1>2. IsFiniteSet(Refs(I, A, n)) /\ Cardinality(Refs(I, A, n)) \in Nat
  BY RefsFacts
<1>3. Cardinality(Refs(I, A, n)) # 0
  BY <1>1, <1>2, FS_EmptySet
<1>4. I[n].nlink \in Nat /\ I[n].nlink - Cardinality(Refs(I, A, n)) = 0
  BY InodeFacts DEF Counted, Bal
<1> QED
  BY <1>2, <1>3, <1>4

LEMMA NowFacts ==
  ASSUME NamesInv
  PROVE  /\ Now \in FS /\ Now.inode = inode /\ Now.room = room /\ Now.rc = "ok"
         /\ Active \in SUBSET Node /\ \A x \in Node : inode[x].kind = "free" => x \in Active
         /\ \A n : IsDir(Now, n) <=> inode[n].kind = "dir"
  BY DEF NamesInv, Types, Now, FS, Results, Active, IsDir

(* The bound on the calls.                                                 *)
LEMMA MoreFacts ==
  ASSUME NamesInv, MoreCalls
  PROVE  calls + 1 \in 0 .. MaxCalls
<1>0. MaxCalls \in Nat /\ calls \in 0 .. MaxCalls
  BY NamesAssumption DEF NamesInv, Types
<1>1. calls \in Nat
  BY <1>0
<1>2. calls < MaxCalls
  BY <1>0, <1>1 DEF MoreCalls
<1> QED
  BY <1>0, <1>1, <1>2

(* A call that takes up its work knows what it will need.                  *)
LEMMA BeginInv ==
  ASSUME NamesInv, NEW s \in Session, UNCHANGED <<inode, room, lost, outside>>,
         MoreCalls, calls' = calls + 1,
         DOMAIN call' = Session, \A t \in Session : t # s => call'[t] = call[t],
         cwd' \in [Session -> [cur_dir : Dirs(inode, Active), path : Seq(Plain \cup Dots)]],
         \/ call'[s] = Idle
         \/ call'[s].op \in Makes \cup Deletes /\ CallOK(s, call'[s])
  PROVE  NamesInv'
<1>1. Active' = Active
  BY DEF Active
<1>2. Types'
  <2>1. calls + 1 \in 0 .. MaxCalls
    BY MoreFacts
  <2> QED
    BY <1>1, <2>1 DEF NamesInv, Types
<1>3. \A t \in Session : CallOK(t, call'[t]) => CallOK(t, call[t])'
  BY <1>1 DEF CallOK, Auth
<1>4. \A t \in Session : (call[t] = Idle \/ (call[t].op \in Makes \cup Deletes /\ CallOK(t, call[t])))'
  <2> TAKE t \in Session
  <2>1. call'[t] = Idle \/ (call'[t].op \in Makes \cup Deletes /\ CallOK(t, call'[t]))
    BY DEF NamesInv
  <2> QED
    BY <1>3, <2>1
<1> QED
  BY <1>1, <1>2, <1>4 DEF NamesInv

LEMMA PathFacts ==
  ASSUME NEW path \in Paths
  PROVE  path.abs \in BOOLEAN /\ path.names \in Seq(Plain \cup Dots)
  BY NamesAssumption

(* What a first part leaves to do.                                         *)
LEMMA PendingInv ==
  ASSUME NamesInv, NEW s \in Session, NEW op \in Makes \cup Deletes, Begin(s, op),
         NEW dir, NEW last, NEW path, NEW perm, NEW at,
         Pending(s, op, dir, last, path, perm, at),
         CallOK(s, [op |-> op, dir |-> dir, last |-> last, path |-> path, perm |-> perm, at |-> at])
  PROVE  NamesInv'
<1> DEFINE c == [op |-> op, dir |-> dir, last |-> last, path |-> path, perm |-> perm, at |-> at]
<1>1. call' = [call EXCEPT ![s] = c] /\ DOMAIN call = Session /\ cwd' = cwd
  BY DEF Pending, NamesInv
<1>2. c.op = op
  OBVIOUS
<1> HIDE DEF c
<1>3. call'[s] = c /\ DOMAIN call' = Session /\ \A t \in Session : t # s => call'[t] = call[t]
  BY <1>1
<1>4. CallOK(s, call'[s])
  BY <1>3 DEF c
<1> QED
  BY <1>1, <1>2, <1>3, <1>4, BeginInv DEF Begin, NamesInv, Types

LEMMA BeginCreateInv ==
  ASSUME NamesInv, NEW s \in Session, NEW path \in Paths, NEW perm \in Perms, BeginCreate(s, path, perm)
  PROVE  NamesInv'
<1> DEFINE r == Lookup(s, path)
           c == [op |-> "create", dir |-> r.node, last |-> NoNode, path |-> path, perm |-> perm, at |-> r.at]
<1>1. /\ r.node \in Active /\ r.at \in 0 .. Len(path.names)
      /\ r.rc = "ENOENT" =>
           /\ path.names # << >>
           /\ \/ r.at < Len(path.names) \/ inode[r.node].nlink = 0
              \/ Auth(UserOf[s], r.node, "w")
  BY PathFacts, LookupFacts
<1>2. /\ Begin(s, "create") /\ r.rc = "ENOENT" /\ IsDir(Now, r.node)
      /\ Pending(s, "create", r.node, NoNode, path, perm, r.at)
  BY DEF BeginCreate
<1> HIDE DEF r
<1>3. r.node \in Dirs(inode, Active)
  BY <1>1, <1>2, NowFacts DEF Dirs
<1>4. CallOK(s, c)
  <2>1. perm \in Rights /\ path.abs \in BOOLEAN /\ path.names \in Seq(Plain \cup Dots)
    BY PathFacts, NamesAssumption
  <2> QED
    BY <1>1, <1>2, <1>3, <2>1 DEF CallOK, Makes, Deletes
<1>5. "create" \in Makes \cup Deletes
  BY DEF Makes
<1> QED
  BY <1>2, <1>4, <1>5, PendingInv

LEMMA BeginMkdirInv ==
  ASSUME NamesInv, NEW s \in Session, NEW path \in Paths, NEW perm \in Perms, BeginMkdir(s, path, perm)
  PROVE  NamesInv'
<1> DEFINE r == LookupMinode(s, path)
           d == Follow(r.dir)
           p == Full(s, path)
           c == [op |-> "mkdir", dir |-> d, last |-> NoNode, path |-> p, perm |-> perm, at |-> r.at]
<1>1. /\ r.at \in Nat
      /\ r.rc \in {"ok", "ENOENT"} => r.dir \in Dirs(inode, Active)
      /\ r.rc = "ENOENT" => p.names # << >>
      /\ r.rc = "ok" => r.last \in Active /\ inode[r.last].kind # "free"
  BY PathFacts, LookupMinodeFacts
<1>2. /\ Begin(s, "mkdir") /\ r.rc = "ENOENT" /\ Auth(UserOf[s], d, "w") /\ r.at = Len(p.names)
      /\ Pending(s, "mkdir", d, NoNode, p, perm, r.at)
  BY DEF BeginMkdir
<1>3. p.abs \in BOOLEAN /\ p.names \in Seq(Plain \cup Dots) /\ perm \in Rights
  <2>1. perm \in Rights
    BY NamesAssumption
  <2> QED
    BY <2>1, PathFacts, FullFacts
<1> HIDE DEF r, p
<1>4. d \in Dirs(inode, Active)
  BY <1>1, <1>2, FollowFacts DEF Dirs
<1> HIDE DEF d
<1>5. CallOK(s, c)
  <2>1. r.at \in 0 .. Len(p.names)
    BY <1>2, <1>3, LenProperties
  <2> QED
    BY <1>1, <1>2, <1>3, <1>4, <2>1 DEF CallOK, Makes, Deletes
<1>6. "mkdir" \in Makes \cup Deletes
  BY DEF Makes
<1> QED
  BY <1>2, <1>5, <1>6, PendingInv

LEMMA BeginDeleteInv ==
  ASSUME NamesInv, NEW s \in Session, NEW op \in Deletes, NEW path \in Paths, NEW isdir \in BOOLEAN,
         BeginDelete(s, op, path, isdir)
  PROVE  NamesInv'
<1> DEFINE r == LookupMinode(s, path)
           p == Full(s, path)
           c == [op |-> op, dir |-> r.dir, last |-> r.last, path |-> p, perm |-> {}, at |-> r.at]
<1>1. /\ r.at \in Nat
      /\ r.rc \in {"ok", "ENOENT"} => r.dir \in Dirs(inode, Active)
      /\ r.rc = "ENOENT" => p.names # << >>
      /\ r.rc = "ok" => r.last \in Active /\ inode[r.last].kind # "free"
  BY PathFacts, LookupMinodeFacts
<1>2. /\ Begin(s, op) /\ r.rc = "ok" /\ Auth(UserOf[s], r.dir, "w") /\ Auth(UserOf[s], r.last, "w")
      /\ p.names # << >>
      /\ Pending(s, op, r.dir, r.last, p, {}, r.at)
  BY DEF BeginDelete
<1>3. p.abs \in BOOLEAN /\ p.names \in Seq(Plain \cup Dots)
  BY PathFacts, FullFacts
<1> HIDE DEF r, p
<1>4. CallOK(s, c)
  BY <1>1, <1>2, <1>3 DEF CallOK, Makes, Deletes
<1> QED
  BY <1>2, <1>4, PendingInv

LEMMA ChgdirInv ==
  ASSUME NamesInv, NEW s \in Session, NEW path \in Paths, Chgdir(s, path)
  PROVE  NamesInv'
<1> DEFINE r == LookupMinode(s, path)
           p == Full(s, path)
           d == Follow(r.last)
<1>1. /\ r.at \in Nat
      /\ r.rc \in {"ok", "ENOENT"} => r.dir \in Dirs(inode, Active)
      /\ r.rc = "ENOENT" => p.names # << >>
      /\ r.rc = "ok" => r.last \in Active /\ inode[r.last].kind # "free"
  BY PathFacts, LookupMinodeFacts
<1>2. /\ Begin(s, "chgdir") /\ r.rc = "ok" /\ IsDir(Now, r.last) /\ call' = call
      /\ cwd' = [cwd EXCEPT ![s] = [cur_dir |-> d, path |-> p.names]]
  BY DEF Chgdir
<1>3. p.names \in Seq(Plain \cup Dots)
  BY PathFacts, FullFacts
<1> HIDE DEF r, p
<1>4. d \in Dirs(inode, Active)
  BY <1>1, <1>2, FollowFacts, NowFacts DEF Dirs
<1> HIDE DEF d
<1>5. cwd' \in [Session -> [cur_dir : Dirs(inode, Active), path : Seq(Plain \cup Dots)]]
  BY <1>2, <1>3, <1>4 DEF NamesInv, Types
<1>6. call'[s] = Idle /\ DOMAIN call' = Session
  BY <1>2 DEF Begin, NamesInv
<1> QED
  BY <1>2, <1>5, <1>6, BeginInv DEF Begin

-----------------------------------------------------------------------------
(* The changes                                                             *)

(* A directory that has been removed stays so.                             *)
LEMMA ZeroStays ==
  ASSUME NEW I \in Inodes, NEW J \in Inodes, NEW A \in SUBSET Node, NEW B \in SUBSET Node,
         Counted(I, A), Tidy(J, B), NEW d \in Dirs(I, A), d \in Dirs(J, B), I[d].nlink = 0,
         \A x \in Dirs(I, A) : Dotted(J, x) => Dotted(I, x)
  PROVE  J[d].nlink = 0
<1>1. ~ Dotted(I, d)
  BY DottedCounts DEF Dirs
<1>2. ~ Dotted(J, d)
  BY <1>1
<1> QED
  BY <1>2 DEF Tidy

(* A name that no entry of d has, and that is neither "." nor "..".        *)
Unused(I, d, name) == \A k \in DOMAIN I[d].ent : I[d].ent[k].name # name

LEMMA FreshName ==
  ASSUME NEW I \in Inodes, NEW A \in SUBSET Node, Ordered(I, A), Tidy(I, A),
         NEW d \in Dirs(I, A), I[d].nlink # 0, NEW name, Unused(I, d, name)
  PROVE  Dotted(I, d) /\ name \notin Dots
<1>1. Dotted(I, d) /\ d \in Node
  BY DEF Tidy, Dirs
<1>2. Begins(I, d)
  BY <1>1 DEF Ordered, Shape, ShapeBut
<1>3. 1 \in DOMAIN I[d].ent /\ 2 \in DOMAIN I[d].ent
  BY <1>1, <1>2, NamesFacts
<1> QED
  BY <1>1, <1>2, <1>3 DEF Unused, Begins, Dots

LEMMA HasNot ==
  ASSUME NEW fs \in FS, NEW d \in Node, NEW name, ~ Has(fs, d, name)
  PROVE  Unused(fs.inode, d, name)
<1>1. fs.inode[d].ent \in Seq(Ent)
  BY FSFacts, InodeFacts
<1> QED
  BY <1>1, PlaceFacts DEF Has, Unused

(* A change that keeps the disks in order keeps what the other calls know. *)
LEMMA ChangeInv ==
  ASSUME NamesInv, NEW fs \in FS, inode' = fs.inode, room' = fs.room,
         calls' \in 0 .. MaxCalls, UNCHANGED cwd, Keeps(inode, inode'),
         lost' \in SUBSET Node, \A x \in lost' : inode'[x].kind # "free",
         \A x \in Active : inode[x].kind # "free" => x \in Active',
         DOMAIN call' = Session, \A t \in Session : call'[t] \in {Idle, call[t]},
         outside \subseteq outside', Sound(inode', Active'),
         "onto" \notin outside' => Ordered(inode', Active'),
         outside' = {} => /\ Tidy(inode', Active')
                          /\ \A x \in Dirs(inode, Active) : Dotted(inode', x) => Dotted(inode, x)
  PROVE  NamesInv'
<1>1. inode' \in Inodes /\ room' \in [Disk -> Nat] /\ inode \in Inodes
  BY FSFacts DEF NamesInv, Types
<1>2. Active \in SUBSET Node /\ Active' \in SUBSET Node
  BY DEF Active
<1>3. ASSUME NEW x \in Active, inode[x].kind # "free"
      PROVE  /\ x \in Active' /\ inode'[x].kind = inode[x].kind
             /\ \A u, right : Auth(u, x, right) => Auth(u, x, right)'
  <2>1. /\ inode'[x].kind = inode[x].kind /\ inode'[x].owner = inode[x].owner
        /\ inode'[x].group = inode[x].group /\ inode'[x].mode = inode[x].mode
    BY <1>2, <1>3 DEF Keeps
  <2> QED
    BY <1>3, <2>1 DEF Auth
<1>4. ASSUME NEW x \in Dirs(inode, Active)
      PROVE  x \in Active /\ inode[x].kind # "free" /\ x \in Dirs(inode', Active')
  <2>1. x \in Active /\ inode[x].kind = "dir"
    BY DEF Dirs
  <2> QED
    BY <1>3, <2>1 DEF Dirs
<1>5. Types'
  BY <1>1, <1>4 DEF NamesInv, Types
<1>6. ASSUME NEW t \in Session, call'[t] = call[t], CallOK(t, call[t])
      PROVE  CallOK(t, call[t])'
  <2> DEFINE c == call[t]
  <2>1. /\ c.dir \in Dirs(inode, Active)
        /\ c.path.abs \in BOOLEAN /\ c.path.names \in Seq(Plain \cup Dots) /\ c.path.names # << >>
        /\ c.op \in Makes =>
             /\ c.perm \in Rights /\ c.at \in 0 .. Len(c.path.names)
             /\ \/ outside # {} \/ c.at < Len(c.path.names) \/ inode[c.dir].nlink = 0
                \/ Auth(UserOf[t], c.dir, "w")
        /\ c.op \in Deletes =>
             /\ c.last \in Active /\ inode[c.last].kind # "free"
             /\ Auth(UserOf[t], c.dir, "w") /\ Auth(UserOf[t], c.last, "w")
    BY <1>6 DEF CallOK
  <2>2. c.dir \in Dirs(inode', Active')
    BY <1>4, <2>1
  <2>3. Auth(UserOf[t], c.dir, "w") => (Auth(UserOf[t], call[t].dir, "w"))'
    <3>1. /\ inode'[c.dir].owner = inode[c.dir].owner
          /\ inode'[c.dir].group = inode[c.dir].group /\ inode'[c.dir].mode = inode[c.dir].mode
      BY <1>2, <1>4, <2>1 DEF Keeps
    <3> QED
      BY <1>6, <3>1 DEF Auth
  <2>4. c.op \in Deletes =>
          /\ c.last \in Active' /\ inode'[c.last].kind # "free"
          /\ (Auth(UserOf[t], call[t].last, "w"))'
    <3> SUFFICES ASSUME c.op \in Deletes
                 PROVE  /\ c.last \in Active' /\ inode'[c.last].kind # "free"
                        /\ (Auth(UserOf[t], call[t].last, "w"))'
      OBVIOUS
    <3>1. /\ inode'[c.last].owner = inode[c.last].owner /\ inode'[c.last].kind = inode[c.last].kind
          /\ inode'[c.last].group = inode[c.last].group /\ inode'[c.last].mode = inode[c.last].mode
      BY <1>2, <2>1 DEF Keeps
    <3> QED
      BY <1>6, <2>1, <3>1 DEF Auth
  <2>5. outside' = {} /\ inode[c.dir].nlink = 0 => inode'[c.dir].nlink = 0
    <3> SUFFICES ASSUME outside' = {}, inode[c.dir].nlink = 0 PROVE inode'[c.dir].nlink = 0
      OBVIOUS
    <3>1. Counted(inode, Active)
      <4>1. "onto" \notin outside
        OBVIOUS
      <4> QED
        BY <4>1 DEF NamesInv, Ordered
    <3>2. Tidy(inode', Active') /\ \A x \in Dirs(inode, Active) : Dotted(inode', x) => Dotted(inode, x)
      OBVIOUS
    <3> QED
      BY <1>1, <1>2, <2>1, <2>2, <3>1, <3>2, ZeroStays
  <2>6. outside' # {} \/ outside = {}
    OBVIOUS
  <2>7. call'[t] = c
    BY <1>6
  <2> HIDE DEF c
  <2> QED
    BY <2>1, <2>2, <2>3, <2>4, <2>5, <2>6, <2>7 DEF CallOK
<1>7. \A t \in Session : (call[t] = Idle \/ (call[t].op \in Makes \cup Deletes /\ CallOK(t, call[t])))'
  <2> TAKE t \in Session
  <2>1. CASE call'[t] = Idle
    BY <2>1
  <2>2. CASE call'[t] = call[t]
    <3>1. CASE call[t] = Idle
      BY <2>2, <3>1
    <3>2. CASE call[t] # Idle
      <4>1. call[t].op \in Makes \cup Deletes /\ CallOK(t, call[t])
        BY <3>2 DEF NamesInv
      <4>2. CallOK(t, call[t])'
        BY <1>6, <2>2, <4>1
      <4> QED
        BY <2>2, <4>1, <4>2 DEF Makes, Deletes
    <3> QED
      BY <3>1, <3>2
  <2> QED
    BY <2>1, <2>2
<1> QED
  BY <1>5, <1>7 DEF NamesInv

(* Kinds and owners of all nodes stay.                                     *)
LEMMA RestKeeps ==
  ASSUME NEW I, NEW J, Rest(I, J)
  PROVE  Keeps(I, J) /\ \A x \in Node : J[x].kind = I[x].kind
  BY DEF Rest, Keeps

(* A change that writes no new inode.                                      *)
LEMMA PlainChangeInv ==
  ASSUME NamesInv, NEW fs \in FS, inode' = fs.inode, room' = fs.room,
         calls' \in 0 .. MaxCalls, UNCHANGED <<cwd, lost>>, Rest(inode, fs.inode),
         DOMAIN call' = Session, \A t \in Session : call'[t] \in {Idle, call[t]},
         outside \subseteq outside', Sound(fs.inode, Active),
         "onto" \notin outside' => Ordered(fs.inode, Active),
         outside' = {} => /\ Tidy(fs.inode, Active)
                          /\ \A x \in Dirs(inode, Active) : Dotted(fs.inode, x) => Dotted(inode, x)
  PROVE  NamesInv'
<1>1. Active' = Active /\ lost' \in SUBSET Node /\ Active \in SUBSET Node
  BY DEF Active, NamesInv, Types
<1>2. Keeps(inode, inode') /\ \A x \in Node : inode'[x].kind = inode[x].kind
  BY RestKeeps
<1>3. \A x \in lost' : inode'[x].kind # "free"
  BY <1>1, <1>2 DEF NamesInv, Types
<1> QED
  BY <1>1, <1>2, <1>3, ChangeInv

LEMMA FinishMakeInv ==
  ASSUME NamesInv, NEW s \in Session, NEW op \in Makes, NEW kind \in {"file", "dir"},
         FinishMake(s, op, kind)
  PROVE  NamesInv'
<1> DEFINE c == call[s]
           d == c.dir
           path == c.path
           fs == Allocate(Now, d, path, UserOf[s], kind, c.perm)
           B == IF fs.rc = "ok" THEN Active ELSE Active \ Grown(inode, fs.inode)
<1>1. /\ c.op = op /\ inode' = fs.inode /\ room' = fs.room /\ call' = [call EXCEPT ![s] = Idle]
      /\ UNCHANGED <<cwd, calls>>
      /\ lost' = IF fs.rc = "ok" THEN lost ELSE lost \cup Written(fs)
      /\ outside' = outside \cup Misplaced(c, fs)
  BY DEF FinishMake, Commit
<1>2. CallOK(s, c) /\ c.op \in Makes
  <2>1. c # Idle
    BY <1>1 DEF Idle, Makes
  <2> QED
    BY <1>1, <2>1 DEF NamesInv
<1>3. /\ d \in Dirs(inode, Active) /\ c.perm \in Rights /\ c.at \in 0 .. Len(path.names)
      /\ path.abs \in BOOLEAN /\ path.names \in Seq(Plain \cup Dots) /\ path.names # << >>
  BY <1>2 DEF CallOK
<1>4. UserOf[s] \in User \cup {NoUser}
  BY NamesAssumption
<1>5. /\ Now \in FS /\ Now.inode = inode /\ Now.rc = "ok" /\ Active \in SUBSET Node
      /\ \A x \in Node : inode[x].kind = "free" => x \in Active
      /\ \A n : IsDir(Now, n) <=> inode[n].kind = "dir"
  BY NowFacts
<1>6. /\ Sound(inode, Active) /\ ("onto" \notin outside => Ordered(inode, Active))
      /\ (outside = {} => Tidy(inode, Active)) /\ inode \in Inodes
  BY DEF NamesInv, Types
<1>7. /\ fs \in FS /\ Keeps(inode, fs.inode) /\ Sound(fs.inode, B)
      /\ \A x \in Node : x # d /\ inode[x].kind # "free" => fs.inode[x].ent = inode[x].ent
      /\ fs.rc # "ok" => fs.inode[d].ent = inode[d].ent
      /\ Ordered(inode, Active) => Ordered(fs.inode, B) /\ \A x \in Dirs(inode, Active) : Dotted(fs.inode, x) <=> Dotted(inode, x)
      /\ Ordered(inode, Active) /\ Tidy(inode, Active) /\ (fs.rc = "ok" => Dotted(inode, d) /\ LinkName(path) \notin Dots) =>
           Tidy(fs.inode, B)
  <2> DEFINE perm == c.perm
             u == UserOf[s]
  <2>0. perm \in Rights /\ u \in User \cup {NoUser} /\ IsPath(path)
    BY <1>3, <1>4 DEF IsPath
  <2> HIDE DEF d, path, c, perm, u
  <2>1. /\ Now \in FS /\ Now.rc = "ok" /\ Active \in SUBSET Node /\ Sound(Now.inode, Active)
        /\ \A x \in Node : Now.inode[x].kind = "free" => x \in Active
        /\ d \in Dirs(Now.inode, Active)
    BY <1>3, <1>5, <1>6
  <2>2. AllocateDone(Allocate(Now, d, path, u, kind, perm), Now.inode, Active, d, path)
    BY ONLY <2>0, <2>1, kind \in {"file", "dir"}, AllocateFacts
  <2> QED
    BY <1>5, <2>2 DEF AllocateDone, fs, B, perm, u
<1> HIDE DEF fs, d, path
<1>8. Written(fs) = Grown(inode, fs.inode)
  BY DEF Written, Grown
<1>9. Active' = B
  BY <1>1, <1>8 DEF Active
<1>10. lost' \in SUBSET Node /\ \A x \in lost' : inode'[x].kind # "free"
  <2>1. lost \in SUBSET Node /\ \A x \in lost : inode[x].kind # "free"
    BY DEF NamesInv, Types
  <2>2. \A x \in lost : fs.inode[x].kind # "free"
    BY <1>7, <2>1 DEF Keeps
  <2>3. Grown(inode, fs.inode) \subseteq Node /\ \A x \in Grown(inode, fs.inode) : fs.inode[x].kind # "free"
    BY DEF Grown
  <2> QED
    BY <1>1, <1>8, <2>1, <2>2, <2>3
<1>11. \A x \in Active : inode[x].kind # "free" => x \in Active'
  BY <1>9 DEF Grown
<1>12. ASSUME outside' = {}, fs.rc = "ok"
       PROVE  Dotted(inode, d) /\ LinkName(path) \notin Dots
  <2>1. outside = {} /\ inode[d].nlink # 0 /\ ~ Has(Now, d, LinkName(path))
    BY <1>1, <1>12 DEF Misplaced, d, path
  <2>2. Ordered(inode, Active) /\ Tidy(inode, Active)
    BY <1>6, <2>1
  <2>3. Unused(inode, d, LinkName(path))
    BY <1>3, <1>5, <2>1, HasNot DEF Dirs
  <2> QED
    BY <1>3, <1>5, <1>6, <2>1, <2>2, <2>3, FreshName
<1>13. outside \subseteq outside'
  BY <1>1
<1>14. DOMAIN call' = Session /\ \A t \in Session : call'[t] \in {Idle, call[t]}
  BY <1>1 DEF NamesInv
<1>15. "onto" \notin outside' => Ordered(inode', Active')
  BY <1>1, <1>6, <1>7, <1>9, <1>13
<1>16. outside' = {} => /\ Tidy(inode', Active')
                        /\ \A x \in Dirs(inode, Active) : Dotted(inode', x) => Dotted(inode, x)
  <2> SUFFICES ASSUME outside' = {}
               PROVE  /\ Tidy(inode', Active')
                      /\ \A x \in Dirs(inode, Active) : Dotted(inode', x) => Dotted(inode, x)
    OBVIOUS
  <2>1. Ordered(inode, Active) /\ Tidy(inode, Active)
    BY <1>6, <1>13
  <2>2. fs.rc = "ok" => Dotted(inode, d) /\ LinkName(path) \notin Dots
    BY <1>12
  <2> HIDE DEF B
  <2> QED
    BY <1>1, <1>7, <1>9, <2>1, <2>2
<1>17. calls' \in 0 .. MaxCalls /\ cwd' = cwd /\ Keeps(inode, inode') /\ Sound(inode', Active')
       /\ inode' = fs.inode /\ room' = fs.room /\ fs \in FS
  BY <1>1, <1>7, <1>9 DEF NamesInv, Types
<1> HIDE DEF B, c
<1> QED
  BY ONLY NamesInv, <1>10, <1>11, <1>13, <1>14, <1>15, <1>16, <1>17, ChangeInv

LEMMA FinishDeleteInv ==
  ASSUME NamesInv, NEW s \in Session, NEW op \in Deletes, FinishDelete(s, op)
  PROVE  NamesInv'
<1> DEFINE c == call[s]
           d == c.dir
           name == Last(c.path.names)
           fs == DeallocateFile(Now, d, name)
           p == Place(Now, d, name)
<1>1. /\ c.op = op /\ inode' = fs.inode /\ room' = fs.room /\ call' = [call EXCEPT ![s] = Idle]
      /\ UNCHANGED <<cwd, calls, lost>> /\ outside \subseteq outside'
  BY DEF FinishDelete, Commit
<1>2. d \in Dirs(inode, Active)
  <2>1. c # Idle
    BY <1>1 DEF Idle, Deletes
  <2> QED
    BY <2>1 DEF NamesInv, CallOK
<1>3. Now \in FS /\ Now.inode = inode /\ Now.rc = "ok" /\ Active \in SUBSET Node
  BY NowFacts
<1>4. /\ Sound(inode, Active) /\ ("onto" \notin outside => Ordered(inode, Active))
      /\ (outside = {} => Tidy(inode, Active)) /\ inode \in Inodes
  BY DEF NamesInv, Types
<1> HIDE DEF d, name, c
<1>5. /\ fs \in FS /\ Rest(inode, fs.inode) /\ Sound(fs.inode, Active)
      /\ fs.rc = "ok" => Has(Now, d, name)
      /\ \A x \in Node : fs.inode[x].ent # inode[x].ent => Has(Now, d, name) /\ (x = d \/ x = Child(inode, d, p))
      /\ Ordered(inode, Active) =>
           IF fs.rc = "ok" THEN Ordered(fs.inode, Active) /\ Deleted(inode, fs.inode, d, p) ELSE fs.inode = inode
  <2>1. d \in Dirs(Now.inode, Active) /\ Sound(Now.inode, Active)
    BY <1>2, <1>3, <1>4
  <2>2. LET r == DeallocateFile(Now, d, name)
            I == Now.inode
            J == r.inode
            q == Place(Now, d, name)
        IN  /\ r \in FS /\ Rest(I, J) /\ Sound(J, Active)
            /\ r.rc = "ok" => Has(Now, d, name)
            /\ \A x \in Node : J[x].ent # I[x].ent => Has(Now, d, name) /\ (x = d \/ x = Child(I, d, q))
            /\ Ordered(I, Active) => IF r.rc = "ok" THEN Ordered(J, Active) /\ Deleted(I, J, d, q) ELSE J = I
    BY ONLY <1>3, <2>1, DeallocateFacts
  <2> QED
    BY <1>3, <2>2
<1> HIDE DEF fs, p
<1>6. Ordered(inode, Active) =>
        /\ Ordered(fs.inode, Active)
        /\ \A x \in Dirs(inode, Active) : Dotted(fs.inode, x) => Dotted(inode, x)
        /\ Tidy(inode, Active) => Tidy(fs.inode, Active)
  <2> SUFFICES ASSUME Ordered(inode, Active)
               PROVE  /\ Ordered(fs.inode, Active)
                      /\ \A x \in Dirs(inode, Active) : Dotted(fs.inode, x) => Dotted(inode, x)
                      /\ Tidy(inode, Active) => Tidy(fs.inode, Active)
    OBVIOUS
  <2>1. CASE fs.rc = "ok"
    <3>1. Ordered(fs.inode, Active) /\ Deleted(inode, fs.inode, d, p)
      BY <1>5, <2>1
    <3>2. \A x \in Node : Dotted(fs.inode, x) <=> Dotted(inode, x) /\ x # Child(inode, d, p)
      BY <3>1 DEF Deleted
    <3>3. Tidy(inode, Active) => Tidy(fs.inode, Active)
      BY <1>2, <1>3, <1>4, <1>5, <3>1, FSFacts, DeletedTidy
    <3> QED
      BY <1>3, <3>1, <3>2, <3>3 DEF Dirs
  <2>2. CASE fs.rc # "ok"
    BY <1>5, <2>2
  <2> QED
    BY <2>1, <2>2
<1>7. DOMAIN call' = Session /\ \A t \in Session : call'[t] \in {Idle, call[t]}
  BY <1>1 DEF NamesInv
<1>8. calls' \in 0 .. MaxCalls
  BY <1>1 DEF NamesInv, Types
<1> QED
  BY <1>1, <1>4, <1>5, <1>6, <1>7, <1>8, PlainChangeInv

LEMMA LiveFacts ==
  ASSUME NamesInv, NEW n \in Node, Live(n)
  PROVE  /\ n \in Active /\ inode[n].kind # "free"
         /\ IsDir(Now, n) => n \in Dirs(inode, Active)
         /\ IsDir(Now, n) /\ Tidy(inode, Active) => Dotted(inode, n)
<1>1. n \in Active /\ inode[n].kind # "free" /\ inode[n].nlink # 0
  <2>1. inode[n].nlink > 0
    BY DEF Live
  <2> QED
    BY <2>1 DEF Live, Active
<1>2. IsDir(Now, n) => n \in Dirs(inode, Active)
  BY <1>1, NowFacts DEF Dirs
<1> QED
  BY <1>1, <1>2 DEF Tidy

LEMMA RenameInv ==
  ASSUME NamesInv, NEW pf \in Node, NEW pt \in Node, NEW from \in Renamed, NEW to \in Renamed,
         Rename(pf, from, pt, to)
  PROVE  NamesInv'
<1> DEFINE fs == RenameFile(Now, pf, from, pt, to)
<1>1. /\ IsDir(Now, pf) /\ IsDir(Now, pt) /\ Live(pf) /\ Live(pt) /\ pf[1] = pt[1] /\ Has(Now, pf, from)
      /\ Internal("rename", fs) /\ outside \subseteq outside'
      /\ "onto" \notin outside' => <<pf, from>> # <<pt, to>> /\ ~ Doubled(pf, from)
  BY DEF Rename
<1>2. /\ pf \in Dirs(inode, Active) /\ pt \in Dirs(inode, Active)
      /\ Tidy(inode, Active) => Dotted(inode, pt)
  BY <1>1, LiveFacts
<1>3. from \in Plain /\ to \in Plain
  BY NamesAssumption
<1>4. Now \in FS /\ Now.inode = inode /\ Now.rc = "ok" /\ Active \in SUBSET Node
  BY NowFacts
<1>5. /\ Sound(inode, Active) /\ ("onto" \notin outside => Ordered(inode, Active))
      /\ (outside = {} => Tidy(inode, Active)) /\ inode \in Inodes
  BY DEF NamesInv, Types
<1>6. /\ fs \in FS /\ Rest(inode, fs.inode) /\ Sound(fs.inode, Active)
      /\ Ordered(inode, Active) /\ <<pf, from>> # <<pt, to>> /\ Single(inode, pf, from) =>
           Stays(inode, fs.inode, Active) /\ (Tidy(inode, Active) /\ Dotted(inode, pt) => Tidy(fs.inode, Active))
  <2>1. /\ Sound(Now.inode, Active) /\ pf \in Dirs(Now.inode, Active) /\ pt \in Dirs(Now.inode, Active)
        /\ pf[1] = pt[1] /\ Has(Now, pf, from)
    BY <1>1, <1>2, <1>4, <1>5
  <2>2. LET r == RenameFile(Now, pf, from, pt, to)
            I == Now.inode
            J == r.inode
        IN  /\ r \in FS /\ Rest(I, J) /\ Sound(J, Active)
            /\ Ordered(I, Active) /\ <<pf, from>> # <<pt, to>> /\ Single(I, pf, from) =>
                 Stays(I, J, Active) /\ (Tidy(I, Active) /\ Dotted(I, pt) => Tidy(J, Active))
    BY ONLY <1>3, <1>4, <2>1, RenameFacts
  <2> QED
    BY <1>4, <2>2
<1> HIDE DEF fs
<1>7. ~ Doubled(pf, from) => Single(inode, pf, from)
  BY DEF Doubled, Single
<1>8. "onto" \notin outside' => Stays(inode, fs.inode, Active) /\ (Tidy(inode, Active) => Tidy(fs.inode, Active))
  BY <1>1, <1>2, <1>5, <1>6, <1>7
<1>9. /\ "onto" \notin outside' => Ordered(fs.inode, Active)
      /\ outside' = {} => /\ Tidy(fs.inode, Active)
                          /\ \A x \in Dirs(inode, Active) : Dotted(fs.inode, x) => Dotted(inode, x)
  <2>1. Stays(inode, fs.inode, Active) =>
          /\ Ordered(fs.inode, Active)
          /\ \A x \in Dirs(inode, Active) : Dotted(fs.inode, x) => Dotted(inode, x)
    BY <1>4 DEF Stays, Dirs
  <2>2. outside' = {} => outside = {} /\ "onto" \notin outside'
    BY <1>1
  <2> QED
    BY <1>5, <1>8, <2>1, <2>2
<1>10. calls' \in 0 .. MaxCalls /\ inode' = fs.inode /\ room' = fs.room /\ UNCHANGED <<cwd, call, lost>>
  BY <1>1, MoreFacts DEF Internal
<1>11. DOMAIN call' = Session /\ \A t \in Session : call'[t] \in {Idle, call[t]}
  BY <1>10 DEF NamesInv
<1> QED
  BY <1>1, <1>6, <1>9, <1>10, <1>11, PlainChangeInv

LEMMA LinkInv ==
  ASSUME NamesInv, NEW d \in Node, NEW n \in Node, NEW name \in Renamed, Link(d, n, name)
  PROVE  NamesInv'
<1> DEFINE a == AddEntry(Now, d, n[2], name)
           fs == IF a.rc = "ok" THEN [a EXCEPT !.inode[n].nlink = @ + 1] ELSE a
<1>1. /\ IsDir(Now, d) /\ Live(d) /\ Live(n) /\ ~ IsDir(Now, n) /\ d[1] = n[1]
      /\ Internal("link", fs) /\ outside' = outside
  BY DEF Link
<1>2. d \in Dirs(inode, Active) /\ n \in Active /\ (Tidy(inode, Active) => Dotted(inode, d))
  BY <1>1, LiveFacts
<1>3. name \in Plain
  BY NamesAssumption
<1>4. Now \in FS /\ Now.inode = inode /\ Now.rc = "ok" /\ Active \in SUBSET Node
  BY NowFacts
<1>5. /\ Sound(inode, Active) /\ ("onto" \notin outside => Ordered(inode, Active))
      /\ (outside = {} => Tidy(inode, Active)) /\ inode \in Inodes
  BY DEF NamesInv, Types
<1>6. inode[n].kind = "file"
  <2>1. inode[n].kind \in {"free", "file", "dir"} /\ inode[n].kind # "free"
    BY <1>1, <1>5, InodeFacts, LiveFacts
  <2> QED
    BY <1>1, <2>1, NowFacts
<1>7. /\ fs \in FS /\ Rest(inode, fs.inode) /\ Sound(fs.inode, Active)
      /\ Ordered(inode, Active) =>
           Stays(inode, fs.inode, Active) /\ (Tidy(inode, Active) /\ Dotted(inode, d) => Tidy(fs.inode, Active))
  <2>1. /\ Sound(Now.inode, Active) /\ d \in Dirs(Now.inode, Active) /\ n \in Active
        /\ Now.inode[n].kind = "file" /\ n[1] = d[1]
    BY <1>1, <1>2, <1>4, <1>5, <1>6
  <2>2. LET b == AddEntry(Now, d, n[2], name)
            r == IF b.rc = "ok" THEN [b EXCEPT !.inode[n].nlink = @ + 1] ELSE b
            I == Now.inode
            J == r.inode
        IN  /\ r \in FS /\ Rest(I, J) /\ Sound(J, Active)
            /\ Ordered(I, Active) => Stays(I, J, Active) /\ (Tidy(I, Active) /\ Dotted(I, d) => Tidy(J, Active))
    <3> HIDE DEF Added, Rest
    <3> QED
      BY ONLY <1>3, <1>4, <2>1, LinkFacts
  <2> HIDE DEF Rest
  <2> QED
    BY <1>4, <2>2
<1> HIDE DEF fs
<1>8. /\ "onto" \notin outside' => Ordered(fs.inode, Active)
      /\ outside' = {} => /\ Tidy(fs.inode, Active)
                          /\ \A x \in Dirs(inode, Active) : Dotted(fs.inode, x) => Dotted(inode, x)
  <2>1. Stays(inode, fs.inode, Active) =>
          /\ Ordered(fs.inode, Active)
          /\ \A x \in Dirs(inode, Active) : Dotted(fs.inode, x) => Dotted(inode, x)
    BY <1>4 DEF Stays, Dirs
  <2>2. outside' = {} => outside = {} /\ "onto" \notin outside'
    BY <1>1
  <2> QED
    BY <1>1, <1>2, <1>5, <1>7, <2>1, <2>2
<1>9. calls' \in 0 .. MaxCalls /\ inode' = fs.inode /\ room' = fs.room /\ UNCHANGED <<cwd, call, lost>>
  BY <1>1, MoreFacts DEF Internal
<1>10. DOMAIN call' = Session /\ \A t \in Session : call'[t] \in {Idle, call[t]}
  BY <1>9 DEF NamesInv
<1>11. outside \subseteq outside'
  BY <1>1
<1> QED
  BY <1>7, <1>8, <1>9, <1>10, <1>11, PlainChangeInv

-----------------------------------------------------------------------------
(* All steps                                                               *)

LEMMA SessionStepInv == ASSUME NamesInv, NEW s \in Session, SessionStep(s) PROVE NamesInv'
<1>1. ASSUME NEW path \in Paths, NEW perm \in Perms, BeginCreate(s, path, perm) PROVE NamesInv'
  BY <1>1, BeginCreateInv
<1>2. ASSUME NEW path \in Paths, NEW perm \in Perms, BeginMkdir(s, path, perm) PROVE NamesInv'
  BY <1>2, BeginMkdirInv
<1>3. ASSUME NEW path \in Paths, BeginDelete(s, "rmdir", path, TRUE) PROVE NamesInv'
  BY <1>3, BeginDeleteInv DEF Deletes
<1>4. ASSUME NEW path \in Paths, BeginDelete(s, "remove", path, FALSE) PROVE NamesInv'
  BY <1>4, BeginDeleteInv DEF Deletes
<1>5. ASSUME NEW path \in Paths, Chgdir(s, path) PROVE NamesInv'
  BY <1>5, ChgdirInv
<1>6. FinishMake(s, "create", "file") => NamesInv'
  BY FinishMakeInv DEF Makes
<1>7. FinishMake(s, "mkdir", "dir") => NamesInv'
  BY FinishMakeInv DEF Makes
<1>8. FinishDelete(s, "rmdir") \/ FinishDelete(s, "remove") => NamesInv'
  BY FinishDeleteInv DEF Deletes
<1> QED
  BY <1>1, <1>2, <1>3, <1>4, <1>5, <1>6, <1>7, <1>8 DEF SessionStep

LEMMA StutterInv == NamesInv /\ UNCHANGED vars => NamesInv'
<1> SUFFICES ASSUME NamesInv, UNCHANGED vars PROVE NamesInv'
  OBVIOUS
<1>1. UNCHANGED <<inode, room, cwd, call, calls, lost, outside>> /\ Active' = Active
  BY DEF vars, Active
<1>2. Types'
  BY <1>1 DEF NamesInv, Types
<1>3. \A t \in Session : CallOK(t, call[t]) => CallOK(t, call[t])'
  BY <1>1 DEF CallOK, Auth
<1>4. \A t \in Session : (call[t] = Idle \/ (call[t].op \in Makes \cup Deletes /\ CallOK(t, call[t])))'
  BY <1>1, <1>3 DEF NamesInv
<1> QED
  BY <1>1, <1>2, <1>4 DEF NamesInv

LEMMA StepInv == NamesInv /\ [NamesNext]_vars => NamesInv'
<1> SUFFICES ASSUME NamesInv, [NamesNext]_vars PROVE NamesInv'
  OBVIOUS
<1>1. ASSUME NEW s \in Session, SessionStep(s) PROVE NamesInv'
  BY <1>1, SessionStepInv
<1>2. ASSUME NEW pf \in Node, NEW pt \in Node, NEW from \in Renamed, NEW to \in Renamed,
             Rename(pf, from, pt, to)
      PROVE  NamesInv'
  BY <1>2, RenameInv
<1>3. ASSUME NEW d \in Node, NEW n \in Node, NEW name \in Renamed, Link(d, n, name) PROVE NamesInv'
  BY <1>3, LinkInv
<1>4. CASE UNCHANGED vars
  BY <1>4, StutterInv
<1> QED
  BY <1>1, <1>2, <1>3, <1>4 DEF NamesNext

-----------------------------------------------------------------------------
(* The disks when they are mounted                                         *)

First == [n \in Node |-> IF n \in DOMAIN Formatted THEN Formatted[n] ELSE Free]

LEMMA FormatFacts ==
  /\ DOMAIN Formatted \subseteq Node
  /\ \A d \in Disk : RootOf(d) \in DOMAIN Formatted /\ Formatted[RootOf(d)].kind = "dir"
  /\ \A n \in DOMAIN Formatted :
       /\ First[n] = Formatted[n]
       /\ First[n] = [kind |-> First[n].kind, nlink |-> First[n].nlink, ent |-> First[n].ent,
                      owner |-> First[n].owner, group |-> First[n].group, mode |-> First[n].mode]
       /\ First[n].kind \in {"file", "dir"} /\ First[n].mode \in Rights
       /\ First[n].ent \in Seq(Ent)
       /\ First[n].nlink = Cardinality(Named(n))
       /\ \A k \in DOMAIN First[n].ent : Child(First, n, k) \in DOMAIN Formatted
       /\ First[n].kind = "file" => First[n].ent = << >>
  /\ \A n \in Node \ DOMAIN Formatted : First[n] = Free
<1>1. DOMAIN Formatted \subseteq Node
  BY FormatAssumption
<1>2. \A n \in DOMAIN Formatted : First[n] = Formatted[n] /\ n \in Node
  BY <1>1 DEF First
<1>3. \A n \in Node \ DOMAIN Formatted : First[n] = Free
  BY DEF First
<1>4. \A d \in Disk : RootOf(d) \in DOMAIN Formatted /\ Formatted[RootOf(d)].kind = "dir"
  BY FormatAssumption
<1>5. ASSUME NEW n \in DOMAIN Formatted
      PROVE  /\ First[n] = [kind |-> First[n].kind, nlink |-> First[n].nlink, ent |-> First[n].ent,
                            owner |-> First[n].owner, group |-> First[n].group, mode |-> First[n].mode]
             /\ First[n].kind \in {"file", "dir"} /\ First[n].mode \in Rights
             /\ First[n].ent \in Seq(Ent)
             /\ First[n].nlink = Cardinality(Named(n))
             /\ \A k \in DOMAIN First[n].ent : Child(First, n, k) \in DOMAIN Formatted
             /\ First[n].kind = "file" => First[n].ent = << >>
  <2> DEFINE f == Formatted[n]
  <2>1. /\ f = [kind |-> f.kind, nlink |-> f.nlink, ent |-> f.ent,
                owner |-> f.owner, group |-> f.group, mode |-> f.mode]
        /\ f.kind \in {"file", "dir"} /\ f.mode \in Rights
        /\ f.ent \in Seq([name : Name, ino : Nat])
        /\ f.nlink = Cardinality(Named(n))
        /\ \A k \in DOMAIN f.ent : <<n[1], f.ent[k].ino>> \in DOMAIN Formatted
        /\ f.kind = "file" => f.ent = << >>
    BY FormatAssumption
  <2>2. First[n] = f
    BY <1>2
  <2> HIDE DEF f
  <2> QED
    BY <2>1, <2>2 DEF Child, Ent
<1> HIDE DEF First
<1> QED
  BY <1>1, <1>2, <1>3, <1>4, <1>5

(* A directory of a mounted disk.                                          *)
LEMMA FormatDirs ==
  ASSUME NEW n \in DOMAIN Formatted, First[n].kind = "dir"
  PROVE  /\ Len(First[n].ent) >= 2 /\ First[n].ent[1].name = "." /\ First[n].ent[1].ino = n[2]
         /\ First[n].ent[2].name = ".." /\ First[Child(First, n, 2)].kind = "dir"
         /\ IF n[2] = RootInode THEN First[n].ent[2].ino = RootInode
            ELSE \E k \in DOMAIN First[Child(First, n, 2)].ent :
                   k > 2 /\ First[Child(First, n, 2)].ent[k].ino = n[2]
         /\ \A k \in DOMAIN First[n].ent : k > 2 =>
              /\ First[n].ent[k].name \notin Dots
              /\ First[Child(First, n, k)].kind = "dir" =>
                   /\ First[n].ent[k].ino # RootInode
                   /\ First[Child(First, n, k)].ent[2].ino = n[2]
                   /\ \A j \in DOMAIN First[n].ent :
                        j > 2 /\ Child(First, n, j) = Child(First, n, k) => j = k
<1> DEFINE f == Formatted[n]
           c(k) == <<n[1], f.ent[k].ino>>
<1>1. f = First[n] /\ \A m \in DOMAIN Formatted : Formatted[m] = First[m]
  BY FormatFacts
<1>2. /\ Len(f.ent) >= 2 /\ f.ent[1] = [name |-> ".", ino |-> n[2]]
      /\ f.ent[2].name = ".." /\ Formatted[c(2)].kind = "dir"
      /\ IF n[2] = RootInode THEN f.ent[2].ino = RootInode
         ELSE \E k \in DOMAIN Formatted[c(2)].ent : k > 2 /\ Formatted[c(2)].ent[k].ino = n[2]
      /\ \A k \in DOMAIN f.ent : k > 2 =>
           /\ f.ent[k].name \notin Dots
           /\ Formatted[c(k)].kind = "dir" =>
                /\ f.ent[k].ino # RootInode
                /\ Formatted[c(k)].ent[2].ino = n[2]
                /\ \A j \in DOMAIN f.ent : j > 2 /\ c(j) = c(k) => j = k
  BY <1>1, FormatAssumption
<1>3. \A k : c(k) = Child(First, n, k)
  BY <1>1 DEF Child
<1>4. \A k \in DOMAIN f.ent : c(k) \in DOMAIN Formatted
  BY <1>1, <1>3, FormatFacts
<1>5. 2 \in DOMAIN f.ent
  <2>1. f.ent \in Seq(Ent)
    BY <1>1, FormatFacts
  <2> HIDE DEF f
  <2>2. Len(f.ent) \in Nat /\ DOMAIN f.ent = 1 .. Len(f.ent)
    BY <2>1, LenProperties
  <2> QED
    BY <1>2, <2>2
<1>6. Formatted[c(2)] = First[c(2)] /\ \A k \in DOMAIN f.ent : Formatted[c(k)] = First[c(k)]
  BY <1>1, <1>4, <1>5
<1>7. f.ent[1].name = "." /\ f.ent[1].ino = n[2]
  <2> HIDE DEF f
  <2> QED
    BY <1>2
<1> HIDE DEF f, c, First
<1> QED
  BY <1>1, <1>2, <1>3, <1>6, <1>7

LEMMA FreeEmpty == Free.ent = << >> /\ Free.kind = "free" /\ Free.nlink = 0
  BY DEF Free

LEMMA FirstTypes == First \in Inodes
<1> DEFINE bare == [n \in Node |-> [First[n] EXCEPT !.nlink = 0]]
<1>1. ASSUME NEW n \in Node, n \notin DOMAIN Formatted PROVE First[n] = Free /\ First[n] \in Record
  <2>1. First[n] = Free
    BY <1>1, FormatFacts
  <2>2. NoUser \in Owners /\ "" \in Groups /\ << >> \in Seq(Ent)
    BY EmptySeq DEF Owners, Groups
  <2>3. [owner |-> {}, group |-> {}, world |-> {}] \in Rights
    BY DEF Rights
  <2>4. Free \in Record
    BY ONLY <2>2, <2>3 DEF Free, Record
  <2> QED
    BY <2>1, <2>4
<1>2. ASSUME NEW n \in DOMAIN Formatted
      PROVE  /\ First[n] = [kind |-> First[n].kind, nlink |-> First[n].nlink, ent |-> First[n].ent,
                            owner |-> First[n].owner, group |-> First[n].group, mode |-> First[n].mode]
             /\ First[n].kind \in {"free", "file", "dir"} /\ First[n].mode \in Rights
             /\ First[n].ent \in Seq(Ent) /\ First[n].owner \in Owners /\ First[n].group \in Groups
  <2>1. First[n].owner \in Owners /\ First[n].group \in Groups
    <3>1. First[n] = Formatted[n]
      BY FormatFacts
    <3> QED
      BY <3>1 DEF Owners, Groups
  <2> HIDE DEF First
  <2> QED
    BY <2>1, FormatFacts
<1>3. ASSUME NEW n \in DOMAIN Formatted, NEW v \in Nat
      PROVE  /\ [First[n] EXCEPT !.nlink = v] \in Record /\ [First[n] EXCEPT !.nlink = v].ent = First[n].ent
             /\ First[n].nlink = v => First[n] \in Record
  <2> DEFINE f == First[n]
             r == [kind |-> f.kind, nlink |-> v, ent |-> f.ent,
                   owner |-> f.owner, group |-> f.group, mode |-> f.mode]
  <2>1. f = [kind |-> f.kind, nlink |-> f.nlink, ent |-> f.ent,
             owner |-> f.owner, group |-> f.group, mode |-> f.mode]
    BY <1>2
  <2>2. r \in Record
    BY <1>2 DEF Record
  <2> HIDE DEF f
  <2>3. [f EXCEPT !.nlink = v] = r
    BY <2>1
  <2>4. f.nlink = v => f = r
    BY <2>1
  <2> QED
    BY <2>2, <2>3, <2>4 DEF f
<1>4. bare \in Inodes /\ \A n \in Node : bare[n].ent = First[n].ent
  <2>1. ASSUME NEW n \in Node
        PROVE  [First[n] EXCEPT !.nlink = 0] \in Record /\ [First[n] EXCEPT !.nlink = 0].ent = First[n].ent
    <3>1. CASE n \in DOMAIN Formatted
      BY <1>3, <3>1
    <3>2. CASE n \notin DOMAIN Formatted
      <4>1. First[n] \in Record
        BY <1>1, <3>2
      <4> HIDE DEF First
      <4> QED
        BY <4>1, RecordFacts
    <3> QED
      BY <3>1, <3>2
  <2> HIDE DEF First
  <2> QED
    BY <2>1 DEF Inodes
<1> HIDE DEF bare
<1>5. ASSUME NEW n \in Node PROVE Named(n) = Refs(bare, Node, n)
  <2>1. ASSUME NEW m \in Node, NEW k \in DOMAIN bare[m].ent PROVE m \in DOMAIN Formatted
    <3>1. m \notin DOMAIN Formatted => bare[m].ent = << >>
      BY <1>1, <1>4, FreeEmpty
    <3>2. bare[m].ent \in Seq(Ent)
      BY <1>4, InodeFacts
    <3> QED
      BY <1>4, <2>1, <3>1, InodeFacts
  <2>2. ASSUME NEW m \in DOMAIN Formatted
        PROVE  m \in Node /\ Formatted[m].ent = bare[m].ent /\ DOMAIN bare[m].ent \subseteq Nat
    <3>1. m \in Node /\ Formatted[m] = First[m]
      BY FormatFacts
    <3> HIDE DEF First
    <3> QED
      BY <1>4, <3>1, NamesFacts
  <2>3. Named(n) \subseteq Refs(bare, Node, n)
    BY <2>2 DEF Named, Refs, Child
  <2>4. Refs(bare, Node, n) \subseteq Named(n)
    <3> SUFFICES ASSUME NEW p \in Refs(bare, Node, n) PROVE p \in Named(n)
      OBVIOUS
    <3>1. p = <<p[1], p[2]>> /\ p[1] \in Node /\ p[2] \in DOMAIN bare[p[1]].ent
          /\ <<p[1][1], bare[p[1]].ent[p[2]].ino>> = n
      BY DEF Refs, Child
    <3>2. p[1] \in DOMAIN Formatted /\ Formatted[p[1]].ent = bare[p[1]].ent
      BY <2>1, <2>2, <3>1
    <3> QED
      BY <3>1, <3>2 DEF Named
  <2> QED
    BY <2>3, <2>4
<1>6. ASSUME NEW n \in DOMAIN Formatted PROVE First[n] \in Record
  <2>1. n \in Node /\ First[n].nlink = Cardinality(Named(n))
    <3> HIDE DEF First
    <3> QED
      BY FormatFacts
  <2>2. Cardinality(Named(n)) \in Nat
    <3>1. Named(n) = Refs(bare, Node, n)
      BY <1>5, <2>1
    <3> QED
      BY <1>4, <3>1, RefsFacts
  <2> QED
    BY <1>3, <2>1, <2>2
<1>7. First = [n \in Node |-> First[n]]
  BY DEF First
<1> HIDE DEF First
<1> QED
  BY <1>1, <1>6, <1>7 DEF Inodes

(* Every name of a node is an entry that names it.                         *)
LEMMA NamedRefs ==
  ASSUME NEW n \in Node
  PROVE  Named(n) = Refs(First, Node, n)
<1>1. \A m \in DOMAIN Formatted : m \in Node /\ Formatted[m] = First[m]
  BY FormatFacts
<1>2. \A m \in Node : m \notin DOMAIN Formatted => First[m].ent = << >>
  BY FormatFacts, FreeEmpty
<1> HIDE DEF First
<1>3. ASSUME NEW m \in Node, NEW k \in DOMAIN First[m].ent PROVE m \in DOMAIN Formatted
  <2>1. First[m].ent # << >>
    BY <1>3, FirstTypes, InodeFacts
  <2> QED
    BY <1>2, <2>1
<1>4. \A m \in Node : DOMAIN First[m].ent \subseteq Nat
  BY FirstTypes, NamesFacts
<1>5. Named(n) \subseteq Refs(First, Node, n)
  BY <1>1, <1>4 DEF Named, Refs, Child
<1>6. ASSUME NEW p \in Refs(First, Node, n) PROVE p \in Named(n)
  <2>1. p = <<p[1], p[2]>> /\ p[1] \in Node /\ p[2] \in DOMAIN First[p[1]].ent
        /\ <<p[1][1], First[p[1]].ent[p[2]].ino>> = n
    BY <1>6 DEF Refs, Child
  <2>2. p[1] \in DOMAIN Formatted /\ Formatted[p[1]].ent = First[p[1]].ent
    BY <1>1, <1>3, <2>1
  <2> QED
    BY <2>1, <2>2 DEF Named
<1> QED
  BY <1>5, <1>6

(* What is in a directory that is mounted.                                 *)
LEMMA FirstDirs ==
  ASSUME NEW n \in Node, First[n].kind = "dir"
  PROVE  /\ n \in DOMAIN Formatted /\ Dotted(First, n) /\ Begins(First, n)
         /\ {1, 2} \subseteq DOMAIN First[n].ent
         /\ \A k : k \in NamesIn(First, n) <=> k \in DOMAIN First[n].ent /\ k > 2
         /\ \A k \in DOMAIN First[n].ent :
              k \in Nat /\ (First[n].ent[k].name \notin Dots <=> k \in NamesIn(First, n))
<1>1. n \in DOMAIN Formatted
  BY FormatFacts, FreeEmpty
<1>2. /\ Len(First[n].ent) >= 2 /\ First[n].ent[1].name = "." /\ First[n].ent[1].ino = n[2]
      /\ First[n].ent[2].name = ".."
      /\ \A k \in DOMAIN First[n].ent : k > 2 => First[n].ent[k].name \notin Dots
  BY <1>1, FormatDirs
<1>3. /\ First[n].ent \in Seq(Ent) /\ Len(First[n].ent) \in Nat
      /\ DOMAIN First[n].ent = 1 .. Len(First[n].ent)
      /\ First[n].ent = << >> <=> Len(First[n].ent) = 0
  BY FirstTypes, InodeFacts
<1>4. Dotted(First, n) /\ Begins(First, n) /\ {1, 2} \subseteq DOMAIN First[n].ent
  BY <1>2, <1>3 DEF Dotted, Begins
<1>5. \A k : k \in NamesIn(First, n) <=> k \in DOMAIN First[n].ent /\ k > 2
  BY <1>4 DEF NamesIn
<1>6. ASSUME NEW k \in DOMAIN First[n].ent
      PROVE  k \in Nat /\ (First[n].ent[k].name \notin Dots <=> k \in NamesIn(First, n))
  <2>1. k \in Nat /\ k >= 1
    BY <1>3
  <2>2. CASE k > 2
    BY <1>2, <1>5, <2>1, <2>2
  <2>3. CASE ~ (k > 2)
    <3>1. k = 1 \/ k = 2
      BY <2>1, <2>3
    <3> QED
      BY <1>2, <1>5, <2>1, <2>3, <3>1 DEF Dots
  <2> QED
    BY <2>2, <2>3
<1> QED
  BY <1>1, <1>4, <1>5, <1>6

(* A name of a directory that is mounted is its only one.                  *)
LEMMA FirstOnce ==
  ASSUME NEW n \in Node, First[n].kind = "dir", NEW k \in NamesIn(First, n),
         First[Child(First, n, k)].kind = "dir"
  PROVE  /\ Child(First, n, k) \in Node /\ Child(First, n, k)[2] # RootInode
         /\ Child(First, Child(First, n, k), 2) = n
         /\ \A j \in NamesIn(First, n) : Child(First, n, j) = Child(First, n, k) => j = k
<1> DEFINE c == Child(First, n, k)
<1>1. n \in DOMAIN Formatted /\ k \in DOMAIN First[n].ent /\ k > 2
  BY FirstDirs
<1>2. /\ First[n].ent[k].ino # RootInode
      /\ First[c].ent[2].ino = n[2]
      /\ \A j \in DOMAIN First[n].ent : j > 2 /\ Child(First, n, j) = c => j = k
  BY <1>1, FormatDirs
<1>3. c \in DOMAIN Formatted /\ c \in Node
  BY <1>1, FormatFacts
<1>4. c[1] = n[1] /\ c[2] = First[n].ent[k].ino
  BY DEF Child
<1> HIDE DEF c
<1>5. Child(First, c, 2) = n
  BY <1>2, <1>4, NodeFacts DEF Child
<1>6. \A j \in NamesIn(First, n) : j \in DOMAIN First[n].ent /\ j > 2
  BY FirstDirs
<1> QED
  BY <1>2, <1>3, <1>4, <1>5, <1>6 DEF c

LEMMA FirstGood == Good(First) /\ Closed(First, Node)
<1>1. ASSUME NEW d \in Node, NEW k \in DOMAIN First[d].ent
      PROVE  Child(First, d, k) \in Node /\ First[Child(First, d, k)].kind # "free"
  <2>1. d \in DOMAIN Formatted
    <3>1. First[d].ent # << >>
      BY FirstTypes, InodeFacts
    <3> QED
      BY <3>1, FormatFacts, FreeEmpty
  <2>2. Child(First, d, k) \in DOMAIN Formatted
    BY <2>1, FormatFacts
  <2> QED
    BY <2>2, FormatFacts
<1>2. ASSUME NEW n \in Node, First[n].kind # "dir" PROVE First[n].ent = << >>
  <2>1. CASE n \in DOMAIN Formatted
    BY <1>2, <2>1, FormatFacts
  <2>2. CASE n \notin DOMAIN Formatted
    BY <2>2, FormatFacts, FreeEmpty
  <2> QED
    BY <2>1, <2>2
<1>3. ASSUME NEW n \in Node, First[n].kind = "dir"
      PROVE  Cardinality(Subs(First, n)) <= First[n].nlink
  <2> DEFINE S == Subs(First, n)
             T == Named(n)
             f == [k \in S |-> <<Child(First, n, k), 2>>]
  <2>1. n \in DOMAIN Formatted /\ \A k \in S : k \in DOMAIN First[n].ent /\ k \in NamesIn(First, n)
                                               /\ First[Child(First, n, k)].kind = "dir"
    BY <1>3, FirstDirs DEF Subs
  <2>2. First[n].nlink = Cardinality(T) /\ T = Refs(First, Node, n)
    BY <2>1, FormatFacts, NamedRefs
  <2>3. IsFiniteSet(T)
    BY <2>2, FirstTypes, RefsFacts
  <2>4. ASSUME NEW k \in S PROVE <<Child(First, n, k), 2>> \in T
    <3>1. Child(First, n, k) \in Node /\ Child(First, Child(First, n, k), 2) = n
      BY <1>3, <2>1, FirstOnce
    <3>2. 2 \in DOMAIN First[Child(First, n, k)].ent
      BY <2>1, <3>1, FirstDirs
    <3> QED
      BY <2>2, <3>1, <3>2 DEF Refs
  <2>5. ASSUME NEW j \in S, NEW k \in S, Child(First, n, j) = Child(First, n, k) PROVE j = k
    BY <1>3, <2>1, <2>5, FirstOnce
  <2> HIDE DEF S, T
  <2>6. f \in Injection(S, T)
    <3>1. f \in [S -> T]
      BY <2>4
    <3>2. \A j, k \in S : f[j] = f[k] => j = k
      BY <2>5
    <3> QED
      BY <3>1, <3>2 DEF Injection, IsInjective
  <2>7. Cardinality(S) <= Cardinality(T)
    BY <2>3, <2>6, FS_Injection DEF ExistsInjection
  <2> QED
    BY <2>2, <2>7 DEF S
<1> QED
  BY <1>1, <1>2, <1>3 DEF Good, Closed

LEMMA FirstOrdered == Ordered(First, Node) /\ Tidy(First, Node)
<1>1. \A d \in Disk : RootOf(d) \in Node /\ First[RootOf(d)].kind = "dir"
  BY FormatFacts
<1>2. \A d \in Disk : Dotted(First, RootOf(d)) /\ RootOf(d) # << >>
  BY <1>1, FirstDirs, NodesNotEmpty
<1>3. \A n \in Dirs(First, Node) : n \in Node /\ First[n].kind = "dir" /\ n # << >>
  BY NodesNotEmpty DEF Dirs
<1>4. ASSUME NEW n \in Dirs(First, Node) PROVE Begins(First, n) /\ HasParent(First, Node, n)
  <2> DEFINE p == Child(First, n, 2)
  <2>1. n \in DOMAIN Formatted /\ Begins(First, n) /\ 2 \in DOMAIN First[n].ent /\ n \in Node
    BY <1>3, FirstDirs
  <2>2. p \in Node /\ p[1] = n[1] /\ p[2] = First[n].ent[2].ino
    BY <2>1, FirstGood DEF Good, Child
  <2>3. /\ First[p].kind = "dir"
        /\ IF n[2] = RootInode THEN First[n].ent[2].ino = RootInode
           ELSE \E k \in DOMAIN First[p].ent : k > 2 /\ First[p].ent[k].ino = n[2]
    BY <1>3, <2>1, FormatDirs
  <2> HIDE DEF p
  <2>4. n[2] = RootInode => p = n
    BY <2>1, <2>2, <2>3, NodeFacts
  <2>5. n[2] # RootInode => \E k \in NamesIn(First, p) : Child(First, p, k) = n
    <3> SUFFICES ASSUME n[2] # RootInode PROVE \E k \in NamesIn(First, p) : Child(First, p, k) = n
      OBVIOUS
    <3>1. PICK k \in DOMAIN First[p].ent : k > 2 /\ First[p].ent[k].ino = n[2]
      BY <2>3
    <3>2. k \in NamesIn(First, p)
      BY <2>2, <2>3, <3>1, FirstDirs
    <3>3. Child(First, p, k) = n
      BY <2>1, <2>2, <3>1, NodeFacts DEF Child
    <3> QED
      BY <3>2, <3>3
  <2> QED
    BY <2>1, <2>2, <2>3, <2>4, <2>5 DEF HasParent, Dirs, p
<1>5. ASSUME NEW d \in Dirs(First, Node), NEW k \in NamesIn(First, d) PROVE NamedOnce(First, d, k)
  <2>1. d \in Node /\ First[d].kind = "dir"
    BY <1>3
  <2> SUFFICES ASSUME First[Child(First, d, k)].kind = "dir" PROVE NamedOnce(First, d, k)
    BY DEF NamedOnce
  <2>2. /\ Child(First, d, k) \in Node /\ Child(First, d, k)[2] # RootInode
        /\ Child(First, Child(First, d, k), 2) = d
        /\ \A j \in NamesIn(First, d) : Child(First, d, j) = Child(First, d, k) => j = k
    BY <2>1, FirstOnce
  <2>3. Dotted(First, Child(First, d, k))
    BY <2>2, FirstDirs
  <2> QED
    BY <2>2, <2>3 DEF NamedOnce
<1>6. Shape(First, Node)
  BY <1>2, <1>4, <1>5 DEF Shape, ShapeBut
<1>7. ASSUME NEW n \in Node PROVE Bal(First, Node, n) = 0
  <2>1. Cardinality(Refs(First, Node, n)) \in Nat
    BY FirstTypes, RefsFacts
  <2>2. First[n].nlink = Cardinality(Refs(First, Node, n))
    <3>1. CASE n \in DOMAIN Formatted
      BY <3>1, FormatFacts, NamedRefs
    <3>2. CASE n \notin DOMAIN Formatted
      <4>1. First[n].kind = "free" /\ First[n].nlink = 0
        BY <3>2, FormatFacts, FreeEmpty
      <4>2. Refs(First, Node, n) = {}
        BY <4>1, FirstTypes, FirstGood, FreeRefs
      <4> QED
        BY <4>1, <4>2, FS_EmptySet
    <3> QED
      BY <3>1, <3>2
  <2> QED
    BY <2>1, <2>2 DEF Bal
<1>8. ASSUME NEW n \in Dirs(First, Node)
      PROVE  Dotted(First, n) /\ \A k \in NamesIn(First, n) : First[n].ent[k].name \notin Dots
  BY <1>3, FirstDirs
<1> QED
  BY <1>6, <1>7, <1>8 DEF Ordered, Counted, Tidy

LEMMA InitInv == NamesInit => NamesInv
<1> SUFFICES ASSUME NamesInit PROVE NamesInv
  OBVIOUS
<1>1. inode = First /\ Active = Node
  BY DEF NamesInit, First, Active
<1>2. \A d \in Disk : RootOf(d) \in Dirs(First, Node)
  BY FormatFacts DEF Dirs
<1>3. Sound(inode, Active)
  BY <1>1, <1>2, FirstGood DEF Sound
<1>4. Ordered(inode, Active) /\ Tidy(inode, Active)
  BY <1>1, FirstOrdered
<1>5. Types
  <2>0. MaxCalls \in Nat /\ FreeBlocks \in Nat /\ RootDisk \in Disk
    BY NamesAssumption
  <2>1. 0 \in 0 .. MaxCalls /\ FreeBlocks \in Nat /\ RootDisk \in Disk
    BY <2>0
  <2>2. << >> \in Seq(Plain \cup Dots)
    BY EmptySeq
  <2>3. cwd \in [Session -> [cur_dir : Dirs(inode, Active), path : Seq(Plain \cup Dots)]]
    BY <1>1, <1>2, <2>1, <2>2 DEF NamesInit
  <2> QED
    BY <1>1, <2>1, <2>3, FirstTypes DEF NamesInit, Types
<1>6. DOMAIN call = Session /\ \A s \in Session : call[s] = Idle
  BY DEF NamesInit
<1> QED
  BY <1>3, <1>4, <1>5, <1>6 DEF NamesInv

-----------------------------------------------------------------------------
(* What the invariant says of the names                                    *)

LEMMA ReferencesFacts ==
  ASSUME NamesInv, NEW n \in Node
  PROVE  References(n) = Refs(inode, Active, n)
<1>1. \A x \in Node : DOMAIN inode[x].ent \subseteq Nat /\ x = <<x[1], x[2]>>
  BY NodeFacts, NamesFacts DEF NamesInv, Types
<1>2. ASSUME NEW p \in References(n) PROVE p \in Refs(inode, Active, n)
  <2>1. PICK d \in Node \ lost : d[1] = n[1] /\ p \in Entries(d)
    BY <1>2 DEF References
  <2>2. PICK k \in DOMAIN inode[d].ent : p = <<d, k>>
    BY <2>1 DEF Entries
  <2>3. inode[d].ent[k].ino = n[2]
    BY <1>2, <2>2 DEF References
  <2>4. Child(inode, d, k) = n
    BY <1>1, <2>1, <2>3 DEF Child
  <2> QED
    BY <1>1, <2>1, <2>2, <2>4 DEF Refs, Active
<1>3. ASSUME NEW p \in Refs(inode, Active, n) PROVE p \in References(n)
  <2>1. /\ p = <<p[1], p[2]>> /\ p[1] \in Node \ lost /\ p[2] \in DOMAIN inode[p[1]].ent
        /\ Child(inode, p[1], p[2]) = n
    BY <1>3 DEF Refs, Active
  <2>2. p[1][1] = n[1] /\ inode[p[1]].ent[p[2]].ino = n[2]
    BY <2>1 DEF Child
  <2>3. p \in Entries(p[1])
    BY <2>1 DEF Entries
  <2> QED
    BY <2>1, <2>2, <2>3 DEF References
<1> QED
  BY <1>2, <1>3

LEMMA InvTypes == NamesInv => NamesTypeOK
<1> SUFFICES ASSUME NamesInv PROVE NamesTypeOK
  OBVIOUS
<1>1. inode \in Inodes /\ Good(inode)
  BY DEF NamesInv, Types, Sound
<1>2. ASSUME NEW n \in Node
      PROVE  /\ inode[n].kind \in {"free", "file", "dir"} /\ inode[n].nlink \in Nat
             /\ inode[n].mode \in Rights
             /\ \A k \in DOMAIN inode[n].ent :
                  inode[n].ent[k].name \in Name /\ <<n[1], inode[n].ent[k].ino>> \in Node
  <2>1. inode[n] \in Record
    BY <1>1, InodeFacts
  <2>2. inode[n].kind \in {"free", "file", "dir"} /\ inode[n].nlink \in Nat /\ inode[n].mode \in Rights
    BY <2>1, RecordFacts
  <2>3. ASSUME NEW k \in DOMAIN inode[n].ent
        PROVE  inode[n].ent[k].name \in Name /\ <<n[1], inode[n].ent[k].ino>> \in Node
    <3>1. inode[n].ent[k].name \in Name /\ Child(inode, n, k) \in Node
      BY <1>1, GoodFacts
    <3> QED
      BY <3>1 DEF Child
  <2> QED
    BY <2>2, <2>3
<1>3. \A d \in Disk : room[d] \in Nat
  BY DEF NamesInv, Types
<1>4. \A s \in Session : cwd[s].cur_dir \in Node /\ cwd[s].path \in Seq(Plain \cup Dots)
  BY DEF NamesInv, Types, Dirs, Active
<1> QED
  BY <1>2, <1>3, <1>4 DEF NamesTypeOK, NamesInv, Types

LEMMA InvCounted == NamesInv => LinksCounted
<1> SUFFICES ASSUME NamesInv, "onto" \notin outside, NEW n \in Node \ lost
             PROVE  inode[n].nlink = Cardinality(References(n))
  BY DEF LinksCounted
<1>1. Bal(inode, Active, n) = 0
  BY DEF NamesInv, Ordered, Counted, Active
<1>2. inode \in Inodes /\ Active \in SUBSET Node /\ n \in Node
  BY DEF NamesInv, Types, Active
<1>3. inode[n].nlink \in Nat /\ Cardinality(Refs(inode, Active, n)) \in Nat
  BY <1>2, InodeFacts, RefsFacts
<1>4. References(n) = Refs(inode, Active, n)
  BY <1>2, ReferencesFacts
<1> QED
  BY <1>1, <1>3, <1>4 DEF Bal

LEMMA InvParent == NamesInv => ParentRight
<1> SUFFICES ASSUME NamesInv, outside = {}, NEW n \in Node \ lost, IsDir(Now, n), Live(n)
             PROVE  LET ent == inode[n].ent
                        in  == {p \in References(n) : inode[p[1]].ent[p[2]].name \notin Dots}
                    IN  /\ ent[1] = Entry(".", n[2]) /\ ent[2].name = ".."
                        /\ \A k \in 3 .. Len(ent) : ent[k].name \notin Dots
                        /\ IF n[2] = RootInode THEN in = {} /\ ent[2].ino = RootInode
                           ELSE \E p \in Node : ent[2].ino = p[2] /\ {q[1] : q \in in} = {p} /\ Cardinality(in) = 1
  BY DEF ParentRight
<1> DEFINE in == {p \in References(n) : inode[p[1]].ent[p[2]].name \notin Dots}
           d == Child(inode, n, 2)
<1>1. /\ inode \in Inodes /\ Good(inode) /\ Closed(inode, Active) /\ Active \in SUBSET Node
      /\ Shape(inode, Active) /\ Tidy(inode, Active) /\ n \in Node
  BY DEF NamesInv, Types, Sound, Ordered, Active
<1>2. n \in Dirs(inode, Active) /\ Dotted(inode, n)
  BY <1>1, LiveFacts
<1>3. Begins(inode, n) /\ HasParent(inode, Active, n)
  BY <1>1, <1>2, NodesNotEmpty DEF Shape, ShapeBut
<1>4. /\ inode[n].ent \in Seq(Ent) /\ Len(inode[n].ent) \in Nat
      /\ DOMAIN inode[n].ent = 1 .. Len(inode[n].ent)
      /\ \A k \in 1 .. Len(inode[n].ent) : inode[n].ent[k] \in Ent
  BY <1>1, InodeFacts
<1>5. inode[n].ent[1] = Entry(".", n[2]) /\ inode[n].ent[2].name = ".."
  <2> DEFINE e == inode[n].ent[1]
  <2>1. e \in Ent /\ e.name = "." /\ e.ino = n[2] /\ inode[n].ent[2].name = ".."
    BY <1>2, <1>3, <1>4 DEF Begins, Dotted
  <2> HIDE DEF e
  <2>2. e = [name |-> e.name, ino |-> e.ino]
    BY <2>1 DEF Ent
  <2> QED
    BY <2>1, <2>2 DEF Entry, e
<1>6. \A k \in 3 .. Len(inode[n].ent) : inode[n].ent[k].name \notin Dots
  <2> TAKE k \in 3 .. Len(inode[n].ent)
  <2>1. k \in NamesIn(inode, n)
    BY <1>4 DEF NamesIn
  <2> QED
    BY <1>1, <1>2, <2>1 DEF Tidy
(* An entry for n that is not "." or ".." is a name, and the only one.     *)
<1>7. ASSUME NEW p \in in
      PROVE  /\ p = <<p[1], p[2]>> /\ p[1] \in Dirs(inode, Active) /\ p[2] \in NamesIn(inode, p[1])
             /\ Child(inode, p[1], p[2]) = n /\ n[2] # RootInode /\ d = p[1]
             /\ \A j \in NamesIn(inode, p[1]) : Child(inode, p[1], j) = n => j = p[2]
  <2>1. p \in Refs(inode, Active, n) /\ inode[p[1]].ent[p[2]].name \notin Dots
    BY <1>1, <1>7, ReferencesFacts
  <2>2. /\ p = <<p[1], p[2]>> /\ p[1] \in Active /\ p[1] \in Node /\ p[2] \in DOMAIN inode[p[1]].ent
        /\ Child(inode, p[1], p[2]) = n
    BY <1>1, <2>1 DEF Refs
  <2>3. p[1] \in Dirs(inode, Active) /\ inode[p[1]].ent # << >>
    BY <1>1, <2>2, GoodFacts DEF Dirs
  <2>4. Dotted(inode, p[1])
    BY <1>1, <2>3 DEF Tidy
  <2>5. Begins(inode, p[1])
    BY <1>1, <2>3, <2>4 DEF Shape, ShapeBut
  <2>6. p[2] \in NamesIn(inode, p[1])
    <3>1. p[2] \notin {1, 2}
      BY <2>1, <2>5 DEF Begins, Dots
    <3> QED
      BY <1>1, <2>2, <3>1, NamesFacts
  <2>7. NamedOnce(inode, p[1], p[2])
    BY <1>1, <2>2, <2>3, <2>6, NodesNotEmpty DEF Shape, ShapeBut
  <2>8. inode[n].kind = "dir"
    BY <1>2 DEF Dirs
  <2> QED
    BY <2>2, <2>3, <2>6, <2>7, <2>8 DEF NamedOnce
<1>8. d \in Node /\ d[2] = inode[n].ent[2].ino /\ d \in Dirs(inode, Active)
  BY <1>1, <1>3 DEF HasParent, Dirs, Child
<1>9. CASE n[2] = RootInode
  <2>1. in = {}
    BY <1>7, <1>9
  <2>2. inode[n].ent[2].ino = RootInode
    BY <1>3, <1>8, <1>9 DEF HasParent
  <2> HIDE DEF in
  <2> QED
    BY <1>5, <1>6, <1>9, <2>1, <2>2 DEF in
<1>10. CASE n[2] # RootInode
  <2>1. PICK k \in NamesIn(inode, d) : Child(inode, d, k) = n
    BY <1>3, <1>10 DEF HasParent
  <2>2. <<d, k>> \in in
    <3>1. k \in DOMAIN inode[d].ent /\ k \in Nat
      BY <1>1, <1>8, NamesFacts
    <3>2. <<d, k>> \in References(n)
      <4>1. <<d, k>> \in Refs(inode, Active, n)
        BY <1>8, <2>1, <3>1 DEF Refs, Dirs
      <4> QED
        BY <1>1, <4>1, ReferencesFacts
    <3>3. Dotted(inode, d)
      <4>1. inode[d].ent # << >>
        BY <1>1, <1>8, <3>1, GoodFacts
      <4> QED
        BY <1>1, <1>8, <4>1 DEF Tidy
    <3>4. inode[d].ent[k].name \notin Dots
      BY <1>1, <1>8, <2>1, <3>3 DEF Tidy
    <3> QED
      BY <3>2, <3>4
  <2>3. \A p \in in : p = <<d, k>>
    <3> TAKE p \in in
    <3>1. /\ p = <<p[1], p[2]>> /\ d = p[1]
          /\ \A j \in NamesIn(inode, p[1]) : Child(inode, p[1], j) = n => j = p[2]
      BY <1>7
    <3> HIDE DEF in, d
    <3> QED
      BY <2>1, <3>1
  <2> HIDE DEF in, d
  <2>4. in = {<<d, k>>}
    BY <2>2, <2>3
  <2> DEFINE e == <<d, k>>
  <2>5. e[1] = d /\ in = {e}
    BY <2>4
  <2> HIDE DEF e
  <2>6. {q[1] : q \in in} = {d}
    BY <2>5
  <2>7. Cardinality(in) = 1
    BY <2>5, FS_Singleton
  <2> QED
    BY <1>5, <1>6, <1>8, <1>10, <2>6, <2>7 DEF in
<1> QED
  BY <1>9, <1>10

(* A change by a call is one of the directory that it may write, or of the *)
(* directory that it deletes and may write.                                *)
LEMMA MakeAllowed ==
  ASSUME NamesInv, NEW s \in Session, NEW op \in Makes, NEW kind \in {"file", "dir"},
         FinishMake(s, op, kind), NEW n \in Node, inode'[n].ent # inode[n].ent, inode[n].kind = "dir"
  PROVE  Auth(UserOf[s], n, "w") \/ outside' # {}
<1> DEFINE c == call[s]
           d == c.dir
           path == c.path
           u == UserOf[s]
           perm == c.perm
           fs == Allocate(Now, d, path, u, kind, perm)
<1>1. c.op = op /\ inode' = fs.inode /\ outside' = outside \cup Misplaced(c, fs)
  BY DEF FinishMake, Commit
<1>2. CallOK(s, c) /\ c.op \in Makes
  <2>1. c # Idle
    BY <1>1 DEF Idle, Makes
  <2> QED
    BY <1>1, <2>1 DEF NamesInv
<1>3. /\ d \in Dirs(inode, Active) /\ perm \in Rights /\ c.at \in 0 .. Len(path.names) /\ IsPath(path)
      /\ \/ outside # {} \/ c.at < Len(path.names) \/ inode[d].nlink = 0
         \/ Auth(u, d, "w")
  BY <1>2 DEF CallOK, IsPath
<1>4. u \in User \cup {NoUser}
  BY NamesAssumption
<1>5. /\ Now \in FS /\ Now.rc = "ok" /\ Active \in SUBSET Node /\ Sound(Now.inode, Active)
      /\ \A x \in Node : Now.inode[x].kind = "free" => x \in Active
      /\ d \in Dirs(Now.inode, Active) /\ Now.inode = inode
  BY <1>3, NowFacts DEF NamesInv
<1>6. c.at < Len(path.names) \/ inode[d].nlink = 0 => fs.rc # "ok" \/ Misplaced(c, fs) # {}
  BY DEF Misplaced
<1> HIDE DEF fs, d, path, u, perm, c
<1>7. AllocateDone(Allocate(Now, d, path, u, kind, perm), Now.inode, Active, d, path)
  BY ONLY <1>3, <1>4, <1>5, kind \in {"file", "dir"}, AllocateFacts
<1>8. /\ \A x \in Node : x # d /\ inode[x].kind # "free" => fs.inode[x].ent = inode[x].ent
      /\ fs.rc # "ok" => fs.inode[d].ent = inode[d].ent
  BY <1>5, <1>7 DEF AllocateDone, fs
<1>9. n = d /\ fs.rc = "ok"
  BY <1>1, <1>8
<1>10. Auth(u, d, "w") \/ outside # {} \/ Misplaced(c, fs) # {}
  BY <1>3, <1>6, <1>9
<1> QED
  BY <1>1, <1>9, <1>10 DEF u

LEMMA DeleteAllowed ==
  ASSUME NamesInv, NEW s \in Session, NEW op \in Deletes, FinishDelete(s, op),
         NEW n \in Node, inode'[n].ent # inode[n].ent
  PROVE  Auth(UserOf[s], n, "w") \/ outside' # {}
<1> DEFINE c == call[s]
           d == c.dir
           name == Last(c.path.names)
           fs == DeallocateFile(Now, d, name)
           p == Place(Now, d, name)
<1>1. /\ c.op = op /\ inode' = fs.inode /\ outside \subseteq outside'
      /\ fs.rc = "ok" /\ Target(Now, d, name) # c.last => outside' # {}
  BY DEF FinishDelete, Commit
<1>2. CallOK(s, c) /\ c.op \in Deletes
  <2>1. c # Idle
    BY <1>1 DEF Idle, Deletes
  <2> QED
    BY <1>1, <2>1 DEF NamesInv
<1>3. d \in Dirs(inode, Active) /\ Auth(UserOf[s], d, "w") /\ Auth(UserOf[s], c.last, "w")
  BY <1>2 DEF CallOK
<1>4. /\ Now \in FS /\ Now.rc = "ok" /\ Active \in SUBSET Node /\ Sound(Now.inode, Active)
      /\ d \in Dirs(Now.inode, Active) /\ Now.inode = inode
      /\ "onto" \notin outside => Ordered(inode, Active)
  BY <1>3, NowFacts DEF NamesInv
<1>5. Has(Now, d, name) => Target(Now, d, name) = Child(inode, d, p)
  BY <1>4 DEF Target, Child
<1> HIDE DEF d, name, c
<1>6. /\ \A x \in Node : fs.inode[x].ent # inode[x].ent => Has(Now, d, name) /\ (x = d \/ x = Child(inode, d, p))
      /\ Ordered(inode, Active) =>
           IF fs.rc = "ok" THEN Ordered(fs.inode, Active) /\ Deleted(inode, fs.inode, d, p) ELSE fs.inode = inode
  <2>1. LET r == DeallocateFile(Now, d, name)
            I == Now.inode
            J == r.inode
            q == Place(Now, d, name)
        IN  /\ r \in FS /\ Rest(I, J) /\ Sound(J, Active)
            /\ r.rc = "ok" => Has(Now, d, name)
            /\ \A x \in Node : J[x].ent # I[x].ent => Has(Now, d, name) /\ (x = d \/ x = Child(I, d, q))
            /\ Ordered(I, Active) => IF r.rc = "ok" THEN Ordered(J, Active) /\ Deleted(I, J, d, q) ELSE J = I
    BY ONLY <1>4, DeallocateFacts
  <2> QED
    BY <1>4, <2>1
<1> HIDE DEF fs, p
<1>7. Has(Now, d, name) /\ (n = d \/ n = Target(Now, d, name))
  BY <1>1, <1>5, <1>6
<1>8. fs.rc = "ok" \/ outside' # {}
  BY <1>1, <1>4, <1>6
<1> QED
  BY <1>1, <1>3, <1>7, <1>8

LEMMA StepAllowed ==
  NamesInv /\ [NamesNext]_vars =>
    [\A s \in Session, n \in Node :
       call'[s] # call[s] /\ inode'[n].ent # inode[n].ent /\ inode[n].kind = "dir"
         => Auth(UserOf[s], n, "w") \/ outside' # {}]_vars
<1> SUFFICES ASSUME NamesInv, NamesNext, NEW s \in Session, NEW n \in Node,
                    call'[s] # call[s], inode'[n].ent # inode[n].ent, inode[n].kind = "dir"
             PROVE  Auth(UserOf[s], n, "w") \/ outside' # {}
  BY DEF vars
<1>1. ASSUME NEW t \in Session, SessionStep(t) PROVE Auth(UserOf[s], n, "w") \/ outside' # {}
  <2>1. ASSUME NEW path \in Paths, NEW perm \in Perms,
               BeginCreate(t, path, perm) \/ BeginMkdir(t, path, perm)
        PROVE  FALSE
    BY <2>1 DEF BeginCreate, BeginMkdir, Begin
  <2>2. ASSUME NEW path \in Paths,
               \/ BeginDelete(t, "rmdir", path, TRUE) \/ BeginDelete(t, "remove", path, FALSE)
               \/ Chgdir(t, path)
        PROVE  FALSE
    BY <2>2 DEF BeginDelete, Chgdir, Begin
  <2>3. ASSUME call' = [call EXCEPT ![t] = Idle] PROVE t = s
    BY <2>3 DEF NamesInv
  <2>4. ASSUME NEW op \in Makes, NEW kind \in {"file", "dir"}, FinishMake(t, op, kind)
        PROVE  Auth(UserOf[s], n, "w") \/ outside' # {}
    <3>1. t = s
      BY <2>3, <2>4 DEF FinishMake, Commit
    <3> QED
      BY <2>4, <3>1, MakeAllowed
  <2>5. ASSUME NEW op \in Deletes, FinishDelete(t, op)
        PROVE  Auth(UserOf[s], n, "w") \/ outside' # {}
    <3>1. t = s
      BY <2>3, <2>5 DEF FinishDelete, Commit
    <3> QED
      BY <2>5, <3>1, DeleteAllowed
  <2>6. FinishMake(t, "create", "file") \/ FinishMake(t, "mkdir", "dir") =>
          Auth(UserOf[s], n, "w") \/ outside' # {}
    BY <2>4 DEF Makes
  <2>7. FinishDelete(t, "rmdir") \/ FinishDelete(t, "remove") =>
          Auth(UserOf[s], n, "w") \/ outside' # {}
    BY <2>5 DEF Deletes
  <2> QED
    BY <1>1, <2>1, <2>2, <2>6, <2>7 DEF SessionStep
<1>2. ASSUME NEW pf \in Node, NEW pt \in Node, NEW from \in Renamed, NEW to \in Renamed,
             Rename(pf, from, pt, to)
      PROVE  FALSE
  BY <1>2 DEF Rename, Internal
<1>3. ASSUME NEW d \in Node, NEW m \in Node, NEW name \in Renamed, Link(d, m, name) PROVE FALSE
  BY <1>3 DEF Link, Internal
<1> QED
  BY <1>1, <1>2, <1>3 DEF NamesNext

-----------------------------------------------------------------------------
(* The links of the inodes I, and what each step does to them              *)

IsLink(I, d, name, n) ==
  /\ name \notin Dots
  /\ \E k \in DOMAIN I[d].ent : I[d].ent[k].name = name /\ Child(I, d, k) = n

Links(I) == {l \in Node \X Name \X Node : IsLink(I, l[1], l[2], l[3])}

LinkAt(I, d, k) == <<d, I[d].ent[k].name, Child(I, d, k)>>

(* No directory has a name twice.                                          *)
Unique(I) ==
  \A d \in Node : \A j, k \in DOMAIN I[d].ent : I[d].ent[j].name = I[d].ent[k].name => j = k

(* A directory with no name but "." and "..", and the nodes outside A.     *)
Bare(I, n)  == \A k \in DOMAIN I[n].ent : I[n].ent[k].name \in Dots
Quiet(I, A) == \A n \in Node \ A : Bare(I, n)

LEMMA LinkIn ==
  ASSUME NEW I, NEW d \in Node, NEW name \in Name, NEW n \in Node
  PROVE  <<d, name, n>> \in Links(I) <=> IsLink(I, d, name, n)
BY DEF Links

LEMMA LinkParts ==
  ASSUME NEW I, NEW l \in Links(I)
  PROVE  /\ l = <<l[1], l[2], l[3]>> /\ l[1] \in Node /\ l[2] \in Name /\ l[3] \in Node
         /\ l[2] \notin Dots
         /\ \E k \in DOMAIN I[l[1]].ent : I[l[1]].ent[k].name \notin Dots /\ l = LinkAt(I, l[1], k)
<1>1. l = <<l[1], l[2], l[3]>> /\ l[1] \in Node /\ l[2] \in Name /\ l[3] \in Node
      /\ IsLink(I, l[1], l[2], l[3])
  BY DEF Links
<1>2. PICK k \in DOMAIN I[l[1]].ent : I[l[1]].ent[k].name = l[2] /\ Child(I, l[1], k) = l[3]
  BY <1>1 DEF IsLink
<1>3. l = LinkAt(I, l[1], k)
  BY <1>1, <1>2 DEF LinkAt
<1> QED
  BY <1>1, <1>2, <1>3 DEF IsLink

(* An entry that is no "." and no ".." is a link.                          *)
LEMMA LinkHere ==
  ASSUME NEW I \in Inodes, Good(I), NEW d \in Node, NEW k \in DOMAIN I[d].ent, I[d].ent[k].name \notin Dots
  PROVE  LinkAt(I, d, k) \in Links(I)
<1>1. Child(I, d, k) \in Node
  BY DEF Good
<1>2. I[d].ent[k].name \in Name
  BY InodeFacts DEF Ent
<1> DEFINE c == Child(I, d, k)
           w == I[d].ent[k].name
<1>3. IsLink(I, d, w, c)
  BY DEF IsLink
<1> HIDE DEF c, w
<1>4. <<d, w, c>> \in Links(I)
  BY <1>1, <1>2, <1>3, LinkIn DEF c, w
<1> QED
  BY <1>4 DEF LinkAt, c, w

LEMMA LinksEqual ==
  ASSUME NEW L \in SUBSET (Node \X Name \X Node), NEW M \in SUBSET (Node \X Name \X Node),
         \A d \in Node, name \in Name, n \in Node : <<d, name, n>> \in L <=> <<d, name, n>> \in M
  PROVE  L = M
<1>1. \A l \in Node \X Name \X Node : l = <<l[1], l[2], l[3]>> /\ l[1] \in Node /\ l[2] \in Name /\ l[3] \in Node
  OBVIOUS
<1>2. \A l : l \in L <=> l \in M
  BY <1>1
<1> QED
  BY <1>2

(* Steps that only touch "." and ".." leave the links as they are.         *)
LEMMA SameLinks ==
  ASSUME NEW I, NEW J,
         \A d \in Node : \A k \in DOMAIN I[d].ent : I[d].ent[k].name \notin Dots =>
           k \in DOMAIN J[d].ent /\ J[d].ent[k] = I[d].ent[k],
         \A d \in Node : \A k \in DOMAIN J[d].ent : J[d].ent[k].name \notin Dots =>
           k \in DOMAIN I[d].ent /\ J[d].ent[k] = I[d].ent[k]
  PROVE  Links(J) = Links(I)
<1>1. \A d \in Node : \A k : J[d].ent[k] = I[d].ent[k] => Child(J, d, k) = Child(I, d, k)
  BY DEF Child
<1>2. ASSUME NEW d \in Node, NEW name, NEW n PROVE IsLink(J, d, name, n) <=> IsLink(I, d, name, n)
  BY <1>1 DEF IsLink
<1>3. Links(I) \subseteq Node \X Name \X Node /\ Links(J) \subseteq Node \X Name \X Node
  BY DEF Links
<1>4. \A d \in Node, name \in Name, n \in Node : <<d, name, n>> \in Links(J) <=> <<d, name, n>> \in Links(I)
  BY <1>2, LinkIn
<1> QED
  BY <1>3, <1>4, LinksEqual

LEMMA AddedLinks ==
  ASSUME NEW I \in Inodes, NEW J \in Inodes, NEW d \in Node, NEW n \in Node, n[1] = d[1],
         NEW name \in Name, Added(I, J, d, n, name), name \notin Dots
  PROVE  /\ Links(J) = Links(I) \cup {<<d, name, n>>}
         /\ Unique(I) /\ (\A k \in DOMAIN I[d].ent : I[d].ent[k].name # name) => Unique(J)
<1> DEFINE L == Len(I[d].ent)
<1>1. /\ \A x \in Node : x # d => J[x].ent = I[x].ent
      /\ DOMAIN J[d].ent = 1 .. L + 1
      /\ \A k \in 1 .. L : J[d].ent[k] = I[d].ent[k]
      /\ J[d].ent[L + 1] = [name |-> name, ino |-> n[2]]
      /\ Child(J, d, L + 1) = n
  BY AddedEntries
<1>2. L \in Nat /\ DOMAIN I[d].ent = 1 .. L
  BY InodeFacts
<1>3. J[d].ent[L + 1].name = name
  BY <1>1
<1> HIDE DEF L
<1>4. \A k : k \in 1 .. L + 1 <=> k \in 1 .. L \/ k = L + 1
  BY <1>2
<1>5. L + 1 \notin 1 .. L
  BY <1>2
<1>6. \A k \in 1 .. L : Child(J, d, k) = Child(I, d, k)
  BY <1>1 DEF Child
<1>7. ASSUME NEW e \in Node, NEW w \in Name, NEW m \in Node
      PROVE  IsLink(J, e, w, m) <=> IsLink(I, e, w, m) \/ <<e, w, m>> = <<d, name, n>>
  <2>1. CASE e # d
    <3>1. J[e].ent = I[e].ent
      BY <1>1, <2>1
    <3> QED
      BY <2>1, <3>1 DEF IsLink, Child
  <2>2. CASE e = d
    BY <1>1, <1>2, <1>3, <1>4, <1>6, <2>2 DEF IsLink
  <2> QED
    BY <2>1, <2>2
<1>8. Links(I) \subseteq Node \X Name \X Node /\ Links(J) \subseteq Node \X Name \X Node
      /\ Links(I) \cup {<<d, name, n>>} \subseteq Node \X Name \X Node
  BY DEF Links
<1>9. Links(J) = Links(I) \cup {<<d, name, n>>}
  <2>1. \A e \in Node, w \in Name, m \in Node :
          <<e, w, m>> \in Links(J) <=> <<e, w, m>> \in Links(I) \cup {<<d, name, n>>}
    BY <1>7, LinkIn
  <2> QED
    BY <1>8, <2>1, LinksEqual
<1>10. ASSUME Unique(I), \A k \in DOMAIN I[d].ent : I[d].ent[k].name # name PROVE Unique(J)
  <2>1. ASSUME NEW j \in DOMAIN J[d].ent, NEW k \in DOMAIN J[d].ent, J[d].ent[j].name = J[d].ent[k].name
        PROVE  j = k
    <3>1. CASE j = L + 1 /\ k # L + 1
      BY <1>1, <1>2, <1>3, <1>4, <1>10, <2>1, <3>1
    <3>2. CASE k = L + 1 /\ j # L + 1
      BY <1>1, <1>2, <1>3, <1>4, <1>10, <2>1, <3>2
    <3>3. CASE j # L + 1 /\ k # L + 1
      <4>1. j \in 1 .. L /\ k \in 1 .. L
        BY <1>1, <1>4, <2>1, <3>3
      <4>2. I[d].ent[j].name = I[d].ent[k].name
        BY <1>1, <2>1, <4>1
      <4> QED
        BY <1>2, <1>10, <4>1, <4>2 DEF Unique
    <3> QED
      BY <3>1, <3>2, <3>3
  <2>2. ASSUME NEW e \in Node, e # d, NEW j \in DOMAIN J[e].ent, NEW k \in DOMAIN J[e].ent,
               J[e].ent[j].name = J[e].ent[k].name
        PROVE  j = k
    BY <1>1, <1>10, <2>2 DEF Unique
  <2> QED
    BY <2>1, <2>2 DEF Unique
<1> QED
  BY <1>9, <1>10

(* An entry goes from d; a node that had no names may lose all entries.    *)
LEMMA CutLinks ==
  ASSUME NEW I \in Inodes, NEW J \in Inodes, Unique(I),
         NEW d \in Node, NEW p \in DOMAIN I[d].ent, I[d].ent[p].name \notin Dots,
         J[d].ent = CutAt(I[d].ent, p),
         \A x \in Node : x # d => J[x].ent = I[x].ent \/ (J[x].ent = << >> /\ Bare(I, x))
  PROVE  Links(J) = Links(I) \ {LinkAt(I, d, p)} /\ Unique(J)
<1> DEFINE L == Len(I[d].ent)
           At(k) == IF k = p THEN L ELSE k
<1>1. L \in Nat /\ DOMAIN I[d].ent = 1 .. L /\ I[d].ent \in Seq(Ent)
  BY InodeFacts
<1>2. DOMAIN J[d].ent = 1 .. L - 1
  BY <1>1, CutFacts
<1>3. \A k \in 1 .. L - 1 : J[d].ent[k] = I[d].ent[At(k)] /\ Child(J, d, k) = Child(I, d, At(k))
  BY DEF CutAt, Child
<1> HIDE DEF L
<1>4. \A k \in 1 .. L - 1 : At(k) \in 1 .. L /\ At(k) # p
  BY <1>1
<1>5. \A m \in 1 .. L : m # p => \E k \in 1 .. L - 1 : At(k) = m
  <2> TAKE m \in 1 .. L
  <2> SUFFICES ASSUME m # p PROVE \E k \in 1 .. L - 1 : At(k) = m
    OBVIOUS
  <2>1. CASE m = L
    <3>1. p \in 1 .. L - 1 /\ At(p) = m
      BY <1>1, <2>1
    <3> QED
      BY <3>1
  <2>2. CASE m # L
    <3>1. m \in 1 .. L - 1 /\ At(m) = m
      BY <1>1, <2>2
    <3> QED
      BY <3>1
  <2> QED
    BY <2>1, <2>2
<1>6. \A j, k \in 1 .. L - 1 : At(j) = At(k) => j = k
  BY <1>1
<1> HIDE DEF At
<1>7. \A m \in 1 .. L : I[d].ent[m].name = I[d].ent[p].name => m = p
  BY <1>1 DEF Unique
<1>8. ASSUME NEW w \in Name, NEW m \in Node
      PROVE  IsLink(J, d, w, m) <=> IsLink(I, d, w, m) /\ <<d, w, m>> # LinkAt(I, d, p)
  <2>1. ASSUME IsLink(J, d, w, m) PROVE IsLink(I, d, w, m) /\ <<d, w, m>> # LinkAt(I, d, p)
    <3>1. PICK k \in 1 .. L - 1 : J[d].ent[k].name = w /\ Child(J, d, k) = m
      BY <1>2, <2>1 DEF IsLink
    <3>2. I[d].ent[At(k)].name = w /\ Child(I, d, At(k)) = m /\ At(k) \in 1 .. L /\ At(k) # p
      BY <1>3, <1>4, <3>1
    <3>3. w # I[d].ent[p].name
      BY <1>7, <3>2
    <3> QED
      BY <1>1, <2>1, <3>2, <3>3 DEF IsLink, LinkAt
  <2>2. ASSUME IsLink(I, d, w, m), <<d, w, m>> # LinkAt(I, d, p) PROVE IsLink(J, d, w, m)
    <3>1. PICK j \in 1 .. L : I[d].ent[j].name = w /\ Child(I, d, j) = m
      BY <1>1, <2>2 DEF IsLink
    <3>2. j # p
      BY <2>2, <3>1 DEF LinkAt
    <3>3. PICK k \in 1 .. L - 1 : At(k) = j
      BY <1>5, <3>2
    <3>4. J[d].ent[k].name = w /\ Child(J, d, k) = m
      BY <1>3, <3>1, <3>3
    <3> QED
      BY <1>2, <2>2, <3>4 DEF IsLink
  <2> QED
    BY <2>1, <2>2
<1>9. ASSUME NEW e \in Node, e # d, NEW w \in Name, NEW m \in Node
      PROVE  IsLink(J, e, w, m) <=> IsLink(I, e, w, m) /\ <<e, w, m>> # LinkAt(I, d, p)
  <2>1. <<e, w, m>> # LinkAt(I, d, p)
    BY <1>9 DEF LinkAt
  <2>2. CASE J[e].ent = I[e].ent
    BY <2>1, <2>2 DEF IsLink, Child
  <2>3. CASE J[e].ent = << >> /\ Bare(I, e)
    <3>1. DOMAIN J[e].ent = {}
      BY <2>3
    <3> QED
      BY <2>3, <3>1 DEF IsLink, Bare
  <2> QED
    BY <1>9, <2>2, <2>3
<1>10. Links(J) = Links(I) \ {LinkAt(I, d, p)}
  <2>1. Links(J) \subseteq Node \X Name \X Node /\ Links(I) \ {LinkAt(I, d, p)} \subseteq Node \X Name \X Node
    BY DEF Links
  <2>2. \A e \in Node, w \in Name, m \in Node :
          <<e, w, m>> \in Links(J) <=> <<e, w, m>> \in Links(I) \ {LinkAt(I, d, p)}
    BY <1>8, <1>9, LinkIn
  <2> QED
    BY <2>1, <2>2, LinksEqual
<1>11. Unique(J)
  <2>1. ASSUME NEW j \in DOMAIN J[d].ent, NEW k \in DOMAIN J[d].ent, J[d].ent[j].name = J[d].ent[k].name
        PROVE  j = k
    <3>1. j \in 1 .. L - 1 /\ k \in 1 .. L - 1
      BY <1>2, <2>1
    <3>2. I[d].ent[At(j)].name = I[d].ent[At(k)].name
      BY <1>3, <2>1, <3>1
    <3>3. At(j) = At(k)
      BY <1>1, <1>4, <3>1, <3>2 DEF Unique
    <3> QED
      BY <1>6, <3>1, <3>3
  <2>2. ASSUME NEW e \in Node, e # d, NEW j \in DOMAIN J[e].ent, NEW k \in DOMAIN J[e].ent,
               J[e].ent[j].name = J[e].ent[k].name
        PROVE  j = k
    <3>1. J[e].ent = I[e].ent
      <4>1. J[e].ent # << >>
        BY <2>2
      <4> QED
        BY <2>2, <4>1
    <3> QED
      BY <2>2, <3>1 DEF Unique
  <2> QED
    BY <2>1, <2>2 DEF Unique
<1> QED
  BY <1>10, <1>11
-----------------------------------------------------------------------------
(* Directories in order, each name in one of them used once                *)

Clean(I, A) == Sound(I, A) /\ Ordered(I, A) /\ Tidy(I, A) /\ Unique(I) /\ Quiet(I, A)

LEMMA CleanNames ==
  ASSUME NEW I \in Inodes, NEW A \in SUBSET Node, Clean(I, A), NEW d \in Node, NEW k \in DOMAIN I[d].ent
  PROVE  /\ I[d].ent[k].name \notin Dots => d \in Dirs(I, A) /\ Dotted(I, d) /\ k \in NamesIn(I, d)
         /\ d \in Dirs(I, A) /\ k \in NamesIn(I, d) => I[d].ent[k].name \notin Dots
<1>1. Good(I) /\ Tidy(I, A) /\ Quiet(I, A) /\ Shape(I, A)
  BY DEF Clean, Sound, Ordered
<1>2. I[d].kind = "dir"
  BY <1>1, GoodFacts
<1>3. I[d].ent # << >>
  BY InodeFacts
<1>4. d \in A => d \in Dirs(I, A) /\ Dotted(I, d)
  BY <1>1, <1>2, <1>3 DEF Dirs, Tidy
<1>5. I[d].ent[k].name \notin Dots => d \in A
  BY <1>1 DEF Quiet, Bare
<1>6. d \in Dirs(I, A) /\ I[d].ent[k].name \notin Dots => k \in NamesIn(I, d)
  BY <1>1, PlainNames
<1>7. d \in Dirs(I, A) => d \in A
  BY DEF Dirs
<1> QED
  BY <1>1, <1>4, <1>5, <1>6, <1>7 DEF Tidy

(* The directories of the links, and what they name.                       *)
LEMMA CleanLinks ==
  ASSUME NEW I \in Inodes, NEW A \in SUBSET Node, Clean(I, A), NEW l \in Links(I)
  PROVE  /\ l[1] \in Dirs(I, A) /\ l[3] \in Node /\ I[l[3]].kind # "free"
         /\ I[l[3]].kind = "dir" => l[3][2] # RootInode /\ Dotted(I, l[3]) /\ Child(I, l[3], 2) = l[1]
<1>1. PICK k \in DOMAIN I[l[1]].ent : I[l[1]].ent[k].name \notin Dots /\ l = LinkAt(I, l[1], k)
  BY LinkParts
<1>2. l[1] \in Node /\ l[3] \in Node
  BY LinkParts
<1>3. l[3] = Child(I, l[1], k)
  BY <1>1 DEF LinkAt
<1>4. l[1] \in Dirs(I, A) /\ k \in NamesIn(I, l[1])
  BY <1>1, <1>2, CleanNames
<1>5. Good(I) /\ Shape(I, A)
  BY DEF Clean, Sound, Ordered
<1>6. NamedOnce(I, l[1], k)
  <2>1. Child(I, l[1], k) # << >>
    BY <1>2, <1>3, NodesNotEmpty
  <2> QED
    BY <1>4, <1>5, <2>1 DEF Shape, ShapeBut
<1> QED
  BY <1>1, <1>2, <1>3, <1>4, <1>5, <1>6 DEF NamedOnce, Good

(* The directory that the ".." of a directory names has a link to it.      *)
LEMMA ParentLink ==
  ASSUME NEW I \in Inodes, NEW A \in SUBSET Node, Clean(I, A),
         NEW n \in Dirs(I, A), Dotted(I, n), n[2] # RootInode
  PROVE  \E l \in Links(I) : l[3] = n /\ l[1] = Child(I, n, 2)
<1>1. Good(I) /\ Shape(I, A) /\ n \in Node
  BY DEF Clean, Sound, Ordered, Dirs
<1>2. HasParent(I, A, n)
  BY <1>1, NodesNotEmpty DEF Shape, ShapeBut
<1> DEFINE d == Child(I, n, 2)
<1>3. PICK k \in NamesIn(I, d) : Child(I, d, k) = n
  BY <1>2 DEF HasParent
<1>4. d \in Dirs(I, A) /\ d \in Node /\ k \in DOMAIN I[d].ent
  BY <1>2, <1>3 DEF HasParent, Dirs, NamesIn
<1> HIDE DEF d
<1>5. I[d].ent[k].name \notin Dots
  BY <1>3, <1>4, CleanNames
<1>6. LinkAt(I, d, k) \in Links(I)
  BY <1>1, <1>4, <1>5, LinkHere
<1>7. LinkAt(I, d, k)[3] = n /\ LinkAt(I, d, k)[1] = d
  BY <1>3 DEF LinkAt
<1> QED
  BY <1>6, <1>7 DEF d

Attached(I, d) == d \in Dirs(I, Node) /\ (d \in {RootOf(e) : e \in Disk} \/ \E l \in Links(I) : l[3] = d)

LEMMA CleanAttached ==
  ASSUME NEW I \in Inodes, NEW A \in SUBSET Node, Clean(I, A), NEW d \in Dirs(I, A), Dotted(I, d)
  PROVE  Attached(I, d)
<1>1. d \in Dirs(I, Node) /\ d \in Node
  BY DEF Dirs
<1>2. CASE d[2] = RootInode
  <2>1. d = RootOf(d[1]) /\ d[1] \in Disk
    BY <1>1, <1>2, NodeFacts DEF RootOf
  <2> QED
    BY <1>1, <2>1 DEF Attached
<1>3. CASE d[2] # RootInode
  BY <1>1, <1>3, ParentLink DEF Attached
<1> QED
  BY <1>2, <1>3

(* No link is to a free inode, and none is from a directory without names. *)
LEMMA DeletedLinks ==
  ASSUME NEW I \in Inodes, NEW J \in Inodes, NEW A \in SUBSET Node, Clean(I, A),
         NEW d \in Dirs(I, A), NEW p, Deleted(I, J, d, p)
  PROVE  LET l == LinkAt(I, d, p) IN
         /\ l \in Links(I) /\ I[d].ent[p].name \notin Dots /\ Bare(I, Child(I, d, p))
         /\ Links(J) = Links(I) \ {l} /\ Unique(J) /\ Quiet(J, A)
<1> DEFINE n == Child(I, d, p)
<1>1. /\ p \in NamesIn(I, d) /\ n # d /\ J[n].ent = << >>
      /\ I[n].kind = "dir" => Dotted(I, n) /\ NamesIn(I, n) = {}
      /\ J[d].ent = CutAt(I[d].ent, p)
      /\ \A x \in Node : x \notin {d, n} => J[x].ent = I[x].ent
  BY DEF Deleted
<1>2. d \in Node /\ p \in DOMAIN I[d].ent /\ Good(I) /\ Shape(I, A) /\ Unique(I) /\ Closed(I, A) /\ d \in A
  BY <1>1 DEF Clean, Sound, Ordered, NamesIn, Dirs
<1>3. n \in Node /\ n \in A /\ I[d].ent[p].name \notin Dots
  BY <1>1, <1>2, CleanNames DEF Good, Closed
<1> HIDE DEF n
<1>4. Bare(I, n)
  <2>1. CASE I[n].kind = "dir"
    <3>1. Begins(I, n)
      BY <1>1, <1>2, <1>3, <2>1 DEF Shape, ShapeBut, Dirs
    <3>2. ASSUME NEW k \in DOMAIN I[n].ent PROVE k \in {1, 2}
      BY <1>1, <1>3, <2>1, NamesFacts
    <3> QED
      BY <3>1, <3>2 DEF Begins, Bare, Dots
  <2>2. CASE I[n].kind # "dir"
    <3>1. I[n].ent = << >>
      BY <1>2, <1>3, <2>2 DEF Good
    <3>2. DOMAIN I[n].ent = {}
      BY <3>1
    <3> QED
      BY <3>2 DEF Bare
  <2> QED
    BY <2>1, <2>2
<1>5. \A x \in Node : x # d => J[x].ent = I[x].ent \/ (J[x].ent = << >> /\ Bare(I, x))
  BY <1>1, <1>4
<1>6. Links(J) = Links(I) \ {LinkAt(I, d, p)} /\ Unique(J)
  BY <1>1, <1>2, <1>3, <1>5, CutLinks
<1>7. LinkAt(I, d, p) \in Links(I)
  BY <1>2, <1>3, LinkHere
<1>8. Quiet(J, A)
  <2>1. \A x \in Node \ A : J[x].ent = I[x].ent
    BY <1>1, <1>2, <1>3
  <2>2. Quiet(I, A)
    BY DEF Clean
  <2> QED
    BY <2>1, <2>2 DEF Quiet, Bare
<1> QED
  BY <1>3, <1>4, <1>6, <1>7, <1>8 DEF n

LEMMA MadeLinks ==
  ASSUME NEW I \in Inodes, NEW J \in Inodes, NEW A \in SUBSET Node, Clean(I, A), NEW n \in Node,
         NEW d, NEW r, Made(I, J, n, d, r)
  PROVE  /\ Links(J) = Links(I) /\ Unique(J)
         /\ Bare(J, n) /\ \A x \in Node : x # n => J[x].ent = I[x].ent
<1>1. /\ \A x \in Node : J[x] = IF x = n THEN r ELSE I[x]
      /\ I[n].kind = "free"
      /\ r.ent = << >> \/ r.ent = Dotting(n, d)
  BY DEF Made
<1>2. I[n].ent = << >> /\ Unique(I)
  BY <1>1 DEF Clean, Sound, Good
<1>3. DOMAIN I[n].ent = {}
  BY <1>2
<1>4. \A k \in DOMAIN r.ent : k \in {1, 2} /\ r.ent[k].name = IF k = 1 THEN "." ELSE ".."
  <2>1. CASE r.ent = << >>
    <3>1. DOMAIN r.ent = {}
      BY <2>1
    <3> QED
      BY <3>1
  <2>2. CASE r.ent = Dotting(n, d)
    BY <2>2 DEF Dotting
  <2> QED
    BY <1>1, <2>1, <2>2
<1>5. J[n] = r /\ \A x \in Node : x # n => J[x].ent = I[x].ent
  BY <1>1
<1>6. Bare(J, n)
  BY <1>4, <1>5 DEF Bare, Dots
<1>7. Links(J) = Links(I)
  <2>1. \A e \in Node : \A k \in DOMAIN I[e].ent : I[e].ent[k].name \notin Dots =>
          k \in DOMAIN J[e].ent /\ J[e].ent[k] = I[e].ent[k]
    BY <1>3, <1>5
  <2>2. \A e \in Node : \A k \in DOMAIN J[e].ent : J[e].ent[k].name \notin Dots =>
          k \in DOMAIN I[e].ent /\ J[e].ent[k] = I[e].ent[k]
    BY <1>5, <1>6 DEF Bare
  <2> QED
    BY <2>1, <2>2, SameLinks
<1>8. Unique(J)
  <2>1. \A j, k \in DOMAIN J[n].ent : J[n].ent[j].name = J[n].ent[k].name => j = k
    BY <1>4, <1>5
  <2> QED
    BY <1>2, <1>5, <2>1 DEF Unique
<1> QED
  BY <1>5, <1>6, <1>7, <1>8
-----------------------------------------------------------------------------
(* The directories that can_dirmove comes to, from start up to the root    *)

LEMMA DotsPlace ==
  ASSUME NEW fs \in FS, NEW A \in SUBSET Node, Clean(fs.inode, A), NEW c \in A, Has(fs, c, "..")
  PROVE  /\ c \in Dirs(fs.inode, A) /\ Dotted(fs.inode, c)
         /\ Target(fs, c, "..") = Child(fs.inode, c, 2) /\ Target(fs, c, "..") \in A
<1> DEFINE K == fs.inode
           p == Place(fs, c, "..")
<1>1. K \in Inodes /\ c \in Node /\ K[c].ent \in Seq(Ent)
      /\ Good(K) /\ Closed(K, A) /\ Shape(K, A) /\ Tidy(K, A) /\ Unique(K)
  BY FSFacts, InodeFacts DEF Clean, Sound, Ordered
<1>2. p \in DOMAIN K[c].ent /\ K[c].ent[p].name = ".."
  BY <1>1, PlaceFacts DEF Has
<1>3. Target(fs, c, "..") = Child(K, c, p)
  BY DEF Target, Child
<1> HIDE DEF K, p
<1>4. K[c].kind = "dir" /\ K[c].ent # << >>
  BY <1>1, <1>2, GoodFacts, InodeFacts
<1>5. c \in Dirs(K, A) /\ Dotted(K, c)
  BY <1>1, <1>4 DEF Dirs, Tidy
<1>6. Begins(K, c) /\ 2 \in DOMAIN K[c].ent
  BY <1>1, <1>5, NamesFacts DEF Shape, ShapeBut
<1>7. p = 2
  BY <1>1, <1>2, <1>6 DEF Unique, Begins
<1>8. Child(K, c, p) \in A
  BY <1>1, <1>2 DEF Closed
<1> QED
  BY <1>3, <1>5, <1>7, <1>8 DEF K

LEMMA WalkUp ==
  ASSUME NEW fs \in FS, NEW A \in SUBSET Node, Clean(fs.inode, A), NEW from,
         NEW start \in Dirs(fs.inode, A), Dotted(fs.inode, start), from # start,
         CanDirmove(fs, from, start) = "ok"
  PROVE  \E C \in SUBSET Node :
           /\ start \in C /\ from \notin C
           /\ \A c \in C : /\ c \in Dirs(fs.inode, A) /\ Dotted(fs.inode, c)
                           /\ c[2] = RootInode \/ Child(fs.inode, c, 2) \in C
<1> DEFINE K == fs.inode
           last == Cardinality(Node) + 1
           top == RootOf(start[1])
           T == A \cup {<< >>}
           Above1(y) == IF y = << >> \/ ~Has(fs, y, "..") THEN << >> ELSE Target(fs, y, "..")
           Rec(u) == u = [k \in 0 .. last |->
                            IF k = 0 THEN start
                            ELSE IF u[k-1] = << >> \/ ~Has(fs, u[k-1], "..") THEN << >>
                            ELSE Target(fs, u[k-1], "..")]
           up == CHOOSE u : Rec(u)
           Stops(k) == up[k] \in {<< >>, from, top}
           first == CHOOSE k \in 1 .. last : (Stops(k) \/ k = last) /\ \A j \in 1 .. k - 1 : ~Stops(j)
<1>1. last \in Nat /\ last # 0
  <2>1. Cardinality(Node) \in Nat
    BY NodeFacts, FS_CardinalityType
  <2> QED
    BY <2>1
<1>2. CanDirmove(fs, from, start) =
        CASE up[first] = << >> -> "ENOENT"
          [] up[first] = from  -> "EINVAL"
          [] up[first] = top /\ from # top -> "ok"
          [] OTHER -> "endless"
  BY DEF CanDirmove
<1>3. start \in A /\ start \in Node /\ start[1] \in Disk /\ top \in Dirs(K, A) /\ Dotted(K, top)
      /\ top # << >> /\ top[2] = RootInode /\ top \in A
  <2>1. start \in A /\ start \in Node
    BY DEF Dirs
  <2>2. start[1] \in Disk
    BY <2>1, NodeFacts
  <2>3. top \in Dirs(K, A) /\ Dotted(K, top)
    BY <2>2 DEF Clean, Sound, Ordered, Shape, ShapeBut
  <2>4. top \in Node /\ top \in A
    BY <2>3 DEF Dirs
  <2>5. top[2] = RootInode
    BY <2>2, NodeFacts
  <2> QED
    BY <2>1, <2>2, <2>3, <2>4, <2>5, NodesNotEmpty
<1> HIDE DEF last, top
<1>4. \E u \in [0 .. last -> T] : \A k \in 0 .. last : u[k] = IF k = 0 THEN start ELSE Above1(u[k-1])
  <2> DEFINE F == [y \in T |-> Above1(y)]
  <2>1. ASSUME NEW y \in T PROVE Above1(y) \in T
    <3>1. CASE y = << >> \/ ~Has(fs, y, "..")
      BY <3>1
    <3>2. CASE ~ (y = << >> \/ ~Has(fs, y, ".."))
      <4>1. y \in A /\ Has(fs, y, "..")
        BY <3>2
      <4>2. Target(fs, y, "..") \in A
        BY <4>1, DotsPlace
      <4> QED
        BY <3>2, <4>2
    <3> QED
      BY <3>1, <3>2
  <2> HIDE DEF Above1
  <2>2. start \in T /\ F \in [T -> T]
    BY <1>3, <2>1
  <2>3. \A y \in T : F[y] = Above1(y)
    OBVIOUS
  <2> HIDE DEF F, T
  <2>4. PICK u : Climbs(u, last, T, start, F)
    BY <1>1, <2>2, ClimbExists
  <2>5. ASSUME NEW k \in 0 .. last, k # 0 PROVE F[u[k-1]] = Above1(u[k-1])
    <3>1. k - 1 \in 0 .. last
      BY <1>1, <2>5
    <3> QED
      BY <2>3, <2>4, <3>1 DEF Climbs
  <2> QED
    BY <2>4, <2>5 DEF Climbs
<1>5. up \in [0 .. last -> T] /\ up[0] = start
      /\ \A k \in 0 .. last : k # 0 => up[k] = Above1(up[k-1])
  <2>1. PICK u \in [0 .. last -> T] : \A k \in 0 .. last : u[k] = IF k = 0 THEN start ELSE Above1(u[k-1])
    BY <1>4
  <2>2. Rec(u)
    BY <2>1
  <2>3. Rec(up)
    <3> HIDE DEF Rec
    <3> QED
      BY <2>2
  <2> HIDE DEF up
  <2>4. DOMAIN up = 0 .. last /\ \A k \in 0 .. last : up[k] = IF k = 0 THEN start ELSE Above1(up[k-1])
    BY <2>3
  <2>5. 0 \in 0 .. last /\ \A k \in 0 .. last : k # 0 => k - 1 \in 0 .. last
    BY <1>1
  <2>6. up = u
    <3> DEFINE bad == {k \in 0 .. last : up[k] # u[k]}
    <3> SUFFICES ASSUME bad # {} PROVE FALSE
      <4>1. up = [k \in 0 .. last |-> up[k]]
        BY <2>3
      <4> QED
        BY <2>1, <4>1
    <3>1. bad \in SUBSET Nat
      BY <1>1
    <3>2. PICK k \in bad : \A j \in bad : k <= j
      <4> HIDE DEF bad
      <4> QED
        BY <3>1, LeastNat
    <3>3. k # 0 /\ k - 1 \in 0 .. last /\ k - 1 \notin bad
      <4>1. k # 0
        BY <2>1, <2>4, <2>5
      <4>2. k - 1 \in 0 .. last /\ ~ (k <= k - 1)
        BY <2>5, <3>1, <4>1
      <4> QED
        BY <3>2, <4>1, <4>2
    <3>4. up[k-1] = u[k-1]
      BY <3>3
    <3> HIDE DEF Above1
    <3> QED
      BY <2>1, <2>4, <3>3, <3>4
  <2> HIDE DEF Above1, T
  <2> QED
    BY <2>1, <2>4, <2>5, <2>6
<1> HIDE DEF up
<1>6. /\ first \in 1 .. last
      /\ \A j \in 1 .. first - 1 : ~Stops(j)
  <2> DEFINE ends == {k \in 1 .. last : Stops(k) \/ k = last}
  <2>1. ends \in SUBSET Nat /\ last \in ends
    BY <1>1
  <2>2. PICK k \in ends : \A j \in ends : k <= j
    <3> HIDE DEF ends
    <3> QED
      BY <2>1, LeastNat
  <2>3. k \in 1 .. last /\ (Stops(k) \/ k = last)
    BY <2>2
  <2>4. ASSUME NEW j \in 1 .. k - 1 PROVE ~Stops(j)
    <3>1. j \in 1 .. last /\ ~ (k <= j)
      BY <1>1, <2>3
    <3> QED
      BY <2>2, <3>1
  <2> HIDE DEF Stops, ends
  <2> QED
    BY <2>3, <2>4
<1> HIDE DEF first
<1>7. up[first] = top /\ from # top
  BY <1>2
<1>8. ASSUME NEW k \in 0 .. first
      PROVE  /\ up[k] \in A /\ up[k] # from /\ k \in 0 .. last
             /\ k # first => k + 1 \in 0 .. first /\ k + 1 \in 0 .. last /\ k + 1 # 0
  <2>1. k \in 0 .. last /\ (k = 0 \/ k = first \/ k \in 1 .. first - 1)
    BY <1>1, <1>6
  <2>2. up[k] \in T
    BY <1>5, <2>1
  <2>3. k # first => k + 1 \in 0 .. first /\ k + 1 \in 0 .. last /\ k + 1 # 0
    BY <1>1, <1>6
  <2> QED
    BY <1>3, <1>5, <1>6, <1>7, <2>1, <2>2, <2>3
<1>9. ASSUME NEW k \in 0 .. first, k # first
      PROVE  up[k] \in Dirs(K, A) /\ Dotted(K, up[k]) /\ Child(K, up[k], 2) = up[k + 1]
  <2>1. k + 1 \in 0 .. first /\ k + 1 \in 0 .. last /\ k + 1 # 0 /\ up[k] \in A
    BY <1>8, <1>9
  <2>2. up[k + 1] # << >>
    <3>1. up[k + 1] \in A
      BY <1>8, <2>1
    <3> QED
      BY <3>1, NodesNotEmpty
  <2>3. (k + 1) - 1 = k
    BY <1>6
  <2>4. up[k + 1] = Above1(up[k])
    BY <1>5, <2>1, <2>3
  <2>5. Has(fs, up[k], "..") /\ up[k + 1] = Target(fs, up[k], "..")
    BY <2>2, <2>4
  <2> QED
    BY <2>1, <2>5, DotsPlace
<1> DEFINE C == {up[k] : k \in 0 .. first}
<1>10. ASSUME NEW c \in C
       PROVE  c \in Dirs(K, A) /\ Dotted(K, c) /\ (c[2] = RootInode \/ Child(K, c, 2) \in C)
  <2>1. PICK k \in 0 .. first : c = up[k]
    OBVIOUS
  <2>2. CASE k = first
    BY <1>3, <1>7, <2>1, <2>2
  <2>3. CASE k # first
    <3>1. k + 1 \in 0 .. first
      BY <1>8, <2>3
    <3> QED
      BY <1>9, <2>1, <2>3, <3>1
  <2> QED
    BY <2>2, <2>3
<1>11. C \in SUBSET Node /\ start \in C /\ from \notin C
  <2>1. 0 \in 0 .. first
    BY <1>6
  <2> QED
    BY <1>5, <1>8, <2>1
<1> QED
  <2> HIDE DEF C
  <2> QED
    BY <1>10, <1>11
-----------------------------------------------------------------------------
(* What a step does to the links, in the words of NameTree                 *)

IsNamed(I, n)  == \E l \in Links(I) : l[3] = n
NoneIn(I, n)   == \A l \in Links(I) : l[1] # n
SameDirs(I, J) == Dirs(J, Node) = Dirs(I, Node)

Orphaned(I, J) ==
  Links(J) = Links(I) /\ \E n \in Node : ~ IsNamed(I, n) /\ Dirs(J, Node) = Dirs(I, Node) \cup {n}

Bound(I, J, new, asked) ==
  /\ Links(J) = Links(I) \cup {new}
  /\ Attached(I, new[1])
  /\ \A l \in Links(I) : <<l[1], l[2]>> # <<new[1], new[2]>>
  /\ new[3] \notin Dirs(I, Node)
  /\ IsNamed(I, new[3]) \/ <<new[1], new[2]>> \in asked
  /\ SameDirs(I, J) \/ (~ IsNamed(I, new[3]) /\ Dirs(J, Node) = Dirs(I, Node) \cup {new[3]})

Unbound(I, J, old) ==
  old \in Links(I) /\ Links(J) = Links(I) \ {old} /\ NoneIn(I, old[3]) /\ SameDirs(I, J)

Shifted(I, J, old, new, others) ==
  /\ old \in Links(I) /\ new \notin Links(I) /\ others \subseteq Links(I) \ {old}
  /\ Links(J) = (Links(I) \ ({old} \cup others)) \cup {new}
  /\ old[3] = new[3] /\ Attached(I, new[1])
  /\ old[3] \in Dirs(I, Node) =>
       \E C \in SUBSET Node : /\ new[1] \in C /\ old[3] \notin C
                              /\ \A l \in Links(I) : l[3] \in C => l[1] \in C
  /\ \A l \in others : l[1] = new[1] /\ l[2] = new[2] /\ NoneIn(I, l[3])
  /\ SameDirs(I, J)

Change(I, J, asked) ==
  \/ Links(J) = Links(I) /\ SameDirs(I, J)
  \/ Orphaned(I, J)
  \/ \E new : Bound(I, J, new, asked)
  \/ \E old : Unbound(I, J, old)
  \/ \E old, new, others : Shifted(I, J, old, new, others)

LEMMA ChangeTree ==
  ASSUME NEW I, NEW J, NameLinks = Links(I), NameLinks' = Links(J),
         NameDirs = Dirs(I, Node), NameDirs' = Dirs(J, Node), outside' = outside,
         Change(I, J, NameAsked)
  PROVE  Names!TreeNext
<1> DEFINE gone  == NameLinks \ NameLinks'
           fresh == NameLinks' \ NameLinks
           tops  == {RootOf(e) : e \in Disk}
<1>1. ASSUME Links(J) = Links(I), SameDirs(I, J) PROVE Names!TreeNext
  BY <1>1 DEF Names!TreeNext, SameDirs
<1>2. ASSUME Orphaned(I, J) PROVE Names!TreeNext
  <2>1. NameLinks' = NameLinks
    BY <1>2 DEF Orphaned
  <2>2. gone = {} /\ fresh = {}
    BY <2>1
  <2>3. Names!Orphan
    BY <1>2 DEF Orphaned, Names!Orphan, Names!Named, IsNamed
  <2> QED
    BY <2>2, <2>3 DEF Names!TreeNext
<1>3. ASSUME NEW new, Bound(I, J, new, NameAsked) PROVE Names!TreeNext
  <2>1. new \notin NameLinks /\ NameLinks' = NameLinks \cup {new}
    BY <1>3 DEF Bound
  <2>2. gone = {} /\ new \in fresh /\ fresh = {new}
    BY <2>1
  <2>3. Names!Attached(new[1])
    BY <1>3 DEF Bound, Attached, Names!Attached, Names!Named
  <2>4. NameDirs' \in {NameDirs, NameDirs \cup (IF Names!Named(new[3]) THEN {} ELSE {new[3]})}
    <3>1. IsNamed(I, new[3]) <=> Names!Named(new[3])
      BY DEF IsNamed, Names!Named
    <3> QED
      BY <1>3, <3>1 DEF Bound, SameDirs
  <2>5. Names!Bind(new)
    BY <1>3, <2>3, <2>4 DEF Bound, Names!Bind, Names!Named, IsNamed
  <2> HIDE DEF gone, fresh
  <2>6. gone = {} /\ \E m \in fresh : fresh = {m} /\ Names!Bind(m)
    BY <2>2, <2>5
  <2> QED
    BY <2>6 DEF Names!TreeNext, gone, fresh
<1>4. ASSUME NEW old, Unbound(I, J, old) PROVE Names!TreeNext
  <2>1. old \in NameLinks /\ NameLinks' = NameLinks \ {old}
    BY <1>4 DEF Unbound
  <2>2. fresh = {} /\ old \in gone /\ gone = {old}
    BY <2>1
  <2>3. Names!Unbind(old)
    BY <1>4 DEF Unbound, NoneIn, SameDirs, Names!Unbind, Names!Empty
  <2> HIDE DEF gone, fresh
  <2>4. fresh = {} /\ \E m \in gone : gone = {m} /\ Names!Unbind(m)
    BY <2>2, <2>3
  <2> QED
    BY <2>4 DEF Names!TreeNext, gone, fresh
<1>5. ASSUME NEW old, NEW new, NEW others, Shifted(I, J, old, new, others) PROVE Names!TreeNext
  <2>1. /\ old \in NameLinks /\ new \notin NameLinks /\ others \subseteq NameLinks \ {old}
        /\ NameLinks' = (NameLinks \ ({old} \cup others)) \cup {new}
    BY <1>5 DEF Shifted
  <2>2. old \in gone /\ new \in fresh /\ fresh = {new} /\ gone \ {old} = others
    BY <2>1
  <2>3. Names!Attached(new[1])
    BY <1>5 DEF Shifted, Attached, Names!Attached, Names!Named
  <2>4. ASSUME old[3] \in NameDirs PROVE old[3] \notin Names!Above(new[1])
    <3>1. PICK C \in SUBSET Node : /\ new[1] \in C /\ old[3] \notin C
                                   /\ \A l \in NameLinks : l[3] \in C => l[1] \in C
      BY <1>5, <2>4 DEF Shifted
    <3> QED
      BY <3>1 DEF Names!Above
  <2>5. Names!Move(old, new, others)
    BY <1>5, <2>3, <2>4 DEF Shifted, NoneIn, SameDirs, Names!Move, Names!Empty
  <2> HIDE DEF gone, fresh
  <2>6. \E l \in gone, m \in fresh : fresh = {m} /\ Names!Move(l, m, gone \ {l})
    BY <2>2, <2>5
  <2> QED
    BY <2>6 DEF Names!TreeNext, gone, fresh
<1> QED
  BY <1>1, <1>2, <1>3, <1>4, <1>5 DEF Change

(* The state of NameTree is what the inodes say.                           *)
LEMMA LinksNow == NamesInv => NameLinks = Links(inode) /\ NameDirs = Dirs(inode, Node)
<1> SUFFICES ASSUME NamesInv PROVE NameLinks = Links(inode) /\ NameDirs = Dirs(inode, Node)
  OBVIOUS
<1>1. inode \in Inodes /\ Good(inode)
  BY DEF NamesInv, Types, Sound
<1>2. NameDirs = Dirs(inode, Node)
  BY DEF NameDirs, Dirs, IsDir, Now
<1>3. ASSUME NEW l \in NameLinks PROVE l \in Links(inode)
  <2>1. PICK p \in UNION {Entries(n) : n \in Node} :
          /\ inode[p[1]].ent[p[2]].name \notin Dots
          /\ l = <<p[1], inode[p[1]].ent[p[2]].name, <<p[1][1], inode[p[1]].ent[p[2]].ino>>>>
    BY <1>3 DEF NameLinks
  <2>2. p[1] \in Node /\ p[2] \in DOMAIN inode[p[1]].ent
    BY DEF Entries
  <2>3. l = LinkAt(inode, p[1], p[2])
    BY <2>1 DEF LinkAt, Child
  <2> QED
    BY <1>1, <2>1, <2>2, <2>3, LinkHere
<1>4. ASSUME NEW l \in Links(inode) PROVE l \in NameLinks
  <2>1. PICK k \in DOMAIN inode[l[1]].ent : inode[l[1]].ent[k].name \notin Dots /\ l = LinkAt(inode, l[1], k)
    BY LinkParts
  <2> DEFINE p == <<l[1], k>>
  <2>2. p \in UNION {Entries(n) : n \in Node}
    BY LinkParts DEF Entries
  <2>3. l = <<p[1], inode[p[1]].ent[p[2]].name, <<p[1][1], inode[p[1]].ent[p[2]].ino>>>>
    BY <2>1 DEF LinkAt, Child
  <2>4. inode[p[1]].ent[p[2]].name \notin Dots
    BY <2>1
  <2> HIDE DEF p
  <2> QED
    BY <2>2, <2>3, <2>4 DEF NameLinks
<1> QED
  BY <1>2, <1>3, <1>4

-----------------------------------------------------------------------------
(* The calls, as changes of the links                                      *)

LEMMA RestDirs == ASSUME NEW I, NEW J, Rest(I, J) PROVE SameDirs(I, J)
BY DEF Rest, SameDirs, Dirs

LEMMA BareNone == ASSUME NEW I, NEW n, Bare(I, n) PROVE NoneIn(I, n)
<1> SUFFICES ASSUME NEW l \in Links(I), l[1] = n PROVE FALSE
  BY DEF NoneIn
<1>1. PICK k \in DOMAIN I[l[1]].ent : I[l[1]].ent[k].name \notin Dots
  BY LinkParts
<1> QED
  BY <1>1 DEF Bare

LEMMA UnusedLinks ==
  ASSUME NEW I, NEW d, NEW name, Unused(I, d, name), NEW l \in Links(I)
  PROVE  <<l[1], l[2]>> # <<d, name>>
<1> SUFFICES ASSUME l[1] = d, l[2] = name PROVE FALSE
  OBVIOUS
<1>1. PICK k \in DOMAIN I[l[1]].ent : I[l[1]].ent[k].name \notin Dots /\ l = LinkAt(I, l[1], k)
  BY LinkParts
<1>2. l[2] = I[l[1]].ent[k].name
  BY <1>1 DEF LinkAt
<1> QED
  BY <1>1, <1>2 DEF Unused

LEMMA AllocateTree ==
  ASSUME NEW I \in Inodes, NEW r \in FS, NEW A \in SUBSET Node, Clean(I, A),
         NEW d \in Dirs(I, A), NEW path, LinkName(path) \in Name, AllocateWay(r, I, d, path), NEW asked,
         r.rc = "ok" => /\ Dotted(I, d) /\ LinkName(path) \notin Dots
                        /\ Unused(I, d, LinkName(path)) /\ <<d, LinkName(path)>> \in asked
  PROVE  /\ Change(I, r.inode, asked) /\ Unique(r.inode)
         /\ Quiet(r.inode, IF r.rc = "ok" THEN A ELSE A \ Grown(I, r.inode))
<1> DEFINE J == r.inode
           name == LinkName(path)
<1>1. J \in Inodes /\ d \in Node /\ d \in A /\ I[d].kind = "dir" /\ Unique(I) /\ Quiet(I, A)
  BY FSFacts DEF Dirs, Clean
<1> HIDE DEF name
<1>2. CASE J = I /\ r.rc # "ok"
  <2>1. Grown(I, J) = {} /\ A \ Grown(I, J) = A
    BY <1>2 DEF Grown
  <2>2. Change(I, J, asked)
    BY <1>2 DEF Change, SameDirs
  <2> QED
    BY <1>1, <1>2, <2>1, <2>2
<1>3. ASSUME NEW n \in Node, NEW q \in Record, NEW H \in Inodes, n[1] = d[1], Made(I, H, n, d, q),
             IF r.rc = "ok" THEN Added(H, J, d, n, name) ELSE J = H
      PROVE  Change(I, J, asked) /\ Unique(J) /\ Quiet(J, IF r.rc = "ok" THEN A ELSE A \ Grown(I, J))
  <2>1. /\ Links(H) = Links(I) /\ Unique(H)
        /\ Bare(H, n) /\ \A x \in Node : x # n => H[x].ent = I[x].ent
    BY <1>3, MadeLinks
  <2>2. /\ I[n].kind = "free" /\ q.kind \in {"file", "dir"}
        /\ H[n] = q /\ \A x \in Node : x # n => H[x] = I[x]
    BY <1>3 DEF Made
  <2>3. ~ IsNamed(I, n)
    BY <2>2, CleanLinks DEF IsNamed
  <2>4. n \notin Dirs(I, Node) /\ n # d
    BY <1>1, <2>2 DEF Dirs
  <2>5. SameDirs(I, H) \/ Dirs(H, Node) = Dirs(I, Node) \cup {n}
    BY <1>3, <2>2 DEF Dirs, SameDirs
  <2>6. CASE r.rc = "ok"
    <3>1. Added(H, J, d, n, name)
      BY <1>3, <2>6
    <3>2. /\ Dotted(I, d) /\ name \notin Dots /\ name \in Name
          /\ Unused(I, d, name) /\ <<d, name>> \in asked
      BY <2>6 DEF name
    <3>3. H[d].ent = I[d].ent /\ \A k \in DOMAIN H[d].ent : H[d].ent[k].name # name
      BY <1>1, <2>1, <2>4, <3>2 DEF Unused
    <3>4. Links(J) = Links(I) \cup {<<d, name, n>>} /\ Unique(J)
      BY <1>1, <1>3, <2>1, <3>1, <3>2, <3>3, AddedLinks
    <3>5. Dirs(J, Node) = Dirs(H, Node)
      BY <3>1, RestDirs DEF Added, SameDirs
    <3>6. Attached(I, d)
      BY <3>2, CleanAttached
    <3>7. Bound(I, J, <<d, name, n>>, asked)
      BY <2>3, <2>4, <2>5, <3>2, <3>4, <3>5, <3>6, UnusedLinks DEF Bound, SameDirs
    <3>8. Quiet(J, A)
      <4>1. \A x \in Node : x # d => J[x].ent = H[x].ent
        BY <3>1 DEF Added
      <4>2. ASSUME NEW x \in Node \ A PROVE Bare(J, x)
        <5>1. x # d
          BY <1>1
        <5>2. J[x].ent = H[x].ent
          BY <4>1, <5>1
        <5>3. CASE x = n
          BY <2>1, <5>2, <5>3 DEF Bare
        <5>4. CASE x # n
          <6>1. J[x].ent = I[x].ent
            BY <2>1, <5>2, <5>4
          <6> QED
            BY <1>1, <6>1 DEF Quiet, Bare
        <5> QED
          BY <5>3, <5>4
      <4> QED
        BY <4>2 DEF Quiet
    <3>9. Change(I, J, asked)
      BY <3>7 DEF Change
    <3> QED
      BY <2>6, <3>4, <3>8, <3>9
  <2>7. CASE r.rc # "ok"
    <3>1. J = H
      BY <1>3, <2>7
    <3>2. Change(I, J, asked)
      <4>1. SameDirs(I, H) => Change(I, H, asked)
        BY <2>1 DEF Change
      <4>2. Dirs(H, Node) = Dirs(I, Node) \cup {n} => Orphaned(I, H)
        BY <2>1, <2>3 DEF Orphaned
      <4>3. Orphaned(I, H) => Change(I, H, asked)
        BY DEF Change
      <4> QED
        BY <2>5, <3>1, <4>1, <4>2, <4>3
    <3>3. Grown(I, J) = {n}
      BY <2>2, <3>1 DEF Grown
    <3>4. Quiet(J, A \ {n})
      <4>1. ASSUME NEW x \in Node \ (A \ {n}) PROVE Bare(J, x)
        <5>1. CASE x = n
          BY <2>1, <3>1, <5>1
        <5>2. CASE x # n
          <6>1. x \in Node \ A /\ J[x].ent = I[x].ent
            BY <2>1, <3>1, <5>2
          <6> QED
            BY <1>1, <6>1 DEF Quiet, Bare
        <5> QED
          BY <5>1, <5>2
      <4> QED
        BY <4>1 DEF Quiet
    <3> QED
      BY <2>1, <2>7, <3>1, <3>2, <3>3, <3>4
  <2> QED
    BY <2>6, <2>7
<1> QED
  BY <1>2, <1>3 DEF AllocateWay, name

LEMMA DeleteTree ==
  ASSUME NEW I \in Inodes, NEW J \in Inodes, NEW A \in SUBSET Node, Clean(I, A), Rest(I, J),
         NEW d \in Dirs(I, A), NEW p, J = I \/ Deleted(I, J, d, p), NEW asked
  PROVE  Change(I, J, asked) /\ Unique(J) /\ Quiet(J, A)
<1>1. CASE J = I
  <2>1. Change(I, J, asked)
    BY <1>1 DEF Change, SameDirs
  <2> QED
    BY <1>1, <2>1 DEF Clean
<1>2. CASE Deleted(I, J, d, p)
  <2> DEFINE l == LinkAt(I, d, p)
  <2>1. /\ l \in Links(I) /\ Bare(I, Child(I, d, p))
        /\ Links(J) = Links(I) \ {l} /\ Unique(J) /\ Quiet(J, A)
    BY <1>2, DeletedLinks
  <2>2. l[3] = Child(I, d, p)
    BY DEF LinkAt
  <2> HIDE DEF l
  <2>3. Unbound(I, J, l)
    BY <2>1, <2>2, BareNone, RestDirs DEF Unbound
  <2> QED
    BY <2>1, <2>3 DEF Change
<1> QED
  BY <1>1, <1>2

LEMMA FileNamed ==
  ASSUME NEW I \in Inodes, NEW A \in SUBSET Node, Clean(I, A), NEW n \in A, I[n].kind = "file", I[n].nlink # 0
  PROVE  IsNamed(I, n)
<1>1. Good(I) /\ Shape(I, A) /\ Tidy(I, A) /\ Bal(I, A, n) = 0 /\ n \in Node
  BY DEF Clean, Sound, Ordered, Counted
<1>2. Refs(I, A, n) # {}
  <2> SUFFICES ASSUME Refs(I, A, n) = {} PROVE FALSE
    OBVIOUS
  <2>1. Cardinality(Refs(I, A, n)) = 0
    BY FS_EmptySet
  <2>2. I[n].nlink \in Nat
    BY <1>1, InodeFacts
  <2> QED
    BY <1>1, <2>1, <2>2 DEF Bal
<1>3. PICK p \in Refs(I, A, n) : TRUE
  BY <1>2
<1> DEFINE d == p[1]
           k == p[2]
<1>4. d \in A /\ d \in Node /\ k \in DOMAIN I[d].ent /\ Child(I, d, k) = n
  BY DEF Refs
<1> HIDE DEF d, k
<1>5. I[d].kind = "dir"
  BY <1>1, <1>4, GoodFacts
<1>6. d \in Dirs(I, A)
  BY <1>4, <1>5 DEF Dirs
<1>7. k \in NamesIn(I, d)
  BY <1>1, <1>4, <1>6, FileNames
<1>8. I[d].ent[k].name \notin Dots
  BY <1>4, <1>6, <1>7, CleanNames
<1>9. LinkAt(I, d, k) \in Links(I)
  BY <1>1, <1>4, <1>8, LinkHere
<1> QED
  BY <1>4, <1>9 DEF LinkAt, IsNamed

LEMMA LinkTree ==
  ASSUME NEW I \in Inodes, NEW J \in Inodes, NEW A \in SUBSET Node, Clean(I, A), Rest(I, J),
         NEW d \in Dirs(I, A), Dotted(I, d), NEW n \in A, I[n].kind = "file", I[n].nlink # 0, n[1] = d[1],
         NEW name \in Name, name \notin Dots, Unused(I, d, name),
         J = I \/ \E H \in Inodes : Added(I, H, d, n, name) /\ \A x \in Node : J[x].ent = H[x].ent,
         NEW asked
  PROVE  Change(I, J, asked) /\ Unique(J) /\ Quiet(J, A)
<1>1. Unique(I) /\ Quiet(I, A) /\ d \in Node /\ d \in A /\ n \in Node
  BY DEF Clean, Dirs
<1>2. CASE J = I
  BY <1>1, <1>2 DEF Change, SameDirs
<1>3. ASSUME NEW H \in Inodes, Added(I, H, d, n, name), \A x \in Node : J[x].ent = H[x].ent
      PROVE  Change(I, J, asked) /\ Unique(J) /\ Quiet(J, A)
  <2>1. Links(H) = Links(I) \cup {<<d, name, n>>} /\ Unique(H)
    BY <1>1, <1>3, AddedLinks DEF Unused
  <2>2. Links(J) = Links(H)
    BY <1>3, SameLinks
  <2>3. Unique(J)
    BY <1>3, <2>1 DEF Unique
  <2>4. Quiet(J, A)
    <3>1. \A x \in Node : x # d => J[x].ent = I[x].ent
      BY <1>3 DEF Added
    <3> QED
      BY <1>1, <3>1 DEF Quiet, Bare
  <2>5. n \notin Dirs(I, Node) /\ IsNamed(I, n) /\ Attached(I, d) /\ SameDirs(I, J)
    BY FileNamed, CleanAttached, RestDirs DEF Dirs
  <2>6. Bound(I, J, <<d, name, n>>, asked)
    BY <2>1, <2>2, <2>5, UnusedLinks DEF Bound
  <2> QED
    BY <2>3, <2>4, <2>6 DEF Change
<1> QED
  BY <1>2, <1>3

(* A name is used once: it is one link.                                    *)
LEMMA UniqueLinks ==
  ASSUME NEW I, Unique(I), NEW l \in Links(I), NEW m \in Links(I), l[1] = m[1], l[2] = m[2]
  PROVE  l = m
<1>1. PICK j \in DOMAIN I[l[1]].ent : l = LinkAt(I, l[1], j)
  BY LinkParts
<1>2. PICK k \in DOMAIN I[m[1]].ent : m = LinkAt(I, m[1], k)
  BY LinkParts
<1>3. l[2] = I[l[1]].ent[j].name
  BY <1>1 DEF LinkAt
<1>4. m[2] = I[m[1]].ent[k].name
  BY <1>2 DEF LinkAt
<1>5. l[1] \in Node
  BY LinkParts
<1>6. I[l[1]].ent[j].name = I[l[1]].ent[k].name /\ j \in DOMAIN I[l[1]].ent /\ k \in DOMAIN I[l[1]].ent
  BY <1>3, <1>4
<1>7. j = k
  BY ONLY Unique(I), <1>5, <1>6 DEF Unique
<1> QED
  BY <1>1, <1>2, <1>7

(* The entry p of pf goes to pt: one link goes and one comes.              *)
LEMMA MovedLinks ==
  ASSUME NEW K \in Inodes, NEW J \in Inodes, NEW A \in SUBSET Node, Clean(K, A),
         NEW pf \in Dirs(K, A), NEW pt \in Dirs(K, A), pf[1] = pt[1],
         NEW p \in NamesIn(K, pf), NEW to \in Name, to \notin Dots, Unused(K, pt, to),
         Moved(K, J, pf, p, pt, to)
  PROVE  LET old == LinkAt(K, pf, p)
             new == <<pt, to, Child(K, pf, p)>>
         IN  /\ old \in Links(K) /\ Links(J) = (Links(K) \cup {new}) \ {old}
             /\ Unique(J) /\ Quiet(J, A)
<1> DEFINE n == Child(K, pf, p)
<1>1. /\ pf \in Node /\ pt \in Node /\ pf \in A /\ pt \in A /\ p \in DOMAIN K[pf].ent
      /\ Unique(K) /\ Quiet(K, A) /\ Good(K) /\ Closed(K, A) /\ Sound(K, A) /\ Shape(K, A)
  BY DEF Clean, Sound, Ordered, Dirs, NamesIn
<1>2. n \in Node /\ n \in A /\ n[1] = pt[1] /\ n[1] = pf[1]
  BY <1>1 DEF Good, Closed, Child
<1>3. K[pf].ent[p].name \notin Dots
  BY <1>1, CleanNames
<1>4. PICK H \in Inodes, G \in Inodes :
        /\ Added(K, H, pt, n, to) /\ Removed(H, G, pf, p)
        /\ IF K[n].kind = "dir" /\ pf # pt THEN Replaced(G, J, n, 2, pt[2]) ELSE J = G
  BY DEF Moved
<1> HIDE DEF n
<1>5. Links(H) = Links(K) \cup {<<pt, to, n>>} /\ Unique(H)
  BY <1>1, <1>2, <1>4, AddedLinks DEF Unused
<1>6. p \in DOMAIN H[pf].ent /\ H[pf].ent[p] = K[pf].ent[p]
  <2>1. CASE pf = pt
    <3> DEFINE L == Len(K[pt].ent)
    <3>0. Added(K, H, pt, n, to) /\ pt \in Node /\ n \in Node /\ n[1] = pt[1]
      BY <1>1, <1>2, <1>4
    <3>1. /\ \A x \in Node : x # pt => H[x].ent = K[x].ent
          /\ Len(H[pt].ent) = L + 1
          /\ DOMAIN H[pt].ent = 1 .. L + 1
          /\ \A k \in 1 .. L : H[pt].ent[k] = K[pt].ent[k]
          /\ H[pt].ent[L + 1] = [name |-> to, ino |-> n[2]]
          /\ Child(H, pt, L + 1) = n
      BY <3>0, AddedEntries
    <3>2. L \in Nat /\ DOMAIN K[pt].ent = 1 .. L
      BY <1>1, InodeFacts
    <3> HIDE DEF L
    <3>3. p \in 1 .. L /\ p \in 1 .. L + 1
      BY <1>1, <2>1, <3>2
    <3> QED
      BY <2>1, <3>1, <3>3
  <2>2. CASE pf # pt
    <3>1. H[pf].ent = K[pf].ent
      BY <1>1, <1>4, <2>2 DEF Added
    <3> QED
      BY <1>1, <3>1
  <2> QED
    BY <2>1, <2>2
<1>7. LinkAt(H, pf, p) = LinkAt(K, pf, p) /\ H[pf].ent[p].name \notin Dots
  BY <1>3, <1>6 DEF LinkAt, Child
<1>8. Links(G) = Links(H) \ {LinkAt(H, pf, p)} /\ Unique(G)
  <2>1. G[pf].ent = CutAt(H[pf].ent, p) /\ \A x \in Node : x # pf => G[x].ent = H[x].ent
    BY <1>1, <1>4 DEF Removed
  <2> QED
    BY <1>1, <1>5, <1>6, <1>7, <2>1, CutLinks
<1>9. Links(J) = Links(G) /\ Unique(J) /\ \A x \in Node : x # n => J[x].ent = G[x].ent
  <2>1. CASE K[n].kind = "dir" /\ pf # pt
    <3>1. 2 \in DOMAIN G[n].ent /\ G[n].ent[2].name = ".."
      BY <1>1, <1>4, <2>1, MovedDots DEF n
    <3>2. Replaced(G, J, n, 2, pt[2])
      BY <1>4, <2>1
    <3>3. /\ \A x \in Node : x # n => J[x].ent = G[x].ent
          /\ DOMAIN J[n].ent = DOMAIN G[n].ent
          /\ \A k \in DOMAIN G[n].ent : /\ J[n].ent[k].name = G[n].ent[k].name
                                        /\ k # 2 => J[n].ent[k] = G[n].ent[k]
      BY <1>1, <1>2, <3>1, <3>2, ReplacedEntries
    <3>4. J[n].ent[2].name \in Dots /\ G[n].ent[2].name \in Dots
      BY <3>1, <3>3 DEF Dots
    <3>5. \A d \in Node : \A k \in DOMAIN G[d].ent : G[d].ent[k].name \notin Dots =>
            k \in DOMAIN J[d].ent /\ J[d].ent[k] = G[d].ent[k]
      BY <3>3, <3>4
    <3>6. \A d \in Node : \A k \in DOMAIN J[d].ent : J[d].ent[k].name \notin Dots =>
            k \in DOMAIN G[d].ent /\ J[d].ent[k] = G[d].ent[k]
      BY <3>3, <3>4
    <3>7. Links(J) = Links(G)
      BY <3>5, <3>6, SameLinks
    <3>8. Unique(J)
      BY <1>8, <3>3 DEF Unique
    <3> QED
      BY <3>3, <3>7, <3>8
  <2>2. CASE ~ (K[n].kind = "dir" /\ pf # pt)
    BY <1>4, <1>8, <2>2
  <2> QED
    BY <2>1, <2>2
<1>10. Quiet(J, A)
  <2>1. ASSUME NEW x \in Node \ A PROVE J[x].ent = K[x].ent
    <3>1. x # pf /\ x # pt /\ x # n
      BY <1>1, <1>2
    <3>2. J[x].ent = G[x].ent
      BY <1>9, <3>1
    <3>3. G[x].ent = H[x].ent
      BY <1>4, <3>1 DEF Removed
    <3>4. H[x].ent = K[x].ent
      BY <1>4, <3>1 DEF Added
    <3> QED
      BY <3>2, <3>3, <3>4
  <2> QED
    BY <1>1, <2>1 DEF Quiet, Bare
<1>11. LinkAt(K, pf, p) \in Links(K)
  BY <1>1, <1>3, LinkHere
<1>12. Links(J) = (Links(K) \cup {<<pt, to, n>>}) \ {LinkAt(K, pf, p)}
  BY <1>5, <1>7, <1>8, <1>9
<1> QED
  BY <1>9, <1>10, <1>11, <1>12 DEF n

(* The directories from start up to the root, that the node to be moved is *)
(* not among, hold all directories above them.                             *)
LEMMA WalkClosed ==
  ASSUME NEW I \in Inodes, NEW gs \in FS, NEW A \in SUBSET Node,
         Clean(I, A), Clean(gs.inode, A), Rest(I, gs.inode), Links(gs.inode) \subseteq Links(I),
         NEW n, NEW start \in Dirs(gs.inode, A), Dotted(gs.inode, start), n # start,
         CanDirmove(gs, n, start) = "ok"
  PROVE  \E C \in SUBSET Node : /\ start \in C /\ n \notin C
                                /\ \A l \in Links(I) : l[3] \in C => l[1] \in C
<1> DEFINE K == gs.inode
<1>1. PICK C \in SUBSET Node :
        /\ start \in C /\ n \notin C
        /\ \A c \in C : /\ c \in Dirs(K, A) /\ Dotted(K, c)
                        /\ c[2] = RootInode \/ Child(K, c, 2) \in C
  BY WalkUp
<1>2. K \in Inodes /\ Clean(K, A) /\ Rest(I, K) /\ Links(K) \subseteq Links(I)
  BY FSFacts
<1> HIDE DEF K
<1>3. ASSUME NEW l \in Links(I), l[3] \in C PROVE l[1] \in C
  <2>1. l[3] \in Dirs(K, A) /\ Dotted(K, l[3]) /\ (l[3][2] = RootInode \/ Child(K, l[3], 2) \in C)
    BY <1>1, <1>3
  <2>2. I[l[3]].kind = "dir"
    BY <1>2, <2>1 DEF Dirs, Rest
  <2>3. l[3][2] # RootInode /\ Child(I, l[3], 2) = l[1]
    BY <2>2, CleanLinks
  <2>4. PICK m \in Links(K) : m[3] = l[3] /\ m[1] = Child(K, l[3], 2)
    BY <1>2, <2>1, <2>3, ParentLink
  <2>5. m \in Links(I) /\ I[m[3]].kind = "dir"
    BY <1>2, <2>2, <2>4
  <2>6. Child(I, m[3], 2) = m[1]
    BY <2>5, CleanLinks
  <2> QED
    BY <2>1, <2>3, <2>4, <2>6
<1> QED
  BY <1>1, <1>3

(* What had the new name is deleted, or nothing had it.                    *)
LEMMA NameGone ==
  ASSUME NEW I \in Inodes, NEW K \in Inodes, NEW A \in SUBSET Node, Clean(I, A), Clean(K, A),
         NEW pt \in Dirs(I, A), NEW to, to \notin Dots, NEW q,
         \/ K = I /\ Unused(I, pt, to)
         \/ Deleted(I, K, pt, q) /\ I[pt].ent[q].name = to
  PROVE  /\ Unused(K, pt, to)
         /\ \/ K = I
            \/ \E l \in Links(I) : /\ l[1] = pt /\ l[2] = to /\ NoneIn(I, l[3])
                                   /\ Links(K) = Links(I) \ {l}
<1>1. CASE K = I /\ Unused(I, pt, to)
  BY <1>1
<1>2. CASE Deleted(I, K, pt, q) /\ I[pt].ent[q].name = to
  <2> DEFINE l == LinkAt(I, pt, q)
  <2>1. l \in Links(I) /\ Bare(I, Child(I, pt, q)) /\ Links(K) = Links(I) \ {l}
    BY <1>2, DeletedLinks
  <2>2. l[1] = pt /\ l[2] = to /\ l[3] = Child(I, pt, q)
    BY <1>2 DEF LinkAt
  <2> HIDE DEF l
  <2>3. Unused(K, pt, to)
    <3> SUFFICES ASSUME NEW k \in DOMAIN K[pt].ent, K[pt].ent[k].name = to PROVE FALSE
      BY DEF Unused
    <3>1. pt \in Node /\ Good(K)
      BY DEF Dirs, Clean, Sound
    <3> DEFINE m == LinkAt(K, pt, k)
    <3>2. m \in Links(K)
      BY <3>1, LinkHere
    <3>3. m[1] = pt /\ m[2] = to
      BY DEF LinkAt
    <3> HIDE DEF m
    <3>4. m \in Links(I) /\ m # l /\ Unique(I)
      BY <2>1, <3>2 DEF Clean
    <3> QED
      BY <2>1, <2>2, <3>3, <3>4, UniqueLinks
  <2> QED
    BY <2>1, <2>2, <2>3, BareNone
<1> QED
  BY <1>1, <1>2

LEMMA MoveTree ==
  ASSUME NEW I \in Inodes, NEW gs \in FS, NEW J \in Inodes, NEW A \in SUBSET Node,
         Clean(I, A), Clean(gs.inode, A), Rest(I, gs.inode), Rest(I, J),
         NEW pf \in Dirs(I, A), NEW pt \in Dirs(I, A), pf[1] = pt[1],
         Dotted(I, pt), Dotted(gs.inode, pt),
         NEW to \in Name, to \notin Dots, NEW q,
         \/ gs.inode = I /\ Unused(I, pt, to)
         \/ Deleted(I, gs.inode, pt, q) /\ I[pt].ent[q].name = to,
         NEW p \in NamesIn(gs.inode, pf), <<pf, gs.inode[pf].ent[p].name>> # <<pt, to>>,
         Child(gs.inode, pf, p) # pt,
         I[Child(gs.inode, pf, p)].kind = "dir" => CanDirmove(gs, Child(gs.inode, pf, p), pt) = "ok",
         Moved(gs.inode, J, pf, p, pt, to), NEW asked
  PROVE  Change(I, J, asked) /\ Unique(J) /\ Quiet(J, A)
<1> DEFINE K == gs.inode
           n == Child(K, pf, p)
           old == LinkAt(K, pf, p)
           new == <<pt, to, n>>
<1>1. /\ K \in Inodes /\ Clean(K, A) /\ Rest(I, K) /\ pf \in Dirs(K, A) /\ pt \in Dirs(K, A)
      /\ pt \in Node /\ Unique(I)
  BY FSFacts DEF Rest, Dirs, Clean
<1>2. /\ Unused(K, pt, to)
      /\ \/ K = I
         \/ \E l \in Links(I) : /\ l[1] = pt /\ l[2] = to /\ NoneIn(I, l[3])
                                /\ Links(K) = Links(I) \ {l}
  BY <1>1, NameGone
<1>3. /\ old \in Links(K) /\ Links(J) = (Links(K) \cup {new}) \ {old}
      /\ Unique(J) /\ Quiet(J, A)
  BY <1>1, <1>2, MovedLinks
<1>4. /\ old[1] = pf /\ old[2] = K[pf].ent[p].name /\ old[3] = n
      /\ new[1] = pt /\ new[2] = to /\ new[3] = n /\ old # new
  BY DEF LinkAt
<1>5. Attached(I, pt) /\ SameDirs(I, J)
  BY CleanAttached, RestDirs
<1>6. Links(K) \subseteq Links(I)
  BY <1>2
<1>7. n \in Dirs(I, Node) =>
        \E C \in SUBSET Node : /\ pt \in C /\ n \notin C
                               /\ \A l \in Links(I) : l[3] \in C => l[1] \in C
  <2> SUFFICES ASSUME n \in Dirs(I, Node)
               PROVE  \E C \in SUBSET Node : /\ pt \in C /\ n \notin C
                                             /\ \A l \in Links(I) : l[3] \in C => l[1] \in C
    OBVIOUS
  <2>1. CanDirmove(gs, n, pt) = "ok" /\ n # pt
    BY DEF Dirs
  <2>2. pt \in Dirs(gs.inode, A) /\ Links(gs.inode) \subseteq Links(I)
    BY <1>1, <1>6
  <2> HIDE DEF n, old, new, K
  <2> QED
    BY <2>1, <2>2, WalkClosed
<1> HIDE DEF old, new, n, K
<1>8. CASE K = I
  <2>1. new \notin Links(I)
    BY <1>2, <1>4, <1>8, UnusedLinks
  <2>2. Links(J) = (Links(I) \ ({old} \cup {})) \cup {new}
    BY <1>3, <1>4, <1>8
  <2>3. Shifted(I, J, old, new, {})
    BY <1>3, <1>4, <1>5, <1>7, <1>8, <2>1, <2>2 DEF Shifted
  <2> QED
    BY <1>3, <2>3 DEF Change
<1>9. ASSUME NEW l \in Links(I), l[1] = pt, l[2] = to, NoneIn(I, l[3]), Links(K) = Links(I) \ {l}
      PROVE  Change(I, J, asked)
  <2>1. CASE new \in Links(I)
    <3>1. l = new
      BY <1>1, <1>4, <1>9, <2>1, UniqueLinks
    <3>2. Links(J) = Links(I) \ {old}
      BY <1>3, <1>4, <1>9, <2>1, <3>1
    <3>3. Unbound(I, J, old)
      BY <1>3, <1>4, <1>5, <1>6, <1>9, <3>1, <3>2 DEF Unbound
    <3> QED
      BY <3>3 DEF Change
  <2>2. CASE new \notin Links(I)
    <3>1. l # old /\ old \in Links(I) /\ {l} \subseteq Links(I) \ {old}
      BY <1>3, <1>9
    <3>2. Links(J) = (Links(I) \ ({old} \cup {l})) \cup {new}
      BY <1>3, <1>4, <1>9
    <3>3. Shifted(I, J, old, new, {l})
      BY <1>4, <1>5, <1>7, <1>9, <2>2, <3>1, <3>2 DEF Shifted
    <3> QED
      BY <3>3 DEF Change
  <2> QED
    BY <2>1, <2>2
<1> QED
  BY <1>2, <1>3, <1>8, <1>9

-----------------------------------------------------------------------------
(* The steps of the calls, as steps of NameTree                            *)

TreeInv == outside = {} => Unique(inode) /\ Quiet(inode, Active)

(* What each step does while nothing is outside.                           *)
TreeStep ==
  /\ outside \subseteq outside'
  /\ outside' = {} => Change(inode, inode', NameAsked) /\ Unique(inode') /\ Quiet(inode', Active')

LEMMA CleanNow ==
  ASSUME NamesInv, TreeInv, outside = {}
  PROVE  Clean(inode, Active) /\ inode \in Inodes /\ Active \in SUBSET Node
<1>1. Sound(inode, Active) /\ Ordered(inode, Active) /\ Tidy(inode, Active) /\ inode \in Inodes
  BY DEF NamesInv, Types
<1> QED
  BY <1>1, NowFacts DEF Clean, TreeInv

LEMMA StepTree ==
  ASSUME NamesInv, NamesInv', TreeStep
  PROVE  TreeInv' /\ Names!TreeNext
<1>1. NameLinks = Links(inode) /\ NameDirs = Dirs(inode, Node)
  BY LinksNow
<1>2. NameLinks' = Links(inode') /\ NameDirs' = Dirs(inode', Node)
  <2>1. (NamesInv => NameLinks = Links(inode) /\ NameDirs = Dirs(inode, Node))'
    BY LinksNow, PTL
  <2> QED
    BY <2>1
<1>3. TreeInv'
  BY DEF TreeStep, TreeInv
<1>4. CASE outside' = {}
  <2>1. outside' = outside /\ Change(inode, inode', NameAsked)
    BY <1>4 DEF TreeStep
  <2> DEFINE I == inode
             J == inode'
  <2> HIDE DEF I, J
  <2>2. NameLinks = Links(I) /\ NameDirs = Dirs(I, Node) /\ NameLinks' = Links(J) /\ NameDirs' = Dirs(J, Node)
        /\ Change(I, J, NameAsked)
    BY <1>1, <1>2, <2>1 DEF I, J
  <2> QED
    BY <1>3, <2>1, <2>2, ChangeTree
<1>5. CASE outside' # {}
  BY <1>3, <1>5 DEF TreeStep, Names!TreeNext
<1> QED
  BY <1>4, <1>5

(* Steps that leave the inodes alone.                                      *)
LEMMA QuietTree ==
  ASSUME NamesInv, TreeInv, inode' = inode, lost' = lost, outside' = outside
  PROVE  TreeStep
<1>1. Active' = Active
  BY DEF Active
<1>2. Change(inode, inode', NameAsked)
  BY DEF Change, SameDirs
<1> QED
  BY <1>1, <1>2 DEF TreeStep, TreeInv

LEMMA FinishMakeTree ==
  ASSUME NamesInv, TreeInv, NEW s \in Session, NEW op \in Makes, NEW kind \in {"file", "dir"},
         FinishMake(s, op, kind)
  PROVE  TreeStep
<1> DEFINE c == call[s]
           d == c.dir
           path == c.path
           u == UserOf[s]
           perm == c.perm
           fs == Allocate(Now, d, path, u, kind, perm)
           B == IF fs.rc = "ok" THEN Active ELSE Active \ Grown(inode, fs.inode)
<1>1. /\ c.op = op /\ inode' = fs.inode /\ outside' = outside \cup Misplaced(c, fs)
      /\ lost' = IF fs.rc = "ok" THEN lost ELSE lost \cup Written(fs)
  BY DEF FinishMake, Commit
<1> SUFFICES ASSUME outside' = {}
             PROVE  Change(inode, inode', NameAsked) /\ Unique(inode') /\ Quiet(inode', Active')
  BY <1>1 DEF TreeStep
<1>2. CallOK(s, c) /\ c.op \in Makes
  <2>1. c # Idle
    BY <1>1 DEF Idle, Makes
  <2> QED
    BY <1>1, <2>1 DEF NamesInv
<1>3. d \in Dirs(inode, Active) /\ perm \in Rights /\ c.at \in 0 .. Len(path.names) /\ IsPath(path)
  BY <1>2 DEF CallOK, IsPath
<1>4. u \in User \cup {NoUser}
  BY NamesAssumption
<1>5. /\ Now \in FS /\ Now.rc = "ok" /\ Active \in SUBSET Node /\ Sound(Now.inode, Active)
      /\ \A x \in Node : Now.inode[x].kind = "free" => x \in Active
      /\ d \in Dirs(Now.inode, Active) /\ Now.inode = inode
  BY <1>3, NowFacts DEF NamesInv
<1>6. outside = {} /\ Misplaced(c, fs) = {}
  BY <1>1
<1>7. Clean(inode, Active) /\ inode \in Inodes
  BY <1>6, CleanNow
<1>8. fs.rc = "ok" =>
        /\ ~ (c.at < Len(path.names)) /\ inode[d].nlink # 0
        /\ LinkName(path) = Last(path.names) /\ ~ Has(Now, d, LinkName(path))
  BY <1>6 DEF Misplaced
<1>9. Active' = B
  BY <1>1 DEF Active, Written, Grown
<1>10. fs.rc = "ok" => <<d, LinkName(path)>> \in NameAsked
  <2> SUFFICES ASSUME fs.rc = "ok" PROVE <<d, LinkName(path)>> \in NameAsked
    OBVIOUS
  <2>1. c.at = Len(path.names)
    <3>1. Len(path.names) \in Nat
      BY <1>3, LenProperties DEF IsPath
    <3> QED
      BY <1>3, <1>8, <3>1
  <2>2. s \in {t \in Session : call[t].op \in {"create", "mkdir"} /\ call[t].at = Len(call[t].path.names)}
    BY <1>2, <2>1 DEF Makes
  <2>3. <<d, LinkName(path)>> = <<call[s].dir, Last(call[s].path.names)>>
    BY <1>8
  <2> HIDE DEF d, path, c
  <2> QED
    BY <2>2, <2>3 DEF NameAsked
<1> HIDE DEF fs, d, path, u, perm, c
<1>11. AllocateDone(Allocate(Now, d, path, u, kind, perm), Now.inode, Active, d, path)
  BY ONLY <1>3, <1>4, <1>5, kind \in {"file", "dir"}, AllocateFacts
<1>12. fs \in FS /\ AllocateWay(fs, inode, d, path)
  BY <1>5, <1>11 DEF AllocateDone, fs
<1>13. LinkName(path) \in Name
  BY <1>3, LinkNameFacts DEF IsPath
<1>14. ASSUME fs.rc = "ok"
       PROVE  /\ Dotted(inode, d) /\ LinkName(path) \notin Dots
              /\ Unused(inode, d, LinkName(path))
  <2>1. Unused(inode, d, LinkName(path))
    BY <1>3, <1>5, <1>8, <1>14, HasNot DEF Dirs
  <2> QED
    BY <1>3, <1>5, <1>7, <1>8, <1>14, <2>1, FreshName DEF Clean
<1>15. Change(inode, fs.inode, NameAsked) /\ Unique(fs.inode) /\ Quiet(fs.inode, B)
  BY <1>3, <1>5, <1>7, <1>10, <1>12, <1>13, <1>14, AllocateTree
<1> QED
  BY <1>1, <1>9, <1>15

LEMMA FinishDeleteTree ==
  ASSUME NamesInv, TreeInv, NEW s \in Session, NEW op \in Deletes, FinishDelete(s, op)
  PROVE  TreeStep
<1> DEFINE c == call[s]
           d == c.dir
           name == Last(c.path.names)
           fs == DeallocateFile(Now, d, name)
           p == Place(Now, d, name)
<1>1. /\ c.op = op /\ inode' = fs.inode /\ lost' = lost /\ outside \subseteq outside'
  BY DEF FinishDelete, Commit
<1>2. Active' = Active
  BY <1>1 DEF Active
<1> SUFFICES ASSUME outside' = {}
             PROVE  Change(inode, inode', NameAsked) /\ Unique(inode') /\ Quiet(inode', Active')
  BY <1>1 DEF TreeStep
<1>3. d \in Dirs(inode, Active)
  <2>1. c # Idle
    BY <1>1 DEF Idle, Deletes
  <2> QED
    BY <2>1 DEF NamesInv, CallOK
<1>4. outside = {}
  BY <1>1
<1>5. Clean(inode, Active) /\ inode \in Inodes /\ Active \in SUBSET Node
  BY <1>4, CleanNow
<1>6. /\ Now \in FS /\ Now.rc = "ok" /\ Sound(Now.inode, Active) /\ d \in Dirs(Now.inode, Active)
      /\ Now.inode = inode
  BY <1>3, <1>5, NowFacts DEF Clean
<1> HIDE DEF d, name, c
<1>7. fs \in FS /\ Rest(inode, fs.inode) /\ (fs.inode = inode \/ Deleted(inode, fs.inode, d, p))
  <2>1. LET r == DeallocateFile(Now, d, name)
            I == Now.inode
            J == r.inode
            q == Place(Now, d, name)
        IN  /\ r \in FS /\ Rest(I, J) /\ Sound(J, Active)
            /\ r.rc = "ok" => Has(Now, d, name)
            /\ \A x \in Node : J[x].ent # I[x].ent => Has(Now, d, name) /\ (x = d \/ x = Child(I, d, q))
            /\ Ordered(I, Active) => IF r.rc = "ok" THEN Ordered(J, Active) /\ Deleted(I, J, d, q) ELSE J = I
    BY ONLY <1>5, <1>6, DeallocateFacts
  <2> QED
    BY <1>5, <1>6, <2>1 DEF Clean
<1> HIDE DEF fs, p
<1>8. fs.inode \in Inodes
  BY <1>7, FSFacts
<1> QED
  BY <1>1, <1>2, <1>3, <1>5, <1>7, <1>8, DeleteTree

LEMMA LinkStepTree ==
  ASSUME NamesInv, TreeInv, NEW d \in Node, NEW n \in Node, NEW name \in Renamed, Link(d, n, name)
  PROVE  TreeStep
<1> DEFINE a == AddEntry(Now, d, n[2], name)
           fs == IF a.rc = "ok" THEN [a EXCEPT !.inode[n].nlink = @ + 1] ELSE a
<1>1. /\ IsDir(Now, d) /\ Live(d) /\ Live(n) /\ ~ IsDir(Now, n) /\ d[1] = n[1] /\ ~ Has(Now, d, name)
      /\ inode' = fs.inode /\ lost' = lost /\ outside' = outside
  BY DEF Link, Internal
<1>2. Active' = Active
  BY <1>1 DEF Active
<1> SUFFICES ASSUME outside' = {}
             PROVE  Change(inode, inode', NameAsked) /\ Unique(inode') /\ Quiet(inode', Active')
  BY <1>1 DEF TreeStep
<1>3. Clean(inode, Active) /\ inode \in Inodes /\ Active \in SUBSET Node
  BY <1>1, CleanNow
<1>4. d \in Dirs(inode, Active) /\ n \in Active /\ Dotted(inode, d) /\ inode[n].kind # "free"
  BY <1>1, <1>3, LiveFacts DEF Clean
<1>5. Now \in FS /\ Now.inode = inode /\ Now.rc = "ok"
  BY NowFacts
<1>6. inode[n].kind = "file" /\ inode[n].nlink # 0
  <2>1. inode[n].kind \in {"free", "file", "dir"} /\ inode[n].nlink > 0
    BY <1>1, <1>3, InodeFacts DEF Live
  <2> QED
    BY <1>1, <1>4, <2>1, NowFacts
<1>7. name \in Plain /\ name \in Name /\ name \notin Dots
  BY NamesAssumption DEF Name
<1>8. Unused(inode, d, name)
  BY <1>1, <1>5, HasNot
<1>9. /\ fs \in FS /\ Rest(inode, fs.inode)
      /\ \/ fs.inode = inode
         \/ \E H \in Inodes : Added(inode, H, d, n, name) /\ \A x \in Node : fs.inode[x].ent = H[x].ent
  <2>1. /\ Sound(Now.inode, Active) /\ d \in Dirs(Now.inode, Active) /\ Now.inode[n].kind = "file" /\ n[1] = d[1]
    BY <1>1, <1>3, <1>4, <1>5, <1>6 DEF Clean
  <2>2. LET b == AddEntry(Now, d, n[2], name)
            r == IF b.rc = "ok" THEN [b EXCEPT !.inode[n].nlink = @ + 1] ELSE b
            I == Now.inode
            J == r.inode
        IN  /\ r \in FS /\ Rest(I, J) /\ Sound(J, Active)
            /\ J = I \/ \E H \in Inodes : Added(I, H, d, n, name) /\ \A x \in Node : J[x].ent = H[x].ent
            /\ Ordered(I, Active) => Stays(I, J, Active) /\ (Tidy(I, Active) /\ Dotted(I, d) => Tidy(J, Active))
    BY ONLY <1>3, <1>4, <1>5, <1>7, <2>1, LinkFacts
  <2> QED
    BY <1>5, <2>2
<1> HIDE DEF fs
<1>10. fs.inode \in Inodes
  BY <1>9, FSFacts
<1>11. n[1] = d[1]
  BY <1>1
<1> QED
  BY <1>1, <1>2, <1>3, <1>4, <1>6, <1>7, <1>8, <1>9, <1>10, <1>11, LinkTree

LEMMA RenameTree ==
  ASSUME NamesInv, TreeInv, NEW pf \in Node, NEW pt \in Node, NEW from \in Renamed, NEW to \in Renamed,
         Rename(pf, from, pt, to)
  PROVE  TreeStep
<1> DEFINE A == Active
           I == inode
           fs == RenameFile(Now, pf, from, pt, to)
           J == fs.inode
           n == Target(Now, pf, from)
           gone == IF Has(Now, pt, to) THEN DeallocateFile(Now, pt, to) ELSE Now
           K == gone.inode
           p == Place(gone, pf, from)
           q == Place(Now, pt, to)
<1>1. /\ IsDir(Now, pf) /\ IsDir(Now, pt) /\ Live(pf) /\ Live(pt) /\ pf[1] = pt[1] /\ Has(Now, pf, from)
      /\ inode' = J /\ lost' = lost /\ outside \subseteq outside'
      /\ outside' = {} => n # pt /\ <<pf, from>> # <<pt, to>> /\ ~ Doubled(pf, from)
  BY DEF Rename, Internal
<1>2. Active' = A
  BY <1>1 DEF Active
<1> SUFFICES ASSUME outside' = {}
             PROVE  Change(I, J, NameAsked) /\ Unique(J) /\ Quiet(J, A)
  BY <1>1, <1>2 DEF TreeStep
<1>3. outside = {} /\ Clean(I, A) /\ I \in Inodes /\ A \in SUBSET Node
  BY <1>1, CleanNow
<1>4. /\ Sound(I, A) /\ Ordered(I, A) /\ Tidy(I, A)
      /\ pf \in Dirs(I, A) /\ pt \in Dirs(I, A) /\ Dotted(I, pt)
  BY <1>1, <1>3, LiveFacts DEF Clean
<1>5. from \in Plain /\ to \in Plain /\ to \in Name /\ to \notin Dots
  BY NamesAssumption DEF Name
<1>6. Now \in FS /\ Now.inode = I /\ Now.rc = "ok"
  BY NowFacts
<1>7. Single(I, pf, from) /\ <<pf, from>> # <<pt, to>> /\ n # pt
  BY <1>1 DEF Doubled, Single
<1>8. /\ Sound(Now.inode, A) /\ pf \in Dirs(Now.inode, A) /\ pt \in Dirs(Now.inode, A)
      /\ pf[1] = pt[1] /\ Has(Now, pf, from)
  BY <1>1, <1>4, <1>6
<1>9. n = Child(I, pf, Place(Now, pf, from))
  BY <1>6 DEF Target, Child
<1> HIDE DEF A, I
<1>10. /\ fs \in FS /\ Rest(I, J)
       /\ \/ J = K
          \/ /\ gone.rc = "ok" /\ (IsDir(Now, n) => CanDirmove(gone, n, pt) = "ok")
             /\ Moved(K, J, pf, p, pt, to)
  <2>1. LET r == RenameFile(Now, pf, from, pt, to)
            I1 == Now.inode
            J1 == r.inode
            n1 == Target(Now, pf, from)
            g1 == IF Has(Now, pt, to) THEN DeallocateFile(Now, pt, to) ELSE Now
            K1 == g1.inode
        IN  /\ r \in FS /\ Rest(I1, J1) /\ Sound(J1, A)
            /\ Ordered(I1, A) /\ <<pf, from>> # <<pt, to>> /\ Single(I1, pf, from) =>
                 /\ Stays(I1, J1, A) /\ (Tidy(I1, A) /\ Dotted(I1, pt) => Tidy(J1, A))
                 /\ \/ J1 = K1
                    \/ /\ g1.rc = "ok" /\ (IsDir(Now, n1) => CanDirmove(g1, n1, pt) = "ok")
                       /\ Moved(K1, J1, pf, Place(g1, pf, from), pt, to)
    BY ONLY <1>3, <1>5, <1>6, <1>8, RenameFacts
  <2> QED
    BY <1>4, <1>6, <1>7, <2>1
<1>11. /\ gone \in FS /\ Rest(I, K) /\ Sound(K, A) /\ Ordered(K, A) /\ Tidy(K, A) /\ Dotted(K, pt)
       /\ gone.rc = "ok" => p \in NamesIn(K, pf) /\ Child(K, pf, p) = n /\ K[pf].ent[p].name = from
  <2>1. LET g1 == IF Has(Now, pt, to) THEN DeallocateFile(Now, pt, to) ELSE Now
            I1 == Now.inode
            K1 == g1.inode
            n1 == Child(I1, pf, Place(Now, pf, from))
            p1 == Place(g1, pf, from)
        IN  /\ g1 \in FS /\ Rest(I1, K1) /\ Sound(K1, A)
            /\ Ordered(I1, A) => Stays(I1, K1, A) /\ (Tidy(I1, A) => Tidy(K1, A)) /\ (Dotted(I1, pt) => Dotted(K1, pt))
            /\ g1.rc = "ok" /\ Ordered(I1, A) /\ <<pf, from>> # <<pt, to>> /\ Single(I1, pf, from) =>
                 /\ p1 \in NamesIn(K1, pf) /\ Child(K1, pf, p1) = n1 /\ K1[pf].ent[p1].name = from
                 /\ Single(K1, pf, from)
    BY ONLY <1>3, <1>5, <1>6, <1>8, GoneFacts
  <2> QED
    BY <1>4, <1>6, <1>7, <1>9, <2>1 DEF Stays
<1>12. \/ K = I /\ (gone.rc = "ok" => Unused(I, pt, to))
       \/ Deleted(I, K, pt, q) /\ I[pt].ent[q].name = to
  <2>1. CASE ~ Has(Now, pt, to)
    <3>1. gone = Now /\ Unused(I, pt, to)
      BY <1>6, <2>1, HasNot
    <3> QED
      BY <1>6, <3>1
  <2>2. CASE Has(Now, pt, to)
    <3>1. gone = DeallocateFile(Now, pt, to)
      BY <2>2
    <3>2. LET r == DeallocateFile(Now, pt, to)
              I1 == Now.inode
              J1 == r.inode
              q1 == Place(Now, pt, to)
          IN  /\ r \in FS /\ Rest(I1, J1) /\ Sound(J1, A)
              /\ r.rc = "ok" => Has(Now, pt, to)
              /\ \A x \in Node : J1[x].ent # I1[x].ent => Has(Now, pt, to) /\ (x = pt \/ x = Child(I1, pt, q1))
              /\ Ordered(I1, A) => IF r.rc = "ok" THEN Ordered(J1, A) /\ Deleted(I1, J1, pt, q1) ELSE J1 = I1
      BY ONLY <1>3, <1>6, <1>8, DeallocateFacts
    <3>3. I[pt].ent[q].name = to
      <4>1. Now.inode[pt].ent \in Seq(Ent)
        BY <1>3, <1>6, InodeFacts
      <4> QED
        BY <1>6, <2>2, <4>1, PlaceFacts DEF Has
    <3> HIDE DEF q
    <3> QED
      BY <1>4, <1>6, <3>1, <3>2, <3>3 DEF q
  <2> QED
    BY <2>1, <2>2
<1> HIDE DEF gone, fs, n, p, q
<1>13. J \in Inodes /\ K \in Inodes
  BY <1>10, <1>11, FSFacts
<1>14. K = I \/ Deleted(I, K, pt, q)
  BY <1>12
<1>15. Change(I, K, NameAsked) /\ Unique(K) /\ Quiet(K, A)
  <2> HIDE DEF K
  <2> QED
    BY <1>3, <1>4, <1>11, <1>13, <1>14, DeleteTree DEF K
<1>16. CASE J = K
  BY <1>15, <1>16
<1>17. CASE /\ gone.rc = "ok" /\ (IsDir(Now, n) => CanDirmove(gone, n, pt) = "ok")
            /\ Moved(K, J, pf, p, pt, to)
  <2>1. Clean(K, A)
    BY <1>11, <1>15 DEF Clean
  <2>2. p \in NamesIn(K, pf) /\ Child(K, pf, p) = n /\ K[pf].ent[p].name = from
    BY <1>11, <1>17
  <2>3. I[n].kind = "dir" => CanDirmove(gone, n, pt) = "ok"
    BY <1>6, <1>17 DEF IsDir
  <2>4. \/ K = I /\ Unused(I, pt, to)
        \/ Deleted(I, K, pt, q) /\ I[pt].ent[q].name = to
    BY <1>12, <1>17
  <2>5. <<pf, K[pf].ent[p].name>> # <<pt, to>> /\ Child(K, pf, p) # pt
        /\ (I[Child(K, pf, p)].kind = "dir" => CanDirmove(gone, Child(K, pf, p), pt) = "ok")
    BY <1>7, <2>2, <2>3
  <2>6. Rest(I, K) /\ Rest(I, J) /\ Dotted(K, pt) /\ gone \in FS /\ Moved(K, J, pf, p, pt, to)
    BY <1>10, <1>11, <1>17
  <2> HIDE DEF J
  <2> QED
    BY <1>3, <1>4, <1>5, <1>8, <1>13, <2>1, <2>2, <2>4, <2>5, <2>6, MoveTree
<1> QED
  BY <1>10, <1>16, <1>17

-----------------------------------------------------------------------------
(* All steps, and the disks when they are mounted                          *)

LEMMA SessionStepTree == ASSUME NamesInv, TreeInv, NEW s \in Session, SessionStep(s) PROVE TreeStep
<1>1. ASSUME NEW op, Begin(s, op) PROVE TreeStep
  BY <1>1, QuietTree DEF Begin
<1>2. ASSUME NEW path \in Paths, NEW perm \in Perms, BeginCreate(s, path, perm) PROVE TreeStep
  BY <1>1, <1>2 DEF BeginCreate
<1>3. ASSUME NEW path \in Paths, NEW perm \in Perms, BeginMkdir(s, path, perm) PROVE TreeStep
  BY <1>1, <1>3 DEF BeginMkdir
<1>4. ASSUME NEW path \in Paths, NEW op, NEW isdir, BeginDelete(s, op, path, isdir) PROVE TreeStep
  BY <1>1, <1>4 DEF BeginDelete
<1>5. ASSUME NEW path \in Paths, Chgdir(s, path) PROVE TreeStep
  BY <1>1, <1>5 DEF Chgdir
<1>6. FinishMake(s, "create", "file") => TreeStep
  BY FinishMakeTree DEF Makes
<1>7. FinishMake(s, "mkdir", "dir") => TreeStep
  BY FinishMakeTree DEF Makes
<1>8. FinishDelete(s, "rmdir") \/ FinishDelete(s, "remove") => TreeStep
  BY FinishDeleteTree DEF Deletes
<1> QED
  BY <1>2, <1>3, <1>4, <1>5, <1>6, <1>7, <1>8 DEF SessionStep

LEMMA NextTree ==
  ASSUME NamesInv, NamesInv', TreeInv, [NamesNext]_vars
  PROVE  TreeInv' /\ Names!TreeNext
<1>1. ASSUME NEW s \in Session, SessionStep(s) PROVE TreeStep
  BY <1>1, SessionStepTree
<1>2. ASSUME NEW pf \in Node, NEW pt \in Node, NEW from \in Renamed, NEW to \in Renamed,
             Rename(pf, from, pt, to)
      PROVE  TreeStep
  BY <1>2, RenameTree
<1>3. ASSUME NEW d \in Node, NEW n \in Node, NEW name \in Renamed, Link(d, n, name) PROVE TreeStep
  BY <1>3, LinkStepTree
<1>4. ASSUME UNCHANGED vars PROVE TreeStep
  BY <1>4, QuietTree DEF vars
<1>5. TreeStep
  BY <1>1, <1>2, <1>3, <1>4 DEF NamesNext
<1> QED
  BY <1>5, StepTree

LEMMA FirstUnique == Unique(First)
<1> SUFFICES ASSUME NEW d \in Node, NEW j \in DOMAIN First[d].ent, NEW k \in DOMAIN First[d].ent,
                    First[d].ent[j].name = First[d].ent[k].name
             PROVE  j = k
  BY DEF Unique
<1>1. First[d].ent # << >>
  BY FirstTypes, InodeFacts
<1>2. d \in DOMAIN Formatted
  BY <1>1, FormatFacts, FreeEmpty
<1>3. First[d] = Formatted[d] /\ First[d].kind = "dir"
  BY <1>1, <1>2, FormatFacts
<1> DEFINE f == Formatted[d]
<1>4. \A x, y \in DOMAIN f.ent : f.ent[x].name = f.ent[y].name => x = y
  BY <1>2, <1>3, FormatAssumption
<1> QED
  BY <1>3, <1>4

LEMMA TreeStart == NamesInit => TreeInv /\ Names!TreeInit
<1> SUFFICES ASSUME NamesInit PROVE TreeInv /\ Names!TreeInit
  OBVIOUS
<1>1. inode = First /\ Active = Node /\ outside = {}
  BY DEF NamesInit, First, Active
<1>2. TreeInv
  BY <1>1, FirstUnique DEF TreeInv, Quiet
<1>3. NameLinks = Links(inode) /\ NameDirs = Dirs(inode, Node)
  BY InitInv, LinksNow
<1>4. {RootOf(d) : d \in Disk} \subseteq NameDirs
  BY <1>1, <1>3, FormatFacts DEF Dirs
<1>5. NameLinks \subseteq Node \X Name \X Node /\ NameDirs \subseteq Node
  BY <1>3 DEF Links, Dirs
<1> QED
  BY <1>1, <1>2, <1>4, <1>5 DEF Names!TreeInit

-----------------------------------------------------------------------------
(* The theorems                                                            *)

(* What all the rest follows from: directories that hold what they should, *)
(* the shape of the tree, link counts that add up, and what a call that    *)
(* has followed its path may still rely on.                                *)
THEOREM NamesSafe == NamesSpec => []NamesInv
  BY InitInv, StepInv, PTL DEF NamesSpec

(* The types of the inodes, of the entries of a directory (each names an   *)
(* inode of its disk), of the free space and of the current directories,   *)
(* for the operators of UFSDIRAD, UFSDIRRM, UFSDIRRP, UFSFIALC, UFSFIDAL,  *)
(* UFSFILNK and UFSFIREN and the calls that use them.                      *)
THEOREM NamesTypes == NamesSpec => []NamesTypeOK
  BY NamesSafe, InvTypes, PTL

(* The link count of every node is the number of entries that name it,     *)
(* whatever was deleted, renamed, linked or refused for want of space, and *)
(* for tasks that get in between the two parts of each other's calls, as   *)
(* long as ufs_file_rename gets no file that has its new name already, and *)
(* no name that two entries have ("onto").                                 *)
THEOREM LinksAlwaysCounted == NamesSpec => []LinksCounted
  BY NamesSafe, InvCounted, PTL

(* ".." of a directory that has not been removed names the one directory   *)
(* that has an entry for it, also after another entry was put in the place *)
(* of one that was removed and after a rename moved it, as long as none of *)
(* the uses in outside occurs.                                             *)
THEOREM ParentsAlwaysRight == NamesSpec => []ParentRight
  BY NamesSafe, InvParent, PTL

(* A call of a session changes a directory only with write access to it,   *)
(* although ufs_lookup tested that in an earlier step, as long as none of  *)
(* the uses in outside occurs.                                             *)
THEOREM WritesAllowed == NamesSpec => WriteAllowed
  BY NamesSafe, StepAllowed, PTL DEF NamesSpec, WriteAllowed

(* Each step of each call does to the names what NameTree says, or         *)
(* nothing: it binds one name, takes one away, or moves one, never below   *)
(* itself (can_dirmove), and every other name stays what it was, although  *)
(* ufs_directory_remove_entry moves the last entry and other sessions make *)
(* steps between the parts of a call; as long as none of the uses in       *)
(* outside occurs.                                                         *)
THEOREM NamesKept == NamesSpec => NameTreeSpec
<1>1. NamesInit => TreeInv /\ Names!TreeInit
  BY TreeStart
<1>2. NamesInv /\ NamesInv' /\ TreeInv /\ [NamesNext]_vars
        => TreeInv' /\ [Names!TreeNext]_<<NameLinks, NameDirs, NameAsked, outside>>
  BY NextTree
<1> QED
  BY <1>1, <1>2, NamesSafe, PTL DEF NamesSpec, NameTreeSpec, Names!TreeSpec

=============================================================================
