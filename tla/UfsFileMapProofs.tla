-------------------------- MODULE UfsFileMapProofs --------------------------
(***************************************************************************)
(* Proofs about the blocks of a file.                                      *)
(*                                                                         *)
(* The blocks that an inode leads to make up trees, one for each of its    *)
(* numbers.  A node <<f, l, d, q>> is a place in them: of file f, in a     *)
(* tree with l levels of index blocks, at depth d, the q-th there.  Nodes  *)
(* at depth l hold data, the others block numbers.  Leaf(f, k) is the node *)
(* of block k of f, and Spot(k) what ufs_datablock_addr is shown to return *)
(* for it: the entries on the path from the root to that leaf.             *)
(*                                                                         *)
(* Fits(w, L, A, disk, free) says that w gives each node of L a block of   *)
(* its own, that the inodes (A) and the index blocks name exactly those,   *)
(* and that the free blocks are others.  Sound(n, A, disk, free) says that *)
(* there are such L and w that hold the first n[f] blocks of each file f,  *)
(* and what hangs below the same roots besides: index blocks that were     *)
(* made before an expansion failed stay there, outside the file's size.    *)
(*                                                                         *)
(* Each turn of the loops of ufs_datablock_expand and _contract is shown   *)
(* to keep Sound, in the second case by cutting off the nodes that the     *)
(* place before does not need; so do the calls (Resized), so do the steps  *)
(* (MapInv).  At last the maps are read, and find the blocks w names.      *)
(***************************************************************************)
EXTENDS UfsFileMap, FoldProofs

-----------------------------------------------------------------------------
(* Division                                                                *)

LEMMA DivBounds ==
  ASSUME NEW a \in Int, NEW b \in Nat \ {0}
  PROVE  /\ a \div b \in Int /\ a % b \in 0 .. b - 1
         /\ (a \div b) * b <= a /\ a < (a \div b) * b + b
         /\ a = ((a \div b) * b) + (a % b)
<1>1. a \div b \in Int /\ a % b \in 0 .. b - 1
  OBVIOUS
<1>2. a = b * (a \div b) + (a % b)
  OBVIOUS
<1> DEFINE q == a \div b
           r == a % b
<1>3. b * q = q * b /\ q * b \in Int
  BY <1>1
<1> HIDE DEF q, r
<1>4. a = (q * b) + r
  BY <1>2, <1>3 DEF q, r
<1>5. r \in Int /\ 0 <= r /\ r < b
  BY <1>1 DEF r
<1>6. q * b <= a /\ a < q * b + b
  BY <1>3, <1>4, <1>5
<1> QED
  BY <1>1, <1>4, <1>6 DEF q, r

LEMMA DivUnique ==
  ASSUME NEW a \in Int, NEW b \in Nat \ {0}, NEW q \in Int, q * b <= a, a < q * b + b
  PROVE  a \div b = q
<1> DEFINE d == a \div b
<1>1. d \in Int /\ d * b <= a /\ a < d * b + b
  BY DivBounds
<1> HIDE DEF d
<1>2. ASSUME d < q PROVE FALSE
  <2>1. d * b + b <= q * b
    <3>1. d + 1 <= q
      BY <1>1, <1>2
    <3>2. (d + 1) * b <= q * b
      BY <1>1, <3>1
    <3>3. (d + 1) * b = d * b + b
      BY <1>1
    <3> QED
      BY <3>2, <3>3
  <2> QED
    BY <1>1, <2>1
<1>3. ASSUME q < d PROVE FALSE
  <2>1. q * b + b <= d * b
    <3>1. q + 1 <= d
      BY <1>1, <1>3
    <3>2. (q + 1) * b <= d * b
      BY <1>1, <3>1
    <3>3. (q + 1) * b = q * b + b
      BY <1>1
    <3> QED
      BY <3>2, <3>3
  <2> QED
    BY <1>1, <2>1
<1>4. d = q
  BY <1>1, <1>2, <1>3
<1> QED
  BY <1>4 DEF d

LEMMA DivMonotone ==
  ASSUME NEW a \in Int, NEW c \in Int, NEW b \in Nat \ {0}, a <= c
  PROVE  a \div b <= c \div b
<1> DEFINE d == a \div b
           e == c \div b
<1>1. d \in Int /\ d * b <= a /\ a < d * b + b /\ e \in Int /\ e * b <= c /\ c < e * b + b
  BY DivBounds
<1> HIDE DEF d, e
<1>2. ASSUME e < d PROVE FALSE
  <2>1. (e + 1) * b <= d * b
    BY <1>1, <1>2
  <2>2. (e + 1) * b = e * b + b
    BY <1>1
  <2> QED
    BY <1>1, <2>1, <2>2
<1>3. d <= e
  BY <1>1, <1>2
<1> QED
  BY <1>3 DEF d, e

LEMMA DivMultiple ==
  ASSUME NEW a \in Int, NEW b \in Nat \ {0}
  PROVE  (a * b) \div b = a
<1>1. a * b \in Int /\ a * b <= a * b /\ a * b < a * b + b
  OBVIOUS
<1> QED
  BY <1>1, DivUnique

LEMMA MultipleOrder ==
  ASSUME NEW a \in Int, NEW c \in Int, NEW b \in Nat \ {0}
  PROVE  (a * b <= c * b) <=> (a <= c)
<1>1. ASSUME a <= c PROVE a * b <= c * b
  BY <1>1
<1>2. ASSUME a > c PROVE a * b > c * b
  <2>1. c + 1 <= a
    BY <1>2
  <2>2. (c + 1) * b <= a * b
    BY <2>1
  <2>3. (c + 1) * b = c * b + b
    OBVIOUS
  <2> QED
    BY <2>2, <2>3
<1> QED
  BY <1>1, <1>2

(* Of two numbers that follow each other.                                  *)
LEMMA DivNext ==
  ASSUME NEW a \in Int, NEW b \in Nat \ {0}
  PROVE  \/ /\ (a + 1) \div b = a \div b /\ (a + 1) % b = (a % b) + 1
         \/ /\ (a + 1) \div b = a \div b + 1 /\ (a + 1) % b = 0 /\ a % b = b - 1
<1> DEFINE q == a \div b
           r == a % b
           s == a + 1
           t == s \div b
           u == s % b
<1>1. q \in Int /\ r \in 0 .. b - 1 /\ a = (q * b) + r
  BY DivBounds
<1>2. t \in Int /\ u \in 0 .. b - 1 /\ s = (t * b) + u
  <2>1. s \in Int
    OBVIOUS
  <2> HIDE DEF s
  <2> QED
    BY <2>1, DivBounds
<1>3. CASE r + 1 < b
  <2>1. q * b <= s /\ s < q * b + b
    BY <1>1, <1>3
  <2>2. s \in Int
    OBVIOUS
  <2>3. t = q
    <3> HIDE DEF q, s
    <3> QED
      BY <1>1, <2>1, <2>2, DivUnique
  <2>4. u = r + 1
    <3> HIDE DEF q, r, t, u
    <3>1. t * b = q * b /\ t * b \in Int
      BY <1>1, <2>3
    <3> QED
      BY <1>1, <1>2, <2>3, <3>1 DEF s
  <2> QED
    BY <2>3, <2>4
<1>4. CASE r + 1 = b
  <2>1. (q + 1) * b = q * b + b
    BY <1>1
  <2>2. s = (q + 1) * b
    <3> HIDE DEF q, r
    <3> QED
      BY <1>1, <1>4, <2>1 DEF s
  <2>3. t = q + 1
    <3>1. q + 1 \in Int
      BY <1>1
    <3> HIDE DEF q, s
    <3> QED
      BY <2>2, <3>1, DivMultiple
  <2>4. u = 0
    <3> HIDE DEF q, r, t, u, s
    <3>1. t * b = s /\ t * b \in Int
      BY <1>1, <2>2, <2>3
    <3> QED
      BY <1>2, <3>1
  <2> QED
    BY <1>4, <2>3, <2>4
<1>5. r + 1 < b \/ r + 1 = b
  BY <1>1
<1> QED
  BY <1>3, <1>4, <1>5

(* Quotient and remainder name a number.                                   *)
LEMMA DivNames ==
  ASSUME NEW a \in Nat, NEW b \in Nat \ {0}, NEW n \in 0 .. b - 1
  PROVE  /\ a * b + n \in Nat /\ (a * b + n) \div b = a /\ (a * b + n) % b = n
<1> DEFINE s == a * b + n
<1>1. s \in Nat /\ s \in Int /\ a * b <= s /\ s < a * b + b /\ a * b \in Int
  OBVIOUS
<1>2. s \div b = a
  <2> HIDE DEF s
  <2> QED
    BY <1>1, DivUnique
<1>3. s % b \in Int /\ s = ((s \div b) * b) + (s % b)
  <2> HIDE DEF s
  <2> QED
    BY <1>1, DivBounds
<1>4. s % b = n
  <2> DEFINE r == s % b
  <2>1. s = (a * b) + r /\ r \in Int
    BY <1>2, <1>3
  <2> HIDE DEF r
  <2>2. r = n
    BY <1>1, <2>1 DEF s
  <2> QED
    BY <2>2 DEF r
<1> QED
  BY <1>1, <1>2, <1>4

-----------------------------------------------------------------------------
(* Places                                                                  *)

(* The blocks of a file are numbered from 1.  These are the numbers of the *)
(* last block with one and two index blocks above it, and of the last.     *)
Second   == NDirect + Per
Third    == Second + Per * Per
Capacity == Third + Per * Per * Per

Level(k)  == IF k <= NDirect THEN 0 ELSE IF k <= Second THEN 1 ELSE IF k <= Third THEN 2 ELSE 3
Offset(k) == k - 1 - (IF k <= NDirect THEN 0 ELSE IF k <= Second THEN NDirect
                      ELSE IF k <= Third THEN Second ELSE Third)

(* Where the map has the number of block k.                                *)
Spot(k) ==
  IF Level(k) <= 1 THEN At(Level(k), <<Offset(k)>>)
  ELSE IF Size2 = 0 THEN Undefined
  ELSE IF Level(k) = 2 THEN At(2, <<Offset(k) \div Per, Offset(k) % Per>>)
  ELSE At(3, <<(Offset(k) \div Per) \div Per, (Offset(k) \div Per) % Per, Offset(k) % Per>>)

LEMMA Constants ==
  /\ NDirect \in Nat \ {0} /\ BlkSize \in Nat \ {0} /\ Per \in Nat \ {0} /\ Per >= 2
  /\ Per <= BlkSize /\ Word \in Nat \ {0} /\ 2 * BlkSize <= Word
  /\ Per * Per \in Nat \ {0} /\ Per * Per * Per \in Nat \ {0}
  /\ Second \in Nat /\ Third \in Nat /\ Capacity \in Nat /\ NDirect < Second /\ Second < Third
  /\ Third < Capacity
  /\ Size1 = Per * BlkSize /\ (Size2 = 0 \/ Size2 = (Per * Per) * BlkSize)
<1>1. /\ NDirect \in Nat \ {0} /\ BlkSize \in Nat \ {0} /\ Per \in Nat \ {0} /\ Per >= 2
      /\ Per <= BlkSize /\ Word \in Nat /\ BlkSize < Word /\ Word % BlkSize = 0
  BY MapAssumption
<1>2. Per * Per \in Nat \ {0} /\ Per * Per * Per \in Nat \ {0}
  <2>1. Per * Per \in Nat /\ Per * Per > 0
    BY <1>1
  <2> DEFINE p == Per * Per
  <2>2. p * Per \in Nat /\ p * Per > 0
    <3> HIDE DEF p
    <3> QED
      BY <1>1, <2>1 DEF p
  <2> QED
    BY <2>1, <2>2
<1>3. 2 * BlkSize <= Word
  <2> DEFINE q == Word \div BlkSize
             r == Word % BlkSize
  <2>1. q \in Int /\ Word = (q * BlkSize) + r /\ r = 0
    BY <1>1, DivBounds
  <2> HIDE DEF q, r
  <2>2. q * BlkSize \in Int /\ Word = q * BlkSize
    BY <1>1, <2>1
  <2>3. q > 1
    <3> SUFFICES ASSUME q <= 1 PROVE FALSE
      BY <2>1
    <3>1. q * BlkSize <= 1 * BlkSize
      BY <1>1, <2>1, MultipleOrder
    <3> QED
      BY <1>1, <2>2, <3>1
  <2>4. 2 * BlkSize <= q * BlkSize
    <3>1. 2 <= q
      BY <2>1, <2>3
    <3> QED
      BY <1>1, <2>1, <3>1, MultipleOrder
  <2> QED
    BY <2>2, <2>4
<1>4. Size1 = Per * BlkSize
  BY <1>1, MapAssumption DEF Size1
<1>5. Size2 = 0 \/ Size2 = (Per * Per) * BlkSize
  BY <1>1, <1>2, MapAssumption DEF Size2
<1> QED
  BY <1>1, <1>2, <1>3, <1>4, <1>5 DEF Second, Third, Capacity

(* The number of blocks of a size.                                         *)
LEMMA RoundFacts ==
  ASSUME NEW x \in Nat, NEW u \in Nat \ {0}, NEW k \in Nat,
         (k - 1) * u < x, x <= k * u, x + u <= Word
  PROVE  Round(x, u) = k * u /\ Round(x, u) \div u = k
<1> DEFINE y == x + u - 1
<1>1. Word \in Nat \ {0}
  BY Constants
<1>2. y \in Nat /\ y < Word
  BY <1>1
<1>3. y % Word = y
  <2> HIDE DEF y
  <2> QED
    BY <1>1, <1>2
<1>4. k * u \in Nat /\ (k - 1) * u = k * u - u
  OBVIOUS
<1>5. k * u <= y /\ y < k * u + u
  BY <1>4
<1>6. y \div u = k
  <2> HIDE DEF y
  <2> QED
    BY <1>2, <1>5, DivUnique
<1>7. Round(x, u) = k * u
  <2>1. Round(x, u) = ((y % Word) \div u) * u
    BY DEF Round
  <2> QED
    BY <1>3, <1>6, <2>1
<1> QED
  BY <1>7, DivMultiple

(* The entry that reaches x, a multiple of the block size.                 *)
LEMMA EntryFacts ==
  ASSUME NEW o \in Nat, NEW p \in Nat \ {0}, (o + 1) * BlkSize + p * BlkSize <= Word
  PROVE  Entry((o + 1) * BlkSize, p * BlkSize) = o \div p
<1> DEFINE x == (o + 1) * BlkSize
           u == p * BlkSize
           q == o \div p
<1>1. BlkSize \in Nat \ {0}
  BY Constants
<1>2. x \in Nat /\ u \in Nat \ {0}
  BY <1>1
<1>3. q \in Nat /\ q * p <= o /\ o < q * p + p
  <2>1. q \in Int /\ q * p <= o /\ o < q * p + p
    BY DivBounds
  <2> HIDE DEF q
  <2>2. q >= 0
    <3> SUFFICES ASSUME q <= -1 PROVE FALSE
      BY <2>1
    <3>1. q * p <= (-1) * p
      BY <2>1, MultipleOrder
    <3> QED
      BY <2>1, <3>1
  <2> QED
    BY <2>1, <2>2
<1> HIDE DEF q
<1>4. q * u < x
  <2>1. (q * p) * BlkSize < (o + 1) * BlkSize
    <3>1. q * p \in Int /\ ~ (o + 1 <= q * p)
      BY <1>3
    <3>2. ~ ((o + 1) * BlkSize <= (q * p) * BlkSize)
      BY <1>1, <3>1, MultipleOrder
    <3> QED
      BY <1>1, <3>1, <3>2
  <2>2. (q * p) * BlkSize = q * u
    BY <1>1, <1>3
  <2> QED
    BY <2>1, <2>2
<1>5. x <= (q + 1) * u
  <2>1. (o + 1) * BlkSize <= ((q + 1) * p) * BlkSize
    <3>1. (q + 1) * p = q * p + p /\ (q + 1) * p \in Int
      BY <1>3
    <3>2. o + 1 <= (q + 1) * p
      BY <1>3, <3>1
    <3> QED
      BY <1>1, <3>1, <3>2, MultipleOrder
  <2>2. ((q + 1) * p) * BlkSize = (q + 1) * u
    BY <1>1, <1>3
  <2> QED
    BY <2>1, <2>2
<1>6. Round(x, u) \div u = q + 1
  <2>1. q + 1 \in Nat /\ (q + 1) - 1 = q /\ x + u <= Word
    BY <1>3
  <2> HIDE DEF x, u
  <2> QED
    BY <1>2, <1>4, <1>5, <2>1, RoundFacts
<1>7. Entry(x, u) = q
  BY <1>3, <1>6 DEF Entry
<1> QED
  BY <1>7 DEF q

(* Where ufs_datablock_addr says that block k is.                          *)
LEMMA OffsetFacts ==
  ASSUME NEW k \in Nat \ {0}
  PROVE  /\ Level(k) \in 0 .. 3 /\ Offset(k) \in Nat
         /\ Level(k) = 0 => k <= NDirect /\ k = Offset(k) + 1 /\ Offset(k) < NDirect
         /\ Level(k) = 1 => k > NDirect /\ k = NDirect + Offset(k) + 1 /\ Offset(k) < Per
         /\ Level(k) = 2 => k > Second /\ k = Second + Offset(k) + 1 /\ Offset(k) < Per * Per
         /\ Level(k) = 3 => k > Third /\ k = Third + Offset(k) + 1
         /\ Level(k) = 3 /\ k <= Capacity => Offset(k) < Per * Per * Per
<1>1. k \in Nat /\ k >= 1 /\ NDirect \in Nat /\ Per \in Nat /\ Per * Per \in Nat
      /\ Per * Per * Per \in Nat
  BY Constants
<1> QED
  BY <1>1 DEF Level, Offset, Second, Third, Capacity

LEMMA DivBelow ==
  ASSUME NEW o \in Nat, NEW p \in Nat \ {0}, NEW w \in Nat, o < w * p
  PROVE  o \div p \in Nat /\ o \div p < w /\ o % p \in 0 .. p - 1
<1> DEFINE q == o \div p
<1>1. q \in Int /\ q * p <= o /\ o < q * p + p /\ o % p \in 0 .. p - 1
  BY DivBounds
<1> HIDE DEF q
<1>2. q >= 0
  <2> SUFFICES ASSUME q <= -1 PROVE FALSE
    BY <1>1
  <2>1. q * p <= (-1) * p
    BY <1>1, MultipleOrder
  <2> QED
    BY <1>1, <2>1
<1>3. q < w
  <2> SUFFICES ASSUME w <= q PROVE FALSE
    BY <1>1
  <2>1. w * p <= q * p
    BY <1>1, MultipleOrder
  <2> QED
    BY <1>1, <2>1
<1> QED
  BY <1>1, <1>2, <1>3 DEF q

(* Division by the numbers of two levels at once.                          *)
LEMMA DivTwice ==
  ASSUME NEW o \in Nat, NEW p \in Nat \ {0}
  PROVE  o \div (p * p) = (o \div p) \div p
<1> DEFINE q == o \div p
           s == q \div p
<1>0. p * p \in Nat \ {0}
  <2>1. p * p \in Nat /\ p * p > 0
    OBVIOUS
  <2> QED
    BY <2>1
<1>1. q \in Int /\ q * p <= o /\ o < q * p + p
  BY DivBounds
<1>2. s \in Int /\ s * p <= q /\ q < s * p + p
  <2> HIDE DEF q
  <2> QED
    BY <1>1, DivBounds
<1> HIDE DEF q, s
<1>3. s * (p * p) = (s * p) * p /\ s * p \in Int
  BY <1>2
<1>4. s * (p * p) <= o
  <2>1. (s * p) * p <= q * p
    BY <1>1, <1>2, <1>3, MultipleOrder
  <2> QED
    BY <1>0, <1>1, <1>2, <1>3, <2>1
<1>5. o < s * (p * p) + p * p
  <2>1. q + 1 <= s * p + p
    BY <1>1, <1>2, <1>3
  <2>2. (q + 1) * p <= (s * p + p) * p
    BY <1>1, <1>3, <2>1, MultipleOrder
  <2>3. (q + 1) * p = q * p + p
    BY <1>1
  <2>4. (s * p + p) * p = (s * p) * p + p * p
    BY <1>3
  <2> QED
    BY <1>0, <1>1, <1>2, <1>3, <2>2, <2>3, <2>4
<1>6. o \div (p * p) = s
  BY <1>0, <1>2, <1>4, <1>5, DivUnique
<1> QED
  BY <1>6 DEF s, q

LEMMA AddrSpot ==
  ASSUME NEW k \in Nat \ {0}, NEW sz \in Nat, (k - 1) * BlkSize < sz, sz <= k * BlkSize,
         k * BlkSize + BlkSize <= Word
  PROVE  Addr(sz) = Spot(k)
<1> DEFINE B == BlkSize
           P == Per
           in1 == k * B - NDirect * B
           o == Offset(k)
<1>1. /\ B \in Nat \ {0} /\ P \in Nat \ {0} /\ NDirect \in Nat /\ Word \in Nat
      /\ P * P \in Nat \ {0} /\ P * P * P \in Nat \ {0}
      /\ Second \in Nat /\ Third \in Nat /\ Second = NDirect + P /\ Third = Second + P * P
      /\ Size1 = P * B /\ (Size2 = 0 \/ Size2 = (P * P) * B)
  BY Constants DEF Second, Third
<1>2. k \in Nat /\ k >= 1 /\ k * B \in Nat /\ NDirect * B \in Nat /\ sz > 0
  <2>1. (k - 1) * B >= 0
    BY <1>1
  <2> QED
    BY <1>1, <2>1
<1>3. Round(sz, B) = k * B
  <2>1. sz + B <= Word
    BY <1>1, <1>2
  <2> QED
    BY <1>1, <1>2, <2>1, RoundFacts
<1>4. Addr(sz) =
        IF in1 <= 0 THEN At(0, <<(in1 + DirectSize) \div B - 1>>)
        ELSE IF in1 <= Size1 THEN At(1, <<in1 \div B - 1>>)
        ELSE IF in1 - Size1 <= Size2
             THEN LET i == Entry(in1 - Size1, Size1)
                  IN  At(2, <<i, (in1 - Size1 - i * Size1) \div B - 1>>)
        ELSE IF Size2 = 0 THEN Undefined
        ELSE LET i == Entry(in1 - Size1 - Size2, Size2)
                 rest == in1 - Size1 - Size2 - i * Size2
                 j == Entry(rest, Size1)
             IN  At(3, <<i>> \o <<j, (rest - j * Size1) \div B - 1>>)
  BY <1>2, <1>3 DEF Addr, DirectSize
<1>5. in1 = (k - NDirect) * B /\ k - NDirect \in Int
  BY <1>1, <1>2
<1>6. Level(k) \in 0 .. 3 /\ o \in Nat /\ o \in Int
  <2>1. o \in Nat
    BY OffsetFacts
  <2> HIDE DEF o
  <2> QED
    BY <2>1, OffsetFacts
<1>15. /\ Level(k) = 0 => k <= NDirect /\ o = k - 1
       /\ Level(k) = 1 => k > NDirect /\ o = k - NDirect - 1 /\ o < P
       /\ Level(k) = 2 => k > Second /\ o = k - Second - 1 /\ o < P * P
       /\ Level(k) = 3 => k > Third /\ o = k - Third - 1
  BY <1>1, OffsetFacts
<1>16. Offset(k) = o
  OBVIOUS
<1> HIDE DEF o
<1>7. in1 <= 0 <=> k <= NDirect
  BY <1>1, <1>2, MultipleOrder
<1>8. in1 <= Size1 <=> k - NDirect <= P
  BY <1>1, <1>5, MultipleOrder
<1>9. CASE Level(k) = 0
  <2>1. k <= NDirect /\ o = k - 1
    BY <1>9, <1>15
  <2>2. in1 + DirectSize = k * B
    BY <1>1, <1>2 DEF DirectSize
  <2>3. (in1 + DirectSize) \div B - 1 = o
    <3>1. (k * B) \div B = k
      BY <1>1, <1>2, DivMultiple
    <3> QED
      BY <2>1, <2>2, <3>1
  <2>4. Addr(sz) = At(0, <<o>>)
    BY <1>4, <1>7, <2>1, <2>3
  <2> QED
    BY <1>9, <1>16, <2>4 DEF Spot
<1>10. CASE Level(k) = 1
  <2>1. k > NDirect /\ o = k - NDirect - 1 /\ o < P
    BY <1>10, <1>15
  <2>2. in1 \div B - 1 = o
    <3>1. ((k - NDirect) * B) \div B = k - NDirect
      BY <1>1, <1>5, DivMultiple
    <3> QED
      BY <1>5, <2>1, <3>1
  <2>3. k - NDirect <= P /\ ~ (k <= NDirect)
    BY <1>1, <1>6, <2>1
  <2>4. Addr(sz) = At(1, <<o>>)
    BY <1>4, <1>7, <1>8, <2>2, <2>3
  <2> QED
    BY <1>10, <1>16, <2>4 DEF Spot
<1>11. ASSUME Level(k) \in 2 .. 3
       PROVE  /\ k > NDirect /\ ~ (k - NDirect <= P)
              /\ in1 - Size1 = (k - Second) * B /\ k - Second \in Nat \ {0}
              /\ ~ (in1 <= 0) /\ ~ (in1 <= Size1)
  <2>1. k > Second
    <3>1. Level(k) = 2 \/ Level(k) = 3
      BY <1>11
    <3>2. Second <= Third
      BY <1>1
    <3> QED
      BY <1>1, <1>2, <3>1, <3>2, <1>15
  <2>2. k > NDirect /\ ~ (k - NDirect <= P) /\ k - Second \in Nat \ {0}
    BY <1>1, <2>1
  <2>3. in1 - Size1 = (k - Second) * B
    <3>1. (k - NDirect) * B - P * B = ((k - NDirect) - P) * B
      BY <1>1, <1>2
    <3> QED
      BY <1>1, <1>2, <1>5, <3>1
  <2> QED
    <3> DEFINE x == k - Second
    <3>1. x \in Nat \ {0} /\ in1 - Size1 = x * B
      BY <2>2, <2>3
    <3>2. ~ (in1 <= 0) /\ ~ (in1 <= Size1)
      <4>1. ~ (k <= NDirect) /\ ~ (k - NDirect <= P)
        BY <1>1, <1>2, <2>2
      <4> HIDE DEF in1
      <4> QED
        BY <1>7, <1>8, <4>1
    <3> QED
      BY <2>2, <2>3, <3>2
<1>12. CASE Level(k) \in 2 .. 3 /\ Size2 = 0
  <2>1. (k - Second) * B > 0
    BY <1>1, <1>11, <1>12
  <2>2. ~ (in1 - Size1 <= Size2)
    <3> DEFINE x == (k - Second) * B
    <3>1. x \in Int /\ x > 0 /\ in1 - Size1 = x
      BY <1>1, <1>2, <1>11, <1>12, <2>1
    <3> HIDE DEF x
    <3>2. ~ (x <= 0)
      BY <3>1
    <3> QED
      BY <1>12, <3>1, <3>2
  <2>3. Addr(sz) = Undefined
    BY <1>4, <1>11, <1>12, <2>2
  <2>4. ~ (Level(k) <= 1)
    BY <1>12
  <2> QED
    BY <1>12, <2>3, <2>4 DEF Spot
<1>13. CASE Level(k) = 2 /\ Size2 # 0
  <2>1. k > Second /\ o = k - Second - 1 /\ o < P * P
    BY <1>13, <1>15
  <2>2. in1 - Size1 = (o + 1) * B /\ o + 1 \in Nat
    BY <1>1, <1>11, <1>13, <2>1
  <2>3. (o + 1) * B + P * B <= Word
    <3>1. (o + 1) * B + P * B = (k - NDirect) * B
      <4>1. (o + 1) * B + P * B = (o + 1 + P) * B
        BY <1>1, <1>6
      <4>2. o + 1 + P = k - NDirect
        BY <1>1, <1>2, <2>1
      <4> QED
        BY <4>1, <4>2
    <3> QED
      BY <1>1, <1>2, <1>5, <3>1
  <2> DEFINE i == o \div P
             j == o % P
  <2>4. Entry(in1 - Size1, Size1) = i
    BY <1>1, <1>6, <2>2, <2>3, EntryFacts
  <2>5. i \in Int /\ j \in Int /\ o = (i * P) + j /\ i * P \in Int
    <3>1. i \in Int /\ j \in 0 .. P - 1 /\ o = (i * P) + j
      BY <1>1, <1>6, DivBounds
    <3> HIDE DEF i, j
    <3> QED
      BY <1>1, <3>1
  <2> HIDE DEF i, j
  <2>6. (in1 - Size1 - i * Size1) \div B - 1 = j
    <3>1. (o + 1) * B - i * (P * B) = (j + 1) * B
      <4>1. i * (P * B) = (i * P) * B
        BY <1>1, <2>5
      <4>2. (o + 1) * B - (i * P) * B = (o + 1 - (i * P)) * B
        BY <1>1, <1>6, <2>5
      <4> QED
        BY <2>5, <4>1, <4>2
    <3>2. ((j + 1) * B) \div B = j + 1
      BY <1>1, <2>5, DivMultiple
    <3> QED
      BY <1>1, <2>2, <2>5, <3>1, <3>2
  <2>7. in1 - Size1 <= Size2
    <3>1. o + 1 <= P * P
      BY <1>1, <1>6, <2>1
    <3> QED
      BY <1>1, <1>13, <2>2, <3>1, MultipleOrder
  <2>8. Addr(sz) = At(2, <<i, j>>)
    BY <1>4, <1>11, <1>13, <2>4, <2>6, <2>7
  <2> QED
    BY <1>13, <1>16, <2>8 DEF Spot, i, j
<1>14. CASE Level(k) = 3 /\ Size2 # 0
  <2>1. k > Third /\ o = k - Third - 1
    BY <1>14, <1>15
  <2>2. in1 - Size1 - Size2 = (o + 1) * B /\ ~ (in1 - Size1 <= Size2)
    <3>1. (k - Second) * B - (P * P) * B = ((k - Second) - P * P) * B
      BY <1>1, <1>2
    <3>2. (k - Second) - P * P = o + 1
      BY <1>1, <2>1
    <3>3. (o + 1) * B > 0
      BY <1>1, <1>6
    <3>4. in1 - Size1 - Size2 = (o + 1) * B
      BY <1>1, <1>11, <1>14, <3>1, <3>2
    <3>5. in1 - Size1 \in Int /\ Size2 \in Int
      BY <1>1, <1>2, <1>5
    <3> QED
      BY <3>3, <3>4, <3>5
  <2> DEFINE d == o \div P
             i == d \div P
             j == d % P
             n == o % P
             rest == (o + 1) * B - i * Size2
  <2>3. d \in Nat /\ n \in Nat /\ o = (d * P) + n
    <3>1. d \in Int /\ n \in 0 .. P - 1 /\ o = (d * P) + n
      BY <1>1, <1>6, DivBounds
    <3>2. o < o * P + P
      BY <1>1, <1>6
    <3>3. (o + 1) * P = o * P + P
      BY <1>1, <1>6
    <3>4. d \in Nat
      BY <1>1, <1>6, <3>2, <3>3, DivBelow
    <3> HIDE DEF d, n
    <3> QED
      BY <1>1, <3>1, <3>4
  <2>4. i \in Nat /\ j \in 0 .. P - 1 /\ d = (i * P) + j
    <3>1. i \in Int /\ j \in 0 .. P - 1 /\ d = (i * P) + j
      <4> HIDE DEF d
      <4> QED
        BY <1>1, <2>3, DivBounds
    <3>2. d < (d + 1) * P
      <4> HIDE DEF d
      <4>1. (d + 1) * P = d * P + P /\ d * P >= d
        BY <1>1, <2>3
      <4> QED
        BY <1>1, <2>3, <4>1
    <3>3. i \in Nat
      <4>1. d \in Nat /\ d + 1 \in Nat
        <5> HIDE DEF d
        <5> QED
          BY <2>3
      <4> HIDE DEF d
      <4> QED
        BY <1>1, <3>2, <4>1, DivBelow
    <3> QED
      BY <3>1, <3>3
  <2>5. Entry((o + 1) * B, Size2) = i
    <3>1. (o + 1) * B + (P * P) * B <= Word
      <4>1. (o + 1) * B + (P * P) * B = (o + 1 + P * P) * B
        BY <1>1, <1>6
      <4>2. o + 1 + P * P <= k
        BY <1>1, <2>1
      <4>3. (o + 1 + P * P) * B <= k * B
        BY <1>1, <1>2, <1>6, <4>2, MultipleOrder
      <4> QED
        BY <1>1, <1>2, <1>6, <4>1, <4>3
    <3>2. Entry((o + 1) * B, (P * P) * B) = o \div (P * P)
      BY <1>1, <1>6, <3>1, EntryFacts
    <3>3. o \div (P * P) = i
      BY <1>1, <1>6, DivTwice
    <3> QED
      BY <1>1, <1>14, <3>2, <3>3
  <2> HIDE DEF d, i, j, n
  <2> DEFINE t == (j * P) + n
  <2>6. t \in Nat /\ o = (i * (P * P)) + t /\ i * (P * P) \in Nat
    <3>1. d * P = (i * P) * P + j * P
      BY <1>1, <2>4
    <3>2. (i * P) * P = i * (P * P)
      BY <1>1, <2>4
    <3>3. j * P \in Nat /\ i * (P * P) \in Nat
      BY <1>1, <2>4
    <3> DEFINE y == j * P
               z == i * (P * P)
    <3>4. d * P = z + y /\ t = y + n
      BY <3>1, <3>2
    <3> HIDE DEF y, z
    <3>5. y \in Nat /\ z \in Nat
      BY <3>3 DEF y, z
    <3> HIDE DEF t
    <3>6. t \in Nat /\ o = z + t
      BY <2>3, <3>4, <3>5
    <3> QED
      BY <3>5, <3>6 DEF z
  <2> HIDE DEF t
  <2>7. rest = (t + 1) * B
    <3>1. i * Size2 = (i * (P * P)) * B
      BY <1>1, <1>14, <2>4
    <3> DEFINE z == i * (P * P)
    <3>2. (z + t + 1) * B - z * B = (t + 1) * B
      <4>1. z \in Nat
        BY <2>6
      <4> HIDE DEF z
      <4> QED
        BY <1>1, <2>6, <4>1
    <3>3. o + 1 = z + t + 1
      BY <2>6
    <3> QED
      BY <3>1, <3>2, <3>3
  <2>8. Entry(rest, Size1) = j
    <3>1. (t + 1) * B + P * B <= Word
      <4>1. (t + 1) * B + P * B = (t + 1 + P) * B
        BY <1>1, <2>6
      <4>2. t + 1 + P <= k
        BY <1>1, <2>1, <2>6
      <4>3. (t + 1 + P) * B <= k * B
        BY <1>1, <1>2, <2>6, <4>2, MultipleOrder
      <4> QED
        BY <1>1, <1>2, <2>6, <4>1, <4>3
    <3>2. Entry((t + 1) * B, P * B) = t \div P
      BY <1>1, <2>6, <3>1, EntryFacts
    <3>3. n \in 0 .. P - 1
      BY <1>1, <1>6, DivBounds DEF n
    <3>4. t \div P = j
      BY <1>1, <2>4, <3>3, DivNames DEF t
    <3> QED
      BY <1>1, <2>7, <3>2, <3>4
  <2>9. (rest - j * Size1) \div B - 1 = n
    <3>1. (t + 1) * B - j * (P * B) = (n + 1) * B
      <4> DEFINE z == j * P
      <4>1. z \in Nat /\ j * (P * B) = z * B
        BY <1>1, <2>4
      <4>2. t = z + n
        BY DEF t
      <4> HIDE DEF z
      <4> QED
        BY <1>1, <2>3, <4>1, <4>2
    <3>2. ((n + 1) * B) \div B = n + 1
      BY <1>1, <2>3, DivMultiple
    <3> QED
      BY <1>1, <2>3, <2>7, <3>1, <3>2
  <2>10. Addr(sz) = At(3, <<i>> \o <<j, n>>)
    BY <1>4, <1>11, <1>14, <2>2, <2>5, <2>8, <2>9
  <2>11. <<i>> \o <<j, n>> = <<i, j, n>>
    <3>1. i \in Nat /\ j \in Nat /\ n \in Nat
      BY <1>1, <2>3, <2>4
    <3> DEFINE s == <<i>> \o <<j, n>>
    <3>2. <<i>> \in Seq(Nat) /\ <<j, n>> \in Seq(Nat) /\ <<i, j, n>> \in Seq(Nat)
          /\ Len(<<i>>) = 1 /\ Len(<<j, n>>) = 2 /\ Len(<<i, j, n>>) = 3
      BY <3>1
    <3>3. s \in Seq(Nat) /\ Len(s) = 1 + 2
          /\ \A x \in 1 .. 1 + 2 : s[x] = IF x <= 1 THEN <<i>>[x] ELSE <<j, n>>[x - 1]
      BY <3>2, ConcatProperties
    <3> HIDE DEF s
    <3>4. s[1] = i /\ s[2] = j /\ s[3] = n
      BY <3>3
    <3>5. \A x \in 1 .. Len(s) : s[x] = <<i, j, n>>[x]
      <4>1. \A x \in 1 .. Len(s) : x = 1 \/ x = 2 \/ x = 3
        BY <3>3
      <4> QED
        BY <3>4, <4>1
    <3>6. s = <<i, j, n>>
      BY <3>2, <3>3, <3>5, SeqEqual
    <3> QED
      BY <3>6 DEF s
  <2> QED
    <3>1. ~ (Level(k) <= 1) /\ Level(k) # 2 /\ Level(k) \in Int
      BY <1>14
    <3>2. Spot(k) = At(3, <<i, j, n>>)
      BY <1>14, <1>16, <3>1 DEF Spot, d, i, j, n
    <3> QED
      BY <2>10, <2>11, <3>2
<1> QED
  BY <1>6, <1>9, <1>10, <1>12, <1>13, <1>14

LEMMA AddrZero == Addr(0) = Spot(1)
<1>1. 1 <= NDirect /\ 1 \in Nat
  BY Constants
<1>2. Level(1) = 0 /\ Offset(1) = 0
  BY <1>1 DEF Level, Offset
<1> QED
  BY <1>2 DEF Addr, Spot

(* The place before the first block, of a size below zero.                 *)
LEMMA AddrBelow ==
  ASSUME NEW sz \in Nat, sz < Word, sz + BlkSize > Word
  PROVE  Addr(sz).level = 0
<1> DEFINE x == sz + BlkSize - 1
<1>1. BlkSize \in Nat \ {0} /\ Word \in Nat \ {0} /\ 2 * BlkSize <= Word /\ NDirect \in Nat
  BY Constants
<1>2. x \in Int /\ Word <= x /\ x < Word + BlkSize - 1 /\ sz # 0
  BY <1>1
<1>3. x % Word = x - Word
  <2> DEFINE y == x - Word
  <2>1. y \in 0 .. Word - 1 /\ 1 * Word + y = x
    BY <1>1, <1>2
  <2> HIDE DEF y
  <2>2. (1 * Word + y) % Word = y
    BY <1>1, <2>1, DivNames
  <2> QED
    BY <2>1, <2>2 DEF y
<1>4. (x - Word) \div BlkSize = 0
  <2> DEFINE y == x - Word
  <2>1. y \in Int /\ 0 * BlkSize <= y /\ y < 0 * BlkSize + BlkSize
    BY <1>1, <1>2
  <2> HIDE DEF y
  <2>2. y \div BlkSize = 0
    BY <1>1, <2>1, DivUnique
  <2> QED
    BY <2>2 DEF y
<1>5. Round(sz, BlkSize) = 0
  <2>1. Round(sz, BlkSize) = ((x % Word) \div BlkSize) * BlkSize
    BY DEF Round
  <2> QED
    BY <1>1, <1>3, <1>4, <2>1
<1>6. 0 - DirectSize <= 0
  BY <1>1 DEF DirectSize
<1>7. Addr(sz) = At(0, <<(0 - DirectSize + DirectSize) \div BlkSize - 1>>)
  BY <1>2, <1>5, <1>6 DEF Addr
<1> QED
  BY <1>7 DEF At

(* The number of blocks of a file.                                         *)
LEMMA BlockCount ==
  ASSUME NEW s \in Nat, s + BlkSize <= Word
  PROVE  /\ NBlk(s) \in Nat /\ (NBlk(s) - 1) * BlkSize < s /\ s <= NBlk(s) * BlkSize
         /\ NBlk(s) = 0 <=> s = 0
<1> DEFINE x == s + BlkSize - 1
           q == x \div BlkSize
<1>1. BlkSize \in Nat \ {0} /\ Word \in Nat \ {0}
  BY Constants
<1>2. x \in Nat /\ x \in Int /\ x < Word
  BY <1>1
<1>3. x % Word = x
  <2> HIDE DEF x
  <2> QED
    BY <1>1, <1>2
<1>4. q \in Int /\ q * BlkSize <= x /\ x < q * BlkSize + BlkSize
  <2> HIDE DEF x
  <2> QED
    BY <1>1, <1>2, DivBounds
<1> HIDE DEF q
<1>5. NBlk(s) = q
  <2>1. Round(s, BlkSize) = q * BlkSize
    BY <1>3 DEF Round, q
  <2> QED
    BY <1>1, <1>4, <2>1, DivMultiple DEF NBlk
<1>6. (q - 1) * BlkSize = q * BlkSize - BlkSize /\ q * BlkSize \in Int
  BY <1>1, <1>4
<1>7. (q - 1) * BlkSize < s /\ s <= q * BlkSize
  BY <1>1, <1>4, <1>6
<1>8. q >= 0
  <2> SUFFICES ASSUME q <= -1 PROVE FALSE
    BY <1>4
  <2>1. q * BlkSize <= (-1) * BlkSize
    BY <1>1, <1>4, MultipleOrder
  <2> QED
    BY <1>1, <1>6, <1>7, <2>1
<1>9. q = 0 <=> s = 0
  <2>1. ASSUME q = 0 PROVE s = 0
    BY <1>1, <1>7, <2>1
  <2>2. ASSUME s = 0, q >= 1 PROVE FALSE
    <3>1. 1 * BlkSize <= q * BlkSize
      BY <1>1, <1>4, <2>2, MultipleOrder
    <3> QED
      BY <1>1, <1>4, <1>6, <1>7, <2>2, <3>1
  <2> QED
    BY <1>4, <1>8, <2>1, <2>2
<1> QED
  BY <1>4, <1>5, <1>7, <1>8, <1>9

LEMMA CountUnique ==
  ASSUME NEW s \in Nat, s + BlkSize <= Word,
         NEW k \in Nat, (k - 1) * BlkSize < s, s <= k * BlkSize
  PROVE  NBlk(s) = k
<1>1. BlkSize \in Nat \ {0}
  BY Constants
<1> DEFINE n == NBlk(s)
<1>2. n \in Nat /\ (n - 1) * BlkSize < s /\ s <= n * BlkSize
  BY BlockCount
<1> HIDE DEF n
<1>3. ASSUME NEW a \in Nat, NEW b \in Nat, (a - 1) * BlkSize < s, s <= b * BlkSize
      PROVE  a <= b
  <2> SUFFICES ASSUME b <= a - 1 PROVE FALSE
    OBVIOUS
  <2>1. b * BlkSize <= (a - 1) * BlkSize
    BY <1>1, MultipleOrder
  <2>2. b * BlkSize \in Int /\ (a - 1) * BlkSize \in Int
    BY <1>1
  <2> QED
    BY <1>3, <2>1, <2>2
<1>4. n <= k /\ k <= n
  BY <1>2, <1>3
<1> QED
  BY <1>2, <1>4 DEF n

(* What the theorems assume of the sizes: that the difference of two of    *)
(* them is a signed word, and that the map has places for their blocks.    *)
Within == \A s \in Sizes : s \in Nat /\ 2 * s < Word /\ s <= Capacity * BlkSize

LEMMA SizeBounds ==
  ASSUME Within, NEW s \in Sizes \cup {0}
  PROVE  /\ s \in Nat /\ 2 * s < Word /\ s + BlkSize <= Word
         /\ NBlk(s) <= Capacity /\ NBlk(s) * BlkSize + BlkSize <= Word
<1> DEFINE n == NBlk(s)
<1>1. /\ BlkSize \in Nat \ {0} /\ Word \in Nat \ {0} /\ 2 * BlkSize <= Word /\ Capacity \in Nat
      /\ Word % BlkSize = 0
  BY Constants, MapAssumption
<1>2. s \in Nat /\ 2 * s < Word /\ s <= Capacity * BlkSize
  BY <1>1 DEF Within
<1>3. s + BlkSize <= Word
  BY <1>1, <1>2
<1>4. n \in Nat /\ (n - 1) * BlkSize < s
  BY <1>2, <1>3, BlockCount
<1> HIDE DEF n
<1>5. n <= Capacity
  <2> SUFFICES ASSUME Capacity <= n - 1 PROVE FALSE
    BY <1>1, <1>4
  <2>1. Capacity * BlkSize <= (n - 1) * BlkSize
    BY <1>1, <1>4, MultipleOrder
  <2>2. Capacity * BlkSize \in Int /\ (n - 1) * BlkSize \in Int
    BY <1>1, <1>4
  <2> QED
    BY <1>2, <1>4, <2>1, <2>2
<1>6. n * BlkSize + BlkSize <= Word
  <2> DEFINE q == Word \div BlkSize
             r == Word % BlkSize
  <2>1. q \in Int /\ Word = (q * BlkSize) + r /\ r = 0
    BY <1>1, DivBounds
  <2> HIDE DEF q, r
  <2>2. q * BlkSize \in Int /\ Word = q * BlkSize
    BY <1>1, <2>1
  <2>3. 2 * (n - 1) < q
    <3> SUFFICES ASSUME q <= 2 * (n - 1) PROVE FALSE
      BY <1>4, <2>1
    <3>1. q * BlkSize <= (2 * (n - 1)) * BlkSize
      BY <1>1, <1>4, <2>1, MultipleOrder
    <3> DEFINE z == (n - 1) * BlkSize
    <3>2. z \in Int /\ (2 * (n - 1)) * BlkSize = 2 * z /\ z < s
      BY <1>1, <1>4
    <3> HIDE DEF z
    <3> QED
      BY <1>2, <2>2, <3>1, <3>2
  <2>4. 2 <= q
    <3> SUFFICES ASSUME q <= 1 PROVE FALSE
      BY <2>1
    <3>1. q * BlkSize <= 1 * BlkSize
      BY <1>1, <2>1, MultipleOrder
    <3> QED
      BY <1>1, <2>2, <3>1
  <2>5. n + 1 <= q
    BY <1>4, <2>1, <2>3, <2>4
  <2>6. (n + 1) * BlkSize <= q * BlkSize
    BY <1>1, <1>4, <2>1, <2>5, MultipleOrder
  <2>7. (n + 1) * BlkSize = n * BlkSize + BlkSize
    BY <1>1, <1>4
  <2> QED
    BY <2>2, <2>6, <2>7
<1> QED
  BY <1>2, <1>3, <1>5, <1>6 DEF n

-----------------------------------------------------------------------------
(* The nodes of the map                                                    *)

(* A node is <<file, level, depth, number>>: the number-th block, from 0,  *)
(* that is depth steps below the inode in the part of the map that has     *)
(* level index blocks above a data block.  Nodes of depth 0 are named by   *)
(* the inode.                                                              *)
Width(d) == IF d = 0 THEN 1 ELSE IF d = 1 THEN Per ELSE IF d = 2 THEN Per * Per
            ELSE Per * Per * Per

Node == {x \in File \X (0 .. 3) \X (0 .. 3) \X Nat :
           x[3] <= x[2] /\ x[4] < IF x[2] = 0 THEN NDirect ELSE Width(x[3])}

Up(x)       == IF x[3] = 0 THEN x ELSE <<x[1], x[2], x[3] - 1, x[4] \div Per>>
Ent(x)      == x[4] % Per
Child(x, n) == <<x[1], x[2], x[3] + 1, x[4] * Per + n>>
RootOf(x)   == <<x[1], x[2], 0, IF x[2] = 0 THEN x[4] ELSE 0>>
SlotOf(x)   == IF x[2] = 0 THEN x[4] ELSE NDirect + x[2] - 1

LEMMA NodeFacts ==
  ASSUME NEW x \in Node
  PROVE  /\ x[1] \in File /\ x[2] \in 0 .. 3 /\ x[3] \in 0 .. 3 /\ x[4] \in Nat
         /\ x[3] <= x[2] /\ x = <<x[1], x[2], x[3], x[4]>>
         /\ x[2] = 0 => x[4] < NDirect
         /\ x[2] # 0 => x[4] < Width(x[3])
         /\ x[2] # 0 /\ x[3] = 0 => x[4] = 0
  BY DEF Node, Width

LEMMA NodeMade ==
  ASSUME NEW f \in File, NEW l \in 0 .. 3, NEW d \in 0 .. l, NEW q \in Nat,
         q < IF l = 0 THEN NDirect ELSE Width(d)
  PROVE  <<f, l, d, q>> \in Node
  BY DEF Node

LEMMA WidthFacts ==
  /\ Width(0) = 1 /\ \A d \in 0 .. 3 : Width(d) \in Nat
  /\ \A d \in 1 .. 3 : Width(d) = Width(d - 1) * Per
<1>1. Per \in Nat /\ Per * Per \in Nat /\ Per * Per * Per \in Nat /\ 1 * Per = Per
  BY Constants
<1>2. Width(0) = 1 /\ Width(1) = Per /\ Width(2) = Per * Per /\ Width(3) = Per * Per * Per
  BY DEF Width
<1>3. \A d \in 0 .. 3 : d = 0 \/ d = 1 \/ d = 2 \/ d = 3
  OBVIOUS
<1>4. \A d \in 1 .. 3 : d = 1 \/ d = 2 \/ d = 3
  OBVIOUS
<1>5. Width(1) = Width(0) * Per /\ Width(2) = Width(1) * Per /\ Width(3) = Width(2) * Per
  BY <1>1, <1>2
<1>6. 1 - 1 = 0 /\ 2 - 1 = 1 /\ 3 - 1 = 2
  OBVIOUS
<1> QED
  BY <1>1, <1>2, <1>3, <1>4, <1>5, <1>6

LEMMA UpFacts ==
  ASSUME NEW y \in Node, y[3] > 0
  PROVE  /\ Up(y) \in Node /\ Up(y)[1] = y[1] /\ Up(y)[2] = y[2] /\ Up(y)[3] = y[3] - 1
         /\ Up(y)[4] = y[4] \div Per
         /\ Up(y)[3] < Up(y)[2] /\ Ent(y) \in 0 .. Per - 1 /\ Child(Up(y), Ent(y)) = y
         /\ RootOf(Up(y)) = RootOf(y) /\ Up(y) # y
<1> DEFINE q == y[4] \div Per
           n == y[4] % Per
           x == <<y[1], y[2], y[3] - 1, q>>
<1>1. /\ y[1] \in File /\ y[2] \in 0 .. 3 /\ y[3] \in 1 .. 3 /\ y[4] \in Nat
      /\ y[3] <= y[2] /\ y = <<y[1], y[2], y[3], y[4]>> /\ y[2] # 0 /\ y[4] < Width(y[3])
  BY NodeFacts
<1>2. Per \in Nat \ {0}
  BY Constants
<1>3. y[3] - 1 \in 0 .. 3 /\ y[4] < Width(y[3] - 1) * Per /\ Width(y[3] - 1) \in Nat
  BY <1>1, WidthFacts
<1>4. q \in Nat /\ q < Width(y[3] - 1) /\ n \in 0 .. Per - 1
  BY <1>1, <1>2, <1>3, DivBelow
<1>5. y[4] = (q * Per) + n
  BY <1>1, <1>2, DivBounds
<1> HIDE DEF q, n
<1>6. Up(y) = x /\ Ent(y) = n
  BY <1>1 DEF Up, Ent, q, n
<1>7. x \in Node
  <2>1. y[3] - 1 \in 0 .. y[2]
    BY <1>1
  <2> QED
    BY <1>1, <1>4, <2>1, NodeMade
<1>8. x[1] = y[1] /\ x[2] = y[2] /\ x[3] = y[3] - 1 /\ x[4] = q
  OBVIOUS
<1>9. Child(x, n) = y
  <2>1. y[3] - 1 + 1 = y[3] /\ q * Per + n = y[4]
    BY <1>1, <1>5
  <2> QED
    BY <1>1, <1>8, <2>1 DEF Child
<1>10. RootOf(x) = RootOf(y)
  BY <1>1, <1>8 DEF RootOf
<1>11. x[3] < x[2] /\ x # y
  BY <1>1, <1>8
<1> HIDE DEF x
<1> QED
  BY <1>4, <1>6, <1>7, <1>8, <1>9, <1>10, <1>11 DEF q

LEMMA UpOfRoot ==
  ASSUME NEW y \in Node
  PROVE  /\ Up(y) \in Node /\ Up(y)[1] = y[1] /\ Up(y)[2] = y[2] /\ RootOf(Up(y)) = RootOf(y)
         /\ y[3] = 0 => Up(y) = y
<1>1. CASE y[3] = 0
  BY <1>1 DEF Up
<1>2. CASE y[3] > 0
  BY <1>2, UpFacts
<1>3. y[3] = 0 \/ y[3] > 0
  BY NodeFacts
<1> QED
  BY <1>1, <1>2, <1>3

LEMMA ChildFacts ==
  ASSUME NEW x \in Node, x[3] < x[2], NEW n \in 0 .. Per - 1
  PROVE  /\ Child(x, n) \in Node /\ Up(Child(x, n)) = x /\ Ent(Child(x, n)) = n
         /\ Child(x, n)[1] = x[1] /\ Child(x, n)[2] = x[2] /\ Child(x, n)[3] = x[3] + 1
         /\ Child(x, n)[3] > 0
<1> DEFINE q == x[4] * Per + n
           y == <<x[1], x[2], x[3] + 1, q>>
<1>1. /\ x[1] \in File /\ x[2] \in 1 .. 3 /\ x[3] \in 0 .. 2 /\ x[4] \in Nat
      /\ x[3] < x[2] /\ x = <<x[1], x[2], x[3], x[4]>> /\ x[4] < Width(x[3])
  BY NodeFacts
<1>2. Per \in Nat \ {0}
  BY Constants
<1>3. q \in Nat /\ q \div Per = x[4] /\ q % Per = n
  BY <1>1, <1>2, DivNames
<1>4. q < Width(x[3] + 1)
  <2>1. x[3] + 1 \in 1 .. 3 /\ x[3] \in 0 .. 3 /\ (x[3] + 1) - 1 = x[3]
    BY <1>1
  <2>2. Width(x[3] + 1) = Width(x[3]) * Per /\ Width(x[3]) \in Nat
    BY <2>1, WidthFacts
  <2>3. (x[4] + 1) * Per <= Width(x[3]) * Per
    <3> DEFINE a == x[4] + 1
               w == Width(x[3])
    <3>1. a <= w /\ a \in Int /\ w \in Int
      BY <1>1, <2>2
    <3> HIDE DEF a, w
    <3>2. a * Per <= w * Per
      BY <1>2, <3>1, MultipleOrder
    <3> QED
      BY <3>2 DEF a, w
  <2>4. (x[4] + 1) * Per = x[4] * Per + Per
    BY <1>1, <1>2
  <2>5. x[4] * Per \in Nat /\ Width(x[3]) * Per \in Nat
    BY <1>1, <1>2, <2>2
  <2> QED
    BY <1>1, <1>2, <2>2, <2>3, <2>4, <2>5
<1> HIDE DEF q
<1>5. Child(x, n) = y
  BY DEF Child, q
<1>6. y \in Node
  <2>1. x[3] + 1 \in 0 .. x[2] /\ x[2] \in 0 .. 3 /\ x[2] # 0
    BY <1>1
  <2> QED
    BY <1>1, <1>3, <1>4, <2>1, NodeMade
<1>7. y[1] = x[1] /\ y[2] = x[2] /\ y[3] = x[3] + 1 /\ y[4] = q
  OBVIOUS
<1>8. Up(y) = x /\ Ent(y) = n
  <2>1. y[3] # 0 /\ y[3] - 1 = x[3]
    BY <1>1, <1>7
  <2> QED
    BY <1>1, <1>3, <1>7, <2>1 DEF Up, Ent
<1>9. y[3] > 0
  BY <1>1, <1>7
<1> HIDE DEF y
<1> QED
  BY <1>5, <1>6, <1>7, <1>8, <1>9

LEMMA RootFacts ==
  ASSUME NEW x \in Node
  PROVE  /\ RootOf(x) \in Node /\ RootOf(x)[1] = x[1] /\ RootOf(x)[2] = x[2]
         /\ RootOf(x)[3] = 0 /\ RootOf(RootOf(x)) = RootOf(x)
         /\ SlotOf(x) \in Slot /\ SlotOf(RootOf(x)) = SlotOf(x)
         /\ x[3] = 0 => RootOf(x) = x
<1> DEFINE q == IF x[2] = 0 THEN x[4] ELSE 0
           r == <<x[1], x[2], 0, q>>
<1>1. /\ x[1] \in File /\ x[2] \in 0 .. 3 /\ x[3] \in 0 .. 3 /\ x[4] \in Nat
      /\ x[3] <= x[2] /\ x = <<x[1], x[2], x[3], x[4]>>
      /\ x[2] = 0 => x[4] < NDirect
      /\ x[2] # 0 /\ x[3] = 0 => x[4] = 0
  BY NodeFacts
<1>2. NDirect \in Nat /\ Width(0) = 1
  BY Constants, WidthFacts
<1>3. r \in Node
  <2>1. 0 \in 0 .. x[2] /\ q \in Nat /\ q < IF x[2] = 0 THEN NDirect ELSE Width(0)
    BY <1>1, <1>2
  <2> QED
    BY <1>1, <2>1, NodeMade
<1>4. r[1] = x[1] /\ r[2] = x[2] /\ r[3] = 0 /\ r[4] = q
  OBVIOUS
<1>5. RootOf(r) = r /\ SlotOf(r) = SlotOf(x)
  BY <1>4 DEF RootOf, SlotOf
<1>6. SlotOf(x) \in Slot
  BY <1>1, <1>2 DEF SlotOf, Slot
<1>7. x[3] = 0 => r = x
  BY <1>1
<1>8. RootOf(x) = r
  BY DEF RootOf
<1> HIDE DEF r
<1> QED
  BY <1>3, <1>4, <1>5, <1>6, <1>7, <1>8

(* Roots of a file with the same number in the inode are the same.         *)
LEMMA SlotNames ==
  ASSUME NEW x \in Node, NEW y \in Node, x[3] = 0, y[3] = 0, x[1] = y[1], SlotOf(x) = SlotOf(y)
  PROVE  x = y
<1>1. /\ x[2] \in 0 .. 3 /\ x[4] \in Nat /\ x = <<x[1], x[2], x[3], x[4]>>
      /\ x[2] = 0 => x[4] < NDirect
      /\ x[2] # 0 => x[4] = 0
  BY NodeFacts
<1>2. /\ y[2] \in 0 .. 3 /\ y[4] \in Nat /\ y = <<y[1], y[2], y[3], y[4]>>
      /\ y[2] = 0 => y[4] < NDirect
      /\ y[2] # 0 => y[4] = 0
  BY NodeFacts
<1>3. x[2] = y[2] /\ x[4] = y[4]
  <2>1. NDirect \in Nat
    BY Constants
  <2> QED
    BY <1>1, <1>2, <2>1 DEF SlotOf
<1> QED
  BY <1>1, <1>2, <1>3

(* The nodes from one up to the inode.                                     *)
Path(y) == {y, Up(y), Up(Up(y)), Up(Up(Up(y)))}

(* The node of that depth among them.                                      *)
Anc(y, d) == IF y[3] = d THEN y ELSE IF y[3] = d + 1 THEN Up(y)
             ELSE IF y[3] = d + 2 THEN Up(Up(y)) ELSE Up(Up(Up(y)))

LEMMA UpDepth ==
  ASSUME NEW y \in Node
  PROVE  Up(y) \in Node /\ y[3] \in 0 .. 3
         /\ Up(y)[3] = IF y[3] = 0 THEN 0 ELSE y[3] - 1
<1>1. CASE y[3] = 0
  BY <1>1, UpOfRoot
<1>2. CASE y[3] > 0
  BY <1>2, UpFacts, NodeFacts
<1>3. y[3] = 0 \/ y[3] > 0
  BY NodeFacts
<1> QED
  BY <1>1, <1>2, <1>3, NodeFacts

LEMMA PathFacts ==
  ASSUME NEW y \in Node, NEW x \in Path(y)
  PROVE  /\ x \in Node /\ x[1] = y[1] /\ x[2] = y[2] /\ RootOf(x) = RootOf(y)
         /\ Up(x) \in Path(y) /\ x[3] \in 0 .. y[3] /\ x = Anc(y, x[3])
<1> DEFINE a == Up(y)
           b == Up(a)
           c == Up(b)
<1>1. /\ a \in Node /\ a[1] = y[1] /\ a[2] = y[2] /\ RootOf(a) = RootOf(y)
      /\ y[3] \in 0 .. 3 /\ a[3] = (IF y[3] = 0 THEN 0 ELSE y[3] - 1)
      /\ y[3] = 0 => a = y
  BY UpOfRoot, UpDepth
<1> HIDE DEF a
<1>2. /\ b \in Node /\ b[1] = y[1] /\ b[2] = y[2] /\ RootOf(b) = RootOf(y)
      /\ a[3] \in 0 .. 3 /\ b[3] = (IF a[3] = 0 THEN 0 ELSE a[3] - 1)
      /\ a[3] = 0 => b = a
  BY <1>1, UpOfRoot, UpDepth
<1> HIDE DEF b
<1>3. /\ c \in Node /\ c[1] = y[1] /\ c[2] = y[2] /\ RootOf(c) = RootOf(y)
      /\ b[3] \in 0 .. 3 /\ c[3] = (IF b[3] = 0 THEN 0 ELSE b[3] - 1)
      /\ b[3] = 0 => c = b
  BY <1>2, UpOfRoot, UpDepth
<1> HIDE DEF c
<1>4. c[3] = 0 /\ Up(c) = c
  <2>1. c[3] = 0
    BY <1>1, <1>2, <1>3
  <2> QED
    BY <1>3, <2>1, UpOfRoot
<1>5. Path(y) = {y, a, b, c}
  BY DEF Path, a, b, c
<1>6. \A d : Anc(y, d) = IF y[3] = d THEN y ELSE IF y[3] = d + 1 THEN a
                         ELSE IF y[3] = d + 2 THEN b ELSE c
  BY DEF Anc, a, b, c
<1>7. x = y \/ x = a \/ x = b \/ x = c
  BY <1>5
<1>8. Up(y) = a /\ Up(a) = b /\ Up(b) = c
  BY DEF a, b, c
<1>9. x \in Node /\ x[1] = y[1] /\ x[2] = y[2] /\ RootOf(x) = RootOf(y) /\ Up(x) \in Path(y)
  BY <1>1, <1>2, <1>3, <1>4, <1>5, <1>7, <1>8
<1>10. x[3] \in 0 .. y[3]
  BY <1>1, <1>2, <1>3, <1>4, <1>7
<1>11. x = Anc(y, x[3])
  <2>1. CASE y[3] = 0
    BY <1>1, <1>2, <1>3, <1>6, <1>7, <2>1
  <2>2. CASE y[3] = 1
    BY <1>1, <1>2, <1>3, <1>6, <1>7, <2>2
  <2>3. CASE y[3] = 2
    BY <1>1, <1>2, <1>3, <1>6, <1>7, <2>3
  <2>4. CASE y[3] = 3
    BY <1>1, <1>2, <1>3, <1>6, <1>7, <2>4
  <2> QED
    BY <1>1, <2>1, <2>2, <2>3, <2>4
<1> QED
  BY <1>9, <1>10, <1>11

LEMMA AncFacts ==
  ASSUME NEW y \in Node, NEW d \in 0 .. y[3]
  PROVE  /\ Anc(y, d) \in Path(y) /\ Anc(y, d) \in Node /\ Anc(y, d)[3] = d
         /\ d = y[3] => Anc(y, d) = y
         /\ d > 0 => Up(Anc(y, d)) = Anc(y, d - 1)
<1> DEFINE a == Up(y)
           b == Up(a)
           c == Up(b)
<1>1. /\ a \in Node /\ y[3] \in 0 .. 3 /\ a[3] = (IF y[3] = 0 THEN 0 ELSE y[3] - 1)
  BY UpDepth
<1> HIDE DEF a
<1>2. /\ b \in Node /\ a[3] \in 0 .. 3 /\ b[3] = (IF a[3] = 0 THEN 0 ELSE a[3] - 1)
  BY <1>1, UpDepth
<1> HIDE DEF b
<1>3. /\ c \in Node /\ b[3] \in 0 .. 3 /\ c[3] = (IF b[3] = 0 THEN 0 ELSE b[3] - 1)
  BY <1>2, UpDepth
<1> HIDE DEF c
<1>4. Path(y) = {y, a, b, c}
  BY DEF Path, a, b, c
<1>5. \A e : Anc(y, e) = IF y[3] = e THEN y ELSE IF y[3] = e + 1 THEN a
                         ELSE IF y[3] = e + 2 THEN b ELSE c
  BY DEF Anc, a, b, c
<1>6. Up(y) = a /\ Up(a) = b /\ Up(b) = c
  BY DEF a, b, c
<1>7. d \in 0 .. 3 /\ d <= y[3]
  BY <1>1
<1>8. Anc(y, d)[3] = d /\ Anc(y, d) \in {y, a, b, c} /\ (d = y[3] => Anc(y, d) = y)
  <2>1. CASE y[3] = 0
    BY <1>1, <1>2, <1>3, <1>5, <1>7, <2>1
  <2>2. CASE y[3] = 1
    BY <1>1, <1>2, <1>3, <1>5, <1>7, <2>2
  <2>3. CASE y[3] = 2
    BY <1>1, <1>2, <1>3, <1>5, <1>7, <2>3
  <2>4. CASE y[3] = 3
    BY <1>1, <1>2, <1>3, <1>5, <1>7, <2>4
  <2> QED
    BY <1>1, <2>1, <2>2, <2>3, <2>4
<1>9. ASSUME d > 0 PROVE Up(Anc(y, d)) = Anc(y, d - 1)
  <2>1. CASE y[3] = 1
    BY <1>5, <1>6, <1>7, <1>9, <2>1
  <2>2. CASE y[3] = 2
    BY <1>5, <1>6, <1>7, <1>9, <2>2
  <2>3. CASE y[3] = 3
    BY <1>5, <1>6, <1>7, <1>9, <2>3
  <2> QED
    BY <1>1, <1>7, <1>9, <2>1, <2>2, <2>3
<1> QED
  BY <1>1, <1>2, <1>3, <1>4, <1>8, <1>9

LEMMA RootInPath ==
  ASSUME NEW y \in Node
  PROVE  RootOf(y) \in Path(y) /\ Anc(y, 0) = RootOf(y)
<1>1. 0 \in 0 .. y[3]
  BY NodeFacts
<1> DEFINE r == Anc(y, 0)
<1>2. r \in Path(y) /\ r \in Node /\ r[3] = 0
  BY <1>1, AncFacts
<1> HIDE DEF r
<1>3. RootOf(r) = r /\ RootOf(r) = RootOf(y)
  BY <1>2, RootFacts, PathFacts
<1> QED
  BY <1>2, <1>3 DEF r

LEMMA AncMonotone ==
  ASSUME NEW x \in Node, NEW y \in Node, x[1] = y[1], x[2] = y[2], x[3] = y[3], x[4] <= y[4],
         NEW d \in 0 .. x[3]
  PROVE  Anc(x, d)[4] <= Anc(y, d)[4]
<1>1. ASSUME NEW u \in Node, NEW v \in Node, u[1] = v[1], u[2] = v[2], u[3] = v[3], u[4] <= v[4]
      PROVE  /\ Up(u) \in Node /\ Up(v) \in Node /\ Up(u)[1] = Up(v)[1] /\ Up(u)[2] = Up(v)[2]
             /\ Up(u)[3] = Up(v)[3] /\ Up(u)[4] <= Up(v)[4]
  <2>1. CASE u[3] = 0
    BY <1>1, <2>1, UpOfRoot
  <2>2. CASE u[3] > 0
    <3>1. u[4] \div Per <= v[4] \div Per
      <4>1. u[4] \in Int /\ v[4] \in Int /\ Per \in Nat \ {0}
        BY NodeFacts, Constants
      <4> QED
        BY <1>1, <4>1, DivMonotone
    <3> QED
      BY <1>1, <2>2, <3>1, UpFacts
  <2> QED
    BY <2>1, <2>2, NodeFacts
<1> DEFINE a == Up(x)
           b == Up(y)
           p == Up(a)
           q == Up(b)
           r == Up(p)
           s == Up(q)
<1>2. /\ a \in Node /\ b \in Node /\ a[1] = b[1] /\ a[2] = b[2] /\ a[3] = b[3] /\ a[4] <= b[4]
  BY <1>1
<1> HIDE DEF a, b
<1>3. /\ p \in Node /\ q \in Node /\ p[1] = q[1] /\ p[2] = q[2] /\ p[3] = q[3] /\ p[4] <= q[4]
  BY <1>1, <1>2
<1> HIDE DEF p, q
<1>4. /\ r \in Node /\ s \in Node /\ r[4] <= s[4]
  BY <1>1, <1>3
<1> HIDE DEF r, s
<1>5. Anc(x, d) = (IF x[3] = d THEN x ELSE IF x[3] = d + 1 THEN a
                   ELSE IF x[3] = d + 2 THEN p ELSE r)
  BY DEF Anc, a, p, r
<1>6. Anc(y, d) = (IF y[3] = d THEN y ELSE IF y[3] = d + 1 THEN b
                   ELSE IF y[3] = d + 2 THEN q ELSE s)
  BY DEF Anc, b, q, s
<1> QED
  BY <1>2, <1>3, <1>4, <1>5, <1>6

-----------------------------------------------------------------------------
(* The nodes of the blocks of files                                        *)

(* The node of data block k of a file.                                     *)
Leaf(f, k) == <<f, Level(k), Level(k), Offset(k)>>

(* The nodes of files with n[f] blocks, index blocks included.             *)
Live(n) == {x \in Node : \E k \in 1 .. n[x[1]] : x \in Path(Leaf(x[1], k))}

Counts == [File -> 0 .. Capacity]

LEMMA LeafFacts ==
  ASSUME NEW f \in File, NEW k \in 1 .. Capacity
  PROVE  /\ Leaf(f, k) \in Node /\ Leaf(f, k)[1] = f /\ Leaf(f, k)[2] = Level(k)
         /\ Leaf(f, k)[3] = Level(k) /\ Leaf(f, k)[4] = Offset(k)
<1>1. k \in Nat \ {0} /\ Capacity \in Nat /\ k <= Capacity
  BY Constants
<1>2. /\ Level(k) \in 0 .. 3 /\ Offset(k) \in Nat
      /\ Level(k) = 0 => Offset(k) < NDirect
      /\ Level(k) = 1 => Offset(k) < Per
      /\ Level(k) = 2 => Offset(k) < Per * Per
      /\ Level(k) = 3 => Offset(k) < Per * Per * Per
  BY <1>1, OffsetFacts
<1>3. Level(k) \in 0 .. Level(k)
  BY <1>2
<1>4. Offset(k) < IF Level(k) = 0 THEN NDirect ELSE Width(Level(k))
  <2>1. Level(k) = 0 \/ Level(k) = 1 \/ Level(k) = 2 \/ Level(k) = 3
    BY <1>2
  <2> QED
    BY <1>2, <2>1 DEF Width
<1> QED
  BY <1>2, <1>3, <1>4, NodeMade DEF Leaf

LEMMA LevelOrder ==
  ASSUME NEW j \in Nat \ {0}, NEW k \in Nat \ {0}, j <= k
  PROVE  /\ Level(j) <= Level(k)
         /\ Level(j) = Level(k) => Offset(j) <= Offset(k)
         /\ Level(j) = Level(k) /\ Offset(j) = Offset(k) => j = k
<1>1. /\ NDirect \in Nat /\ Second \in Nat /\ Third \in Nat /\ NDirect < Second
      /\ Second < Third /\ j \in Nat /\ k \in Nat
  BY Constants
<1> QED
  BY <1>1 DEF Level, Offset

LEMMA LevelNext ==
  ASSUME NEW k \in Nat \ {0}
  PROVE  \/ Level(k + 1) = Level(k) /\ Offset(k + 1) = Offset(k) + 1
         \/ Level(k + 1) = Level(k) + 1 /\ Offset(k + 1) = 0
<1>1. /\ NDirect \in Nat \ {0} /\ Second \in Nat /\ Third \in Nat /\ NDirect < Second
      /\ Second < Third /\ k \in Nat /\ k >= 1
  BY Constants
<1> QED
  BY <1>1 DEF Level, Offset

LEMMA LiveFacts ==
  ASSUME NEW n \in Counts, NEW x \in Live(n)
  PROVE  /\ x \in Node /\ x[1] \in File /\ Up(x) \in Live(n) /\ RootOf(x) \in Live(n)
         /\ Path(x) \subseteq Live(n)
<1>1. x \in Node /\ x[1] \in File
  BY NodeFacts DEF Live
<1>2. PICK k \in 1 .. n[x[1]] : x \in Path(Leaf(x[1], k))
  BY DEF Live
<1> DEFINE y == Leaf(x[1], k)
<1>3. k \in 1 .. Capacity
  BY <1>1, Constants DEF Counts
<1>4. y \in Node /\ y[1] = x[1]
  BY <1>1, <1>3, LeafFacts
<1>5. ASSUME NEW z \in Path(y) PROVE z \in Live(n) /\ Up(z) \in Path(y)
  <2>1. z \in Node /\ z[1] = x[1] /\ Up(z) \in Path(y)
    <3> HIDE DEF y
    <3> QED
      BY <1>4, PathFacts
  <2> QED
    BY <1>2, <2>1 DEF Live
<1> DEFINE p == Path(y)
<1>6. \A z \in p : z \in Live(n) /\ Up(z) \in p
  BY <1>5
<1>7. x \in p /\ RootOf(x) \in p
  <2>1. RootOf(x) = RootOf(y)
    <3> HIDE DEF y
    <3> QED
      BY <1>2, <1>4, PathFacts DEF y
  <2> HIDE DEF y
  <2> QED
    BY <1>2, <1>4, <2>1, RootInPath DEF y
<1> HIDE DEF p
<1>8. Up(x) \in p /\ Up(Up(x)) \in p /\ Up(Up(Up(x))) \in p
  BY <1>6, <1>7
<1> QED
  BY <1>1, <1>6, <1>7, <1>8 DEF Path

LEMMA LeafLive ==
  ASSUME NEW n \in Counts, NEW f \in File, NEW k \in 1 .. n[f]
  PROVE  /\ k \in 1 .. Capacity /\ Leaf(f, k) \in Live(n) /\ Path(Leaf(f, k)) \subseteq Live(n)
<1>1. k \in 1 .. Capacity
  BY Constants DEF Counts
<1> DEFINE y == Leaf(f, k)
<1>2. y \in Node /\ y[1] = f
  BY <1>1, LeafFacts
<1>3. y \in Path(y)
  BY DEF Path
<1>4. y \in Live(n)
  BY <1>2, <1>3 DEF Live
<1> HIDE DEF y
<1>5. Path(y) \subseteq Live(n)
  BY <1>4, LiveFacts
<1> QED
  BY <1>1, <1>4, <1>5 DEF y

(* Of the nodes of the next block, those that the file has are nodes of    *)
(* the block before it.                                                    *)
LEMMA LiveLast ==
  ASSUME NEW n \in Counts, NEW f \in File, n[f] < Capacity,
         NEW x \in Path(Leaf(f, n[f] + 1)), x \in Live(n)
  PROVE  /\ n[f] \in 1 .. Capacity /\ x \in Path(Leaf(f, n[f])) /\ x # Leaf(f, n[f] + 1)
         /\ Level(n[f]) = Level(n[f] + 1)
<1> DEFINE k == n[f]
           y == Leaf(f, k + 1)
<1>1. k \in Nat /\ k + 1 \in 1 .. Capacity /\ Capacity \in Nat
  BY Constants DEF Counts
<1>2. y \in Node /\ y[1] = f /\ y[2] = Level(k + 1) /\ y[3] = Level(k + 1)
      /\ y[4] = Offset(k + 1)
  BY <1>1, LeafFacts
<1>3. x \in Node /\ x[1] = f /\ x[2] = Level(k + 1) /\ x[3] \in 0 .. Level(k + 1)
      /\ x = Anc(y, x[3])
  <2> HIDE DEF y
  <2> QED
    BY <1>2, PathFacts DEF y
<1>4. PICK j \in 1 .. k : x \in Path(Leaf(f, j))
  BY <1>3 DEF Live
<1>5. j \in 1 .. Capacity /\ k \in 1 .. Capacity /\ j \in Nat \ {0} /\ k \in Nat \ {0}
      /\ k + 1 \in Nat \ {0} /\ j <= k /\ k <= k + 1 /\ j <= k + 1 /\ j # k + 1
  BY <1>1
<1> DEFINE u == Leaf(f, j)
           v == Leaf(f, k)
           d == x[3]
<1>6. u \in Node /\ u[1] = f /\ u[2] = Level(j) /\ u[3] = Level(j) /\ u[4] = Offset(j)
  BY <1>5, LeafFacts
<1>7. v \in Node /\ v[1] = f /\ v[2] = Level(k) /\ v[3] = Level(k) /\ v[4] = Offset(k)
  BY <1>5, LeafFacts
<1>8. Level(j) = Level(k + 1) /\ x = Anc(u, d)
  <2> HIDE DEF u
  <2> QED
    BY <1>3, <1>4, <1>6, PathFacts DEF u
<1>9. Level(j) <= Level(k) /\ Level(k) <= Level(k + 1) /\ Level(k) \in Int /\ Level(j) \in Int
  <2> DEFINE z == k + 1
  <2>1. z \in Nat \ {0} /\ k \in Nat \ {0} /\ j \in Nat \ {0} /\ k <= z /\ j <= k
    BY <1>5
  <2> HIDE DEF z, k
  <2>2. Level(j) <= Level(k) /\ Level(k) <= Level(z)
    BY <2>1, LevelOrder
  <2>3. Level(j) \in 0 .. 3 /\ Level(k) \in 0 .. 3
    BY <2>1, OffsetFacts
  <2> QED
    BY <2>2, <2>3 DEF z
<1>10. Level(k) = Level(k + 1) /\ Level(j) = Level(k)
  BY <1>8, <1>9
<1>11. Offset(j) <= Offset(k) /\ Offset(k) <= Offset(k + 1)
  <2> DEFINE z == k + 1
  <2>1. z \in Nat \ {0} /\ k \in Nat \ {0} /\ j \in Nat \ {0} /\ k <= z /\ j <= k
        /\ Level(k) = Level(z) /\ Level(j) = Level(k)
    BY <1>5, <1>10
  <2> HIDE DEF z, k
  <2>2. Offset(j) <= Offset(k) /\ Offset(k) <= Offset(z)
    BY <2>1, LevelOrder
  <2> QED
    BY <2>2 DEF z
<1>12. d \in 0 .. u[3] /\ d \in 0 .. v[3] /\ d \in 0 .. y[3]
  BY <1>2, <1>3, <1>6, <1>7, <1>10
<1> HIDE DEF u, v, y
<1>13. Anc(u, d)[4] <= Anc(v, d)[4]
  BY <1>6, <1>7, <1>10, <1>11, <1>12, AncMonotone
<1>14. Anc(v, d)[4] <= Anc(y, d)[4]
  BY <1>2, <1>7, <1>10, <1>11, <1>12, AncMonotone
<1> DEFINE z == Anc(v, d)
<1>15. z \in Path(v) /\ z \in Node /\ z[3] = d
  BY <1>7, <1>12, AncFacts
<1> HIDE DEF z
<1>16. z[1] = f /\ z[2] = Level(k)
  BY <1>7, <1>15, PathFacts
<1>17. x[4] <= z[4] /\ z[4] <= x[4]
  BY <1>3, <1>8, <1>13, <1>14 DEF z
<1>18. x = z
  <2>1. x[4] \in Nat /\ z[4] \in Nat /\ x = <<x[1], x[2], x[3], x[4]>>
        /\ z = <<z[1], z[2], z[3], z[4]>>
    BY <1>3, <1>15, NodeFacts
  <2> QED
    BY <1>3, <1>10, <1>15, <1>16, <1>17, <2>1
<1>19. x # y
  <2> SUFFICES ASSUME x = y PROVE FALSE
    OBVIOUS
  <2>1. d = u[3]
    BY <1>2, <1>6, <1>8
  <2>2. x = u
    BY <1>6, <1>8, <1>12, <2>1, AncFacts
  <2>3. Offset(j) = Offset(k + 1)
    BY <1>2, <1>6, <2>2
  <2> QED
    BY <1>5, <1>8, <2>3, LevelOrder
<1> QED
  BY <1>5, <1>10, <1>15, <1>18, <1>19 DEF v, y

(* A file gets one more block, or one less.                                *)
LEMMA LiveMore ==
  ASSUME NEW n \in Counts, NEW f \in File, n[f] < Capacity
  PROVE  /\ [n EXCEPT ![f] = n[f] + 1] \in Counts
         /\ Live([n EXCEPT ![f] = n[f] + 1]) = Live(n) \cup Path(Leaf(f, n[f] + 1))
<1> DEFINE m == [n EXCEPT ![f] = n[f] + 1]
           y == Leaf(f, n[f] + 1)
<1>1. n[f] \in Nat /\ n[f] + 1 \in 1 .. Capacity /\ Capacity \in Nat
  BY Constants DEF Counts
<1>2. m \in Counts /\ m[f] = n[f] + 1 /\ \A g \in File : g # f => m[g] = n[g]
  BY <1>1 DEF Counts
<1> HIDE DEF m
<1>3. y \in Node /\ y[1] = f
  BY <1>1, LeafFacts
<1>4. ASSUME NEW x \in Live(n) PROVE x \in Live(m)
  <2>1. PICK k \in 1 .. n[x[1]] : x \in Path(Leaf(x[1], k))
    BY DEF Live
  <2>2. x \in Node /\ x[1] \in File
    BY LiveFacts
  <2>3. k \in 1 .. m[x[1]]
    BY <1>1, <1>2, <2>2
  <2> QED
    BY <2>1, <2>2, <2>3 DEF Live
<1>5. ASSUME NEW x \in Path(y) PROVE x \in Live(m)
  <2>1. x \in Node /\ x[1] = f
    <3> HIDE DEF y
    <3> QED
      BY <1>3, PathFacts
  <2>2. n[f] + 1 \in 1 .. m[f]
    BY <1>1, <1>2
  <2> QED
    BY <2>1, <2>2 DEF Live
<1>6. ASSUME NEW x \in Live(m), x \notin Live(n) PROVE x \in Path(y)
  <2>1. x \in Node /\ x[1] \in File
    BY <1>2, LiveFacts
  <2>2. PICK k \in 1 .. m[x[1]] : x \in Path(Leaf(x[1], k))
    BY DEF Live
  <2>3. k \notin 1 .. n[x[1]]
    BY <1>6, <2>1, <2>2 DEF Live
  <2>4. x[1] = f
    BY <1>2, <2>1, <2>2, <2>3
  <2>5. k = n[f] + 1
    BY <1>1, <1>2, <2>2, <2>3, <2>4
  <2> QED
    BY <2>2, <2>4, <2>5
<1> QED
  BY <1>2, <1>4, <1>5, <1>6 DEF m

-----------------------------------------------------------------------------
(* Trees in the blocks                                                     *)

Ref == {0} \cup DataBlock

LEMMA RefFacts ==
  /\ DataBlock \in SUBSET (Nat \ {0}) /\ 0 \notin DataBlock
  /\ \A blk \in Ref : Sane(blk) <=> blk # 0
  /\ \A blk \in Ref : blk # 0 => blk \in DataBlock
  /\ 0 .. Per - 1 \subseteq Cell
<1>1. Start \in Nat \ {0} /\ Volume \in Nat
  BY MapAssumption
<1>2. \A blk \in DataBlock : blk \in Nat \ {0} /\ Sane(blk)
  BY <1>1 DEF DataBlock, Sane
<1>3. ~ Sane(0)
  BY <1>1 DEF Sane
<1>4. 0 .. Per - 1 \subseteq Cell
  BY Constants DEF Cell
<1> QED
  BY <1>2, <1>3, <1>4 DEF Ref

(* The numbers of blocks are kept where the nodes say: those of depth 0 in *)
(* the inode, the others in the node above, and each number there is of a  *)
(* node.                                                                   *)
Kept(w, L, A, disk0) ==
  /\ \A x \in L : x[3] = 0 => w[x] = A[x[1]][SlotOf(x)]
  /\ \A x \in L : x[3] > 0 => Up(x) \in L /\ disk0[w[Up(x)]][Ent(x)] = w[x]
  /\ \A x \in L : x[3] < x[2] =>
       \A n \in 0 .. Per - 1 : disk0[w[x]][n] # 0 => Child(x, n) \in L

(* The blocks that are free are of no node, and each is free once.         *)
Spare(w, L, free0) ==
  /\ \A i \in 1 .. Len(free0) : \A x \in L : free0[i] # w[x]
  /\ \A i, j \in 1 .. Len(free0) : free0[i] = free0[j] => i = j

(* The blocks w of the nodes L make up trees.                              *)
Fits(w, L, A, disk0, free0) ==
  /\ L \in SUBSET Node /\ w \in [L -> DataBlock]
  /\ \A x, y \in L : w[x] = w[y] => x = y
  /\ Kept(w, L, A, disk0)
  /\ Spare(w, L, free0)

(* Nodes are cut off, and all that is below them.                          *)
LEMMA FitsCut ==
  ASSUME NEW w, NEW L, NEW A, NEW disk0, NEW free0, Fits(w, L, A, disk0, free0),
         NEW C, \A x \in L \ C : x[3] > 0 => Up(x) \notin C,
         NEW A2, \A x \in L \ C : x[3] = 0 => A2[x[1]][SlotOf(x)] = A[x[1]][SlotOf(x)],
         NEW disk2,
         \A x \in L \ C : x[3] < x[2] => \A n \in 0 .. Per - 1 :
           disk2[w[x]][n] = IF Child(x, n) \in C THEN 0 ELSE disk0[w[x]][n]
  PROVE  Fits([x \in L \ C |-> w[x]], L \ C, A2, disk2, free0)
<1> DEFINE K == L \ C
           v == [x \in K |-> w[x]]
<1>1. K \in SUBSET Node /\ v \in [K -> DataBlock] /\ \A x \in K : x \in L /\ v[x] = w[x]
  BY DEF Fits
<1>2. \A x, y \in K : v[x] = v[y] => x = y
  BY DEF Fits
<1>3. Spare(v, K, free0)
  BY DEF Fits, Spare
<1>4. ASSUME NEW x \in K, x[3] = 0 PROVE v[x] = A2[x[1]][SlotOf(x)]
  BY <1>4 DEF Fits, Kept
<1>5. ASSUME NEW x \in K, x[3] > 0 PROVE Up(x) \in K /\ disk2[v[Up(x)]][Ent(x)] = v[x]
  <2>1. Up(x) \in L /\ disk0[w[Up(x)]][Ent(x)] = w[x]
    BY <1>1, <1>5 DEF Fits, Kept
  <2>2. Up(x) \in K
    BY <1>5, <2>1
  <2>3. Up(x)[3] < Up(x)[2] /\ Ent(x) \in 0 .. Per - 1 /\ Child(Up(x), Ent(x)) = x
    BY <1>1, <1>5, UpFacts
  <2>4. disk2[w[Up(x)]][Ent(x)] = disk0[w[Up(x)]][Ent(x)]
    BY <2>2, <2>3
  <2> QED
    BY <2>1, <2>2, <2>4
<1>6. ASSUME NEW x \in K, x[3] < x[2], NEW n \in 0 .. Per - 1, disk2[v[x]][n] # 0
      PROVE  Child(x, n) \in K
  <2>1. x \in L /\ v[x] = w[x]
    BY <1>1
  <2>2. Child(x, n) \notin C /\ disk0[w[x]][n] # 0
    BY <1>6, <2>1
  <2>3. Child(x, n) \in L
    BY <1>6, <2>1, <2>2 DEF Fits, Kept
  <2> QED
    BY <2>2, <2>3
<1>7. Kept(v, K, A2, disk2)
  <2> HIDE DEF K, v
  <2> QED
    BY <1>4, <1>5, <1>6 DEF Kept
<1> QED
  BY <1>1, <1>2, <1>3, <1>7 DEF Fits

(* The entries and the numbers in the inode that the nodes use are as they *)
(* were.                                                                   *)
LEMMA FitsFrame ==
  ASSUME NEW w, NEW L, NEW A, NEW disk0, NEW free0, Fits(w, L, A, disk0, free0),
         NEW A2, \A x \in L : x[3] = 0 => A2[x[1]][SlotOf(x)] = A[x[1]][SlotOf(x)],
         NEW disk2,
         \A x \in L : x[3] < x[2] => \A n \in 0 .. Per - 1 : disk2[w[x]][n] = disk0[w[x]][n]
  PROVE  Fits(w, L, A2, disk2, free0)
<1>1. L \in SUBSET Node /\ w \in [L -> DataBlock]
  BY DEF Fits
<1>2. \A x \in L : x[3] = 0 => w[x] = A2[x[1]][SlotOf(x)]
  BY DEF Fits, Kept
<1>3. ASSUME NEW x \in L, x[3] > 0 PROVE Up(x) \in L /\ disk2[w[Up(x)]][Ent(x)] = w[x]
  <2>1. Up(x) \in L /\ disk0[w[Up(x)]][Ent(x)] = w[x]
    BY <1>3 DEF Fits, Kept
  <2>2. Up(x)[3] < Up(x)[2] /\ Ent(x) \in 0 .. Per - 1
    BY <1>1, <1>3, UpFacts
  <2> QED
    BY <2>1, <2>2
<1>4. \A x \in L : x[3] < x[2] =>
        \A n \in 0 .. Per - 1 : disk2[w[x]][n] # 0 => Child(x, n) \in L
  BY DEF Fits, Kept
<1>5. Kept(w, L, A2, disk2)
  BY <1>2, <1>3, <1>4 DEF Kept
<1> QED
  BY <1>5 DEF Fits

(* A block that is of no node and not free becomes node y.                 *)
Hangs(w, L, A, A2, disk0, disk2, free0, y, blk) ==
  /\ y \in Node /\ y \notin L /\ blk \in DataBlock
  /\ \A x \in L : w[x] # blk
  /\ \A i \in 1 .. Len(free0) : free0[i] # blk
  /\ y[3] > 0 => Up(y) \in L
  /\ \A x \in L : x[3] = 0 => A2[x[1]][SlotOf(x)] = A[x[1]][SlotOf(x)]
  /\ y[3] = 0 => A2[y[1]][SlotOf(y)] = blk
  /\ \A x \in L : x[3] < x[2] => \A n \in 0 .. Per - 1 :
       disk2[w[x]][n] = IF Child(x, n) = y THEN blk ELSE disk0[w[x]][n]
  /\ y[3] < y[2] => \A n \in 0 .. Per - 1 : disk2[blk][n] = 0

Extended(v, w, L, y, blk) ==
  v \in [L \cup {y} -> DataBlock] /\ v[y] = blk /\ \A x \in L : v[x] = w[x]

LEMMA FitsHang ==
  ASSUME NEW w, NEW L, NEW A, NEW disk0, NEW free0, Fits(w, L, A, disk0, free0),
         NEW A2, NEW disk2, NEW y, NEW blk, Hangs(w, L, A, A2, disk0, disk2, free0, y, blk),
         NEW v, Extended(v, w, L, y, blk)
  PROVE  Fits(v, L \cup {y}, A2, disk2, free0)
<1> DEFINE K == L \cup {y}
<1> USE DEF Hangs, Extended
<1>1. L \in SUBSET Node /\ w \in [L -> DataBlock]
  BY DEF Fits
<1>2. K \in SUBSET Node /\ v \in [K -> DataBlock] /\ v[y] = blk /\ y \in K
      /\ \A x \in L : v[x] = w[x] /\ x \in K
  BY <1>1
<1>3. \A x \in K : x \in L \/ x = y
  OBVIOUS
<1> HIDE DEF K
<1>4. \A x, z \in K : v[x] = v[z] => x = z
  BY <1>2, <1>3 DEF Fits
<1>5. Spare(v, K, free0)
  BY <1>2, <1>3 DEF Fits, Spare
<1>6. \A x \in K : x[3] = 0 => v[x] = A2[x[1]][SlotOf(x)]
  BY <1>2, <1>3 DEF Fits, Kept
<1>7. ASSUME NEW x \in K, x[3] > 0 PROVE Up(x) \in K /\ disk2[v[Up(x)]][Ent(x)] = v[x]
  <2>1. Up(x)[3] < Up(x)[2] /\ Ent(x) \in 0 .. Per - 1 /\ Child(Up(x), Ent(x)) = x
    BY <1>2, <1>7, UpFacts
  <2>2. CASE x = y
    BY <1>2, <1>7, <2>1, <2>2
  <2>3. CASE x \in L /\ x # y
    <3>1. Up(x) \in L /\ disk0[w[Up(x)]][Ent(x)] = w[x]
      BY <1>7, <2>3 DEF Fits, Kept
    <3>2. disk2[w[Up(x)]][Ent(x)] = disk0[w[Up(x)]][Ent(x)]
      BY <2>1, <2>3, <3>1
    <3> QED
      BY <1>2, <2>3, <3>1, <3>2
  <2> QED
    BY <1>3, <2>2, <2>3
<1>8. ASSUME NEW x \in K, x[3] < x[2], NEW n \in 0 .. Per - 1, disk2[v[x]][n] # 0
      PROVE  Child(x, n) \in K
  <2>1. x # y
    BY <1>2, <1>8
  <2>2. x \in L /\ v[x] = w[x]
    BY <1>2, <1>3, <2>1
  <2>3. CASE Child(x, n) = y
    BY <1>2, <2>3
  <2>4. CASE Child(x, n) # y
    <3>1. disk0[w[x]][n] # 0
      BY <1>8, <2>2, <2>4
    <3> QED
      BY <1>2, <1>8, <2>2, <3>1 DEF Fits, Kept
  <2> QED
    BY <2>3, <2>4
<1>9. Kept(v, K, A2, disk2)
  BY <1>6, <1>7, <1>8 DEF Kept
<1>10. Fits(v, K, A2, disk2, free0)
  BY <1>2, <1>4, <1>5, <1>9 DEF Fits
<1> QED
  BY <1>10 DEF K

(* The last block of the free list.                                        *)
LEMMA FitsTake ==
  ASSUME NEW w, NEW L, NEW A, NEW disk0, NEW free0 \in Seq(DataBlock), free0 # << >>,
         Fits(w, L, A, disk0, free0)
  PROVE  /\ Last(free0) \in DataBlock /\ Front(free0) \in Seq(DataBlock)
         /\ Fits(w, L, A, disk0, Front(free0))
         /\ \A x \in L : w[x] # Last(free0)
         /\ \A i \in 1 .. Len(Front(free0)) : Front(free0)[i] # Last(free0)
<1> DEFINE b == Last(free0)
           g == Front(free0)
<1>1. Len(free0) \in Nat /\ Len(free0) >= 1
  BY EmptySeq, LenProperties
<1>2. b \in DataBlock /\ b = free0[Len(free0)]
  BY <1>1, ElementOfSeq DEF Last
<1>3. /\ g \in Seq(DataBlock) /\ Len(g) = Len(free0) - 1
      /\ \A i \in 1 .. Len(g) : g[i] = free0[i]
  <2>1. 1 \in 1 .. Len(free0) + 1 /\ Len(free0) - 1 \in 1 - 1 .. Len(free0)
    BY <1>1
  <2>2. g = SubSeq(free0, 1, Len(free0) - 1)
    BY DEF Front
  <2> HIDE DEF g
  <2>3. /\ g \in Seq(DataBlock)
        /\ Len(g) = IF 1 <= Len(free0) - 1 THEN (Len(free0) - 1) - 1 + 1 ELSE 0
        /\ \A i \in 1 .. (Len(free0) - 1) - 1 + 1 : g[i] = free0[1 + i - 1]
    BY <2>1, <2>2, SubSeqProperties
  <2>4. Len(g) = Len(free0) - 1
    <3> DEFINE k == Len(free0)
               l == Len(g)
    <3>1. k \in Nat /\ k >= 1 /\ l = IF 1 <= k - 1 THEN (k - 1) - 1 + 1 ELSE 0
      BY <1>1, <2>3
    <3> HIDE DEF k, l
    <3>2. l = k - 1
      BY <3>1
    <3> QED
      BY <3>2 DEF k, l
  <2>5. (Len(free0) - 1) - 1 + 1 = Len(g) /\ \A i \in 1 .. Len(g) : 1 + i - 1 = i
    BY <1>1, <2>4
  <2> QED
    BY <2>3, <2>4, <2>5
<1> HIDE DEF b, g
<1>4. \A i \in 1 .. Len(g) : i \in 1 .. Len(free0) /\ i # Len(free0) /\ g[i] = free0[i]
  BY <1>1, <1>3
<1>5. Len(free0) \in 1 .. Len(free0)
  BY <1>1
<1>6. Fits(w, L, A, disk0, g)
  BY <1>4 DEF Fits, Spare
<1>7. \A x \in L : w[x] # b
  BY <1>2, <1>5 DEF Fits, Spare
<1>8. \A i \in 1 .. Len(g) : g[i] # b
  BY <1>2, <1>4, <1>5 DEF Fits, Spare
<1> QED
  BY <1>2, <1>3, <1>6, <1>7, <1>8 DEF b, g

LEMMA FitsGive ==
  ASSUME NEW w, NEW L, NEW A, NEW disk0, NEW free0 \in Seq(DataBlock),
         Fits(w, L, A, disk0, free0),
         NEW blk \in DataBlock, \A x \in L : w[x] # blk,
         \A i \in 1 .. Len(free0) : free0[i] # blk
  PROVE  /\ Append(free0, blk) \in Seq(DataBlock)
         /\ Fits(w, L, A, disk0, Append(free0, blk))
         /\ \A i \in 1 .. Len(Append(free0, blk)) :
              Append(free0, blk)[i] = blk \/ \E j \in 1 .. Len(free0) : Append(free0, blk)[i] = free0[j]
<1> DEFINE g == Append(free0, blk)
<1>1. Len(free0) \in Nat
  BY LenProperties
<1>2. /\ g \in Seq(DataBlock) /\ Len(g) = Len(free0) + 1
      /\ \A i \in 1 .. Len(free0) : g[i] = free0[i]
      /\ g[Len(free0) + 1] = blk
  BY AppendProperties
<1> HIDE DEF g
<1>3. \A i \in 1 .. Len(g) : \/ i = Len(free0) + 1 /\ g[i] = blk
                             \/ i \in 1 .. Len(free0) /\ g[i] = free0[i]
  BY <1>1, <1>2
<1>4. Spare(w, L, g)
  BY <1>3 DEF Fits, Spare
<1>5. Fits(w, L, A, disk0, g)
  BY <1>4 DEF Fits
<1> QED
  BY <1>2, <1>3, <1>5 DEF g

-----------------------------------------------------------------------------
(* The functions of the map, on trees                                      *)

(* What the functions take and return.                                     *)
Errors == {"ok", "ENOSPC", "EIO", "undefined"}
Rec ==
  [size : 0 .. Word - 1, addr : [Slot -> Ref],
   saved : [size : 0 .. Word - 1, addr : [Slot -> Ref]],
   free : Seq(DataBlock), disk : [DataBlock -> [Cell -> Ref]],
   bad : Bad \cup {0}, blk : Ref, error : Errors]

(* They leave the inode, but for its numbers of blocks.                    *)
SameCall(r, m) == r \in Rec /\ r.size = m.size /\ r.saved = m.saved /\ r.bad = m.bad
SameInode(r, m) == SameCall(r, m) /\ r.addr = m.addr

LEMMA ZerosFacts == Zeros \in [Cell -> Ref] /\ \A n \in 0 .. Per - 1 : Zeros[n] = 0
  BY RefFacts DEF Zeros, Ref

LEMMA LinkType ==
  ASSUME NEW m \in Rec, NEW list \in Ref, NEW n \in 0 .. Per - 1
  PROVE  /\ Link(m, list, n) \in Ref
         /\ Link(m, list, n) # 0 => list # 0 /\ list # m.bad /\ Link(m, list, n) = m.disk[list][n]
<1>1. list # 0 => list \in DataBlock /\ m.disk[list][n] \in Ref
  <2>1. list # 0 => list \in DataBlock
    BY RefFacts
  <2>2. m.disk \in [DataBlock -> [Cell -> Ref]] /\ n \in Cell
    BY RefFacts DEF Rec
  <2> QED
    BY <2>1, <2>2
<1> QED
  BY <1>1, RefFacts DEF Link, Ref

(* The block of the node below, or none.                                   *)
LEMMA LinkNode ==
  ASSUME NEW m \in Rec, NEW w, NEW L, NEW A, Fits(w, L, A, m.disk, m.free),
         NEW p \in L, p[3] < p[2], NEW n \in 0 .. Per - 1
  PROVE  LET z == Link(m, w[p], n)
         IN  /\ z \in Ref /\ w[p] \in Ref
             /\ z # 0 => Child(p, n) \in L /\ w[Child(p, n)] = z
             /\ Child(p, n) \in L /\ w[p] # m.bad => z = w[Child(p, n)]
<1> DEFINE z == Link(m, w[p], n)
           c == Child(p, n)
<1>1. w[p] \in Ref /\ w[p] # 0 /\ w[p] \in DataBlock /\ L \in SUBSET Node
  BY RefFacts DEF Fits, Ref
<1>2. z \in Ref /\ (z # 0 => z = m.disk[w[p]][n])
  BY <1>1, LinkType
<1>3. /\ c \in Node /\ Up(c) = p /\ Ent(c) = n /\ c[3] > 0
  BY <1>1, ChildFacts
<1>4. c \in L => m.disk[w[p]][n] = w[c]
  <2> HIDE DEF c
  <2> QED
    BY <1>3 DEF Fits, Kept
<1>5. m.disk[w[p]][n] # 0 => c \in L
  BY DEF Fits, Kept
<1>6. ASSUME c \in L, w[p] # m.bad PROVE z = w[c]
  <2>1. w[c] \in DataBlock
    BY <1>6 DEF Fits
  <2> QED
    BY <1>1, <1>4, <1>6, <2>1, RefFacts DEF Link, Ref
<1> QED
  BY <1>1, <1>2, <1>4, <1>5, <1>6

LEMMA AllocateFacts ==
  ASSUME NEW m \in Rec
  PROVE  LET r == Allocate(m)
             b == Last(m.free)
         IN  /\ SameInode(r, m)
             /\ \/ m.free = << >> /\ r.blk = 0 /\ r.error = "ENOSPC" /\ r.free = m.free
                   /\ r.disk = m.disk
                \/ m.free # << >> /\ r.blk = 0 /\ r.error = "EIO" /\ r.free = Front(m.free)
                   /\ r.disk = m.disk
                \/ m.free # << >> /\ r.blk = b /\ r.error = m.error /\ r.free = Front(m.free)
                   /\ b \in DataBlock /\ b # m.bad /\ r.disk = [m.disk EXCEPT ![b] = Zeros]
<1> DEFINE r == Allocate(m)
           b == Last(m.free)
<1>1. m.free \in Seq(DataBlock) /\ m.disk \in [DataBlock -> [Cell -> Ref]]
  BY DEF Rec
<1>2. ASSUME m.free # << >> PROVE b \in DataBlock /\ Front(m.free) \in Seq(DataBlock)
  <2>1. Len(m.free) \in Nat /\ Len(m.free) >= 1
    BY <1>1, <1>2, EmptySeq, LenProperties
  <2> QED
    BY <1>1, <2>1, ElementOfSeq DEF Last, Front
<1>3. 0 \in Ref /\ DataBlock \subseteq Ref /\ {"ENOSPC", "EIO"} \subseteq Errors
  BY DEF Ref, Errors
<1>4. CASE m.free = << >>
  <2>1. r = [m EXCEPT !.blk = 0, !.error = "ENOSPC"]
    BY <1>4 DEF Allocate
  <2> HIDE DEF r
  <2>2. SameInode(r, m) /\ r.blk = 0 /\ r.error = "ENOSPC" /\ r.free = m.free /\ r.disk = m.disk
    BY <1>3, <2>1 DEF Rec, SameInode, SameCall
  <2> QED
    BY <1>4, <2>2 DEF r
<1>5. CASE m.free # << >> /\ b = m.bad
  <2>1. r = [m EXCEPT !.free = Front(m.free), !.blk = 0, !.error = "EIO"]
    BY <1>5 DEF Allocate, Rec
  <2> HIDE DEF r
  <2>2. SameInode(r, m) /\ r.blk = 0 /\ r.error = "EIO" /\ r.free = Front(m.free)
        /\ r.disk = m.disk
    BY <1>2, <1>3, <1>5, <2>1 DEF Rec, SameInode, SameCall
  <2> QED
    BY <1>5, <2>2 DEF r
<1>6. CASE m.free # << >> /\ b # m.bad
  <2>1. r = [m EXCEPT !.free = Front(m.free), !.blk = b, !.disk[b] = Zeros]
    BY <1>6 DEF Allocate, Rec
  <2> DEFINE d == [m.disk EXCEPT ![b] = Zeros]
  <2>2. d \in [DataBlock -> [Cell -> Ref]] /\ b \in DataBlock
    BY <1>1, <1>2, <1>6, ZerosFacts
  <2>3. r = [m EXCEPT !.free = Front(m.free), !.blk = b, !.disk = d]
    BY <2>1 DEF Rec
  <2> HIDE DEF r, d, b
  <2>4. SameInode(r, m) /\ r.blk = b /\ r.error = m.error /\ r.free = Front(m.free)
        /\ r.disk = d
    BY <1>2, <1>3, <1>6, <2>2, <2>3 DEF Rec, SameInode, SameCall
  <2> QED
    BY <1>6, <2>2, <2>4 DEF d, b, r
<1> QED
  BY <1>4, <1>5, <1>6

(* A block for a new node.                                                 *)
NewBlock(a, m, w, L) ==
  /\ a.blk \in DataBlock /\ a.blk # m.bad /\ a.disk[a.blk] = Zeros
  /\ \A x \in L : w[x] # a.blk
  /\ \A i \in 1 .. Len(a.free) : a.free[i] # a.blk
  /\ \A x \in L : a.disk[w[x]] = m.disk[w[x]]

LEMMA Allocated ==
  ASSUME NEW m \in Rec, m.error = "ok", NEW w, NEW L, NEW A, Fits(w, L, A, m.disk, m.free)
  PROVE  LET r == Allocate(m)
         IN  /\ SameInode(r, m) /\ Fits(w, L, A, r.disk, r.free)
             /\ r.error # "ok" => r.blk = 0
             /\ r.error = "ok" => NewBlock(r, m, w, L)
<1> DEFINE r == Allocate(m)
           b == Last(m.free)
<1>1. m.free \in Seq(DataBlock) /\ m.disk \in [DataBlock -> [Cell -> Ref]]
  BY DEF Rec
<1>2. /\ SameInode(r, m)
      /\ \/ m.free = << >> /\ r.blk = 0 /\ r.error = "ENOSPC" /\ r.free = m.free
            /\ r.disk = m.disk
         \/ m.free # << >> /\ r.blk = 0 /\ r.error = "EIO" /\ r.free = Front(m.free)
            /\ r.disk = m.disk
         \/ m.free # << >> /\ r.blk = b /\ r.error = m.error /\ r.free = Front(m.free)
            /\ b \in DataBlock /\ b # m.bad /\ r.disk = [m.disk EXCEPT ![b] = Zeros]
  BY AllocateFacts
<1> HIDE DEF r, b
<1>3. ASSUME m.free # << >>
      PROVE  /\ Fits(w, L, A, m.disk, Front(m.free))
             /\ \A x \in L : w[x] # b
             /\ \A i \in 1 .. Len(Front(m.free)) : Front(m.free)[i] # b
  BY <1>1, <1>3, FitsTake DEF b
<1>4. CASE r.error # "ok"
  BY <1>2, <1>3, <1>4 DEF r
<1>5. CASE r.error = "ok"
  <2>1. m.free # << >> /\ r.blk = b /\ r.free = Front(m.free) /\ b \in DataBlock /\ b # m.bad
        /\ r.disk = [m.disk EXCEPT ![b] = Zeros]
    BY <1>2, <1>5
  <2>2. r.disk[b] = Zeros /\ \A x \in L : r.disk[w[x]] = m.disk[w[x]]
    <3>1. \A x \in L : w[x] \in DataBlock /\ w[x] # b
      BY <1>3, <2>1 DEF Fits
    <3> QED
      BY <1>1, <2>1, <3>1
  <2>3. Fits(w, L, A, r.disk, r.free)
    <3>1. Fits(w, L, A, m.disk, r.free)
      BY <1>3, <2>1
    <3>2. \A x \in L : x[3] < x[2] => \A n \in 0 .. Per - 1 : r.disk[w[x]][n] = m.disk[w[x]][n]
      BY <2>2
    <3> QED
      BY <3>1, <3>2, FitsFrame
  <2> QED
    BY <1>2, <1>3, <1>5, <2>1, <2>2, <2>3 DEF r, NewBlock
<1> QED
  BY <1>4, <1>5 DEF r

(* A node that is not a leaf, and an entry of its block.                   *)
Entered(m, w, L, A, p, n) ==
  /\ m \in Rec /\ Fits(w, L, A, m.disk, m.free)
  /\ p \in L /\ p[3] < p[2] /\ n \in 0 .. Per - 1

LEMMA LinkEntered ==
  ASSUME NEW m, NEW w, NEW L, NEW A, NEW p, NEW n, Entered(m, w, L, A, p, n)
  PROVE  Link(m, w[p], n) # 0 => Child(p, n) \in L /\ w[Child(p, n)] = Link(m, w[p], n)
  BY LinkNode DEF Entered

LEMMA PathUp ==
  ASSUME NEW x \in Node
  PROVE  Path(Up(x)) \subseteq Path(x) /\ x \in Path(x) /\ Path(x) \subseteq {x} \cup Path(Up(x))
<1>1. ASSUME NEW z \in Path(x) PROVE Up(z) \in Path(x)
  BY <1>1, PathFacts
<1>2. x \in Path(x) /\ Up(x) \in Path(x) /\ Up(Up(x)) \in Path(x) /\ Up(Up(Up(x))) \in Path(x)
  BY DEF Path
<1>3. Up(Up(Up(Up(x)))) \in Path(x)
  BY <1>1, <1>2
<1> QED
  BY <1>2, <1>3 DEF Path

(* One entry of an index block is written.                                 *)
LEMMA EntryWritten ==
  ASSUME NEW disk0 \in [DataBlock -> [Cell -> Ref]], NEW up \in DataBlock,
         NEW n \in 0 .. Per - 1, NEW z \in Ref
  PROVE  /\ [disk0 EXCEPT ![up][n] = z] \in [DataBlock -> [Cell -> Ref]]
         /\ \A blk \in DataBlock : \A i \in 0 .. Per - 1 :
              [disk0 EXCEPT ![up][n] = z][blk][i] =
                IF blk = up /\ i = n THEN z ELSE disk0[blk][i]
         /\ \A blk \in DataBlock : blk # up => [disk0 EXCEPT ![up][n] = z][blk] = disk0[blk]
<1>1. 0 .. Per - 1 \subseteq Cell
  BY RefFacts
<1> QED
  BY <1>1

(* The entry that names a node is cleared.                                 *)
LEMMA CutAt ==
  ASSUME NEW w, NEW L, NEW A, NEW disk0, NEW free0, Fits(w, L, A, disk0, free0),
         NEW y \in Node, NEW disk2,
         \A x \in L : x[3] < x[2] => \A n \in 0 .. Per - 1 :
           disk2[w[x]][n] = IF Child(x, n) = y THEN 0 ELSE disk0[w[x]][n]
  PROVE  LET K == {x \in L : y \notin Path(x)}
         IN  Fits([x \in K |-> w[x]], K, A, disk2, free0)
<1> DEFINE K == {x \in L : y \notin Path(x)}
           C == {x \in L : y \in Path(x)}
<1>1. L \in SUBSET Node /\ L \ C = K
  BY DEF Fits
<1>2. ASSUME NEW x \in L \ C, x[3] > 0 PROVE Up(x) \notin C
  <2>1. Path(Up(x)) \subseteq Path(x)
    BY <1>1, PathUp
  <2> QED
    BY <2>1
<1>3. ASSUME NEW x \in L \ C, x[3] < x[2], NEW n \in 0 .. Per - 1
      PROVE  disk2[w[x]][n] = IF Child(x, n) \in C THEN 0 ELSE disk0[w[x]][n]
  <2> DEFINE c == Child(x, n)
  <2>1. x \in Node /\ c \in Node /\ Up(c) = x
    BY <1>1, <1>3, ChildFacts
  <2>2. disk2[w[x]][n] = IF c = y THEN 0 ELSE disk0[w[x]][n]
    BY <1>3
  <2>3. disk0[w[x]][n] # 0 => c \in L
    BY <1>3 DEF Fits, Kept
  <2> HIDE DEF c
  <2>4. c \in Path(c) /\ Path(c) \subseteq {c} \cup Path(x)
    BY <2>1, PathUp
  <2>5. c \in C <=> c \in L /\ c = y
    BY <2>4
  <2> QED
    BY <2>2, <2>3, <2>5 DEF c
<1> HIDE DEF K, C
<1>4. Fits([x \in L \ C |-> w[x]], L \ C, A, disk2, free0)
  BY <1>2, <1>3, FitsCut
<1> QED
  BY <1>1, <1>4 DEF K

(* Nodes that a function must leave, with all above them.                  *)
Closed(Stay, L) == Stay \subseteq L /\ \A x \in Stay : Path(x) \subseteq Stay

(* A leaf is added below a node.                                           *)
LEMMA LeafAdded ==
  ASSUME NEW m, m.error = "ok", NEW w, NEW L, NEW A, NEW p, NEW n, Entered(m, w, L, A, p, n),
         NEW Stay, Closed(Stay, L), Child(p, n) \notin Stay
  PROVE  LET r == AddLeaf(m, w[p], n)
         IN  /\ SameInode(r, m) /\ r.error = "ok"
             /\ \E v, K : /\ Fits(v, K, A, r.disk, r.free)
                          /\ \A x \in Stay : x \in K /\ v[x] = w[x]
                          /\ \A x \in K : x \in L \/ x = Child(p, n)
                          /\ r.blk # 0 => Child(p, n) \in K /\ v[Child(p, n)] = r.blk
<1>0. /\ m \in Rec /\ Fits(w, L, A, m.disk, m.free)
      /\ p \in L /\ p[3] < p[2] /\ n \in 0 .. Per - 1
  BY DEF Entered
<1> USE <1>0
<1> DEFINE up == w[p]
           r == AddLeaf(m, up, n)
           a == Allocate(m)
           y == Child(p, n)
<1>1. L \in SUBSET Node /\ w \in [L -> DataBlock] /\ up \in DataBlock /\ Sane(up)
  BY RefFacts DEF Fits, Ref
<1>2. y \in Node /\ Up(y) = p /\ Ent(y) = n /\ y[3] > 0
  BY <1>1, ChildFacts
<1>3. /\ SameInode(a, m) /\ Fits(w, L, A, a.disk, a.free)
      /\ a.error # "ok" => a.blk = 0
      /\ a.error = "ok" => NewBlock(a, m, w, L)
  BY Allocated
<1>4. r = IF a.error # "ok" \/ up = m.bad THEN [a EXCEPT !.blk = 0, !.error = m.error]
          ELSE [a EXCEPT !.disk[up][n] = a.blk]
  <2>1. a.bad = m.bad
    BY <1>3 DEF SameInode, SameCall
  <2> HIDE DEF up
  <2> QED
    BY <1>1, <2>1 DEF AddLeaf
<1> HIDE DEF a, r, y
<1>5. CASE a.error # "ok" \/ up = m.bad
  <2>1. r = [a EXCEPT !.blk = 0, !.error = "ok"]
    BY <1>4, <1>5
  <2>2. 0 \in Ref /\ "ok" \in Errors
    BY DEF Ref, Errors
  <2>3. SameInode(r, m) /\ r.error = "ok" /\ r.blk = 0 /\ r.disk = a.disk /\ r.free = a.free
    BY <1>3, <2>1, <2>2 DEF SameInode, SameCall, Rec
  <2>4. Fits(w, L, A, r.disk, r.free)
    BY <1>3, <2>3
  <2> QED
    BY <2>3, <2>4 DEF Closed, r
<1>6. CASE a.error = "ok" /\ up # m.bad
  <2> DEFINE blk == a.blk
             d == [a.disk EXCEPT ![up][n] = blk]
             e == [a.disk EXCEPT ![up][n] = 0]
             K == {x \in L : y \notin Path(x)}
             v == [x \in K |-> w[x]]
             K2 == K \cup {y}
             v2 == [x \in K2 |-> IF x = y THEN blk ELSE v[x]]
  <2>1. a.disk \in [DataBlock -> [Cell -> Ref]] /\ a \in Rec /\ blk \in DataBlock /\ blk \in Ref
        /\ 0 \in Ref
    BY <1>3, <1>6 DEF SameInode, SameCall, Rec, Ref, NewBlock
  <2>2. /\ d \in [DataBlock -> [Cell -> Ref]]
        /\ \A b \in DataBlock : \A i \in 0 .. Per - 1 :
             d[b][i] = IF b = up /\ i = n THEN blk ELSE a.disk[b][i]
        /\ \A b \in DataBlock : b # up => d[b] = a.disk[b]
    <3> HIDE DEF blk, up
    <3> QED
      BY <1>1, <2>1, EntryWritten
  <2>3. \A b \in DataBlock : \A i \in 0 .. Per - 1 :
             e[b][i] = IF b = up /\ i = n THEN 0 ELSE a.disk[b][i]
    <3> HIDE DEF up
    <3> QED
      BY <1>1, <2>1, EntryWritten
  <2>4. r = [a EXCEPT !.disk = d]
    BY <1>4, <1>6, <2>1 DEF Rec
  <2> HIDE DEF d, e, up
  <2>5. SameInode(r, m) /\ r.error = "ok" /\ r.blk = blk /\ r.disk = d /\ r.free = a.free
    BY <1>3, <1>6, <2>2, <2>4 DEF SameInode, SameCall, Rec
  <2>6. ASSUME NEW x \in L, x[3] < x[2], NEW i \in 0 .. Per - 1
        PROVE  (w[x] = up /\ i = n) <=> Child(x, i) = y
    <3>1. ASSUME w[x] = up PROVE x = p
      BY <3>1 DEF Fits, up
    <3>2. Up(Child(x, i)) = x /\ Ent(Child(x, i)) = i
      BY <1>1, <2>6, ChildFacts
    <3> QED
      BY <1>2, <3>1, <3>2 DEF up, y
  <2>7. Fits(v, K, A, e, a.free)
    <3>1. \A x \in L : x[3] < x[2] => \A i \in 0 .. Per - 1 :
            e[w[x]][i] = IF Child(x, i) = y THEN 0 ELSE a.disk[w[x]][i]
      BY <1>1, <2>3, <2>6
    <3> QED
      BY <1>2, <1>3, <3>1, CutAt
  <2>8. y \notin K /\ p \in K /\ K \subseteq L
    <3>1. y \in Path(y)
      BY <1>2, PathUp
    <3>2. y \notin Path(p)
      <4>1. y[3] = p[3] + 1
        BY <1>1, ChildFacts DEF y
      <4>2. \A z \in Path(p) : z[3] \in 0 .. p[3]
        BY <1>1, PathFacts
      <4>3. p[3] \in 0 .. 3
        BY <1>1, NodeFacts
      <4> QED
        BY <4>1, <4>2, <4>3
    <3> QED
      BY <3>1, <3>2
  <2>9. \A x \in K : x \in L /\ v[x] = w[x]
    OBVIOUS
  <2> HIDE DEF K, v
  <2>10. \A x \in K : x[3] < x[2] => \A i \in 0 .. Per - 1 :
           d[v[x]][i] = IF Child(x, i) = y THEN blk ELSE e[v[x]][i]
    <3> SUFFICES ASSUME NEW x \in K, x[3] < x[2], NEW i \in 0 .. Per - 1
                 PROVE  d[v[x]][i] = IF Child(x, i) = y THEN blk ELSE e[v[x]][i]
      OBVIOUS
    <3>1. x \in L /\ v[x] = w[x] /\ w[x] \in DataBlock
      BY <1>1, <2>9
    <3>2. (w[x] = up /\ i = n) <=> Child(x, i) = y
      BY <2>6, <3>1
    <3> QED
      BY <2>2, <2>3, <3>1, <3>2
  <2>11. \A i \in 0 .. Per - 1 : d[blk][i] = 0
    <3>1. blk # up /\ a.disk[blk] = Zeros
      BY <1>3, <1>6 DEF up, NewBlock
    <3> QED
      BY <2>1, <2>2, <3>1, ZerosFacts
  <2>12. Fits(v2, K2, A, d, a.free)
    <3>1. (\A x \in K : v[x] # blk) /\ \A i \in 1 .. Len(a.free) : a.free[i] # blk
      BY <1>3, <1>6, <2>9 DEF NewBlock
    <3>2. y[3] > 0 => Up(y) \in K
      BY <1>2, <2>8
    <3>3. y[3] = 0 => A[y[1]][SlotOf(y)] = blk
      BY <1>2
    <3>4. \A x \in K : x[3] = 0 => A[x[1]][SlotOf(x)] = A[x[1]][SlotOf(x)]
      OBVIOUS
    <3>5. y[3] < y[2] => \A i \in 0 .. Per - 1 : d[blk][i] = 0
      BY <2>11
    <3>6. blk \in DataBlock /\ y \in Node /\ y \notin K
      BY <1>2, <2>1, <2>8
    <3>7. v \in [K -> DataBlock]
      BY <2>7 DEF Fits
    <3>8. v2 \in [K \cup {y} -> DataBlock] /\ v2[y] = blk /\ \A x \in K : v2[x] = v[x]
      BY <3>6, <3>7
    <3> HIDE DEF blk
    <3>9. Hangs(v, K, A, A, e, d, a.free, y, blk)
      BY <2>10, <3>1, <3>2, <3>3, <3>4, <3>5, <3>6 DEF Hangs
    <3>10. Extended(v2, v, K, y, blk)
      BY <3>8 DEF Extended
    <3> HIDE DEF v2
    <3> QED
      BY <2>7, <3>9, <3>10, FitsHang
  <2>13. ASSUME NEW x \in Stay PROVE x \in K /\ x # y
    <3>1. x \in L /\ Path(x) \subseteq Stay /\ y \notin Stay
      BY DEF Closed, y
    <3> QED
      BY <3>1 DEF K
  <2>14. /\ \A x \in Stay : x \in K2 /\ v2[x] = w[x]
         /\ \A x \in K2 : x \in L \/ x = y
         /\ y \in K2 /\ v2[y] = blk
    BY <2>8, <2>9, <2>13
  <2> HIDE DEF K2, v2
  <2>15. up # m.bad
    BY <1>6
  <2> QED
    BY <2>5, <2>12, <2>14, <2>15 DEF r, y, up
<1> QED
  BY <1>5, <1>6

LEMMA NoIndexBlock ==
  ASSUME NEW m \in Rec, NEW n
  PROVE  /\ SameInode(AddLeaf(m, 0, n), m) /\ AddLeaf(m, 0, n).error = m.error
         /\ AddLeaf(m, 0, n).disk = m.disk /\ AddLeaf(m, 0, n).free = m.free
         /\ AddLeaf(m, 0, n).blk = 0
         /\ RemoveLeaf(m, 0, n) = m
         /\ RemoveSelf(m, 0) = [m EXCEPT !.blk = 0]
<1>1. ~ Sane(0) /\ 0 \in Ref
  BY RefFacts DEF Ref
<1>2. AddLeaf(m, 0, n) = [m EXCEPT !.blk = 0] /\ RemoveLeaf(m, 0, n) = m
      /\ RemoveSelf(m, 0) = [m EXCEPT !.blk = 0]
  BY <1>1 DEF AddLeaf, RemoveLeaf, RemoveSelf
<1> QED
  BY <1>1, <1>2 DEF SameInode, SameCall, Rec

LEMMA DeallocateFacts ==
  ASSUME NEW m \in Rec, NEW blk \in Ref
  PROVE  LET r == Deallocate(m, blk)
         IN  /\ SameInode(r, m) /\ r.disk = m.disk /\ r.blk = m.blk
             /\ blk = 0 => r.free = m.free /\ r.error = "EIO"
             /\ blk # 0 => blk \in DataBlock /\ r.free = Append(m.free, blk) /\ r.error = "ok"
<1> DEFINE r == Deallocate(m, blk)
<1>1. {"ok", "EIO"} \subseteq Errors /\ (Sane(blk) <=> blk # 0) /\ (blk # 0 => blk \in DataBlock)
  BY RefFacts DEF Errors
<1>2. CASE blk = 0
  <2>1. r = [m EXCEPT !.error = "EIO"]
    BY <1>1, <1>2 DEF Deallocate
  <2> HIDE DEF r
  <2>2. SameInode(r, m) /\ r.disk = m.disk /\ r.blk = m.blk /\ r.free = m.free /\ r.error = "EIO"
    BY <1>1, <2>1 DEF SameInode, SameCall, Rec
  <2> QED
    BY <1>2, <2>2 DEF r
<1>3. CASE blk # 0
  <2> DEFINE g == Append(m.free, blk)
  <2>1. g \in Seq(DataBlock)
    BY <1>1, <1>3, AppendProperties DEF Rec
  <2>2. r = [m EXCEPT !.free = g, !.error = "ok"]
    BY <1>1, <1>3 DEF Deallocate, Rec
  <2> HIDE DEF r, g
  <2>3. SameInode(r, m) /\ r.disk = m.disk /\ r.blk = m.blk /\ r.free = g /\ r.error = "ok"
    BY <1>1, <2>1, <2>2 DEF SameInode, SameCall, Rec
  <2> QED
    BY <1>1, <1>3, <2>3 DEF r, g
<1> QED
  BY <1>2, <1>3

(* A block that is of no node and not free, or none, is given back.        *)
Loose(blk, w, L, free0) ==
  blk # 0 => /\ \A x \in L : w[x] # blk
             /\ \A i \in 1 .. Len(free0) : free0[i] # blk

LEMMA Deallocated ==
  ASSUME NEW m \in Rec, NEW w, NEW L, NEW A, Fits(w, L, A, m.disk, m.free),
         NEW blk \in Ref, Loose(blk, w, L, m.free)
  PROVE  LET r == Deallocate(m, blk)
         IN  /\ SameInode(r, m) /\ Fits(w, L, A, r.disk, r.free)
             /\ r.disk = m.disk /\ r.blk = m.blk
             /\ \A b : b # blk /\ Loose(b, w, L, m.free) => Loose(b, w, L, r.free)
<1> DEFINE r == Deallocate(m, blk)
<1>1. /\ SameInode(r, m) /\ r.disk = m.disk /\ r.blk = m.blk
      /\ blk = 0 => r.free = m.free
      /\ blk # 0 => blk \in DataBlock /\ r.free = Append(m.free, blk)
  BY DeallocateFacts
<1> HIDE DEF r
<1>2. CASE blk = 0
  BY <1>1, <1>2 DEF r
<1>3. CASE blk # 0
  <2>1. m.free \in Seq(DataBlock)
    BY DEF Rec
  <2>2. /\ Fits(w, L, A, m.disk, r.free)
        /\ \A i \in 1 .. Len(r.free) : r.free[i] = blk \/ \E j \in 1 .. Len(m.free) : r.free[i] = m.free[j]
    <3> DEFINE g == Append(m.free, blk)
    <3>1. blk \in DataBlock /\ r.free = g
      BY <1>1, <1>3
    <3>2. (\A x \in L : w[x] # blk) /\ \A i \in 1 .. Len(m.free) : m.free[i] # blk
      BY <1>3 DEF Loose
    <3>3. /\ Fits(w, L, A, m.disk, g)
          /\ \A i \in 1 .. Len(g) : g[i] = blk \/ \E j \in 1 .. Len(m.free) : g[i] = m.free[j]
      BY <2>1, <3>1, <3>2, FitsGive
    <3> HIDE DEF g
    <3> QED
      BY <3>1, <3>3
  <2>3. ASSUME NEW b, b # blk, Loose(b, w, L, m.free) PROVE Loose(b, w, L, r.free)
    BY <2>2, <2>3 DEF Loose
  <2> QED
    BY <1>1, <2>2, <2>3 DEF r
<1> QED
  BY <1>2, <1>3

(* An entry is cleared, if the index block can be read.                    *)
LEMMA UnlinkFacts ==
  ASSUME NEW m \in Rec, NEW up \in DataBlock, NEW n \in 0 .. Per - 1
  PROVE  LET r == Unlink(m, up, n)
         IN  /\ SameInode(r, m) /\ r.free = m.free /\ r.error = m.error
             /\ up = m.bad => r.blk = 0 /\ r.disk = m.disk
             /\ up # m.bad => r.blk = m.disk[up][n] /\ r.disk = [m.disk EXCEPT ![up][n] = 0]
             /\ \A b \in DataBlock : b # up => r.disk[b] = m.disk[b]
<1> DEFINE r == Unlink(m, up, n)
           d == [m.disk EXCEPT ![up][n] = 0]
<1>1. 0 \in Ref /\ n \in Cell /\ m.disk \in [DataBlock -> [Cell -> Ref]]
  BY RefFacts DEF Rec, Ref
<1>2. d \in [DataBlock -> [Cell -> Ref]] /\ m.disk[up][n] \in Ref
      /\ \A b \in DataBlock : b # up => d[b] = m.disk[b]
  BY <1>1, EntryWritten
<1>3. CASE up = m.bad
  <2>1. r = [m EXCEPT !.blk = 0]
    BY <1>3 DEF Unlink
  <2> HIDE DEF r
  <2>2. SameInode(r, m) /\ r.disk = m.disk /\ r.blk = 0 /\ r.free = m.free /\ r.error = m.error
    BY <1>1, <2>1 DEF SameInode, SameCall, Rec
  <2> QED
    BY <1>3, <2>2 DEF r
<1>4. CASE up # m.bad
  <2>1. r = [m EXCEPT !.blk = m.disk[up][n], !.disk = d]
    BY <1>4 DEF Unlink, Rec
  <2> HIDE DEF r, d
  <2>2. SameInode(r, m) /\ r.disk = d /\ r.blk = m.disk[up][n] /\ r.free = m.free
        /\ r.error = m.error
    BY <1>2, <2>1 DEF SameInode, SameCall, Rec
  <2> QED
    BY <1>2, <1>4, <2>2 DEF r, d
<1> QED
  BY <1>3, <1>4

LEMMA LeafRemoved ==
  ASSUME NEW m, NEW w, NEW L, NEW A, NEW p, NEW n, Entered(m, w, L, A, p, n),
         NEW Stay, Closed(Stay, L), Child(p, n) \notin Stay
  PROVE  LET r == RemoveLeaf(m, w[p], n)
         IN  /\ SameInode(r, m) /\ r.error = m.error
             /\ \E v, K : /\ Fits(v, K, A, r.disk, r.free)
                          /\ K \subseteq L /\ Stay \subseteq K
                          /\ \A x \in K : v[x] = w[x]
<1>0. /\ m \in Rec /\ Fits(w, L, A, m.disk, m.free)
      /\ p \in L /\ p[3] < p[2] /\ n \in 0 .. Per - 1
  BY DEF Entered
<1> USE <1>0
<1> DEFINE up == w[p]
           y == Child(p, n)
           u == Unlink(m, up, n)
           s == Deallocate(u, u.blk)
           r == RemoveLeaf(m, up, n)
           K == {x \in L : y \notin Path(x)}
           v == [x \in K |-> w[x]]
<1>1. L \in SUBSET Node /\ w \in [L -> DataBlock] /\ up \in DataBlock /\ Sane(up)
  BY RefFacts DEF Fits, Ref
<1>2. y \in Node /\ Up(y) = p /\ Ent(y) = n /\ y[3] > 0
  BY <1>1, ChildFacts
<1>3. /\ SameInode(u, m) /\ u.free = m.free /\ u.error = m.error
      /\ up = m.bad => u.blk = 0 /\ u.disk = m.disk
      /\ up # m.bad => u.blk = m.disk[up][n] /\ u.disk = [m.disk EXCEPT ![up][n] = 0]
  BY <1>1, UnlinkFacts
<1>4. r = [s EXCEPT !.error = m.error]
  BY <1>1 DEF RemoveLeaf
<1> HIDE DEF u, s, r, y
<1>5. u \in Rec /\ u.blk \in Ref /\ m.error \in Errors
  BY <1>3 DEF SameInode, SameCall, Rec
<1>6. ASSUME SameInode(s, u)
      PROVE  SameInode(r, m) /\ r.error = m.error /\ r.disk = s.disk /\ r.free = s.free
  BY <1>3, <1>4, <1>5, <1>6 DEF SameInode, SameCall, Rec
<1>7. CASE up = m.bad
  <2>1. SameInode(s, u) /\ s.disk = u.disk /\ s.free = u.free
    BY <1>3, <1>5, <1>7, DeallocateFacts DEF s
  <2>2. Fits(w, L, A, r.disk, r.free)
    BY <1>3, <1>6, <1>7, <2>1
  <2> QED
    BY <1>6, <2>1, <2>2 DEF Closed, r
<1>8. CASE up # m.bad
  <2>1. m.disk \in [DataBlock -> [Cell -> Ref]] /\ 0 \in Ref
    BY DEF Rec, Ref
  <2>2. \A b \in DataBlock : \A i \in 0 .. Per - 1 :
          u.disk[b][i] = IF b = up /\ i = n THEN 0 ELSE m.disk[b][i]
    <3> DEFINE d == [m.disk EXCEPT ![up][n] = 0]
    <3>1. \A b \in DataBlock : \A i \in 0 .. Per - 1 :
            d[b][i] = IF b = up /\ i = n THEN 0 ELSE m.disk[b][i]
      <4> HIDE DEF up
      <4> QED
        BY <1>1, <2>1, EntryWritten
    <3>2. u.disk = d
      BY <1>3, <1>8
    <3> HIDE DEF d, up
    <3> QED
      BY <3>1, <3>2
  <2>3. ASSUME NEW x \in L, x[3] < x[2], NEW i \in 0 .. Per - 1
        PROVE  (w[x] = up /\ i = n) <=> Child(x, i) = y
    <3>1. ASSUME w[x] = up PROVE x = p
      BY <3>1 DEF Fits, up
    <3>2. Up(Child(x, i)) = x /\ Ent(Child(x, i)) = i
      BY <1>1, <2>3, ChildFacts
    <3> QED
      BY <1>2, <3>1, <3>2 DEF up, y
  <2>4. Fits(v, K, A, u.disk, u.free)
    <3>1. \A x \in L : x[3] < x[2] => \A i \in 0 .. Per - 1 :
            u.disk[w[x]][i] = IF Child(x, i) = y THEN 0 ELSE m.disk[w[x]][i]
      BY <1>1, <2>2, <2>3
    <3>2. u.free = m.free
      BY <1>3
    <3> QED
      BY <1>2, <3>1, <3>2, CutAt
  <2>5. y \notin K /\ K \subseteq L /\ \A x \in K : v[x] = w[x]
    <3>1. y \in Path(y)
      BY <1>2, PathUp
    <3> QED
      BY <3>1
  <2>6. Stay \subseteq K
    BY DEF Closed, y
  <2> HIDE DEF K, v
  <2>7. Loose(u.blk, v, K, u.free)
    <3> SUFFICES ASSUME u.blk # 0 PROVE Loose(u.blk, v, K, u.free)
      BY DEF Loose
    <3>1. y \in L
      BY <1>3, <1>8 DEF Fits, Kept, y
    <3>2. w[y] = u.blk
      BY <1>2, <1>3, <1>8, <3>1 DEF Fits, Kept
    <3>3. \A x \in K : v[x] # u.blk
      BY <2>5, <3>1, <3>2 DEF Fits
    <3>4. \A i \in 1 .. Len(u.free) : u.free[i] # u.blk
      BY <1>3, <3>1, <3>2 DEF Fits, Spare
    <3> QED
      BY <3>3, <3>4 DEF Loose
  <2>8. SameInode(s, u) /\ Fits(v, K, A, s.disk, s.free)
    BY <1>5, <2>4, <2>7, Deallocated DEF s
  <2> QED
    BY <1>6, <2>5, <2>6, <2>8 DEF r
<1> QED
  BY <1>7, <1>8

-----------------------------------------------------------------------------
(* Places and nodes                                                        *)

LEMMA EntSmall ==
  ASSUME NEW a \in Nat, a < Per
  PROVE  a % Per = a
<1>1. Per \in Nat \ {0} /\ a \in 0 .. Per - 1
  BY Constants
<1>2. (0 * Per + a) % Per = a
  BY <1>1, DivNames
<1>3. 0 * Per + a = a
  BY <1>1
<1> QED
  BY <1>2, <1>3

LEMMA SpotFacts ==
  ASSUME NEW f \in File, NEW k \in 1 .. Capacity, Spot(k) # Undefined
  PROVE  LET y == Leaf(f, k)
             s == Spot(k)
         IN  /\ s.level = Level(k)
             /\ Level(k) = 0 => s.index[1] = Offset(k)
             /\ \A d \in 1 .. Level(k) :
                  /\ s.index[d] \in 0 .. Per - 1 /\ s.index[d] = Ent(Anc(y, d))
                  /\ Anc(y, d) = Child(Anc(y, d - 1), s.index[d])
                  /\ Anc(y, d - 1)[3] < Anc(y, d - 1)[2]
             /\ Level(k) \in 2 .. 3 => s.index[1] = Anc(y, 1)[4]
             /\ Level(k) = 3 => Anc(y, 2)[4] = Offset(k) \div Per
                                /\ Anc(y, 1)[4] = (Offset(k) \div Per) \div Per
<1> DEFINE y == Leaf(f, k)
           s == Spot(k)
           o == Offset(k)
           l == Level(k)
<1>1. k \in Nat \ {0} /\ Per \in Nat \ {0} /\ k <= Capacity
  BY Constants
<1>2. /\ l \in 0 .. 3 /\ o \in Nat
      /\ l = 1 => o < Per
      /\ l = 2 => o < Per * Per
      /\ l = 3 => o < Per * Per * Per
  BY <1>1, OffsetFacts
<1>3. y \in Node /\ y[1] = f /\ y[2] = l /\ y[3] = l /\ y[4] = o
  BY LeafFacts
<1>4. s = IF l <= 1 THEN At(l, <<o>>)
          ELSE IF l = 2 THEN At(2, <<o \div Per, o % Per>>)
          ELSE At(3, <<(o \div Per) \div Per, (o \div Per) % Per, o % Per>>)
  BY DEF Spot
<1> HIDE DEF y, s, o, l
<1>5. ASSUME NEW d \in 1 .. l
      PROVE  /\ Ent(Anc(y, d)) \in 0 .. Per - 1
             /\ Anc(y, d) = Child(Anc(y, d - 1), Ent(Anc(y, d)))
             /\ Anc(y, d - 1)[3] < Anc(y, d - 1)[2]
             /\ Anc(y, d - 1)[4] = Anc(y, d)[4] \div Per
  <2>1. d \in 0 .. y[3] /\ d > 0
    BY <1>2, <1>3
  <2>2. Anc(y, d) \in Node /\ Anc(y, d)[3] > 0 /\ Up(Anc(y, d)) = Anc(y, d - 1)
    BY <1>3, <2>1, AncFacts
  <2> QED
    BY <2>2, UpFacts
<1>6. Anc(y, l) = y
  <2>1. l \in 0 .. y[3]
    BY <1>2, <1>3
  <2> QED
    BY <1>3, <2>1, AncFacts
<1>7. CASE l = 0
  <2>1. s = At(0, <<o>>) /\ 1 .. l = {} /\ ~ (l \in 2 .. 3)
    BY <1>4, <1>7
  <2> QED
    BY <1>7, <2>1 DEF At, y, s, o, l
<1>8. CASE l = 1
  <2>1. s = At(1, <<o>>) /\ 1 .. l = {1} /\ ~ (l \in 2 .. 3)
    BY <1>4, <1>8
  <2>2. Ent(Anc(y, 1)) = o
    BY <1>2, <1>3, <1>6, <1>8, EntSmall DEF Ent
  <2>3. s.index[1] = Ent(Anc(y, 1)) /\ s.level = 1
    BY <2>1, <2>2 DEF At
  <2> QED
    BY <1>5, <1>8, <2>1, <2>3 DEF y, s, l
<1>9. CASE l = 2
  <2>1. s = At(2, <<o \div Per, o % Per>>) /\ 1 .. l = {1, 2}
    BY <1>4, <1>9
  <2>2. s.level = 2 /\ s.index[1] = o \div Per /\ s.index[2] = o % Per
    BY <2>1 DEF At
  <2>3. Ent(Anc(y, 2)) = o % Per
    BY <1>3, <1>6, <1>9 DEF Ent
  <2>4. Anc(y, 1)[4] = o \div Per
    BY <1>3, <1>5, <1>6, <1>9
  <2>5. (o \div Per) % Per = o \div Per
    <3>1. o \div Per \in Nat /\ o \div Per < Per
      BY <1>1, <1>2, <1>9, DivBelow
    <3> QED
      BY <3>1, EntSmall
  <2>6. Ent(Anc(y, 1)) = o \div Per
    BY <2>4, <2>5 DEF Ent
  <2> QED
    BY <1>5, <1>9, <2>1, <2>2, <2>3, <2>4, <2>6 DEF y, s, l
<1>10. CASE l = 3
  <2>1. s = At(3, <<(o \div Per) \div Per, (o \div Per) % Per, o % Per>>) /\ 1 .. l = {1, 2, 3}
    BY <1>4, <1>10
  <2>2. s.level = 3 /\ s.index[1] = (o \div Per) \div Per /\ s.index[2] = (o \div Per) % Per
        /\ s.index[3] = o % Per
    BY <2>1 DEF At
  <2>3. Ent(Anc(y, 3)) = o % Per
    BY <1>3, <1>6, <1>10 DEF Ent
  <2>4. Anc(y, 2)[4] = o \div Per
    BY <1>3, <1>5, <1>6, <1>10
  <2>5. Anc(y, 1)[4] = (o \div Per) \div Per
    BY <1>5, <1>10, <2>4
  <2>6. ((o \div Per) \div Per) % Per = (o \div Per) \div Per
    <3> DEFINE a == o \div Per
    <3>1. a \in Nat /\ a < Per * Per
      <4>1. Per * Per \in Nat
        BY Constants
      <4> QED
        BY <1>1, <1>2, <1>10, <4>1, DivBelow
    <3> HIDE DEF a
    <3>2. a \div Per \in Nat /\ a \div Per < Per
      BY <1>1, <3>1, DivBelow
    <3>3. (a \div Per) % Per = a \div Per
      BY <3>2, EntSmall
    <3> QED
      BY <3>3 DEF a
  <2>7. Ent(Anc(y, 1)) = (o \div Per) \div Per /\ Ent(Anc(y, 2)) = (o \div Per) % Per
    BY <2>4, <2>5, <2>6 DEF Ent
  <2> QED
    BY <1>5, <1>10, <2>1, <2>2, <2>3, <2>4, <2>5, <2>7 DEF y, s, l, o
<1> QED
  BY <1>2, <1>7, <1>8, <1>9, <1>10

(* Which nodes of the next block the file has: those in the entries that   *)
(* the next place shares with the last.                                    *)
LEMMA NextNodes ==
  ASSUME NEW n \in Counts, NEW f \in File, n[f] \in 1 .. Capacity, n[f] < Capacity,
         Level(n[f] + 1) = Level(n[f]), Spot(n[f] + 1) # Undefined
  PROVE  LET from == Spot(n[f])
             to   == Spot(n[f] + 1)
             y    == Leaf(f, n[f] + 1)
         IN  /\ from.level = Level(n[f]) /\ to.level = Level(n[f])
             /\ Level(n[f]) \in 1 .. 3 => Anc(y, 0) \in Live(n)
             /\ Level(n[f]) \in 2 .. 3 =>
                  /\ from.index[1] = to.index[1] => Anc(y, 1) \in Live(n)
                  /\ from.index[1] # to.index[1] => Anc(y, 1) \notin Live(n)
             /\ Level(n[f]) = 3 =>
                  /\ from.index[1] # to.index[1] => from.index[2] # to.index[2]
                  /\ from.index[2] = to.index[2] => Anc(y, 2) \in Live(n)
                  /\ from.index[2] # to.index[2] => Anc(y, 2) \notin Live(n)
<1> DEFINE k == n[f]
           j == k + 1
           from == Spot(k)
           to == Spot(j)
           x == Leaf(f, k)
           y == Leaf(f, j)
           l == Level(k)
<1>1. k \in 1 .. Capacity /\ j \in 1 .. Capacity /\ k \in Nat \ {0} /\ j \in Nat \ {0}
      /\ Per \in Nat \ {0} /\ Per >= 2 /\ k \in 1 .. n[f] /\ j = k + 1
  BY Constants
<1>2. from # Undefined
  BY DEF Spot, Undefined, At
<1>3. l \in 0 .. 3 /\ Offset(k) \in Nat /\ Offset(j) = Offset(k) + 1
  <2>1. l \in 0 .. 3 /\ Offset(k) \in Nat
    BY <1>1, OffsetFacts
  <2>2. Level(j) = l
    OBVIOUS
  <2> HIDE DEF k
  <2> QED
    BY <1>1, <2>1, <2>2, LevelNext
<1>4. /\ x \in Node /\ x[1] = f /\ x[2] = l /\ x[3] = l
      /\ y \in Node /\ y[1] = f /\ y[2] = l /\ y[3] = l /\ Level(j) = l
  BY <1>1, LeafFacts
<1>5. /\ from.level = l
      /\ \A d \in 1 .. l : from.index[d] = Ent(Anc(x, d))
      /\ l \in 2 .. 3 => from.index[1] = Anc(x, 1)[4]
      /\ l = 3 => Anc(x, 2)[4] = Offset(k) \div Per
                  /\ Anc(x, 1)[4] = (Offset(k) \div Per) \div Per
  BY <1>1, <1>2, SpotFacts
<1>6. /\ to.level = l
      /\ \A d \in 1 .. l : to.index[d] = Ent(Anc(y, d))
      /\ l \in 2 .. 3 => to.index[1] = Anc(y, 1)[4]
      /\ l = 3 => Anc(y, 2)[4] = Offset(j) \div Per
                  /\ Anc(y, 1)[4] = (Offset(j) \div Per) \div Per
  <2> HIDE DEF j
  <2> QED
    BY <1>1, <1>4, SpotFacts
<1>7. Path(x) \subseteq Live(n)
  BY <1>1, LeafLive
<1>8. ASSUME NEW d \in 0 .. l, Anc(y, d) \in Live(n) PROVE Anc(y, d) = Anc(x, d)
  <2>1. Anc(y, d) \in Path(y) /\ Anc(y, d)[3] = d
    BY <1>4, <1>8, AncFacts
  <2>2. Anc(y, d) \in Path(x)
    BY <1>8, <2>1, LiveLast
  <2> QED
    BY <1>4, <2>1, <2>2, PathFacts
<1>9. ASSUME NEW d \in 0 .. l, Anc(y, d)[4] = Anc(x, d)[4] PROVE Anc(y, d) \in Live(n)
  <2>1. /\ Anc(x, d) \in Path(x) /\ Anc(x, d) \in Node /\ Anc(x, d)[3] = d
        /\ Anc(y, d) \in Path(y) /\ Anc(y, d) \in Node /\ Anc(y, d)[3] = d
    BY <1>4, AncFacts
  <2>2. /\ Anc(x, d)[1] = f /\ Anc(x, d)[2] = l /\ Anc(y, d)[1] = f /\ Anc(y, d)[2] = l
    BY <1>4, <2>1, PathFacts
  <2>3. Anc(y, d) = Anc(x, d)
    <3> DEFINE u == Anc(x, d)
               v == Anc(y, d)
    <3>1. u = <<u[1], u[2], u[3], u[4]>> /\ v = <<v[1], v[2], v[3], v[4]>>
      BY <2>1, NodeFacts
    <3> QED
      BY <1>9, <2>1, <2>2, <3>1
  <2> QED
    BY <1>7, <2>1, <2>3
<1> HIDE DEF from, to, x, y, l
<1>10. ASSUME l \in 1 .. 3 PROVE Anc(y, 0) \in Live(n)
  <2>1. 0 \in 0 .. l /\ 0 \in 0 .. x[3] /\ 0 \in 0 .. y[3] /\ l # 0
    BY <1>3, <1>4, <1>10
  <2>2. Anc(x, 0) \in Node /\ Anc(x, 0)[3] = 0 /\ Anc(y, 0) \in Node /\ Anc(y, 0)[3] = 0
        /\ Anc(x, 0) \in Path(x) /\ Anc(y, 0) \in Path(y)
    BY <1>4, <2>1, AncFacts
  <2>3. Anc(x, 0)[2] = l /\ Anc(y, 0)[2] = l
    BY <1>4, <2>2, PathFacts
  <2>4. Anc(x, 0)[4] = 0 /\ Anc(y, 0)[4] = 0
    BY <2>1, <2>2, <2>3, NodeFacts
  <2> QED
    BY <1>9, <2>1, <2>4
<1>11. ASSUME l \in 2 .. 3
       PROVE  /\ from.index[1] = to.index[1] => Anc(y, 1) \in Live(n)
              /\ from.index[1] # to.index[1] => Anc(y, 1) \notin Live(n)
  <2>1. 1 \in 0 .. l
    BY <1>11
  <2> QED
    BY <1>5, <1>6, <1>8, <1>9, <1>11, <2>1
<1>12. ASSUME l = 3
       PROVE  /\ from.index[1] # to.index[1] => from.index[2] # to.index[2]
              /\ from.index[2] = to.index[2] => Anc(y, 2) \in Live(n)
              /\ from.index[2] # to.index[2] => Anc(y, 2) \notin Live(n)
  <2> DEFINE a == Offset(k) \div Per
             b == Offset(j) \div Per
  <2>1. 2 \in 0 .. l /\ 2 \in 1 .. l
    BY <1>12
  <2>2. /\ from.index[2] = a % Per /\ to.index[2] = b % Per
        /\ from.index[1] = a \div Per /\ to.index[1] = b \div Per
    BY <1>5, <1>6, <1>12, <2>1 DEF Ent
  <2>3. b = a \/ b = a + 1
    BY <1>1, <1>3, DivNext
  <2>4. a \in Int
    BY <1>1, <1>3, DivBounds
  <2>5. ASSUME from.index[2] = to.index[2] PROVE b = a
    <3> HIDE DEF a, b
    <3> SUFFICES ASSUME b = a + 1 PROVE FALSE
      BY <2>3
    <3>1. \/ b % Per = (a % Per) + 1
          \/ b % Per = 0 /\ a % Per = Per - 1
      BY <1>1, <2>4, DivNext
    <3>2. a % Per \in 0 .. Per - 1
      BY <1>1, <2>4, DivBounds
    <3> QED
      BY <1>1, <2>2, <2>5, <3>1, <3>2
  <2>6. Anc(x, 2)[4] = a /\ Anc(y, 2)[4] = b
    BY <1>5, <1>6, <1>12
  <2> HIDE DEF a, b
  <2>7. from.index[1] # to.index[1] => from.index[2] # to.index[2]
    BY <2>2, <2>5
  <2>8. from.index[2] = to.index[2] => Anc(y, 2) \in Live(n)
    BY <1>9, <2>1, <2>5, <2>6
  <2>9. Anc(y, 2) \in Live(n) => from.index[2] = to.index[2]
    BY <1>8, <2>1, <2>2, <2>6
  <2> QED
    BY <2>7, <2>8, <2>9
<1> QED
  BY <1>5, <1>6, <1>10, <1>11, <1>12 DEF from, to, y, l

-----------------------------------------------------------------------------
(* Trees that hold the blocks of files                                     *)

(* The trees hold the nodes of files with n[f] blocks, and the number of a *)
(* tree in the inode is one that the file uses.                            *)
Sound(n, A, disk0, free0) ==
  \E w, L : /\ Fits(w, L, A, disk0, free0)
            /\ Live(n) \subseteq L
            /\ \A x \in L : RootOf(x) \in Live(n)

LEMMA FitsClosed ==
  ASSUME NEW w, NEW L, NEW A, NEW disk0, NEW free0, Fits(w, L, A, disk0, free0), NEW x \in L
  PROVE  Path(x) \subseteq L
<1>1. ASSUME NEW z \in L PROVE Up(z) \in L
  <2>1. z \in Node
    BY DEF Fits
  <2>2. CASE z[3] = 0
    BY <2>2 DEF Up
  <2>3. CASE z[3] # 0
    <3>1. z[3] > 0
      BY <2>1, <2>3, NodeFacts
    <3> QED
      BY <3>1 DEF Fits, Kept
  <2> QED
    BY <2>2, <2>3
<1>2. Up(x) \in L
  BY <1>1
<1>3. Up(Up(x)) \in L
  BY <1>1, <1>2
<1>4. Up(Up(Up(x))) \in L
  BY <1>1, <1>3
<1> QED
  BY <1>2, <1>3, <1>4 DEF Path

(* Trees of numbers that are not used are left out.                        *)
LEMMA Pruned ==
  ASSUME NEW w, NEW L, NEW A, NEW disk0, NEW free0, Fits(w, L, A, disk0, free0),
         NEW n \in Counts, Live(n) \subseteq L,
         NEW A2, \A x \in Live(n) : x[3] = 0 => A2[x[1]][SlotOf(x)] = A[x[1]][SlotOf(x)]
  PROVE  LET K == {x \in L : RootOf(x) \in Live(n)}
         IN  /\ Fits([x \in K |-> w[x]], K, A2, disk0, free0)
             /\ Live(n) \subseteq K /\ Sound(n, A2, disk0, free0)
<1> DEFINE K == {x \in L : RootOf(x) \in Live(n)}
           C == {x \in L : RootOf(x) \notin Live(n)}
           v == [x \in K |-> w[x]]
<1>1. L \in SUBSET Node /\ L \ C = K
  BY DEF Fits
<1>2. ASSUME NEW x \in L \ C, x[3] > 0 PROVE Up(x) \notin C
  <2>1. RootOf(Up(x)) = RootOf(x)
    BY <1>1, UpOfRoot
  <2> QED
    BY <2>1
<1>3. ASSUME NEW x \in L \ C, x[3] = 0 PROVE A2[x[1]][SlotOf(x)] = A[x[1]][SlotOf(x)]
  <2>1. RootOf(x) = x
    BY <1>1, <1>3, RootFacts
  <2> QED
    BY <1>3, <2>1
<1>4. ASSUME NEW x \in L \ C, x[3] < x[2], NEW i \in 0 .. Per - 1
      PROVE  disk0[w[x]][i] = IF Child(x, i) \in C THEN 0 ELSE disk0[w[x]][i]
  <2> DEFINE c == Child(x, i)
  <2>1. c \in Node /\ Up(c) = x
    BY <1>1, <1>4, ChildFacts
  <2>2. RootOf(c) = RootOf(x)
    <3> HIDE DEF c
    <3> QED
      BY <2>1, UpOfRoot
  <2> QED
    BY <2>2
<1>5. Live(n) \subseteq K
  BY LiveFacts
<1> HIDE DEF C, K
<1>6. Fits([x \in L \ C |-> w[x]], L \ C, A2, disk0, free0)
  BY <1>2, <1>3, <1>4, FitsCut
<1>7. Fits(v, K, A2, disk0, free0)
  BY <1>1, <1>6
<1>8. \A x \in K : RootOf(x) \in Live(n)
  BY DEF K
<1>9. Sound(n, A2, disk0, free0)
  <2> HIDE DEF v
  <2> QED
    BY <1>5, <1>7, <1>8 DEF Sound
<1> QED
  BY <1>5, <1>7, <1>9 DEF K

LEMMA PrunedSound ==
  ASSUME NEW w, NEW L, NEW A, NEW disk0, NEW free0, Fits(w, L, A, disk0, free0),
         NEW n \in Counts, Live(n) \subseteq L,
         NEW A2, \A x \in Live(n) : x[3] = 0 => A2[x[1]][SlotOf(x)] = A[x[1]][SlotOf(x)]
  PROVE  Sound(n, A2, disk0, free0)
<1> DEFINE K == {x \in L : RootOf(x) \in Live(n)}
           v == [x \in K |-> w[x]]
<1>1. Fits(v, K, A2, disk0, free0) /\ Live(n) \subseteq K
  BY Pruned
<1>2. \A x \in K : RootOf(x) \in Live(n)
  OBVIOUS
<1> HIDE DEF K, v
<1> QED
  BY <1>1, <1>2 DEF Sound

(* Files with fewer blocks.                                                *)
LEMMA SoundLess ==
  ASSUME NEW n \in Counts, NEW A, NEW disk0, NEW free0, Sound(n, A, disk0, free0),
         NEW n2 \in Counts, \A f \in File : n2[f] <= n[f],
         NEW A2, \A x \in Live(n2) : x[3] = 0 => A2[x[1]][SlotOf(x)] = A[x[1]][SlotOf(x)]
  PROVE  Sound(n2, A2, disk0, free0) /\ Live(n2) \subseteq Live(n)
<1>1. Live(n2) \subseteq Live(n)
  <2> SUFFICES ASSUME NEW x \in Live(n2) PROVE x \in Live(n)
    OBVIOUS
  <2>1. x \in Node /\ x[1] \in File
    BY LiveFacts
  <2>2. PICK k \in 1 .. n2[x[1]] : x \in Path(Leaf(x[1], k))
    BY DEF Live
  <2>3. n2[x[1]] \in Nat /\ n[x[1]] \in Nat
    BY <2>1, Constants DEF Counts
  <2>4. k \in 1 .. n[x[1]]
    BY <2>1, <2>3
  <2> QED
    BY <2>1, <2>2, <2>4 DEF Live
<1>2. PICK w, L : Fits(w, L, A, disk0, free0) /\ Live(n) \subseteq L
  BY DEF Sound
<1>3. Live(n2) \subseteq L
  BY <1>1, <1>2
<1> QED
  BY <1>1, <1>2, <1>3, PrunedSound

(* Trees that hold the nodes of files, and the path down to y as far as    *)
(* depth d, at blk, if that is a block.                                    *)
Builds(m, n, A, y, d, blk) ==
  \E w, L : /\ Fits(w, L, A, m.disk, m.free)
            /\ Live(n) \subseteq L
            /\ \A x \in L : RootOf(x) \in Live(n) \cup {RootOf(y)}
            /\ blk # 0 => Anc(y, d) \in L /\ w[Anc(y, d)] = blk

LEMMA BuildsSound ==
  ASSUME NEW m, NEW n \in Counts, NEW A, NEW y, NEW d, NEW blk, Builds(m, n, A, y, d, blk),
         NEW A2, \A x \in Live(n) : x[3] = 0 => A2[x[1]][SlotOf(x)] = A[x[1]][SlotOf(x)]
  PROVE  Sound(n, A2, m.disk, m.free)
<1>1. PICK w, L : Fits(w, L, A, m.disk, m.free) /\ Live(n) \subseteq L
  BY DEF Builds
<1> QED
  BY <1>1, PrunedSound

(* The root of y is of a file.                                             *)
LEMMA SoundBuilds ==
  ASSUME NEW m, NEW n \in Counts, NEW A, Sound(n, A, m.disk, m.free),
         NEW y \in Node, Anc(y, 0) \in Live(n)
  PROVE  Builds(m, n, A, y, 0, A[y[1]][SlotOf(y)])
<1>1. PICK w, L : /\ Fits(w, L, A, m.disk, m.free) /\ Live(n) \subseteq L
                  /\ \A x \in L : RootOf(x) \in Live(n)
  BY DEF Sound
<1> DEFINE r == RootOf(y)
<1>2. r \in Node /\ r[1] = y[1] /\ r[3] = 0 /\ SlotOf(r) = SlotOf(y) /\ Anc(y, 0) = r
  BY RootFacts, RootInPath
<1> HIDE DEF r
<1>3. r \in L /\ w[r] = A[y[1]][SlotOf(y)]
  <2>1. r \in L
    BY <1>1, <1>2
  <2> QED
    BY <1>1, <1>2, <2>1 DEF Fits, Kept
<1> QED
  BY <1>1, <1>2, <1>3 DEF Builds

(* The nodes that hold on while a node below them changes.                 *)
LEMMA StayFacts ==
  ASSUME NEW n \in Counts, NEW y \in Node, NEW d \in 1 .. y[3], Anc(y, d) \notin Live(n),
         NEW w, NEW L, NEW A, NEW disk0, NEW free0, Fits(w, L, A, disk0, free0),
         Live(n) \subseteq L, Anc(y, d - 1) \in L
  PROVE  LET Stay == Live(n) \cup Path(Anc(y, d - 1))
             p    == Anc(y, d - 1)
             i    == Ent(Anc(y, d))
         IN  /\ Closed(Stay, L) /\ Anc(y, d) \notin Stay /\ p \in Stay
             /\ p[3] < p[2] /\ i \in 0 .. Per - 1 /\ Anc(y, d) = Child(p, i)
             /\ RootOf(Anc(y, d)) = RootOf(y)
<1> DEFINE c == Anc(y, d)
           p == Anc(y, d - 1)
           Stay == Live(n) \cup Path(p)
           i == Ent(c)
<1>1. y[3] \in 0 .. 3 /\ d \in 0 .. y[3] /\ d > 0 /\ d - 1 \in 0 .. y[3]
  BY NodeFacts
<1>2. /\ c \in Path(y) /\ c \in Node /\ c[3] = d /\ Up(c) = p
      /\ p \in Node /\ p[3] = d - 1
  BY <1>1, AncFacts
<1>3. c[3] > 0 /\ RootOf(c) = RootOf(y)
  BY <1>1, <1>2, PathFacts
<1> HIDE DEF c, p, i
<1>4. p[3] < p[2] /\ i \in 0 .. Per - 1 /\ c = Child(p, i)
  BY <1>2, <1>3, UpFacts DEF i
<1>5. \A z \in Path(p) : z[3] \in 0 .. d - 1 /\ z \in Node /\ Up(z) \in Path(p)
  BY <1>2, PathFacts
<1>6. c \notin Path(p)
  BY <1>1, <1>2, <1>5
<1>7. ASSUME NEW x \in Stay PROVE Path(x) \subseteq Stay
  <2>1. CASE x \in Live(n)
    BY <2>1, LiveFacts
  <2>2. CASE x \in Path(p)
    BY <1>5, <2>2 DEF Path
  <2> QED
    BY <2>1, <2>2
<1>8. Path(p) \subseteq L /\ p \in Path(p)
  <2>1. p \in L
    BY DEF p
  <2> QED
    BY <2>1, FitsClosed DEF Path
<1>9. Closed(Stay, L)
  BY <1>7, <1>8 DEF Closed
<1> QED
  BY <1>3, <1>4, <1>6, <1>8, <1>9 DEF c, p, i

(* A step down the path of y, to a node that the files do not have.        *)
LEMMA DownAdd ==
  ASSUME NEW m \in Rec, m.error = "ok", NEW n \in Counts, NEW A, NEW y \in Node,
         NEW d \in 1 .. y[3], Anc(y, d) \notin Live(n),
         NEW up \in Ref, Builds(m, n, A, y, d - 1, up)
  PROVE  LET r == AddLeaf(m, up, Ent(Anc(y, d)))
         IN  /\ SameInode(r, m) /\ r.error = "ok"
             /\ Builds(r, n, A, y, d, r.blk) /\ Builds(r, n, A, y, d - 1, up)
<1> DEFINE c == Anc(y, d)
           p == Anc(y, d - 1)
           i == Ent(c)
           r == AddLeaf(m, up, i)
           Stay == Live(n) \cup Path(p)
<1>1. PICK w, L : /\ Fits(w, L, A, m.disk, m.free) /\ Live(n) \subseteq L
                  /\ \A x \in L : RootOf(x) \in Live(n) \cup {RootOf(y)}
                  /\ up # 0 => p \in L /\ w[p] = up
  BY DEF Builds
<1>2. CASE up = 0
  <2>1. /\ SameInode(r, m) /\ r.error = m.error /\ r.disk = m.disk /\ r.free = m.free
        /\ r.blk = 0
    <3> HIDE DEF i
    <3> QED
      BY <1>2, NoIndexBlock
  <2> HIDE DEF r, c, p, i
  <2>2. Builds(r, n, A, y, d, r.blk) /\ Builds(r, n, A, y, d - 1, up)
    BY <1>1, <1>2, <2>1 DEF Builds
  <2> QED
    BY <2>1, <2>2 DEF r, c, i
<1>3. CASE up # 0
  <2>1. /\ Closed(Stay, L) /\ c \notin Stay /\ p \in Stay
        /\ p[3] < p[2] /\ i \in 0 .. Per - 1 /\ c = Child(p, i)
        /\ RootOf(c) = RootOf(y)
    BY <1>1, <1>3, StayFacts
  <2>2. p \in L /\ w[p] = up
    BY <1>1, <1>3
  <2> HIDE DEF c, p, i, Stay, r
  <2>3. Child(p, i) \notin Stay
    BY <2>1
  <2>4. /\ SameInode(r, m) /\ r.error = "ok"
        /\ \E v, K : /\ Fits(v, K, A, r.disk, r.free)
                     /\ \A x \in Stay : x \in K /\ v[x] = w[x]
                     /\ \A x \in K : x \in L \/ x = Child(p, i)
                     /\ r.blk # 0 => Child(p, i) \in K /\ v[Child(p, i)] = r.blk
    <3> DEFINE s == AddLeaf(m, w[p], i)
    <3>1. s = r
      BY <2>2 DEF r
    <3>2. /\ SameInode(s, m) /\ s.error = "ok"
          /\ \E v, K : /\ Fits(v, K, A, s.disk, s.free)
                       /\ \A x \in Stay : x \in K /\ v[x] = w[x]
                       /\ \A x \in K : x \in L \/ x = Child(p, i)
                       /\ s.blk # 0 => Child(p, i) \in K /\ v[Child(p, i)] = s.blk
      <4>1. Entered(m, w, L, A, p, i)
        BY <1>1, <2>1, <2>2 DEF Entered
      <4> QED
        BY <2>1, <2>3, <4>1, LeafAdded
    <3> HIDE DEF s
    <3> QED
      BY <3>1, <3>2
  <2>5. PICK v, K : /\ Fits(v, K, A, r.disk, r.free)
                    /\ \A x \in Stay : x \in K /\ v[x] = w[x]
                    /\ \A x \in K : x \in L \/ x = c
                    /\ r.blk # 0 => c \in K /\ v[c] = r.blk
    BY <2>1, <2>4
  <2>6. Live(n) \subseteq K /\ p \in K /\ v[p] = up
    BY <2>1, <2>2, <2>5 DEF Stay
  <2>7. \A x \in K : RootOf(x) \in Live(n) \cup {RootOf(y)}
    BY <1>1, <2>1, <2>5
  <2>8. Builds(r, n, A, y, d, r.blk)
    BY <2>5, <2>6, <2>7 DEF Builds, c
  <2>9. Builds(r, n, A, y, d - 1, up)
    BY <2>5, <2>6, <2>7 DEF Builds, p
  <2> QED
    BY <2>4, <2>8, <2>9 DEF r, c, i
<1> QED
  BY <1>2, <1>3

(* A step down the path of y, along the entry there is.                    *)
LEMMA DownLink ==
  ASSUME NEW m \in Rec, NEW n, NEW A, NEW y \in Node, NEW d \in 1 .. y[3],
         NEW up \in Ref, Builds(m, n, A, y, d - 1, up)
  PROVE  LET z == Link(m, up, Ent(Anc(y, d)))
         IN  z \in Ref /\ Builds(m, n, A, y, d, z)
<1> DEFINE c == Anc(y, d)
           p == Anc(y, d - 1)
           i == Ent(c)
           z == Link(m, up, i)
<1>1. PICK w, L : /\ Fits(w, L, A, m.disk, m.free) /\ Live(n) \subseteq L
                  /\ \A x \in L : RootOf(x) \in Live(n) \cup {RootOf(y)}
                  /\ up # 0 => p \in L /\ w[p] = up
  BY DEF Builds
<1>2. /\ c \in Node /\ c[3] > 0 /\ Up(c) = p
  <2>1. y[3] \in 0 .. 3 /\ d \in 0 .. y[3] /\ d > 0
    BY NodeFacts
  <2> QED
    BY <2>1, AncFacts
<1> HIDE DEF c, p, i, z
<1>3. p[3] < p[2] /\ i \in 0 .. Per - 1 /\ c = Child(p, i)
  BY <1>2, UpFacts DEF i
<1>4. z \in Ref /\ (z # 0 => up # 0)
  BY <1>3, LinkType DEF z
<1>5. ASSUME z # 0 PROVE c \in L /\ w[c] = z
  <2>1. p \in L /\ w[p] = up /\ z = Link(m, w[p], i)
    BY <1>1, <1>4, <1>5 DEF z
  <2>2. Link(m, w[p], i) # 0 => Child(p, i) \in L /\ w[Child(p, i)] = Link(m, w[p], i)
    <3>1. Entered(m, w, L, A, p, i)
      BY <1>1, <1>3, <2>1 DEF Entered
    <3> QED
      BY <2>1, <3>1, LinkEntered
  <2> QED
    BY <1>3, <1>5, <2>1, <2>2
<1> QED
  BY <1>1, <1>4, <1>5 DEF Builds, c, i, z

(* A node that the files do not have is taken from the path of y.          *)
LEMMA DownRemove ==
  ASSUME NEW m \in Rec, NEW n \in Counts, NEW A, NEW y \in Node,
         NEW d \in 1 .. y[3], Anc(y, d) \notin Live(n),
         NEW up \in Ref, Builds(m, n, A, y, d - 1, up)
  PROVE  LET r == RemoveLeaf(m, up, Ent(Anc(y, d)))
         IN  SameInode(r, m) /\ r.error = m.error /\ Builds(r, n, A, y, d - 1, up)
<1> DEFINE c == Anc(y, d)
           p == Anc(y, d - 1)
           i == Ent(c)
           r == RemoveLeaf(m, up, i)
           Stay == Live(n) \cup Path(p)
<1>1. PICK w, L : /\ Fits(w, L, A, m.disk, m.free) /\ Live(n) \subseteq L
                  /\ \A x \in L : RootOf(x) \in Live(n) \cup {RootOf(y)}
                  /\ up # 0 => p \in L /\ w[p] = up
  BY DEF Builds
<1>2. CASE up = 0
  <2>1. r = m
    <3> HIDE DEF i
    <3> QED
      BY <1>2, NoIndexBlock
  <2>2. SameInode(m, m)
    BY DEF SameInode, SameCall
  <2> HIDE DEF r, c, i
  <2> QED
    BY <1>1, <2>1, <2>2 DEF r, c, i
<1>3. CASE up # 0
  <2>1. /\ Closed(Stay, L) /\ c \notin Stay /\ p \in Stay
        /\ p[3] < p[2] /\ i \in 0 .. Per - 1 /\ c = Child(p, i)
        /\ RootOf(c) = RootOf(y)
    BY <1>1, <1>3, StayFacts
  <2>2. p \in L /\ w[p] = up
    BY <1>1, <1>3
  <2> HIDE DEF c, p, i, Stay, r
  <2>3. Child(p, i) \notin Stay
    BY <2>1
  <2>4. /\ SameInode(r, m) /\ r.error = m.error
        /\ \E v, K : /\ Fits(v, K, A, r.disk, r.free)
                     /\ K \subseteq L /\ Stay \subseteq K
                     /\ \A x \in K : v[x] = w[x]
    <3> DEFINE s == RemoveLeaf(m, w[p], i)
    <3>1. s = r
      BY <2>2 DEF r
    <3>2. /\ SameInode(s, m) /\ s.error = m.error
          /\ \E v, K : /\ Fits(v, K, A, s.disk, s.free)
                       /\ K \subseteq L /\ Stay \subseteq K
                       /\ \A x \in K : v[x] = w[x]
      <4>1. Entered(m, w, L, A, p, i)
        BY <1>1, <2>1, <2>2 DEF Entered
      <4> QED
        BY <2>1, <2>3, <4>1, LeafRemoved
    <3> HIDE DEF s
    <3> QED
      BY <3>1, <3>2
  <2>5. PICK v, K : /\ Fits(v, K, A, r.disk, r.free)
                    /\ K \subseteq L /\ Stay \subseteq K
                    /\ \A x \in K : v[x] = w[x]
    BY <2>4
  <2>6. Live(n) \subseteq K /\ p \in K /\ v[p] = up
    BY <2>1, <2>2, <2>5 DEF Stay
  <2>7. Builds(r, n, A, y, d - 1, up)
    BY <1>1, <2>5, <2>6 DEF Builds, p
  <2> QED
    BY <2>4, <2>7 DEF r, c, i
<1> QED
  BY <1>2, <1>3

(* The nodes of the next block, and of a file that has it.                 *)
LEMMA NextFacts ==
  ASSUME NEW n \in Counts, NEW f \in File, n[f] < Capacity
  PROVE  LET y == Leaf(f, n[f] + 1)
             l == Level(n[f] + 1)
         IN  /\ n[f] \in Nat /\ n[f] + 1 \in 1 .. Capacity /\ n[f] + 1 \in Nat \ {0}
             /\ l \in 0 .. 3 /\ Offset(n[f] + 1) \in Nat
             /\ y \in Node /\ y[1] = f /\ y[2] = l /\ y[3] = l /\ y[4] = Offset(n[f] + 1)
             /\ y \notin Live(n) /\ Anc(y, l) = y
             /\ Anc(y, 0) = RootOf(y)
             /\ l = 0 => SlotOf(y) = Offset(n[f] + 1)
             /\ l > 0 => SlotOf(y) = NDirect + l - 1
             /\ n[f] = 0 \/ Level(n[f]) # l => RootOf(y) \notin Live(n)
<1> DEFINE k == n[f] + 1
           y == Leaf(f, k)
           l == Level(k)
<1>1. n[f] \in Nat /\ k \in 1 .. Capacity /\ k \in Nat \ {0}
  BY Constants DEF Counts
<1>2. l \in 0 .. 3 /\ Offset(k) \in Nat
  BY <1>1, OffsetFacts
<1>3. y \in Node /\ y[1] = f /\ y[2] = l /\ y[3] = l /\ y[4] = Offset(k)
  BY <1>1, LeafFacts
<1>4. y \in Path(y) /\ RootOf(y) \in Path(y) /\ Anc(y, 0) = RootOf(y)
  BY <1>3, RootInPath DEF Path
<1>5. y \notin Live(n)
  BY <1>4, LiveLast
<1>6. n[f] = 0 \/ Level(n[f]) # l => RootOf(y) \notin Live(n)
  <2> SUFFICES ASSUME RootOf(y) \in Live(n) PROVE n[f] # 0 /\ Level(n[f]) = l
    OBVIOUS
  <2>1. n[f] \in 1 .. Capacity /\ Level(n[f]) = l
    BY <1>4, LiveLast
  <2> QED
    BY <2>1
<1>7. Anc(y, l) = y
  BY <1>3 DEF Anc
<1>8. /\ l = 0 => SlotOf(y) = Offset(k)
      /\ l > 0 => SlotOf(y) = NDirect + l - 1
  BY <1>2, <1>3 DEF SlotOf
<1> QED
  BY <1>1, <1>2, <1>3, <1>4, <1>5, <1>6, <1>7, <1>8

(* A path down to the next block.                                          *)
LEMMA BuildsMore ==
  ASSUME NEW n \in Counts, NEW f \in File, n[f] < Capacity, NEW m, NEW A, NEW blk, blk # 0,
         NEW y, y = Leaf(f, n[f] + 1), NEW d, d = y[3], Builds(m, n, A, y, d, blk)
  PROVE  Sound([n EXCEPT ![f] = n[f] + 1], A, m.disk, m.free)
<1> DEFINE q == [n EXCEPT ![f] = n[f] + 1]
<1>1. /\ y \in Node /\ Anc(y, d) = y
  BY NextFacts
<1>2. PICK w, L : /\ Fits(w, L, A, m.disk, m.free) /\ Live(n) \subseteq L
                  /\ \A x \in L : RootOf(x) \in Live(n) \cup {RootOf(y)}
                  /\ y \in L
  BY <1>1 DEF Builds
<1>3. Path(y) \subseteq L /\ RootOf(y) \in Path(y)
  BY <1>1, <1>2, FitsClosed, RootInPath
<1>4. Live(q) = Live(n) \cup Path(y)
  BY LiveMore
<1> HIDE DEF q
<1>5. Live(q) \subseteq L /\ \A x \in L : RootOf(x) \in Live(q)
  BY <1>2, <1>3, <1>4
<1>6. Sound(q, A, m.disk, m.free)
  BY <1>2, <1>5 DEF Sound
<1> QED
  BY <1>6 DEF q

-----------------------------------------------------------------------------
(* A file grows by a block                                                 *)

LEMMA SameTwice ==
  ASSUME NEW a, NEW b, NEW c, SameInode(a, b), SameInode(b, c)
  PROVE  SameInode(a, c) /\ a \in Rec /\ b \in Rec
  BY DEF SameInode, SameCall

LEMMA SameItself ==
  ASSUME NEW a \in Rec
  PROVE  SameInode(a, a)
  BY DEF SameInode, SameCall

(* The file has the block, unless there is none.                           *)
Grown(r, m, n, f, A) ==
  /\ SameInode(r, m) /\ r.error = "ok"
  /\ Sound(n, A, r.disk, r.free)
  /\ r.blk # 0 => Sound([n EXCEPT ![f] = n[f] + 1], A, r.disk, r.free)

LEMMA GrownMade ==
  ASSUME NEW m, NEW r, SameInode(r, m), r.error = "ok", NEW n \in Counts, NEW f \in File,
         n[f] < Capacity, NEW A, NEW d, d = Level(n[f] + 1),
         Builds(r, n, A, Leaf(f, n[f] + 1), d, r.blk)
  PROVE  Grown(r, m, n, f, A)
<1> DEFINE y == Leaf(f, n[f] + 1)
<1>1. y[3] = d
  BY NextFacts
<1> HIDE DEF y
<1>2. Builds(r, n, A, y, d, r.blk) /\ y = Leaf(f, n[f] + 1)
  BY DEF y
<1>3. Sound(n, A, r.disk, r.free)
  BY <1>2, BuildsSound
<1>4. r.blk # 0 => Sound([n EXCEPT ![f] = n[f] + 1], A, r.disk, r.free)
  BY <1>1, <1>2, BuildsMore
<1> QED
  BY <1>3, <1>4 DEF Grown

(* The inode names the index block that the next block goes below.         *)
LEMMA ListFacts ==
  ASSUME NEW m \in Rec, NEW n \in Counts, NEW f \in File, n[f] \in 1 .. Capacity,
         n[f] < Capacity, Level(n[f] + 1) = Level(n[f]), Level(n[f]) # 0,
         Spot(n[f] + 1) # Undefined,
         NEW A, A[f] = m.addr, Sound(n, A, m.disk, m.free)
  PROVE  LET y    == Leaf(f, n[f] + 1)
             l    == Level(n[f])
             list == m.addr[NDirect + l - 1]
         IN  /\ l \in 1 .. 3 /\ y \in Node /\ y[3] = l /\ list \in Ref
             /\ Builds(m, n, A, y, 0, list)
<1> DEFINE y == Leaf(f, n[f] + 1)
           l == Level(n[f])
           list == m.addr[NDirect + l - 1]
<1>1. /\ l \in 1 .. 3 /\ y \in Node /\ y[1] = f /\ y[3] = l
      /\ SlotOf(y) = NDirect + l - 1
  BY NextFacts
<1>2. Anc(y, 0) \in Live(n)
  BY <1>1, NextNodes
<1>3. SlotOf(y) \in Slot
  BY <1>1, RootFacts
<1> HIDE DEF y, l
<1>4. list = A[y[1]][SlotOf(y)]
  BY <1>1
<1>5. list \in Ref
  BY <1>1, <1>3 DEF Rec
<1>6. Builds(m, n, A, y, 0, A[y[1]][SlotOf(y)])
  BY <1>1, <1>2, SoundBuilds
<1>7. Builds(m, n, A, y, 0, list)
  BY <1>4, <1>6
<1> QED
  BY <1>1, <1>5, <1>7 DEF y, l

LEMMA Grow1Step ==
  ASSUME NEW m \in Rec, m.error = "ok", NEW n \in Counts, NEW f \in File,
         n[f] \in 1 .. Capacity, n[f] < Capacity, Level(n[f] + 1) = Level(n[f]),
         Level(n[f]) = 1, Spot(n[f] + 1) # Undefined,
         NEW A, A[f] = m.addr, Sound(n, A, m.disk, m.free)
  PROVE  Grown(Grow1(m, m.addr[Index1], Spot(n[f] + 1).index), m, n, f, A)
<1> DEFINE y == Leaf(f, n[f] + 1)
           to == Spot(n[f] + 1).index
           list == m.addr[Index1]
           r == Grow1(m, list, to)
<1>1. y \in Node /\ y[3] = 1 /\ list \in Ref /\ Builds(m, n, A, y, 0, list)
  <2>1. Index1 = NDirect + 1 - 1
    BY Constants DEF Index1
  <2> HIDE DEF y
  <2> QED
    BY <2>1, ListFacts DEF y
<1>2. to[1] = Ent(Anc(y, 1)) /\ Anc(y, 1) \notin Live(n)
  <2>1. n[f] + 1 \in 1 .. Capacity /\ Anc(y, 1) = y /\ y \notin Live(n)
    BY NextFacts
  <2>2. Level(n[f] + 1) = 1 /\ 1 \in 1 .. 1
    OBVIOUS
  <2>3. to[1] = Ent(Anc(y, 1))
    BY <2>1, <2>2, SpotFacts
  <2> QED
    BY <2>1, <2>3
<1>3. r = AddLeaf(m, list, Ent(Anc(y, 1)))
  BY <1>2 DEF Grow1
<1> HIDE DEF y, to, list, r
<1>4. SameInode(r, m) /\ r.error = "ok" /\ Builds(r, n, A, y, 1, r.blk)
  <2>1. 1 \in 1 .. y[3] /\ 1 - 1 = 0
    BY <1>1
  <2>2. Builds(m, n, A, y, 1 - 1, list)
    BY <1>1, <2>1
  <2> QED
    BY <1>1, <1>2, <1>3, <2>1, <2>2, DownAdd
<1>5. 1 = Level(n[f] + 1) /\ y = Leaf(f, n[f] + 1)
  BY DEF y
<1>6. Builds(r, n, A, Leaf(f, n[f] + 1), 1, r.blk)
  BY <1>4, <1>5
<1>7. Grown(r, m, n, f, A)
  BY <1>4, <1>5, <1>6, GrownMade
<1> QED
  BY <1>7 DEF r, to, list

LEMMA Grow2Step ==
  ASSUME NEW m \in Rec, m.error = "ok", NEW n \in Counts, NEW f \in File,
         n[f] \in 1 .. Capacity, n[f] < Capacity, Level(n[f] + 1) = Level(n[f]),
         Level(n[f]) = 2, Spot(n[f] + 1) # Undefined,
         NEW A, A[f] = m.addr, Sound(n, A, m.disk, m.free)
  PROVE  Grown(Grow2(m, m.addr[Index2], Spot(n[f]).index, Spot(n[f] + 1).index), m, n, f, A)
<1> DEFINE y == Leaf(f, n[f] + 1)
           from == Spot(n[f]).index
           to == Spot(n[f] + 1).index
           list == m.addr[Index2]
           s == IF from[1] = to[1] THEN m ELSE AddLeaf(m, list, to[1])
           z == Link(s, list, to[1])
           r == AddLeaf(s, z, to[2])
<1>1. y \in Node /\ y[3] = 2 /\ list \in Ref /\ Builds(m, n, A, y, 0, list)
  <2>1. Index2 = NDirect + 2 - 1
    BY Constants DEF Index2
  <2> HIDE DEF y
  <2> QED
    BY <2>1, ListFacts DEF y
<1>2. /\ to[1] = Ent(Anc(y, 1)) /\ to[2] = Ent(Anc(y, 2)) /\ Anc(y, 2) \notin Live(n)
      /\ from[1] # to[1] => Anc(y, 1) \notin Live(n)
  <2>1. n[f] + 1 \in 1 .. Capacity /\ Anc(y, 2) = y /\ y \notin Live(n)
    BY NextFacts
  <2>2. Level(n[f] + 1) = 2 /\ 1 \in 1 .. 2 /\ 2 \in 1 .. 2
    OBVIOUS
  <2>3. to[1] = Ent(Anc(y, 1)) /\ to[2] = Ent(Anc(y, 2))
    BY <2>1, <2>2, SpotFacts
  <2>4. from[1] # to[1] => Anc(y, 1) \notin Live(n)
    BY NextNodes
  <2> QED
    BY <2>1, <2>3, <2>4
<1>3. Grow2(m, list, from, to) = r
  BY DEF Grow2
<1> HIDE DEF y, from, to, list, s, z, r
<1>4. 1 \in 1 .. y[3] /\ 2 \in 1 .. y[3] /\ 1 - 1 = 0 /\ 2 - 1 = 1
  BY <1>1
<1>5. SameInode(s, m) /\ s.error = "ok" /\ Builds(s, n, A, y, 0, list)
  <2>1. CASE from[1] = to[1]
    BY <1>1, <2>1, SameItself DEF s
  <2>2. CASE from[1] # to[1]
    <3>1. s = AddLeaf(m, list, Ent(Anc(y, 1)))
      BY <1>2, <2>2 DEF s
    <3>2. Builds(m, n, A, y, 1 - 1, list)
      BY <1>1, <1>4
    <3>3. SameInode(s, m) /\ s.error = "ok" /\ Builds(s, n, A, y, 1 - 1, list)
      BY <1>1, <1>2, <1>4, <2>2, <3>1, <3>2, DownAdd
    <3> QED
      BY <1>4, <3>3
  <2> QED
    BY <2>1, <2>2
<1>6. s \in Rec
  BY <1>5 DEF SameInode, SameCall
<1>7. z \in Ref /\ Builds(s, n, A, y, 1, z)
  <2>1. Builds(s, n, A, y, 1 - 1, list) /\ z = Link(s, list, Ent(Anc(y, 1)))
    BY <1>2, <1>4, <1>5 DEF z
  <2> QED
    BY <1>1, <1>4, <1>6, <2>1, DownLink
<1>8. SameInode(r, s) /\ r.error = "ok" /\ Builds(r, n, A, y, 2, r.blk)
  <2>1. Builds(s, n, A, y, 2 - 1, z) /\ r = AddLeaf(s, z, Ent(Anc(y, 2)))
    BY <1>2, <1>4, <1>7 DEF r
  <2> QED
    BY <1>1, <1>2, <1>4, <1>5, <1>6, <1>7, <2>1, DownAdd
<1>9. SameInode(r, m)
  BY <1>5, <1>8, SameTwice
<1>10. Grown(r, m, n, f, A)
  <2>1. 2 = Level(n[f] + 1) /\ Builds(r, n, A, Leaf(f, n[f] + 1), 2, r.blk)
    BY <1>8 DEF y
  <2> QED
    BY <1>8, <1>9, <2>1, GrownMade
<1> QED
  BY <1>3, <1>10 DEF from, to, list

LEMMA Grow3Step ==
  ASSUME NEW m \in Rec, m.error = "ok", NEW n \in Counts, NEW f \in File,
         n[f] \in 1 .. Capacity, n[f] < Capacity, Level(n[f] + 1) = Level(n[f]),
         Level(n[f]) = 3, Spot(n[f] + 1) # Undefined,
         NEW A, A[f] = m.addr, Sound(n, A, m.disk, m.free)
  PROVE  Grown(Grow3(m, m.addr[Index3], Spot(n[f]).index, Spot(n[f] + 1).index), m, n, f, A)
<1> DEFINE y == Leaf(f, n[f] + 1)
           from == Spot(n[f]).index
           to == Spot(n[f] + 1).index
           list == m.addr[Index3]
           s == IF from[1] = to[1] THEN m ELSE AddLeaf(m, list, to[1])
           mid == Link(s, list, to[1])
           t == IF from[2] = to[2] THEN s ELSE AddLeaf(s, mid, to[2])
           z == Link(t, mid, to[2])
           r == AddLeaf(t, z, to[3])
<1>1. y \in Node /\ y[3] = 3 /\ list \in Ref /\ Builds(m, n, A, y, 0, list)
  <2>1. Index3 = NDirect + 3 - 1
    BY Constants DEF Index3
  <2> HIDE DEF y
  <2> QED
    BY <2>1, ListFacts DEF y
<1>2. /\ to[1] = Ent(Anc(y, 1)) /\ to[2] = Ent(Anc(y, 2)) /\ to[3] = Ent(Anc(y, 3))
      /\ Anc(y, 3) \notin Live(n)
      /\ from[1] # to[1] => Anc(y, 1) \notin Live(n)
      /\ from[2] # to[2] => Anc(y, 2) \notin Live(n)
  <2>1. n[f] + 1 \in 1 .. Capacity /\ Anc(y, 3) = y /\ y \notin Live(n)
    BY NextFacts
  <2>2. Level(n[f] + 1) = 3 /\ 1 \in 1 .. 3 /\ 2 \in 1 .. 3 /\ 3 \in 1 .. 3
    OBVIOUS
  <2>3. to[1] = Ent(Anc(y, 1)) /\ to[2] = Ent(Anc(y, 2)) /\ to[3] = Ent(Anc(y, 3))
    BY <2>1, <2>2, SpotFacts
  <2>4. /\ from[1] # to[1] => Anc(y, 1) \notin Live(n)
        /\ from[2] # to[2] => Anc(y, 2) \notin Live(n)
    BY NextNodes
  <2> QED
    BY <2>1, <2>3, <2>4
<1>3. Grow3(m, list, from, to) = r
  BY DEF Grow3
<1> HIDE DEF y, from, to, list, s, mid, t, z, r
<1>4. /\ 1 \in 1 .. y[3] /\ 2 \in 1 .. y[3] /\ 3 \in 1 .. y[3]
      /\ 1 - 1 = 0 /\ 2 - 1 = 1 /\ 3 - 1 = 2
  BY <1>1
<1>5. SameInode(s, m) /\ s.error = "ok" /\ Builds(s, n, A, y, 0, list)
  <2>1. CASE from[1] = to[1]
    BY <1>1, <2>1, SameItself DEF s
  <2>2. CASE from[1] # to[1]
    <3>1. s = AddLeaf(m, list, Ent(Anc(y, 1)))
      BY <1>2, <2>2 DEF s
    <3>2. Builds(m, n, A, y, 1 - 1, list)
      BY <1>1, <1>4
    <3>3. SameInode(s, m) /\ s.error = "ok" /\ Builds(s, n, A, y, 1 - 1, list)
      BY <1>1, <1>2, <1>4, <2>2, <3>1, <3>2, DownAdd
    <3> QED
      BY <1>4, <3>3
  <2> QED
    BY <2>1, <2>2
<1>6. s \in Rec
  BY <1>5 DEF SameInode, SameCall
<1>7. mid \in Ref /\ Builds(s, n, A, y, 1, mid)
  <2>1. Builds(s, n, A, y, 1 - 1, list) /\ mid = Link(s, list, Ent(Anc(y, 1)))
    BY <1>2, <1>4, <1>5 DEF mid
  <2> QED
    BY <1>1, <1>4, <1>6, <2>1, DownLink
<1>8. SameInode(t, s) /\ t.error = "ok" /\ Builds(t, n, A, y, 1, mid)
  <2>1. CASE from[2] = to[2]
    BY <1>5, <1>6, <1>7, <2>1, SameItself DEF t
  <2>2. CASE from[2] # to[2]
    <3>1. t = AddLeaf(s, mid, Ent(Anc(y, 2)))
      BY <1>2, <2>2 DEF t
    <3>2. Builds(s, n, A, y, 2 - 1, mid)
      BY <1>4, <1>7
    <3>3. SameInode(t, s) /\ t.error = "ok" /\ Builds(t, n, A, y, 2 - 1, mid)
      BY <1>1, <1>2, <1>4, <1>5, <1>6, <1>7, <2>2, <3>1, <3>2, DownAdd
    <3> QED
      BY <1>4, <3>3
  <2> QED
    BY <2>1, <2>2
<1>9. t \in Rec
  BY <1>8 DEF SameInode, SameCall
<1>10. z \in Ref /\ Builds(t, n, A, y, 2, z)
  <2>1. Builds(t, n, A, y, 2 - 1, mid) /\ z = Link(t, mid, Ent(Anc(y, 2)))
    BY <1>2, <1>4, <1>8 DEF z
  <2> QED
    BY <1>1, <1>4, <1>7, <1>9, <2>1, DownLink
<1>11. SameInode(r, t) /\ r.error = "ok" /\ Builds(r, n, A, y, 3, r.blk)
  <2>1. Builds(t, n, A, y, 3 - 1, z) /\ r = AddLeaf(t, z, Ent(Anc(y, 3)))
    BY <1>2, <1>4, <1>10 DEF r
  <2> QED
    BY <1>1, <1>2, <1>4, <1>8, <1>9, <1>10, <2>1, DownAdd
<1>12. SameInode(r, m)
  BY <1>5, <1>8, <1>11, SameTwice
<1>13. Grown(r, m, n, f, A)
  <2>1. 3 = Level(n[f] + 1) /\ Builds(r, n, A, Leaf(f, n[f] + 1), 3, r.blk)
    BY <1>11 DEF y
  <2> QED
    BY <1>11, <1>12, <2>1, GrownMade
<1> QED
  BY <1>3, <1>13 DEF from, to, list

-----------------------------------------------------------------------------
(* What the functions return, whatever the blocks hold                     *)

LEMMA AddLeafType ==
  ASSUME NEW m \in Rec, NEW up \in Ref, NEW n \in 0 .. Per - 1
  PROVE  SameInode(AddLeaf(m, up, n), m)
<1> DEFINE r == AddLeaf(m, up, n)
           a == Allocate(m)
<1>1. CASE up = 0
  BY <1>1, NoIndexBlock
<1>2. CASE up # 0
  <2>1. up \in DataBlock /\ Sane(up)
    BY <1>2, RefFacts
  <2>2. SameInode(a, m)
    BY AllocateFacts
  <2> HIDE DEF a
  <2>3. a \in Rec /\ a.blk \in Ref /\ a.disk \in [DataBlock -> [Cell -> Ref]] /\ 0 \in Ref
        /\ m.error \in Errors
    BY <2>2 DEF SameInode, SameCall, Rec, Ref
  <2> DEFINE d == [a.disk EXCEPT ![up][n] = a.blk]
  <2>4. r = IF a.error # "ok" \/ up = m.bad THEN [a EXCEPT !.blk = 0, !.error = m.error]
            ELSE [a EXCEPT !.disk = d]
    <3>1. a.bad = m.bad
      BY <2>2 DEF SameInode, SameCall
    <3> QED
      BY <2>1, <2>3, <3>1 DEF AddLeaf, a, Rec
  <2>5. d \in [DataBlock -> [Cell -> Ref]]
    BY <2>1, <2>3, EntryWritten
  <2> HIDE DEF d, r
  <2>6. SameInode(r, a)
    BY <2>3, <2>4, <2>5 DEF SameInode, SameCall, Rec
  <2>7. SameInode(r, m)
    BY <2>2, <2>6, SameTwice
  <2> QED
    BY <2>7 DEF r
<1> QED
  BY <1>1, <1>2

(* The error of a call is kept.                                            *)
LEMMA ErrorKept ==
  ASSUME NEW m \in Rec, NEW e \in Errors
  PROVE  LET r == [m EXCEPT !.error = e]
         IN  SameInode(r, m) /\ r.disk = m.disk /\ r.free = m.free /\ r.blk = m.blk
             /\ r.error = e
  BY DEF SameInode, SameCall, Rec

LEMMA RemoveLeafType ==
  ASSUME NEW m \in Rec, NEW up \in Ref, NEW n \in 0 .. Per - 1
  PROVE  SameInode(RemoveLeaf(m, up, n), m)
<1> DEFINE r == RemoveLeaf(m, up, n)
           u == Unlink(m, up, n)
           s == Deallocate(u, u.blk)
<1>1. CASE up = 0
  BY <1>1, NoIndexBlock, SameItself
<1>2. CASE up # 0
  <2>1. up \in DataBlock /\ Sane(up)
    BY <1>2, RefFacts
  <2>2. SameInode(u, m)
    BY <2>1, UnlinkFacts
  <2> HIDE DEF u
  <2>3. u \in Rec /\ u.blk \in Ref
    BY <2>2 DEF SameInode, SameCall, Rec
  <2>4. SameInode(s, u)
    BY <2>3, DeallocateFacts
  <2>5. r = [s EXCEPT !.error = m.error]
    BY <2>1 DEF RemoveLeaf, u
  <2> HIDE DEF s, r
  <2>6. s \in Rec /\ m.error \in Errors
    BY <2>4 DEF SameInode, SameCall, Rec
  <2>7. SameInode(r, s)
    BY <2>5, <2>6, ErrorKept
  <2>8. SameInode(r, m)
    BY <2>2, <2>4, <2>7, SameTwice
  <2> QED
    BY <2>8 DEF r
<1> QED
  BY <1>1, <1>2

LEMMA RemoveSelfType ==
  ASSUME NEW m \in Rec, NEW up \in Ref
  PROVE  SameInode(RemoveSelf(m, up), m)
<1> DEFINE r == RemoveSelf(m, up)
           u == Unlink(m, up, 0)
           s == Deallocate(u, up)
<1>0. 0 \in 0 .. Per - 1 /\ 0 \in Ref
  BY Constants DEF Ref
<1>1. CASE up = 0
  <2>1. r = [m EXCEPT !.blk = 0]
    BY <1>1, NoIndexBlock
  <2> HIDE DEF r
  <2>2. SameInode(r, m)
    BY <1>0, <2>1 DEF SameInode, SameCall, Rec
  <2> QED
    BY <2>2 DEF r
<1>2. CASE up # 0
  <2>1. up \in DataBlock /\ Sane(up)
    BY <1>2, RefFacts
  <2>2. SameInode(u, m)
    BY <1>0, <2>1, UnlinkFacts
  <2> HIDE DEF u
  <2>3. u \in Rec
    BY <2>2 DEF SameInode, SameCall, Rec
  <2>4. SameInode(s, u)
    BY <2>3, DeallocateFacts
  <2>5. r = [s EXCEPT !.error = m.error]
    BY <2>1 DEF RemoveSelf, u
  <2> HIDE DEF s, r
  <2>6. s \in Rec /\ m.error \in Errors
    BY <2>4 DEF SameInode, SameCall, Rec
  <2>7. SameInode(r, s)
    BY <2>5, <2>6, ErrorKept
  <2>8. SameInode(r, m)
    BY <2>2, <2>4, <2>7, SameTwice
  <2> QED
    BY <2>8 DEF r
<1> QED
  BY <1>1, <1>2

-----------------------------------------------------------------------------
(* A file gets its first block of a level                                  *)

(* The blocks on the way down are added one by one.                        *)
LEMMA DescendSteps ==
  ASSUME NEW m \in Rec, NEW depth \in Nat
  PROVE  \E v \in [0 .. depth -> Rec] :
           /\ v[0] = m /\ Descend(m, depth) = v[depth]
           /\ \A i \in 1 .. depth : v[i] = AddLeaf(v[i - 1], v[i - 1].blk, 0)
<1> DEFINE S == 1 .. depth
           seq == [d \in S |-> d]
           F == [q \in Rec \X S |-> AddLeaf(q[1], q[1].blk, 0)]
           pick == [z \in SUBSET S |-> Max(z)]
           Iter(g) == g = [z \in SUBSET S |->
                             IF z = {} THEN m
                             ELSE AddLeaf(g[z \ {Max(z)}], g[z \ {Max(z)}].blk, 0)]
<1>1. DOMAIN seq = S /\ IsFiniteSet(S)
  BY FS_Interval
<1>2. \A z \in SUBSET S : z # {} => pick[z] \in z /\ pick[z] = Max(z)
  BY MaxInside
<1>3. ASSUME NEW x \in Rec PROVE AddLeaf(x, x.blk, 0) \in Rec
  <2>1. x.blk \in Ref /\ 0 \in 0 .. Per - 1
    BY Constants DEF Rec
  <2> QED
    BY <2>1, AddLeafType DEF SameInode, SameCall
<1>4. F \in [Rec \X S -> Rec]
  <2> HIDE DEF S
  <2> QED
    BY <1>3
<1>5. PICK g : Iterates(g, S, Rec, m, F, pick)
  <2> HIDE DEF S, F, pick
  <2> QED
    BY <1>1, <1>2, <1>4, IterExists
<1>6. Iter(g)
  <2>1. ASSUME NEW z \in SUBSET S, z # {}
        PROVE  F[<<g[z \ {pick[z]}], pick[z]>>] =
                 AddLeaf(g[z \ {Max(z)}], g[z \ {Max(z)}].blk, 0)
    <3>1. pick[z] = Max(z) /\ Max(z) \in S /\ z \ {Max(z)} \in SUBSET S
      BY <1>2, <2>1
    <3>2. g[z \ {Max(z)}] \in Rec
      BY <1>5, <3>1 DEF Iterates
    <3> HIDE DEF S, pick
    <3> QED
      BY <3>1, <3>2
  <2> HIDE DEF F, pick
  <2>2. g = [z \in SUBSET S |-> g[z]]
    BY <1>5 DEF Iterates
  <2>3. \A z \in SUBSET S : g[z] = IF z = {} THEN m ELSE F[<<g[z \ {pick[z]}], pick[z]>>]
    BY <1>5 DEF Iterates
  <2> QED
    BY <2>1, <2>2, <2>3
<1> DEFINE iter == CHOOSE g1 : Iter(g1)
<1>7. Iter(iter)
  BY <1>6
<1>8. Descend(m, depth) = iter[S]
  <2>1. \A i \in S : seq[i] = i
    OBVIOUS
  <2>2. Descend(m, depth) = FoldLeft(LAMBDA x, d : AddLeaf(x, x.blk, 0), m, seq)
    BY DEF Descend
  <2>3. FoldLeft(LAMBDA x, d : AddLeaf(x, x.blk, 0), m, seq) = iter[S]
    BY <1>1 DEF FoldLeft, MapThenFoldSet
  <2> QED
    BY <2>2, <2>3
<1>9. \A z \in SUBSET S :
        iter[z] = IF z = {} THEN m
                  ELSE AddLeaf(iter[z \ {Max(z)}], iter[z \ {Max(z)}].blk, 0)
  <2> HIDE DEF iter
  <2> QED
    BY <1>7
<1> DEFINE v == [i \in 0 .. depth |-> iter[1 .. i]]
<1> HIDE DEF iter
<1>10. v[0] = m
  <2>1. 1 .. 0 = {} /\ {} \in SUBSET S
    OBVIOUS
  <2> HIDE DEF S
  <2> QED
    BY <1>9, <2>1
<1>11. ASSUME NEW i \in 1 .. depth PROVE v[i] = AddLeaf(v[i - 1], v[i - 1].blk, 0)
  <2>1. i \in Nat /\ i # 0 /\ 1 .. i \in SUBSET S /\ i \in 0 .. depth /\ i - 1 \in 0 .. depth
    OBVIOUS
  <2>2. Max(1 .. i) = i /\ (1 .. i) \ {i} = 1 .. i - 1 /\ 1 .. i # {}
    BY <2>1, MaxOfInterval
  <2> HIDE DEF S
  <2>3. iter[1 .. i] = AddLeaf(iter[1 .. i - 1], iter[1 .. i - 1].blk, 0)
    BY <1>9, <2>1, <2>2
  <2> QED
    BY <2>1, <2>3
<1>12. \A i \in 0 .. depth : v[i] \in Rec
  <2>1. ASSUME NEW z \in SUBSET S, z # {}, iter[z \ {pick[z]}] \in Rec PROVE iter[z] \in Rec
    <3>1. pick[z] = Max(z)
      BY <1>2, <2>1
    <3> HIDE DEF pick, S
    <3> QED
      BY <1>3, <1>9, <2>1, <3>1
  <2>2. iter[{}] \in Rec
    BY <1>9
  <2>3. \A z \in SUBSET S : iter[z] \in Rec
    <3> HIDE DEF S, pick
    <3> QED
      BY <1>1, <1>2, <2>1, <2>2, IterStays
  <2> QED
    BY <2>3
<1>13. v \in [0 .. depth -> Rec] /\ Descend(m, depth) = v[depth]
  BY <1>8, <1>12
<1> HIDE DEF v
<1> QED
  BY <1>10, <1>11, <1>13

(* What a turn of the loop of an expansion leaves.                         *)
Turned(r, m, n, f, A) ==
  /\ SameCall(r, m)
  /\ \A x \in Live(n) : x[1] = f /\ x[3] = 0 => r.addr[SlotOf(x)] = m.addr[SlotOf(x)]
  /\ Sound(n, [A EXCEPT ![f] = r.addr], r.disk, r.free)
  /\ r.error = "ok" /\ r.blk # 0 =>
       Sound([n EXCEPT ![f] = n[f] + 1], [A EXCEPT ![f] = r.addr], r.disk, r.free)

Addrs == [File -> [Slot -> Ref]]

LEMMA SameAddr ==
  ASSUME NEW A \in Addrs, NEW f \in File
  PROVE  [A EXCEPT ![f] = A[f]] = A
  BY DEF Addrs

LEMMA GrownTurned ==
  ASSUME NEW m, NEW n, NEW f \in File, NEW A \in Addrs, A[f] = m.addr, NEW r, Grown(r, m, n, f, A)
  PROVE  Turned(r, m, n, f, A)
<1>1. r.addr = A[f] /\ SameCall(r, m)
  BY DEF Grown, SameInode
<1>2. [A EXCEPT ![f] = r.addr] = A
  BY <1>1, SameAddr
<1> QED
  BY <1>1, <1>2 DEF Grown, Turned

LEMMA ZeroSpot ==
  ASSUME NEW k \in 1 .. Capacity, Spot(k) # Undefined, Offset(k) = 0, NEW d \in 1 .. Level(k)
  PROVE  Spot(k).index[d] = 0
<1>1. Per \in Nat \ {0} /\ 0 % Per = 0
  BY Constants, EntSmall
<1>2. 0 \div Per = 0
  <2>1. (0 * Per + 0) \div Per = 0
    BY <1>1, DivNames
  <2>2. 0 * Per + 0 = 0
    BY <1>1
  <2> QED
    BY <2>1, <2>2
<1>3. Level(k) \in 0 .. 3
  BY OffsetFacts
<1>4. CASE Level(k) = 1
  <2>1. Spot(k) = At(1, <<0>>) /\ d = 1
    BY <1>4 DEF Spot
  <2> QED
    BY <2>1 DEF At
<1>5. CASE Level(k) = 2
  <2>1. Spot(k) = At(2, <<0, 0>>) /\ d \in {1, 2}
    BY <1>1, <1>2, <1>5 DEF Spot
  <2> QED
    BY <2>1 DEF At
<1>6. CASE Level(k) = 3
  <2>1. Spot(k) = At(3, <<0, 0, 0>>) /\ d \in {1, 2, 3}
    BY <1>1, <1>2, <1>6 DEF Spot
  <2> QED
    BY <2>1 DEF At
<1> QED
  BY <1>3, <1>4, <1>5, <1>6

(* The block that was allocated is named by the inode.                     *)
LEMMA RootHung ==
  ASSUME NEW m \in Rec, m.error = "ok", NEW n \in Counts, NEW f \in File,
         NEW A \in Addrs, A[f] = m.addr, Sound(n, A, m.disk, m.free),
         NEW y \in Node, y[1] = f, RootOf(y) \notin Live(n), Allocate(m).error = "ok"
  PROVE  LET a == Allocate(m)
             s == [a EXCEPT !.addr[SlotOf(y)] = a.blk]
         IN  /\ SameCall(s, m) /\ s.error = "ok"
             /\ \A x \in Live(n) : x[1] = f /\ x[3] = 0 => s.addr[SlotOf(x)] = m.addr[SlotOf(x)]
             /\ Builds(s, n, [A EXCEPT ![f] = s.addr], y, 0, s.blk)
<1> DEFINE a == Allocate(m)
           R == RootOf(y)
           slot == SlotOf(y)
           blk == a.blk
           addr2 == [m.addr EXCEPT ![slot] = blk]
           s == [a EXCEPT !.addr[slot] = blk]
           A2 == [A EXCEPT ![f] = addr2]
<1>1. PICK w, L : /\ Fits(w, L, A, m.disk, m.free) /\ Live(n) \subseteq L
                  /\ \A x \in L : RootOf(x) \in Live(n)
  BY DEF Sound
<1>2. SameInode(a, m) /\ Fits(w, L, A, a.disk, a.free) /\ NewBlock(a, m, w, L)
  BY <1>1, Allocated
<1>3. R \in Node /\ R[1] = f /\ R[3] = 0 /\ SlotOf(R) = slot /\ slot \in Slot /\ RootOf(R) = R
      /\ Anc(y, 0) = R
  BY RootFacts, RootInPath
<1>4. R \notin L /\ R \notin Live(n)
  BY <1>1, <1>3
<1>5. a.error = "ok"
  OBVIOUS
<1> HIDE DEF a, R, slot
<1>6. a \in Rec /\ a.addr = m.addr /\ blk \in DataBlock /\ blk \in Ref /\ blk # 0
  <2>1. a \in Rec /\ a.addr = m.addr /\ blk \in DataBlock
    BY <1>2 DEF SameInode, SameCall, NewBlock
  <2> QED
    BY <2>1, RefFacts DEF Ref
<1>7. addr2 \in [Slot -> Ref] /\ addr2[slot] = blk
      /\ \A i \in Slot : i # slot => addr2[i] = m.addr[i]
  <2>1. m.addr \in [Slot -> Ref]
    BY DEF Rec
  <2> HIDE DEF blk
  <2> QED
    BY <1>3, <1>6, <2>1
<1>8. s = [a EXCEPT !.addr = addr2]
  BY <1>6 DEF Rec
<1> HIDE DEF s, addr2
<1>9. /\ SameCall(s, m) /\ s.addr = addr2 /\ s.error = "ok" /\ s.blk = blk
      /\ s.disk = a.disk /\ s.free = a.free
  BY <1>2, <1>5, <1>6, <1>7, <1>8 DEF SameInode, SameCall, Rec
<1>10. A2[f] = addr2 /\ \A g \in File : g # f => A2[g] = A[g]
  <2> HIDE DEF addr2
  <2> QED
    BY DEF Addrs
<1>11. ASSUME NEW x \in Node, x[3] = 0, x # R PROVE A2[x[1]][SlotOf(x)] = A[x[1]][SlotOf(x)]
  <2>1. x[1] \in File /\ SlotOf(x) \in Slot
    BY NodeFacts, RootFacts
  <2>2. CASE x[1] = f
    <3>1. SlotOf(x) # slot
      BY <1>3, <1>11, <2>2, SlotNames
    <3> QED
      BY <1>7, <1>10, <2>1, <2>2, <3>1
  <2>3. CASE x[1] # f
    BY <1>10, <2>1, <2>3
  <2> QED
    BY <2>2, <2>3
<1>12. A2[f][slot] = blk
  BY <1>7, <1>10
<1> HIDE DEF A2
<1>13. L \in SUBSET Node
  BY <1>1 DEF Fits
<1>14. Hangs(w, L, A, A2, a.disk, a.disk, a.free, R, blk)
  <2>1. \A x \in L : x[3] = 0 => A2[x[1]][SlotOf(x)] = A[x[1]][SlotOf(x)]
    BY <1>4, <1>11, <1>13
  <2>2. \A x \in L : x[3] < x[2] => \A i \in 0 .. Per - 1 : Child(x, i) # R
    BY <1>3, <1>13, ChildFacts
  <2>3. \A i \in 0 .. Per - 1 : a.disk[blk][i] = 0
    BY <1>2, ZerosFacts DEF NewBlock
  <2> QED
    BY <1>2, <1>3, <1>4, <1>6, <1>12, <2>1, <2>2, <2>3 DEF Hangs, NewBlock
<1> DEFINE K == L \cup {R}
           v == [x \in K |-> IF x = R THEN blk ELSE w[x]]
<1>15. Extended(v, w, L, R, blk)
  <2>1. \A x \in L : w[x] \in DataBlock /\ x # R
    BY <1>1, <1>4 DEF Fits
  <2> QED
    BY <1>6, <2>1 DEF Extended
<1>16. v[R] = blk
  OBVIOUS
<1>17. Fits(v, K, A2, s.disk, s.free)
  <2> HIDE DEF v
  <2>1. Fits(v, L \cup {R}, A2, a.disk, a.free)
    BY <1>2, <1>14, <1>15, FitsHang
  <2> QED
    BY <1>9, <2>1
<1>18. Live(n) \subseteq K /\ R \in K /\ \A x \in K : RootOf(x) \in Live(n) \cup {R}
  BY <1>1, <1>3
<1> HIDE DEF v, K
<1>19. Builds(s, n, A2, y, 0, s.blk)
  <2>1. Fits(v, K, A2, s.disk, s.free)
            /\ Live(n) \subseteq K
            /\ (\A x \in K : RootOf(x) \in Live(n) \cup {RootOf(y)})
            /\ (s.blk # 0 => Anc(y, 0) \in K /\ v[Anc(y, 0)] = s.blk)
    BY <1>3, <1>9, <1>16, <1>17, <1>18 DEF R
  <2> QED
    BY <2>1 DEF Builds
<1>20. ASSUME NEW x \in Live(n), x[1] = f, x[3] = 0 PROVE s.addr[SlotOf(x)] = m.addr[SlotOf(x)]
  <2>1. x \in Node /\ x # R /\ SlotOf(x) \in Slot
    BY <1>4, LiveFacts, RootFacts
  <2>2. SlotOf(x) # slot
    BY <1>3, <1>20, <2>1, SlotNames
  <2> QED
    BY <1>7, <1>9, <2>1, <2>2
<1>21. A2 = [A EXCEPT ![f] = s.addr]
  BY <1>9 DEF A2
<1> QED
  BY <1>9, <1>19, <1>20, <1>21 DEF s, a, slot

LEMMA DescendBuilds ==
  ASSUME NEW s \in Rec, s.error = "ok", NEW n \in Counts, NEW A, NEW y \in Node,
         NEW l \in 1 .. 3, y[3] = l, Builds(s, n, A, y, 0, s.blk),
         \A d \in 1 .. l : Anc(y, d) \notin Live(n) /\ Ent(Anc(y, d)) = 0
  PROVE  LET r == Descend(s, l)
         IN  SameInode(r, s) /\ r.error = "ok" /\ Builds(r, n, A, y, l, r.blk)
<1> DEFINE r == Descend(s, l)
<1>1. l \in Nat
  OBVIOUS
<1>2. PICK v \in [0 .. l -> Rec] :
           /\ v[0] = s /\ r = v[l]
           /\ \A i \in 1 .. l : v[i] = AddLeaf(v[i - 1], v[i - 1].blk, 0)
  BY <1>1, DescendSteps
<1> DEFINE P(i) == SameInode(v[i], s) /\ v[i].error = "ok" /\ Builds(v[i], n, A, y, i, v[i].blk)
<1>3. P(0)
  BY <1>2, SameItself
<1>4. ASSUME NEW i \in 1 .. l, P(i - 1) PROVE P(i)
  <2> DEFINE x == v[i - 1]
  <2>1. i - 1 \in 0 .. l
    OBVIOUS
  <2>2. x \in Rec /\ x.blk \in Ref
    BY <1>2, <2>1 DEF Rec
  <2>3. v[i] = AddLeaf(x, x.blk, Ent(Anc(y, i)))
    BY <1>2
  <2>4. SameInode(x, s) /\ x.error = "ok" /\ Builds(x, n, A, y, i - 1, x.blk)
    BY <1>4
  <2> HIDE DEF x
  <2>5. SameInode(v[i], x) /\ v[i].error = "ok" /\ Builds(v[i], n, A, y, i, v[i].blk)
    <3> DEFINE t == AddLeaf(x, x.blk, Ent(Anc(y, i)))
    <3>1. SameInode(t, x) /\ t.error = "ok" /\ Builds(t, n, A, y, i, t.blk)
      BY <2>2, <2>4, DownAdd
    <3> HIDE DEF t
    <3>2. v[i] = t
      BY <2>3 DEF t
    <3> QED
      BY <3>1, <3>2
  <2> QED
    BY <2>4, <2>5, SameTwice
<1> HIDE DEF P, r
<1>5. P(1)
  BY <1>3, <1>4
<1>6. l >= 2 => P(2)
  BY <1>4, <1>5
<1>7. l = 3 => P(3)
  BY <1>4, <1>6
<1>8. P(l)
  BY <1>5, <1>6, <1>7
<1> QED
  BY <1>2, <1>8 DEF P, r

LEMMA GrowLevelStep ==
  ASSUME NEW m \in Rec, m.error = "ok", NEW n \in Counts, NEW f \in File, n[f] < Capacity,
         NEW A \in Addrs, A[f] = m.addr, Sound(n, A, m.disk, m.free),
         RootOf(Leaf(f, n[f] + 1)) \notin Live(n), Spot(n[f] + 1) # Undefined,
         Level(n[f] + 1) # 0 => Offset(n[f] + 1) = 0
  PROVE  Turned(GrowLevel(m, Spot(n[f] + 1)), m, n, f, A)
<1> DEFINE a == Allocate(m)
           y == Leaf(f, n[f] + 1)
           l == Level(n[f] + 1)
           to == Spot(n[f] + 1)
           s == [a EXCEPT !.addr[SlotOf(y)] = a.blk]
           r == GrowLevel(m, to)
<1>1. /\ n[f] + 1 \in 1 .. Capacity /\ l \in 0 .. 3 /\ y \in Node /\ y[1] = f /\ y[3] = l
      /\ l = 0 => SlotOf(y) = Offset(n[f] + 1)
      /\ l > 0 => SlotOf(y) = NDirect + l - 1
  BY NextFacts
<1>2. /\ to.level = l
      /\ l = 0 => to.index[1] = Offset(n[f] + 1)
      /\ \A d \in 1 .. l : to.index[d] = Ent(Anc(y, d))
  BY <1>1, SpotFacts
<1>3. CASE a.error # "ok"
  <2>1. r = a
    BY <1>3 DEF GrowLevel
  <2>2. PICK w, L : /\ Fits(w, L, A, m.disk, m.free) /\ Live(n) \subseteq L
                    /\ \A x \in L : RootOf(x) \in Live(n)
    BY DEF Sound
  <2>3. SameInode(a, m) /\ Fits(w, L, A, a.disk, a.free)
    BY <2>2, Allocated
  <2> HIDE DEF a, r
  <2>4. Sound(n, A, a.disk, a.free)
    BY <2>2, <2>3 DEF Sound
  <2>5. a.addr = A[f] /\ [A EXCEPT ![f] = a.addr] = A
    BY <2>3, SameAddr DEF SameInode
  <2>6. Turned(r, m, n, f, A)
    BY <1>3, <2>1, <2>3, <2>4, <2>5 DEF Turned, SameInode
  <2> QED
    BY <2>6 DEF r
<1>4. CASE a.error = "ok"
  <2>1. /\ SameCall(s, m) /\ s.error = "ok"
        /\ \A x \in Live(n) : x[1] = f /\ x[3] = 0 => s.addr[SlotOf(x)] = m.addr[SlotOf(x)]
        /\ Builds(s, n, [A EXCEPT ![f] = s.addr], y, 0, s.blk)
    BY <1>1, <1>4, RootHung
  <2>2. r = IF l = 0 THEN s ELSE Descend(s, l)
    <3>1. l # 0 => SlotOf(y) = NDirect + l - 1
      BY <1>1
    <3> HIDE DEF a, y, l, to
    <3>2. r = IF to.level = 0 THEN [a EXCEPT !.addr[to.index[1]] = a.blk]
              ELSE Descend([a EXCEPT !.addr[NDirect + to.level - 1] = a.blk], to.level)
      BY <1>4 DEF GrowLevel, a
    <3> QED
      BY <1>1, <1>2, <3>1, <3>2
  <2> DEFINE A2 == [A EXCEPT ![f] = s.addr]
  <2>3. SameInode(r, s) /\ r.error = "ok" /\ Builds(r, n, A2, y, l, r.blk)
    <3>1. s \in Rec
      BY <2>1 DEF SameCall
    <3> HIDE DEF s, a, r
    <3>2. CASE l = 0
      <4>1. r = s
        BY <2>2, <3>2
      <4> QED
        BY <2>1, <3>1, <3>2, <4>1, SameItself
    <3>3. CASE l # 0
      <4>1. l \in 1 .. 3
        BY <1>1, <3>3
      <4>2. \A d \in 1 .. l : Ent(Anc(y, d)) = 0
        BY <1>1, <1>2, <3>3, ZeroSpot
      <4>3. \A d \in 1 .. l : Anc(y, d) \notin Live(n)
        <5> SUFFICES ASSUME NEW d \in 1 .. l, Anc(y, d) \in Live(n) PROVE FALSE
          OBVIOUS
        <5>1. d \in 0 .. y[3]
          BY <1>1
        <5>2. Anc(y, d) \in Path(y)
          BY <1>1, <5>1, AncFacts
        <5>3. RootOf(Anc(y, d)) = RootOf(y)
          BY <1>1, <5>2, PathFacts
        <5> QED
          BY <5>3, LiveFacts
      <4>4. Builds(s, n, A2, y, 0, s.blk)
        BY <2>1
      <4> DEFINE t == Descend(s, l)
      <4> HIDE DEF l, y, A2
      <4>5. SameInode(t, s) /\ t.error = "ok" /\ Builds(t, n, A2, y, l, t.blk)
        BY <1>1, <2>1, <3>1, <4>1, <4>2, <4>3, <4>4, DescendBuilds
      <4>6. r = t
        BY <2>2, <3>3
      <4> HIDE DEF t
      <4> QED
        BY <4>5, <4>6
    <3> QED
      BY <3>2, <3>3
  <2> HIDE DEF s, a, r
  <2>4. Sound(n, A2, r.disk, r.free)
    <3> HIDE DEF A2
    <3> QED
      BY <2>3, BuildsSound
  <2>5. r.blk # 0 => Sound([n EXCEPT ![f] = n[f] + 1], A2, r.disk, r.free)
    <3> HIDE DEF A2
    <3> QED
      BY <1>1, <2>3, BuildsMore
  <2>6. r.addr = s.addr /\ SameCall(r, m)
    BY <2>1, <2>3 DEF SameInode, SameCall
  <2>7. Turned(r, m, n, f, A)
    BY <2>1, <2>4, <2>5, <2>6 DEF Turned
  <2> QED
    BY <2>7 DEF r
<1> QED
  BY <1>3, <1>4

-----------------------------------------------------------------------------
(* A turn of the loop of an expansion                                      *)

(* The block after the last, of a file with k blocks.                      *)
Grows(k, sz) ==
  /\ Addr(sz) = Spot(IF k = 0 THEN 1 ELSE k)
  /\ Addr(sz + BlkSize) = Spot(k + 1)

LEMMA GrowCases ==
  ASSUME NEW m, NEW k \in Nat, k < Capacity, NEW sz, Grows(k, sz)
  PROVE  LET from == Spot(k)
             to   == Spot(k + 1)
             r    == GrowStep(m, sz)
         IN  \/ to = Undefined /\ r = [m EXCEPT !.error = "undefined"]
             \/ /\ to # Undefined /\ r = GrowLevel(m, to)
                /\ (Level(k + 1) = 0 \/ (k # 0 /\ Level(k + 1) # Level(k)))
                /\ (Level(k + 1) # 0 => Offset(k + 1) = 0)
             \/ /\ to # Undefined /\ k # 0 /\ Level(k + 1) = Level(k)
                /\ \/ Level(k) = 1 /\ r = Grow1(m, m.addr[Index1], to.index)
                   \/ Level(k) = 2 /\ r = Grow2(m, m.addr[Index2], from.index, to.index)
                   \/ Level(k) = 3 /\ r = Grow3(m, m.addr[Index3], from.index, to.index)
<1> DEFINE from == Addr(sz)
           to == Spot(k + 1)
           r == GrowStep(m, sz)
           l == Level(k + 1)
<1>1. r = CASE to = Undefined -> [m EXCEPT !.error = "undefined"]
            [] to.level = 0 \/ to.level = from.level + 1 -> GrowLevel(m, to)
            [] to.level = 1 /\ from.level = 1 -> Grow1(m, m.addr[Index1], to.index)
            [] to.level = 2 /\ from.level = 2 -> Grow2(m, m.addr[Index2], from.index, to.index)
            [] to.level = 3 /\ from.level = 3 -> Grow3(m, m.addr[Index3], from.index, to.index)
  BY DEF GrowStep, Grows
<1>2. k + 1 \in Nat \ {0} /\ k + 1 <= Capacity /\ l \in 0 .. 3
  BY Constants, OffsetFacts
<1>3. /\ from.level \in 0 .. 4
      /\ k = 0 => from.level = 0 /\ l = 0
      /\ from.level = 4 => to.level = 4
      /\ to = Undefined => from.level \in {0, 1, 4}
      /\ to # Undefined => to.level = l
      /\ to # Undefined /\ k # 0 => from.level = Level(k)
  <2>1. Level(1) = 0 /\ 1 \in Nat \ {0}
    BY Constants DEF Level
  <2>2. k # 0 => Level(k) \in 0 .. 3 /\ Level(k) <= l /\ k \in Nat \ {0}
    BY <1>2, LevelOrder, OffsetFacts
  <2>3. \A j \in Nat \ {0} : Level(j) \in 0 .. 3
    BY OffsetFacts
  <2>4. \A j \in Nat \ {0} : Spot(j).level = IF Level(j) >= 2 /\ Size2 = 0 THEN 4 ELSE Level(j)
    BY <2>3 DEF Spot, At, Undefined
  <2>5. \A j \in Nat \ {0} : Spot(j) = Undefined <=> Spot(j).level = 4
    BY <2>3 DEF Spot, At, Undefined
  <2>6. from = Spot(IF k = 0 THEN 1 ELSE k)
    BY DEF Grows
  <2> HIDE DEF l, to, from
  <2>7. CASE k = 0
    <3>1. l = 0
      BY <2>1, <2>7 DEF l
    <3>2. from.level = 0
      BY <2>1, <2>4, <2>6, <2>7
    <3>3. to.level = 0 /\ to # Undefined
      BY <1>2, <2>4, <2>5, <3>1 DEF to, l
    <3> QED
      BY <2>7, <3>1, <3>2, <3>3
  <2>8. CASE k # 0
    <3>1. from.level = (IF Level(k) >= 2 /\ Size2 = 0 THEN 4 ELSE Level(k))
      BY <2>2, <2>4, <2>6, <2>8
    <3>2. /\ to.level = (IF l >= 2 /\ Size2 = 0 THEN 4 ELSE l)
          /\ to = Undefined <=> to.level = 4
      BY <1>2, <2>4, <2>5 DEF to, l
    <3> QED
      BY <1>2, <2>2, <2>8, <3>1, <3>2
  <2> QED
    BY <2>7, <2>8
<1>4. \/ k # 0 /\ l = Level(k)
      \/ k # 0 /\ l = Level(k) + 1 /\ Offset(k + 1) = 0
      \/ k = 0
  BY LevelNext
<1>5. k # 0 => Level(k) \in 0 .. 3
  BY OffsetFacts
<1>6. k # 0 => from = Spot(k)
  BY DEF Grows
<1> HIDE DEF l, to, from, r
<1>7. CASE to = Undefined
  <2>1. to.level = 4
    BY <1>7 DEF Undefined, At
  <2>2. r = [m EXCEPT !.error = "undefined"]
    BY <1>1, <1>3, <1>7, <2>1
  <2> QED
    BY <1>7, <2>2 DEF to, r
<1>8. CASE to # Undefined /\ (l = 0 \/ (k # 0 /\ l = Level(k) + 1))
  <2>1. r = GrowLevel(m, to)
    BY <1>1, <1>3, <1>8
  <2>2. (l = 0 \/ (k # 0 /\ l # Level(k))) /\ (l # 0 => Offset(k + 1) = 0)
    BY <1>4, <1>5, <1>8
  <2> QED
    BY <1>8, <2>1, <2>2 DEF to, r, l
<1>9. CASE to # Undefined /\ k # 0 /\ l = Level(k) /\ l # 0
  <2>1. to.level = l /\ from.level = l /\ l \in 1 .. 3
    BY <1>2, <1>3, <1>9
  <2>2. \/ l = 1 /\ r = Grow1(m, m.addr[Index1], to.index)
        \/ l = 2 /\ r = Grow2(m, m.addr[Index2], from.index, to.index)
        \/ l = 3 /\ r = Grow3(m, m.addr[Index3], from.index, to.index)
    BY <1>1, <1>9, <2>1
  <2> QED
    BY <1>6, <1>9, <2>2 DEF to, r, l
<1>10. \/ to = Undefined
       \/ to # Undefined /\ (l = 0 \/ (k # 0 /\ l = Level(k) + 1))
       \/ to # Undefined /\ k # 0 /\ l = Level(k) /\ l # 0
  BY <1>3, <1>4
<1> QED
  BY <1>7, <1>8, <1>9, <1>10

(* The entries of a place.                                                 *)
LEMMA SpotTypes ==
  ASSUME NEW f \in File, NEW k \in 1 .. Capacity, Spot(k) # Undefined
  PROVE  /\ Level(k) \in 0 .. 3 /\ Spot(k).level = Level(k)
         /\ \A d \in 1 .. Level(k) : Spot(k).index[d] \in 0 .. Per - 1
         /\ Level(k) = 0 => Spot(k).index[1] \in Slot
         /\ Level(k) # 0 => NDirect + Level(k) - 1 \in Slot
<1>1. /\ Leaf(f, k) \in Node /\ Leaf(f, k)[2] = Level(k) /\ Leaf(f, k)[4] = Offset(k)
  BY LeafFacts
<1>2. /\ Spot(k).level = Level(k)
      /\ Level(k) = 0 => Spot(k).index[1] = Offset(k)
      /\ \A d \in 1 .. Level(k) : Spot(k).index[d] \in 0 .. Per - 1
  BY SpotFacts
<1>3. SlotOf(Leaf(f, k)) \in Slot
  BY <1>1, RootFacts
<1>4. Level(k) \in 0 .. 3
  BY Constants, OffsetFacts
<1> QED
  BY <1>1, <1>2, <1>3, <1>4 DEF SlotOf

LEMMA GrowLevelType ==
  ASSUME NEW m \in Rec, NEW f \in File, NEW k \in 1 .. Capacity, Spot(k) # Undefined
  PROVE  GrowLevel(m, Spot(k)) \in Rec
<1> DEFINE l    == Level(k)
           to   == Spot(k)
           r    == GrowLevel(m, to)
           a    == Allocate(m)
           slot == IF l = 0 THEN to.index[1] ELSE NDirect + l - 1
           addr2 == [a.addr EXCEPT ![slot] = a.blk]
           s    == [a EXCEPT !.addr = addr2]
<1>1. a \in Rec
  BY AllocateFacts DEF SameInode, SameCall
<1>2. to.level = l /\ slot \in Slot /\ l \in 0 .. 3
  BY SpotTypes
<1> HIDE DEF a, slot, to, l
<1>3. addr2 \in [Slot -> Ref]
  BY <1>1, <1>2 DEF Rec
<1> HIDE DEF addr2
<1>4. s \in Rec
  BY <1>1, <1>3 DEF Rec
<1>5. [a EXCEPT !.addr[slot] = a.blk] = s
  BY <1>1 DEF Rec, addr2
<1> HIDE DEF s
<1>6. r = IF a.error # "ok" THEN a ELSE IF l = 0 THEN s ELSE Descend(s, l)
  BY <1>2, <1>5 DEF GrowLevel, a, slot
<1>7. Descend(s, l) \in Rec
  <2>1. l \in Nat
    BY <1>2
  <2>2. \E v \in [0 .. l -> Rec] : Descend(s, l) = v[l]
    <3> HIDE DEF l
    <3> QED
      BY <1>4, <2>1, DescendSteps
  <2>3. l \in 0 .. l
    BY <2>1
  <2> QED
    BY <2>2, <2>3
<1> QED
  BY <1>1, <1>4, <1>6, <1>7 DEF to

LEMMA GrowStepType ==
  ASSUME NEW m \in Rec, NEW f \in File, NEW k \in Nat, k < Capacity, NEW sz, Grows(k, sz)
  PROVE  GrowStep(m, sz) \in Rec
<1> DEFINE from == Spot(k)
           to   == Spot(k + 1)
           r    == GrowStep(m, sz)
<1>1. k + 1 \in 1 .. Capacity
  BY Constants
<1>2. \/ to = Undefined /\ r = [m EXCEPT !.error = "undefined"]
      \/ to # Undefined /\ r = GrowLevel(m, to)
      \/ /\ to # Undefined /\ k # 0 /\ Level(k + 1) = Level(k)
         /\ \/ Level(k) = 1 /\ r = Grow1(m, m.addr[Index1], to.index)
            \/ Level(k) = 2 /\ r = Grow2(m, m.addr[Index2], from.index, to.index)
            \/ Level(k) = 3 /\ r = Grow3(m, m.addr[Index3], from.index, to.index)
  BY GrowCases
<1>3. to # Undefined => \A d \in 1 .. Level(k + 1) : to.index[d] \in 0 .. Per - 1
  <2> DEFINE j == k + 1
  <2> HIDE DEF j
  <2>1. j \in 1 .. Capacity => (Spot(j) # Undefined =>
           \A d \in 1 .. Level(j) : Spot(j).index[d] \in 0 .. Per - 1)
    BY SpotTypes
  <2> QED
    BY <1>1, <2>1 DEF j
<1>4. m.addr[Index1] \in Ref /\ m.addr[Index2] \in Ref /\ m.addr[Index3] \in Ref
  <2>1. Index1 \in Slot /\ Index2 \in Slot /\ Index3 \in Slot
    BY Constants DEF Slot, Index1, Index2, Index3
  <2> QED
    BY <2>1 DEF Rec
<1>5. ASSUME NEW x \in Rec, NEW up \in Ref, NEW i \in 0 .. Per - 1
      PROVE  AddLeaf(x, up, i) \in Rec /\ Link(x, up, i) \in Ref
  BY AddLeafType, LinkType DEF SameInode, SameCall
<1>6. to # Undefined => GrowLevel(m, to) \in Rec
  <2> DEFINE j == k + 1
  <2> HIDE DEF j
  <2>1. j \in 1 .. Capacity => (Spot(j) # Undefined => GrowLevel(m, Spot(j)) \in Rec)
    BY GrowLevelType
  <2> QED
    BY <1>1, <2>1 DEF j
<1> HIDE DEF from, to, r
<1>7. CASE to = Undefined
  <2>1. r = [m EXCEPT !.error = "undefined"]
    BY <1>2, <1>7
  <2>2. r \in Rec
    BY <2>1, ErrorKept DEF Errors, SameInode, SameCall
  <2> QED
    BY <2>2 DEF r
<1>8. CASE to # Undefined /\ r = GrowLevel(m, to)
  BY <1>6, <1>8 DEF r
<1>9. CASE to # Undefined /\ Level(k + 1) = 1 /\ r = Grow1(m, m.addr[Index1], to.index)
  <2>1. to.index[1] \in 0 .. Per - 1
    BY <1>3, <1>9
  <2> QED
    BY <1>4, <1>5, <1>9, <2>1 DEF Grow1, r
<1>10. CASE to # Undefined /\ Level(k + 1) = 2
            /\ r = Grow2(m, m.addr[Index2], from.index, to.index)
  <2> DEFINE list == m.addr[Index2]
             s == IF from.index[1] = to.index[1] THEN m ELSE AddLeaf(m, list, to.index[1])
  <2>1. to.index[1] \in 0 .. Per - 1 /\ to.index[2] \in 0 .. Per - 1 /\ list \in Ref
    BY <1>3, <1>4, <1>10
  <2>2. r = AddLeaf(s, Link(s, list, to.index[1]), to.index[2])
    BY <1>10 DEF Grow2
  <2> HIDE DEF list
  <2>3. s \in Rec
    BY <1>5, <2>1
  <2> HIDE DEF s
  <2>4. r \in Rec
    BY <1>5, <2>1, <2>2, <2>3
  <2> QED
    BY <2>4 DEF r
<1>11. CASE to # Undefined /\ Level(k + 1) = 3
            /\ r = Grow3(m, m.addr[Index3], from.index, to.index)
  <2> DEFINE list == m.addr[Index3]
             s == IF from.index[1] = to.index[1] THEN m ELSE AddLeaf(m, list, to.index[1])
             mid == Link(s, list, to.index[1])
             t == IF from.index[2] = to.index[2] THEN s ELSE AddLeaf(s, mid, to.index[2])
  <2>1. to.index[1] \in 0 .. Per - 1 /\ to.index[2] \in 0 .. Per - 1
        /\ to.index[3] \in 0 .. Per - 1 /\ list \in Ref
    BY <1>3, <1>4, <1>11
  <2>2. r = AddLeaf(t, Link(t, mid, to.index[2]), to.index[3])
    BY <1>11 DEF Grow3
  <2> HIDE DEF list
  <2>3. s \in Rec
    BY <1>5, <2>1
  <2> HIDE DEF s
  <2>4. mid \in Ref
    BY <1>5, <2>1, <2>3
  <2> HIDE DEF mid
  <2>5. t \in Rec
    BY <1>5, <2>1, <2>3, <2>4
  <2> HIDE DEF t
  <2>6. r \in Rec
    BY <1>5, <2>1, <2>2, <2>4, <2>5
  <2> QED
    BY <2>6 DEF r
<1> QED
  BY <1>2, <1>7, <1>8, <1>9, <1>10, <1>11

LEMMA GrowStepTurned ==
  ASSUME NEW m \in Rec, m.error = "ok", NEW n \in Counts, NEW f \in File, n[f] < Capacity,
         NEW A \in Addrs, A[f] = m.addr, Sound(n, A, m.disk, m.free),
         NEW sz, Grows(n[f], sz)
  PROVE  /\ Turned(GrowStep(m, sz), m, n, f, A)
         /\ GrowStep(m, sz).error = "ok" => Spot(n[f] + 1) # Undefined
<1> DEFINE k    == n[f]
           from == Spot(k)
           to   == Spot(k + 1)
           r    == GrowStep(m, sz)
           y    == Leaf(f, k + 1)
<1>1. /\ k \in Nat /\ k + 1 \in 1 .. Capacity
      /\ Level(k + 1) \in 0 .. 3 /\ y \notin Live(n) /\ y \in Node
      /\ y[2] = Level(k + 1) /\ y[3] = Level(k + 1)
      /\ k = 0 \/ Level(k) # Level(k + 1) => RootOf(y) \notin Live(n)
  BY NextFacts
<1>2. \/ to = Undefined /\ r = [m EXCEPT !.error = "undefined"]
      \/ /\ to # Undefined /\ r = GrowLevel(m, to)
         /\ (Level(k + 1) = 0 \/ (k # 0 /\ Level(k + 1) # Level(k)))
         /\ (Level(k + 1) # 0 => Offset(k + 1) = 0)
      \/ /\ to # Undefined /\ k # 0 /\ Level(k + 1) = Level(k)
         /\ \/ Level(k) = 1 /\ r = Grow1(m, m.addr[Index1], to.index)
            \/ Level(k) = 2 /\ r = Grow2(m, m.addr[Index2], from.index, to.index)
            \/ Level(k) = 3 /\ r = Grow3(m, m.addr[Index3], from.index, to.index)
  <2> HIDE DEF k
  <2> QED
    BY <1>1, GrowCases DEF k
<1>3. k # 0 => k \in 1 .. Capacity
  BY <1>1, Constants
<1>4. Level(k + 1) = 0 => RootOf(y) = y
  BY <1>1, RootFacts
<1> HIDE DEF from, to, r, y
<1>5. CASE to = Undefined
  <2>1. r = [m EXCEPT !.error = "undefined"]
    BY <1>2, <1>5
  <2>2. SameInode(r, m) /\ r.disk = m.disk /\ r.free = m.free /\ r.error = "undefined"
    BY <2>1, ErrorKept DEF Errors
  <2>3. [A EXCEPT ![f] = r.addr] = A
    BY <2>2, SameAddr DEF SameInode
  <2>4. Turned(r, m, n, f, A)
    BY <2>2, <2>3 DEF Turned, SameInode
  <2> QED
    BY <2>2, <2>4 DEF r
<1>6. CASE /\ to # Undefined /\ r = GrowLevel(m, to)
           /\ (Level(k + 1) = 0 \/ (k # 0 /\ Level(k + 1) # Level(k)))
           /\ (Level(k + 1) # 0 => Offset(k + 1) = 0)
  <2>1. RootOf(y) \notin Live(n)
    BY <1>1, <1>4, <1>6
  <2>2. Turned(r, m, n, f, A)
    BY <1>6, <2>1, GrowLevelStep DEF to, y
  <2> QED
    BY <1>6, <2>2 DEF r, to
<1>7. CASE to # Undefined /\ k # 0 /\ Level(k + 1) = Level(k) /\ Level(k) = 1
           /\ r = Grow1(m, m.addr[Index1], to.index)
  <2>1. Grown(r, m, n, f, A)
    BY <1>3, <1>7, Grow1Step DEF to
  <2> QED
    BY <1>7, <2>1, GrownTurned DEF r, to
<1>8. CASE to # Undefined /\ k # 0 /\ Level(k + 1) = Level(k) /\ Level(k) = 2
           /\ r = Grow2(m, m.addr[Index2], from.index, to.index)
  <2>1. Grown(r, m, n, f, A)
    BY <1>3, <1>8, Grow2Step DEF from, to
  <2> QED
    BY <1>8, <2>1, GrownTurned DEF r, to
<1>9. CASE to # Undefined /\ k # 0 /\ Level(k + 1) = Level(k) /\ Level(k) = 3
           /\ r = Grow3(m, m.addr[Index3], from.index, to.index)
  <2>1. Grown(r, m, n, f, A)
    BY <1>3, <1>9, Grow3Step DEF from, to
  <2> QED
    BY <1>9, <2>1, GrownTurned DEF r, to
<1> QED
  BY <1>2, <1>5, <1>6, <1>7, <1>8, <1>9

(* The turns of the loop of an expansion, one by one.                      *)
LEMMA GrowType ==
  ASSUME NEW x \in Rec, NEW m \in Rec, NEW f \in File, NEW k \in Nat, k < Capacity, NEW sz,
         Grows(k, sz)
  PROVE  Grow(x, sz, m) \in Rec
<1> DEFINE g == GrowStep(x, sz)
<1>1. g \in Rec
  BY GrowStepType
<1> HIDE DEF g
<1>2. [g EXCEPT !.addr = m.addr, !.error = "ENOSPC"] \in Rec
  BY <1>1 DEF Rec, Errors
<1> QED
  BY <1>1, <1>2 DEF Grow, g

LEMMA GrowSteps ==
  ASSUME NEW m \in Rec, NEW f \in File, NEW turns \in Nat, NEW k \in Nat, k + turns <= Capacity,
         \A i \in 1 .. turns : Grows(k + i - 1, m.size + (i - 1) * BlkSize)
  PROVE  \E v \in [0 .. turns -> Rec] :
           /\ v[0] = m
           /\ \A i \in 1 .. turns : v[i] = Grow(v[i - 1], m.size + (i - 1) * BlkSize, m)
           /\ FoldLeft(LAMBDA x, i : Grow(x, m.size + (i - 1) * BlkSize, m), m,
                       [i \in 1 .. turns |-> i]) = v[turns]
<1> DEFINE S == 1 .. turns
           seq == [i \in S |-> i]
           F == [q \in Rec \X S |-> Grow(q[1], m.size + (q[2] - 1) * BlkSize, m)]
           pick == [z \in SUBSET S |-> Max(z)]
           Iter(g) == g = [z \in SUBSET S |->
                             IF z = {} THEN m
                             ELSE Grow(g[z \ {Max(z)}], m.size + (seq[Max(z)] - 1) * BlkSize, m)]
<1>1. DOMAIN seq = S /\ IsFiniteSet(S)
  BY FS_Interval
<1>2. \A z \in SUBSET S : z # {} => pick[z] \in z /\ pick[z] = Max(z)
  BY MaxInside
<1>3. ASSUME NEW x \in Rec, NEW i \in S PROVE Grow(x, m.size + (i - 1) * BlkSize, m) \in Rec
  <2>1. k + i - 1 \in Nat /\ k + i - 1 < Capacity
    BY Constants
  <2> QED
    BY <2>1, GrowType
<1>4. F \in [Rec \X S -> Rec]
  <2> HIDE DEF S
  <2> QED
    BY <1>3
<1>5. PICK g : Iterates(g, S, Rec, m, F, pick)
  <2> HIDE DEF S, F, pick
  <2> QED
    BY <1>1, <1>2, <1>4, IterExists
<1>6. Iter(g)
  <2>1. ASSUME NEW z \in SUBSET S, z # {}
        PROVE  F[<<g[z \ {pick[z]}], pick[z]>>] =
                 Grow(g[z \ {Max(z)}], m.size + (seq[Max(z)] - 1) * BlkSize, m)
    <3>1. pick[z] = Max(z) /\ Max(z) \in S /\ seq[Max(z)] = Max(z) /\ z \ {Max(z)} \in SUBSET S
      BY <1>2, <2>1
    <3>2. g[z \ {Max(z)}] \in Rec
      BY <1>5, <3>1 DEF Iterates
    <3> HIDE DEF S, pick, seq
    <3> QED
      BY <3>1, <3>2
  <2> HIDE DEF F, pick, seq
  <2>2. g = [z \in SUBSET S |-> g[z]]
    BY <1>5 DEF Iterates
  <2>3. \A z \in SUBSET S : g[z] = IF z = {} THEN m ELSE F[<<g[z \ {pick[z]}], pick[z]>>]
    BY <1>5 DEF Iterates
  <2> QED
    BY <2>1, <2>2, <2>3
<1> DEFINE iter == CHOOSE g1 : Iter(g1)
<1>7. Iter(iter)
  BY <1>6
<1>8. FoldLeft(LAMBDA x, i : Grow(x, m.size + (i - 1) * BlkSize, m), m, seq) = iter[S]
  <2> HIDE DEF seq, S
  <2> QED
    BY <1>1 DEF FoldLeft, MapThenFoldSet
<1>9. \A z \in SUBSET S :
        iter[z] = IF z = {} THEN m
                  ELSE Grow(iter[z \ {Max(z)}], m.size + (Max(z) - 1) * BlkSize, m)
  <2>1. \A z \in SUBSET S : z # {} => seq[Max(z)] = Max(z)
    BY <1>2
  <2> HIDE DEF iter, seq
  <2> QED
    BY <1>7, <2>1
<1> DEFINE v == [i \in 0 .. turns |-> iter[1 .. i]]
<1> HIDE DEF iter
<1>10. v[0] = m
  <2>1. 1 .. 0 = {} /\ {} \in SUBSET S /\ 0 \in 0 .. turns
    OBVIOUS
  <2>2. iter[{}] = m
    BY <1>9
  <2> QED
    BY <2>1, <2>2
<1>11. ASSUME NEW i \in 1 .. turns PROVE v[i] = Grow(v[i - 1], m.size + (i - 1) * BlkSize, m)
  <2>1. i \in Nat /\ i # 0 /\ 1 .. i \in SUBSET S /\ i \in 0 .. turns /\ i - 1 \in 0 .. turns
    OBVIOUS
  <2>2. Max(1 .. i) = i /\ (1 .. i) \ {i} = 1 .. i - 1 /\ 1 .. i # {}
    BY <2>1, MaxOfInterval
  <2> HIDE DEF S
  <2>3. iter[1 .. i] = Grow(iter[1 .. i - 1], m.size + (i - 1) * BlkSize, m)
    BY <1>9, <2>1, <2>2
  <2> QED
    BY <2>1, <2>3
<1>12. \A i \in 0 .. turns : v[i] \in Rec
  <2>1. ASSUME NEW z \in SUBSET S, z # {}, iter[z \ {pick[z]}] \in Rec PROVE iter[z] \in Rec
    <3>1. pick[z] = Max(z) /\ Max(z) \in S
      BY <1>2, <2>1
    <3> HIDE DEF pick, S
    <3> QED
      BY <1>3, <1>9, <2>1, <3>1
  <2>2. iter[{}] \in Rec
    BY <1>9
  <2>3. \A z \in SUBSET S : iter[z] \in Rec
    <3> HIDE DEF S, pick
    <3> QED
      BY <1>1, <1>2, <2>1, <2>2, IterStays
  <2> QED
    BY <2>3
<1>13. v \in [0 .. turns -> Rec] /\ v[turns] = iter[S]
  BY <1>12
<1> HIDE DEF v
<1> QED
  BY <1>8, <1>10, <1>11, <1>13

(* What an expansion leaves after j turns.                                 *)
Expanded(r, m, n, f, A, j) ==
  /\ SameCall(r, m)
  /\ \A x \in Live(n) : x[1] = f /\ x[3] = 0 => r.addr[SlotOf(x)] = m.addr[SlotOf(x)]
  /\ Sound(n, [A EXCEPT ![f] = r.addr], r.disk, r.free)
  /\ r.error = "ok" =>
       /\ Sound([n EXCEPT ![f] = n[f] + j], [A EXCEPT ![f] = r.addr], r.disk, r.free)
       /\ n[f] + j = 0 \/ Spot(n[f] + j) # Undefined

LEMMA AddrFacts ==
  ASSUME NEW A \in Addrs, NEW f \in File, NEW a \in [Slot -> Ref], NEW b \in [Slot -> Ref]
  PROVE  /\ [A EXCEPT ![f] = a] \in Addrs /\ [A EXCEPT ![f] = a][f] = a
         /\ [[A EXCEPT ![f] = a] EXCEPT ![f] = b] = [A EXCEPT ![f] = b]
         /\ \A g \in File : g # f => [A EXCEPT ![f] = a][g] = A[g]
  BY DEF Addrs

LEMMA CountFacts ==
  ASSUME NEW n \in Counts, NEW f \in File, NEW a, a \in 0 .. Capacity
  PROVE  /\ [n EXCEPT ![f] = a] \in Counts /\ [n EXCEPT ![f] = a][f] = a
         /\ \A b : [[n EXCEPT ![f] = a] EXCEPT ![f] = b] = [n EXCEPT ![f] = b]
         /\ \A g \in File : g # f => [n EXCEPT ![f] = a][g] = n[g]
<1> DEFINE T == 0 .. Capacity
<1>1. n \in [File -> T] /\ a \in T
  BY DEF Counts
<1> HIDE DEF T
<1>2. [n EXCEPT ![f] = a] \in [File -> T]
  BY <1>1
<1> QED
  BY <1>1, <1>2 DEF Counts, T

LEMMA ExpandedNext ==
  ASSUME NEW m \in Rec, NEW n \in Counts, NEW f \in File, NEW A \in Addrs, A[f] = m.addr,
         Sound(n, A, m.disk, m.free),
         NEW j \in Nat, n[f] + j < Capacity, NEW sz, Grows(n[f] + j, sz),
         NEW x \in Rec, Expanded(x, m, n, f, A, j)
  PROVE  Expanded(Grow(x, sz, m), m, n, f, A, j + 1)
<1> DEFINE g == GrowStep(x, sz)
           q == [n EXCEPT ![f] = n[f] + j]
           q2 == [n EXCEPT ![f] = n[f] + (j + 1)]
           B == [A EXCEPT ![f] = x.addr]
           r == Grow(x, sz, m)
<1>1. /\ n[f] \in Nat /\ n[f] + j \in 0 .. Capacity /\ n[f] + (j + 1) \in 0 .. Capacity
      /\ (n[f] + j) + 1 = n[f] + (j + 1)
  BY Constants DEF Counts
<1>2. /\ q \in Counts /\ q[f] = n[f] + j /\ [q EXCEPT ![f] = q[f] + 1] = q2
      /\ \A h \in File : n[h] <= q[h]
  <2>1. /\ q \in Counts /\ q[f] = n[f] + j /\ \A h \in File : h # f => q[h] = n[h]
        /\ [q EXCEPT ![f] = n[f] + (j + 1)] = q2
    <3> DEFINE a == n[f] + j
               b == n[f] + (j + 1)
    <3>1. a \in 0 .. Capacity /\ b \in 0 .. Capacity
      BY <1>1
    <3> HIDE DEF a, b
    <3>2. [n EXCEPT ![f] = a] \in Counts
      BY <3>1, CountFacts
    <3>3. [n EXCEPT ![f] = a][f] = a
      BY DEF Counts
    <3>4. [[n EXCEPT ![f] = a] EXCEPT ![f] = b] = [n EXCEPT ![f] = b]
      BY <3>1, CountFacts
    <3>5. \A h \in File : h # f => [n EXCEPT ![f] = a][h] = n[h]
      BY <3>1, CountFacts
    <3> QED
      BY <3>2, <3>3, <3>4, <3>5 DEF a, b
  <2>2. q[f] + 1 = n[f] + (j + 1)
    BY <1>1, <2>1
  <2>3. \A h \in File : n[h] \in Nat
    BY Constants DEF Counts
  <2>4. ASSUME NEW h \in File PROVE n[h] <= q[h]
    <3> HIDE DEF q
    <3>1. CASE h = f
      BY <1>1, <2>1, <3>1
    <3>2. CASE h # f
      BY <2>1, <2>3, <3>2
    <3> QED
      BY <3>1, <3>2
  <2> HIDE DEF q, q2
  <2> QED
    BY <2>1, <2>2, <2>4
<1>3. B \in Addrs /\ B[f] = x.addr
  <2>1. x.addr \in [Slot -> Ref]
    BY DEF Rec
  <2> QED
    BY <2>1, AddrFacts
<1> HIDE DEF q, q2, r
<1>4. CASE x.error # "ok"
  <2>1. r = x
    BY <1>4 DEF Grow, r
  <2>2. Expanded(r, m, n, f, A, j + 1)
    BY <1>4, <2>1 DEF Expanded
  <2> QED
    BY <2>2 DEF r
<1>5. CASE x.error = "ok"
  <2>1. Sound(q, B, x.disk, x.free) /\ SameCall(x, m)
    BY <1>5 DEF Expanded, q
  <2>2. /\ Turned(g, x, q, f, B)
        /\ g.error = "ok" => Spot(n[f] + (j + 1)) # Undefined
    <3>1. q[f] < Capacity /\ Grows(q[f], sz) /\ q[f] + 1 = n[f] + (j + 1)
      BY <1>1, <1>2
    <3>2. /\ Turned(g, x, q, f, B)
          /\ g.error = "ok" => Spot(q[f] + 1) # Undefined
      <4> HIDE DEF B
      <4> QED
        BY <1>2, <1>3, <1>5, <2>1, <3>1, GrowStepTurned
    <3> QED
      BY <3>1, <3>2
  <2>3. r = IF g.error = "ok" /\ g.blk = 0 THEN [g EXCEPT !.addr = m.addr, !.error = "ENOSPC"]
            ELSE g
    BY <1>5, <2>1 DEF Grow, r
  <2>4. g \in Rec /\ SameCall(g, m)
    BY <2>1, <2>2 DEF Turned, SameCall
  <2> HIDE DEF g
  <2> DEFINE G == [A EXCEPT ![f] = g.addr]
  <2>5. [B EXCEPT ![f] = g.addr] = G
    <3>1. x.addr \in [Slot -> Ref] /\ g.addr \in [Slot -> Ref]
      BY <2>4 DEF Rec
    <3> QED
      BY <3>1, AddrFacts
  <2>6. /\ Sound(q, G, g.disk, g.free)
        /\ g.error = "ok" /\ g.blk # 0 => Sound(q2, G, g.disk, g.free)
    BY <1>2, <2>2, <2>5 DEF Turned
  <2>7. Live(n) \subseteq Live(q)
    BY <1>2, <2>6, SoundLess
  <2>8. \A z \in Live(n) : z[1] = f /\ z[3] = 0 => g.addr[SlotOf(z)] = m.addr[SlotOf(z)]
    BY <2>2, <2>7 DEF Turned, Expanded
  <2>9. CASE g.error = "ok" /\ g.blk = 0
    <3>1. r = [g EXCEPT !.addr = m.addr, !.error = "ENOSPC"]
      BY <2>3, <2>9
    <3>2. SameCall(r, m) /\ r.addr = m.addr /\ r.error = "ENOSPC" /\ r.disk = g.disk
          /\ r.free = g.free
      <4>1. m.addr \in [Slot -> Ref]
        BY DEF Rec
      <4> QED
        BY <2>4, <3>1, <4>1 DEF SameCall, Rec, Errors
    <3>3. \A z \in Live(n) : z[3] = 0 => A[z[1]][SlotOf(z)] = G[z[1]][SlotOf(z)]
      <4> SUFFICES ASSUME NEW z \in Live(n), z[3] = 0
                   PROVE  A[z[1]][SlotOf(z)] = G[z[1]][SlotOf(z)]
        OBVIOUS
      <4>1. z[1] \in File
        BY LiveFacts
      <4>2. G[f] = g.addr /\ \A h \in File : h # f => G[h] = A[h]
        BY DEF Addrs
      <4> QED
        BY <2>8, <4>1, <4>2
    <3>4. Sound(n, A, r.disk, r.free)
      <4> HIDE DEF G
      <4> QED
        BY <1>2, <2>6, <3>2, <3>3, SoundLess
    <3>5. [A EXCEPT ![f] = r.addr] = A
      BY <3>2, SameAddr
    <3>6. Expanded(r, m, n, f, A, j + 1)
      BY <3>2, <3>4, <3>5 DEF Expanded
    <3> QED
      BY <3>6 DEF r
  <2>10. CASE ~ (g.error = "ok" /\ g.blk = 0)
    <3>1. r = g
      BY <2>3, <2>10
    <3>2. Sound(n, G, g.disk, g.free)
      <4> HIDE DEF G
      <4> QED
        BY <1>2, <2>6, SoundLess
    <3>3. Expanded(r, m, n, f, A, j + 1)
      BY <2>2, <2>4, <2>6, <2>8, <2>10, <3>1, <3>2 DEF Expanded, q2
    <3> QED
      BY <3>3 DEF r
  <2> QED
    BY <2>9, <2>10
<1> QED
  BY <1>4, <1>5

LEMMA ExpandSound ==
  ASSUME NEW m \in Rec, m.error = "ok", NEW n \in Counts, NEW f \in File, NEW A \in Addrs,
         A[f] = m.addr, Sound(n, A, m.disk, m.free),
         n[f] = 0 \/ Spot(n[f]) # Undefined,
         NEW turns \in Nat, n[f] + turns <= Capacity,
         \A i \in 1 .. turns : Grows(n[f] + i - 1, m.size + (i - 1) * BlkSize)
  PROVE  Expanded(FoldLeft(LAMBDA x, i : Grow(x, m.size + (i - 1) * BlkSize, m), m,
                           [i \in 1 .. turns |-> i]), m, n, f, A, turns)
<1> DEFINE r == FoldLeft(LAMBDA x, i : Grow(x, m.size + (i - 1) * BlkSize, m), m,
                         [i \in 1 .. turns |-> i])
<1>1. n[f] \in Nat
  BY Constants DEF Counts
<1>2. PICK v \in [0 .. turns -> Rec] :
           /\ v[0] = m
           /\ \A i \in 1 .. turns : v[i] = Grow(v[i - 1], m.size + (i - 1) * BlkSize, m)
           /\ r = v[turns]
  <2> DEFINE k == n[f]
  <2>1. k \in Nat /\ k + turns <= Capacity
        /\ \A i \in 1 .. turns : Grows(k + i - 1, m.size + (i - 1) * BlkSize)
    BY <1>1
  <2> HIDE DEF k
  <2> QED
    BY <2>1, GrowSteps
<1> DEFINE broken == {i \in 0 .. turns : ~ Expanded(v[i], m, n, f, A, i)}
<1>3. Expanded(v[0], m, n, f, A, 0)
  <2>1. [A EXCEPT ![f] = m.addr] = A /\ [n EXCEPT ![f] = n[f] + 0] = n /\ n[f] + 0 = n[f]
    <3>1. n[f] + 0 = n[f]
      BY <1>1
    <3>2. [n EXCEPT ![f] = n[f]] = n
      BY DEF Counts
    <3> QED
      BY <3>1, <3>2, SameAddr
  <2> QED
    BY <1>2, <2>1, SameItself DEF Expanded, SameInode
<1>4. broken = {}
  <2> SUFFICES ASSUME broken # {} PROVE FALSE
    OBVIOUS
  <2>1. broken \in SUBSET Nat
    OBVIOUS
  <2>2. PICK i \in broken : \A k \in broken : i <= k
    <3> HIDE DEF broken
    <3> QED
      BY <2>1, LeastNat
  <2>3. i \in 1 .. turns /\ i - 1 \in 0 .. turns /\ i - 1 \in Nat /\ (i - 1) + 1 = i
    BY <1>3, <2>1
  <2>4. Expanded(v[i - 1], m, n, f, A, i - 1)
    BY <2>2, <2>3
  <2> DEFINE sz == m.size + (i - 1) * BlkSize
             j == i - 1
  <2>5. Grows(n[f] + j, sz) /\ n[f] + j < Capacity
    <3>1. n[f] + i - 1 = n[f] + j
      BY <1>1, <2>3
    <3> QED
      BY <1>1, <2>3, <3>1, Constants
  <2>6. v[i] = Grow(v[j], sz, m) /\ v[j] \in Rec
    BY <1>2, <2>3
  <2> HIDE DEF sz, j
  <2>7. j \in Nat /\ j + 1 = i /\ Expanded(v[j], m, n, f, A, j)
    BY <2>3, <2>4 DEF j
  <2>8. Expanded(v[i], m, n, f, A, i)
    BY <2>5, <2>6, <2>7, ExpandedNext
  <2> QED
    BY <2>2, <2>8
<1> HIDE DEF r
<1>5. Expanded(r, m, n, f, A, turns)
  BY <1>2, <1>4
<1> QED
  BY <1>5 DEF r

-----------------------------------------------------------------------------
(* A file shrinks by a block, within a level                               *)

LEMMA Shrink1Step ==
  ASSUME NEW m \in Rec, NEW n \in Counts, NEW f \in File,
         n[f] \in 1 .. Capacity, n[f] < Capacity, Level(n[f] + 1) = Level(n[f]),
         Level(n[f]) = 1, Spot(n[f] + 1) # Undefined,
         NEW A, A[f] = m.addr, Sound(n, A, m.disk, m.free)
  PROVE  LET r == RemoveLeaf(m, m.addr[Index1], Spot(n[f] + 1).index[1])
         IN  SameInode(r, m) /\ Sound(n, A, r.disk, r.free)
<1> DEFINE y == Leaf(f, n[f] + 1)
           from == Spot(n[f] + 1).index
           list == m.addr[Index1]
           r == RemoveLeaf(m, list, from[1])
<1>1. y \in Node /\ y[3] = 1 /\ list \in Ref /\ Builds(m, n, A, y, 0, list)
  <2>1. Index1 = NDirect + 1 - 1
    BY Constants DEF Index1
  <2> HIDE DEF y
  <2> QED
    BY <2>1, ListFacts DEF y
<1>2. from[1] = Ent(Anc(y, 1)) /\ Anc(y, 1) \notin Live(n)
  <2>1. n[f] + 1 \in 1 .. Capacity /\ Anc(y, 1) = y /\ y \notin Live(n)
    BY NextFacts
  <2>2. Level(n[f] + 1) = 1 /\ 1 \in 1 .. 1
    OBVIOUS
  <2>3. from[1] = Ent(Anc(y, 1))
    BY <2>1, <2>2, SpotFacts
  <2> QED
    BY <2>1, <2>3
<1>3. r = RemoveLeaf(m, list, Ent(Anc(y, 1)))
  BY <1>2
<1> HIDE DEF y, from, list, r
<1>4. SameInode(r, m) /\ Builds(r, n, A, y, 0, list)
  <2>1. 1 \in 1 .. y[3] /\ 1 - 1 = 0
    BY <1>1
  <2>2. Builds(m, n, A, y, 1 - 1, list)
    BY <1>1, <2>1
  <2>3. SameInode(r, m) /\ Builds(r, n, A, y, 1 - 1, list)
    BY <1>1, <1>2, <1>3, <2>1, <2>2, DownRemove
  <2> QED
    BY <2>1, <2>3
<1>5. Sound(n, A, r.disk, r.free)
  BY <1>4, BuildsSound
<1> QED
  BY <1>4, <1>5 DEF r, from, list

LEMMA Shrink2Step ==
  ASSUME NEW m \in Rec, NEW n \in Counts, NEW f \in File,
         n[f] \in 1 .. Capacity, n[f] < Capacity, Level(n[f] + 1) = Level(n[f]),
         Level(n[f]) = 2, Spot(n[f] + 1) # Undefined,
         NEW A, A[f] = m.addr, Sound(n, A, m.disk, m.free)
  PROVE  LET r == Shrink2(m, m.addr[Index2], Spot(n[f] + 1).index, Spot(n[f]).index)
         IN  SameInode(r, m) /\ Sound(n, A, r.disk, r.free)
<1> DEFINE y == Leaf(f, n[f] + 1)
           from == Spot(n[f] + 1).index
           to == Spot(n[f]).index
           list == m.addr[Index2]
           z == Link(m, list, from[1])
           s == RemoveLeaf(m, z, from[2])
           r == IF from[1] = to[1] THEN s ELSE RemoveLeaf(s, list, from[1])
<1>1. y \in Node /\ y[1] = f /\ y[3] = 2 /\ list \in Ref /\ Builds(m, n, A, y, 0, list)
  <2>1. Index2 = NDirect + 2 - 1
    BY Constants DEF Index2
  <2>2. y[1] = f
    BY NextFacts
  <2> HIDE DEF y
  <2> QED
    BY <2>1, <2>2, ListFacts DEF y
<1>2. /\ from[1] = Ent(Anc(y, 1)) /\ from[2] = Ent(Anc(y, 2)) /\ Anc(y, 2) \notin Live(n)
      /\ from[1] # to[1] => Anc(y, 1) \notin Live(n)
      /\ Anc(y, 0) \in Live(n) /\ SlotOf(y) = Index2
  <2>1. n[f] + 1 \in 1 .. Capacity /\ Anc(y, 2) = y /\ y \notin Live(n)
        /\ SlotOf(y) = NDirect + 2 - 1
    BY NextFacts
  <2>2. Level(n[f] + 1) = 2 /\ 1 \in 1 .. 2 /\ 2 \in 1 .. 2
    OBVIOUS
  <2>3. from[1] = Ent(Anc(y, 1)) /\ from[2] = Ent(Anc(y, 2))
    BY <2>1, <2>2, SpotFacts
  <2>4. (from[1] # to[1] => Anc(y, 1) \notin Live(n)) /\ Anc(y, 0) \in Live(n)
    BY NextNodes
  <2> QED
    BY <2>1, <2>3, <2>4, Constants DEF Index2
<1>3. Shrink2(m, list, from, to) = r
  BY DEF Shrink2
<1>4. list = A[f][SlotOf(y)]
  BY <1>2
<1> HIDE DEF y, from, to, list, z, s, r
<1>5. 1 \in 1 .. y[3] /\ 2 \in 1 .. y[3] /\ 1 - 1 = 0 /\ 2 - 1 = 1
  BY <1>1
<1>6. z \in Ref /\ Builds(m, n, A, y, 1, z)
  <2>1. Builds(m, n, A, y, 1 - 1, list) /\ z = Link(m, list, Ent(Anc(y, 1)))
    BY <1>1, <1>2, <1>5 DEF z
  <2> QED
    BY <1>1, <1>5, <2>1, DownLink
<1>7. SameInode(s, m) /\ Builds(s, n, A, y, 1, z)
  <2>1. Builds(m, n, A, y, 2 - 1, z) /\ s = RemoveLeaf(m, z, Ent(Anc(y, 2)))
    BY <1>2, <1>5, <1>6 DEF s
  <2>2. SameInode(s, m) /\ Builds(s, n, A, y, 2 - 1, z)
    BY <1>1, <1>2, <1>5, <1>6, <2>1, DownRemove
  <2> QED
    BY <1>5, <2>2
<1>8. Sound(n, A, s.disk, s.free) /\ s \in Rec
  BY <1>7, BuildsSound DEF SameInode, SameCall
<1>9. SameInode(r, m) /\ Sound(n, A, r.disk, r.free)
  <2>1. CASE from[1] = to[1]
    BY <1>7, <1>8, <2>1 DEF r
  <2>2. CASE from[1] # to[1]
    <3>1. r = RemoveLeaf(s, list, Ent(Anc(y, 1)))
      BY <1>2, <2>2 DEF r
    <3>2. Builds(s, n, A, y, 1 - 1, list)
      <4>1. Builds(s, n, A, y, 0, A[y[1]][SlotOf(y)])
        BY <1>1, <1>2, <1>8, SoundBuilds
      <4> QED
        BY <1>1, <1>4, <1>5, <4>1
    <3>3. SameInode(r, s) /\ Builds(r, n, A, y, 1 - 1, list)
      BY <1>1, <1>2, <1>5, <1>8, <2>2, <3>1, <3>2, DownRemove
    <3> QED
      BY <1>7, <3>3, SameTwice, BuildsSound
  <2> QED
    BY <2>1, <2>2
<1> QED
  BY <1>3, <1>9 DEF from, to, list

LEMMA Shrink3Step ==
  ASSUME NEW m \in Rec, NEW n \in Counts, NEW f \in File,
         n[f] \in 1 .. Capacity, n[f] < Capacity, Level(n[f] + 1) = Level(n[f]),
         Level(n[f]) = 3, Spot(n[f] + 1) # Undefined,
         NEW A, A[f] = m.addr, Sound(n, A, m.disk, m.free)
  PROVE  LET r == Shrink3(m, m.addr[Index3], Spot(n[f] + 1).index, Spot(n[f]).index)
         IN  SameInode(r, m) /\ Sound(n, A, r.disk, r.free)
<1> DEFINE y == Leaf(f, n[f] + 1)
           from == Spot(n[f] + 1).index
           to == Spot(n[f]).index
           list == m.addr[Index3]
           mid == Link(m, list, from[1])
           z == Link(m, mid, from[2])
           s == RemoveLeaf(m, z, from[3])
           mid2 == Link(s, list, from[1])
           t == IF from[2] = to[2] THEN s ELSE RemoveLeaf(s, mid2, from[2])
           r == IF from[1] = to[1] THEN t ELSE RemoveLeaf(t, list, from[1])
<1>1. y \in Node /\ y[1] = f /\ y[3] = 3 /\ list \in Ref /\ Builds(m, n, A, y, 0, list)
  <2>1. Index3 = NDirect + 3 - 1
    BY Constants DEF Index3
  <2>2. y[1] = f
    BY NextFacts
  <2> HIDE DEF y
  <2> QED
    BY <2>1, <2>2, ListFacts DEF y
<1>2. /\ from[1] = Ent(Anc(y, 1)) /\ from[2] = Ent(Anc(y, 2)) /\ from[3] = Ent(Anc(y, 3))
      /\ Anc(y, 3) \notin Live(n)
      /\ from[1] # to[1] => Anc(y, 1) \notin Live(n)
      /\ from[2] # to[2] => Anc(y, 2) \notin Live(n)
      /\ Anc(y, 0) \in Live(n) /\ SlotOf(y) = Index3
  <2>1. n[f] + 1 \in 1 .. Capacity /\ Anc(y, 3) = y /\ y \notin Live(n)
        /\ SlotOf(y) = NDirect + 3 - 1
    BY NextFacts
  <2>2. Level(n[f] + 1) = 3 /\ 1 \in 1 .. 3 /\ 2 \in 1 .. 3 /\ 3 \in 1 .. 3
    OBVIOUS
  <2>3. from[1] = Ent(Anc(y, 1)) /\ from[2] = Ent(Anc(y, 2)) /\ from[3] = Ent(Anc(y, 3))
    BY <2>1, <2>2, SpotFacts
  <2>4. /\ from[1] # to[1] => Anc(y, 1) \notin Live(n)
        /\ from[2] # to[2] => Anc(y, 2) \notin Live(n)
        /\ Anc(y, 0) \in Live(n)
    BY NextNodes
  <2> QED
    BY <2>1, <2>3, <2>4, Constants DEF Index3
<1>3. Shrink3(m, list, from, to) = r
  BY DEF Shrink3
<1>4. list = A[f][SlotOf(y)]
  BY <1>2
<1> HIDE DEF y, from, to, list, mid, z, s, mid2, t, r
<1>5. /\ 1 \in 1 .. y[3] /\ 2 \in 1 .. y[3] /\ 3 \in 1 .. y[3]
      /\ 1 - 1 = 0 /\ 2 - 1 = 1 /\ 3 - 1 = 2
  BY <1>1
<1>6. mid \in Ref /\ Builds(m, n, A, y, 1, mid)
  <2>1. Builds(m, n, A, y, 1 - 1, list) /\ mid = Link(m, list, Ent(Anc(y, 1)))
    BY <1>1, <1>2, <1>5 DEF mid
  <2> QED
    BY <1>1, <1>5, <2>1, DownLink
<1>7. z \in Ref /\ Builds(m, n, A, y, 2, z)
  <2>1. Builds(m, n, A, y, 2 - 1, mid) /\ z = Link(m, mid, Ent(Anc(y, 2)))
    BY <1>2, <1>5, <1>6 DEF z
  <2> QED
    BY <1>1, <1>5, <1>6, <2>1, DownLink
<1>8. SameInode(s, m) /\ Builds(s, n, A, y, 2, z)
  <2>1. Builds(m, n, A, y, 3 - 1, z) /\ s = RemoveLeaf(m, z, Ent(Anc(y, 3)))
    BY <1>2, <1>5, <1>7 DEF s
  <2>2. SameInode(s, m) /\ Builds(s, n, A, y, 3 - 1, z)
    BY <1>1, <1>2, <1>5, <1>7, <2>1, DownRemove
  <2> QED
    BY <1>5, <2>2
<1>9. ASSUME NEW x, SameInode(x, m), Sound(n, A, x.disk, x.free)
      PROVE  Builds(x, n, A, y, 1 - 1, list) /\ x \in Rec
  <2>1. Builds(x, n, A, y, 0, A[y[1]][SlotOf(y)])
    BY <1>1, <1>2, <1>9, SoundBuilds
  <2> QED
    BY <1>1, <1>4, <1>5, <1>9, <2>1 DEF SameInode, SameCall
<1>10. Sound(n, A, s.disk, s.free) /\ s \in Rec /\ Builds(s, n, A, y, 1 - 1, list)
  <2>1. Sound(n, A, s.disk, s.free)
    BY <1>8, BuildsSound
  <2> QED
    BY <1>8, <1>9, <2>1
<1>11. SameInode(t, m) /\ Sound(n, A, t.disk, t.free)
  <2>1. CASE from[2] = to[2]
    BY <1>8, <1>10, <2>1 DEF t
  <2>2. CASE from[2] # to[2]
    <3>1. mid2 \in Ref /\ Builds(s, n, A, y, 1, mid2)
      <4>1. mid2 = Link(s, list, Ent(Anc(y, 1)))
        BY <1>2 DEF mid2
      <4> QED
        BY <1>1, <1>5, <1>10, <4>1, DownLink
    <3>2. t = RemoveLeaf(s, mid2, Ent(Anc(y, 2))) /\ Builds(s, n, A, y, 2 - 1, mid2)
      BY <1>2, <1>5, <2>2, <3>1 DEF t
    <3>3. SameInode(t, s) /\ Builds(t, n, A, y, 2 - 1, mid2)
      BY <1>1, <1>2, <1>5, <1>10, <2>2, <3>1, <3>2, DownRemove
    <3> QED
      BY <1>8, <3>3, SameTwice, BuildsSound
  <2> QED
    BY <2>1, <2>2
<1>12. SameInode(r, m) /\ Sound(n, A, r.disk, r.free)
  <2>1. CASE from[1] = to[1]
    BY <1>11, <2>1 DEF r
  <2>2. CASE from[1] # to[1]
    <3>1. r = RemoveLeaf(t, list, Ent(Anc(y, 1)))
      BY <1>2, <2>2 DEF r
    <3>2. t \in Rec /\ Builds(t, n, A, y, 1 - 1, list)
      BY <1>9, <1>11
    <3>3. SameInode(r, t) /\ Builds(r, n, A, y, 1 - 1, list)
      BY <1>1, <1>2, <1>5, <2>2, <3>1, <3>2, DownRemove
    <3> QED
      BY <1>11, <3>3, SameTwice, BuildsSound
  <2> QED
    BY <2>1, <2>2
<1> QED
  BY <1>3, <1>12 DEF from, to, list

-----------------------------------------------------------------------------
(* A file gives up the last block of a level                               *)

LEMMA UnwindSteps ==
  ASSUME NEW m \in Rec, NEW depth \in Nat
  PROVE  \E v \in [0 .. depth -> Rec] :
           /\ v[0] = m
           /\ FoldLeft(LAMBDA x, i : RemoveSelf(x, x.blk), m, [i \in 1 .. depth |-> i]) = v[depth]
           /\ \A i \in 1 .. depth : v[i] = RemoveSelf(v[i - 1], v[i - 1].blk)
<1> DEFINE S == 1 .. depth
           seq == [d \in S |-> d]
           F == [q \in Rec \X S |-> RemoveSelf(q[1], q[1].blk)]
           pick == [z \in SUBSET S |-> Max(z)]
           Iter(g) == g = [z \in SUBSET S |->
                             IF z = {} THEN m
                             ELSE RemoveSelf(g[z \ {Max(z)}], g[z \ {Max(z)}].blk)]
<1>1. DOMAIN seq = S /\ IsFiniteSet(S)
  BY FS_Interval
<1>2. \A z \in SUBSET S : z # {} => pick[z] \in z /\ pick[z] = Max(z)
  BY MaxInside
<1>3. ASSUME NEW x \in Rec PROVE RemoveSelf(x, x.blk) \in Rec
  <2>1. x.blk \in Ref
    BY DEF Rec
  <2> QED
    BY <2>1, RemoveSelfType DEF SameInode, SameCall
<1>4. F \in [Rec \X S -> Rec]
  <2> HIDE DEF S
  <2> QED
    BY <1>3
<1>5. PICK g : Iterates(g, S, Rec, m, F, pick)
  <2> HIDE DEF S, F, pick
  <2> QED
    BY <1>1, <1>2, <1>4, IterExists
<1>6. Iter(g)
  <2>1. ASSUME NEW z \in SUBSET S, z # {}
        PROVE  F[<<g[z \ {pick[z]}], pick[z]>>] =
                 RemoveSelf(g[z \ {Max(z)}], g[z \ {Max(z)}].blk)
    <3>1. pick[z] = Max(z) /\ Max(z) \in S /\ z \ {Max(z)} \in SUBSET S
      BY <1>2, <2>1
    <3>2. g[z \ {Max(z)}] \in Rec
      BY <1>5, <3>1 DEF Iterates
    <3> HIDE DEF S, pick
    <3> QED
      BY <3>1, <3>2
  <2> HIDE DEF F, pick
  <2>2. g = [z \in SUBSET S |-> g[z]]
    BY <1>5 DEF Iterates
  <2>3. \A z \in SUBSET S : g[z] = IF z = {} THEN m ELSE F[<<g[z \ {pick[z]}], pick[z]>>]
    BY <1>5 DEF Iterates
  <2> QED
    BY <2>1, <2>2, <2>3
<1> DEFINE iter == CHOOSE g1 : Iter(g1)
<1>7. Iter(iter)
  BY <1>6
<1>8. FoldLeft(LAMBDA x, i : RemoveSelf(x, x.blk), m, seq) = iter[S]
  BY <1>1 DEF FoldLeft, MapThenFoldSet
<1>9. \A z \in SUBSET S :
        iter[z] = IF z = {} THEN m
                  ELSE RemoveSelf(iter[z \ {Max(z)}], iter[z \ {Max(z)}].blk)
  <2> HIDE DEF iter
  <2> QED
    BY <1>7
<1> DEFINE v == [i \in 0 .. depth |-> iter[1 .. i]]
<1> HIDE DEF iter
<1>10. v[0] = m
  <2>1. 1 .. 0 = {} /\ {} \in SUBSET S /\ 0 \in 0 .. depth
    OBVIOUS
  <2>2. iter[{}] = m
    BY <1>9
  <2> QED
    BY <2>1, <2>2
<1>11. ASSUME NEW i \in 1 .. depth PROVE v[i] = RemoveSelf(v[i - 1], v[i - 1].blk)
  <2>1. i \in Nat /\ i # 0 /\ 1 .. i \in SUBSET S /\ i \in 0 .. depth /\ i - 1 \in 0 .. depth
    OBVIOUS
  <2>2. Max(1 .. i) = i /\ (1 .. i) \ {i} = 1 .. i - 1 /\ 1 .. i # {}
    BY <2>1, MaxOfInterval
  <2> HIDE DEF S
  <2>3. iter[1 .. i] = RemoveSelf(iter[1 .. i - 1], iter[1 .. i - 1].blk)
    BY <1>9, <2>1, <2>2
  <2> QED
    BY <2>1, <2>3
<1>12. \A i \in 0 .. depth : v[i] \in Rec
  <2>1. ASSUME NEW z \in SUBSET S, z # {}, iter[z \ {pick[z]}] \in Rec PROVE iter[z] \in Rec
    <3>1. pick[z] = Max(z)
      BY <1>2, <2>1
    <3> HIDE DEF pick, S
    <3> QED
      BY <1>3, <1>9, <2>1, <3>1
  <2>2. iter[{}] \in Rec
    BY <1>9
  <2>3. \A z \in SUBSET S : iter[z] \in Rec
    <3> HIDE DEF S, pick
    <3> QED
      BY <1>1, <1>2, <2>1, <2>2, IterStays
  <2> QED
    BY <2>3
<1>13. v \in [0 .. depth -> Rec] /\ v[depth] = iter[S]
  BY <1>12
<1> HIDE DEF v
<1> QED
  BY <1>8, <1>10, <1>11, <1>13

(* An index block that is of no tree is given back.                        *)
LEMMA SelfRemoved ==
  ASSUME NEW m \in Rec, NEW w, NEW L, NEW A, Fits(w, L, A, m.disk, m.free),
         NEW up \in DataBlock, Loose(up, w, L, m.free)
  PROVE  LET r == RemoveSelf(m, up)
         IN  /\ SameInode(r, m) /\ Fits(w, L, A, r.disk, r.free)
             /\ r.blk = 0 \/ r.blk = m.disk[up][0]
             /\ \A b \in DataBlock : b # up => r.disk[b] = m.disk[b]
             /\ \A b : b # up /\ Loose(b, w, L, m.free) => Loose(b, w, L, r.free)
<1> DEFINE r == RemoveSelf(m, up)
           u == Unlink(m, up, 0)
           s == Deallocate(u, up)
<1>0. 0 \in 0 .. Per - 1 /\ up \in Ref /\ up # 0 /\ Sane(up)
  BY Constants, RefFacts DEF Ref
<1>1. /\ SameInode(u, m) /\ u.free = m.free
      /\ u.blk = 0 \/ u.blk = m.disk[up][0]
      /\ \A b \in DataBlock : b # up => u.disk[b] = m.disk[b]
  BY <1>0, UnlinkFacts
<1>2. r = [s EXCEPT !.error = m.error]
  BY <1>0 DEF RemoveSelf
<1> HIDE DEF u
<1>3. u \in Rec /\ m.error \in Errors
  BY <1>1 DEF SameInode, SameCall, Rec
<1>4. Fits(w, L, A, u.disk, u.free)
  <2>1. \A x \in L : w[x] \in DataBlock /\ w[x] # up
    BY <1>0 DEF Fits, Loose
  <2>2. \A x \in L : x[3] < x[2] => \A n \in 0 .. Per - 1 : u.disk[w[x]][n] = m.disk[w[x]][n]
    BY <1>1, <2>1
  <2> DEFINE e == u.disk
             d == m.disk
  <2>3. Fits(w, L, A, d, m.free)
    OBVIOUS
  <2>4. \A x \in L : x[3] < x[2] => \A n \in 0 .. Per - 1 : e[w[x]][n] = d[w[x]][n]
    BY <2>2
  <2>5. \A x \in L : x[3] = 0 => A[x[1]][SlotOf(x)] = A[x[1]][SlotOf(x)]
    OBVIOUS
  <2> HIDE DEF e, d
  <2>6. Fits(w, L, A, e, m.free)
    BY <2>3, <2>4, <2>5, FitsFrame
  <2> QED
    BY <1>1, <2>6 DEF e
<1>5. /\ SameInode(s, u) /\ Fits(w, L, A, s.disk, s.free)
      /\ s.disk = u.disk /\ s.blk = u.blk
      /\ \A b : b # up /\ Loose(b, w, L, u.free) => Loose(b, w, L, s.free)
  <2>1. Loose(up, w, L, u.free)
    BY <1>1
  <2> QED
    BY <1>0, <1>3, <1>4, <2>1, Deallocated
<1> HIDE DEF s, r
<1>6. s \in Rec
  BY <1>5 DEF SameInode, SameCall
<1>7. SameInode(r, s) /\ r.disk = s.disk /\ r.free = s.free /\ r.blk = s.blk
  BY <1>2, <1>3, <1>6, ErrorKept
<1>8. SameInode(r, m)
  BY <1>1, <1>5, <1>7, SameTwice
<1> QED
  BY <1>1, <1>5, <1>7, <1>8 DEF r

(* The block of the path of y that an index block named, and the blocks    *)
(* below it, are of no node that stays, and are as they were.              *)
Below(x, m, u, K, w, L, y, i) ==
  /\ x.blk # 0 => Anc(y, i) \in L /\ w[Anc(y, i)] = x.blk
  /\ \A j \in i .. y[3] : Anc(y, j) \in L =>
       /\ Loose(w[Anc(y, j)], u, K, x.free)
       /\ j < y[3] => x.disk[w[Anc(y, j)]][0] = m.disk[w[Anc(y, j)]][0]

LEMMA UnwindStep ==
  ASSUME NEW m, NEW w, NEW L, NEW A, Fits(w, L, A, m.disk, m.free),
         NEW y \in Node, NEW i \in 1 .. y[3], Ent(Anc(y, i)) = 0,
         NEW x \in Rec, NEW u, NEW K, NEW A2, Fits(u, K, A2, x.disk, x.free),
         Below(x, m, u, K, w, L, y, i - 1)
  PROVE  LET r == RemoveSelf(x, x.blk)
         IN  /\ SameInode(r, x) /\ Fits(u, K, A2, r.disk, r.free)
             /\ Below(r, m, u, K, w, L, y, i)
<1> DEFINE up == x.blk
           r == RemoveSelf(x, up)
           p == Anc(y, i - 1)
           c == Anc(y, i)
<1>1. y[3] \in 0 .. 3 /\ i \in 0 .. y[3] /\ i - 1 \in 0 .. y[3] /\ i > 0
  BY NodeFacts
<1>2. p \in Node /\ p[3] = i - 1 /\ c \in Node /\ c[3] = i /\ Up(c) = p
  BY <1>1, AncFacts
<1>3. p[3] < p[2] /\ c = Child(p, 0) /\ 0 \in 0 .. Per - 1
  <2> HIDE DEF p
  <2> QED
    BY <1>1, <1>2, UpFacts DEF c
<1>4. up \in Ref
  BY DEF Rec
<1>5. ASSUME NEW j \in i .. y[3], Anc(y, j) \in L
      PROVE  /\ Loose(w[Anc(y, j)], u, K, x.free)
             /\ j < y[3] => x.disk[w[Anc(y, j)]][0] = m.disk[w[Anc(y, j)]][0]
  <2>1. j \in i - 1 .. y[3]
    BY <1>1
  <2> QED
    BY <1>5, <2>1 DEF Below
<1>6. up # 0 => p \in L /\ w[p] = up
  BY DEF Below
<1>7. CASE up = 0
  <2>1. r = [x EXCEPT !.blk = 0]
    BY <1>7, NoIndexBlock
  <2>2. 0 \in Ref
    BY DEF Ref
  <2> HIDE DEF r
  <2>3. SameInode(r, x) /\ r.disk = x.disk /\ r.free = x.free /\ r.blk = 0
    BY <2>1, <2>2 DEF SameInode, SameCall, Rec
  <2>4. Below(r, m, u, K, w, L, y, i)
    BY <1>5, <2>3 DEF Below
  <2> QED
    BY <2>3, <2>4 DEF r
<1>8. CASE up # 0
  <2>1. up \in DataBlock /\ L \in SUBSET Node /\ w \in [L -> DataBlock]
    BY <1>4, <1>8, RefFacts DEF Fits
  <2>2. Loose(up, u, K, x.free) /\ x.disk[up][0] = m.disk[up][0]
    <3>1. i - 1 \in i - 1 .. y[3] /\ i - 1 < y[3]
      BY <1>1
    <3> QED
      BY <1>6, <1>8, <3>1 DEF Below
  <2>3. /\ SameInode(r, x) /\ Fits(u, K, A2, r.disk, r.free)
        /\ r.blk = 0 \/ r.blk = x.disk[up][0]
        /\ \A b \in DataBlock : b # up => r.disk[b] = x.disk[b]
        /\ \A b : b # up /\ Loose(b, u, K, x.free) => Loose(b, u, K, r.free)
    BY <2>1, <2>2, SelfRemoved
  <2> HIDE DEF r, up, p, c
  <2>4. r.blk # 0 => c \in L /\ w[c] = r.blk
    <3> SUFFICES ASSUME r.blk # 0 PROVE c \in L /\ w[c] = r.blk
      OBVIOUS
    <3>1. p \in L /\ w[p] = up /\ r.blk = m.disk[w[p]][0] /\ m.disk[w[p]][0] # 0
      BY <1>6, <1>8, <2>2, <2>3
    <3>2. c \in L
      BY <1>3, <3>1 DEF Fits, Kept
    <3>3. Ent(c) = 0 /\ c[3] > 0
      BY <1>1, <1>2 DEF c
    <3> QED
      BY <1>2, <3>1, <3>2, <3>3 DEF Fits, Kept
  <2>5. ASSUME NEW j \in i .. y[3], Anc(y, j) \in L
        PROVE  /\ Loose(w[Anc(y, j)], u, K, r.free)
               /\ j < y[3] => r.disk[w[Anc(y, j)]][0] = m.disk[w[Anc(y, j)]][0]
    <3> DEFINE z == Anc(y, j)
    <3>1. j \in 0 .. y[3] /\ j # i - 1
      BY <1>1
    <3>2. z[3] = j
      BY <3>1, AncFacts
    <3>3. z # p
      BY <1>2, <3>1, <3>2
    <3>4. z \in L /\ p \in L /\ w[p] = up
      BY <1>6, <1>8, <2>5
    <3> HIDE DEF z
    <3>5. w[z] # up /\ w[z] \in DataBlock
      BY <2>1, <3>3, <3>4 DEF Fits
    <3>6. /\ Loose(w[z], u, K, x.free)
          /\ j < y[3] => x.disk[w[z]][0] = m.disk[w[z]][0]
      BY <1>5, <2>5 DEF z
    <3>7. Loose(w[z], u, K, r.free) /\ (j < y[3] => r.disk[w[z]][0] = m.disk[w[z]][0])
      BY <2>3, <3>5, <3>6
    <3> QED
      BY <3>7 DEF z
  <2>6. Below(r, m, u, K, w, L, y, i)
    BY <2>4, <2>5 DEF Below, c
  <2> QED
    BY <2>3, <2>6 DEF r, up
<1> QED
  BY <1>7, <1>8

(* The numbers of the inode after a turn of the loop of a contraction, and *)
(* the trees of a file with a block less.                                  *)
Shrunk(r, m, n, f, A) ==
  /\ SameCall(r, m)
  /\ \A x \in Live(n) : x[1] = f /\ x[3] = 0 => r.addr[SlotOf(x)] = m.addr[SlotOf(x)]
  /\ Sound(n, [A EXCEPT ![f] = r.addr], r.disk, r.free)

LEMMA SoundShrunk ==
  ASSUME NEW m, NEW n, NEW f \in File, NEW A \in Addrs, A[f] = m.addr,
         NEW r, SameInode(r, m), Sound(n, A, r.disk, r.free)
  PROVE  Shrunk(r, m, n, f, A)
<1>1. r.addr = A[f] /\ SameCall(r, m)
  BY DEF SameInode
<1>2. [A EXCEPT ![f] = r.addr] = A
  BY <1>1, SameAddr
<1> QED
  BY <1>1, <1>2 DEF Shrunk

(* The nodes of the last block of a file, without that block.              *)
LEMMA LastNodes ==
  ASSUME NEW n \in Counts, NEW f \in File, n[f] < Capacity, NEW A, NEW disk0, NEW free0,
         Sound([n EXCEPT ![f] = n[f] + 1], A, disk0, free0)
  PROVE  \E w, L : /\ Fits(w, L, A, disk0, free0)
                   /\ Live(n) \subseteq L /\ Path(Leaf(f, n[f] + 1)) \subseteq L
<1> DEFINE q == [n EXCEPT ![f] = n[f] + 1]
<1>1. Live(q) = Live(n) \cup Path(Leaf(f, n[f] + 1))
  BY LiveMore
<1> HIDE DEF q
<1>2. Sound(q, A, disk0, free0)
  BY DEF q
<1>3. PICK w, L : Fits(w, L, A, disk0, free0) /\ Live(q) \subseteq L
  BY <1>2 DEF Sound
<1> QED
  BY <1>1, <1>3

(* The tree of the last block is of no other block: what is left without   *)
(* it, and the blocks that are let go.                                     *)
Cut(w, L, u, K, n, A, A2, disk0, free0, y) ==
  /\ Fits(w, L, A, disk0, free0) /\ Path(y) \subseteq L
  /\ Fits(u, K, A2, disk0, free0) /\ Live(n) \subseteq K
  /\ \A x \in K : RootOf(x) \in Live(n)
  /\ \A z \in Path(y) : Loose(w[z], u, K, free0)

LEMMA RootCut ==
  ASSUME NEW n \in Counts, NEW f \in File, n[f] < Capacity, NEW A, NEW disk0, NEW free0,
         Sound([n EXCEPT ![f] = n[f] + 1], A, disk0, free0),
         NEW y, y = Leaf(f, n[f] + 1), RootOf(y) \notin Live(n),
         NEW A2, \A x \in Live(n) : x[3] = 0 => A2[x[1]][SlotOf(x)] = A[x[1]][SlotOf(x)]
  PROVE  \E w, L, u, K : Cut(w, L, u, K, n, A, A2, disk0, free0, y)
<1>1. PICK w, L : /\ Fits(w, L, A, disk0, free0)
                  /\ Live(n) \subseteq L /\ Path(y) \subseteq L
  BY LastNodes
<1> DEFINE K == {x \in L : RootOf(x) \in Live(n)}
           u == [x \in K |-> w[x]]
<1>2. Fits(u, K, A2, disk0, free0) /\ Live(n) \subseteq K
  <2>1. Fits(w, L, A, disk0, free0) /\ Live(n) \subseteq L
    BY <1>1
  <2> QED
    BY <2>1, Pruned
<1>3. \A x \in K : x \in L /\ u[x] = w[x] /\ RootOf(x) \in Live(n)
  OBVIOUS
<1> HIDE DEF u, K
<1>4. y \in Node
  BY NextFacts
<1>5. ASSUME NEW z \in Path(y) PROVE Loose(w[z], u, K, free0)
  <2>1. z \in L /\ RootOf(z) = RootOf(y)
    BY <1>1, <1>4, PathFacts
  <2>2. \A x \in K : x # z
    BY <1>3, <2>1
  <2>3. \A x \in K : u[x] # w[z]
    BY <1>1, <1>3, <2>1, <2>2 DEF Fits
  <2>4. \A i \in 1 .. Len(free0) : free0[i] # w[z]
    BY <1>1, <2>1 DEF Fits, Spare
  <2> QED
    BY <2>3, <2>4 DEF Loose
<1> QED
  BY <1>1, <1>2, <1>3, <1>5 DEF Cut

LEMMA Shrink0Step ==
  ASSUME NEW m \in Rec, NEW n \in Counts, NEW f \in File, n[f] < Capacity,
         Level(n[f] + 1) = 0,
         NEW A, A[f] = m.addr, Sound([n EXCEPT ![f] = n[f] + 1], A, m.disk, m.free)
  PROVE  LET r == Deallocate(m, m.addr[Offset(n[f] + 1)])
         IN  SameInode(r, m) /\ Sound(n, A, r.disk, r.free)
<1> DEFINE y == Leaf(f, n[f] + 1)
           blk == m.addr[Offset(n[f] + 1)]
           r == Deallocate(m, blk)
<1>1. /\ y \in Node /\ y[1] = f /\ y[3] = 0 /\ SlotOf(y) = Offset(n[f] + 1) /\ y \notin Live(n)
      /\ RootOf(y) = y /\ y \in Path(y) /\ SlotOf(y) \in Slot
  <2>1. y \in Node /\ y[1] = f /\ y[3] = 0 /\ SlotOf(y) = Offset(n[f] + 1) /\ y \notin Live(n)
    BY NextFacts
  <2> QED
    BY <2>1, RootFacts DEF Path
<1> HIDE DEF y
<1>2. PICK w, L, u, K : Cut(w, L, u, K, n, A, A, m.disk, m.free, y)
  <2>1. \A x \in Live(n) : x[3] = 0 => A[x[1]][SlotOf(x)] = A[x[1]][SlotOf(x)]
    OBVIOUS
  <2>2. RootOf(y) \notin Live(n) /\ y = Leaf(f, n[f] + 1)
    BY <1>1 DEF y
  <2> QED
    BY <2>1, <2>2, RootCut
<1>3. blk = w[y] /\ blk \in Ref
  <2>1. m.addr \in [Slot -> Ref]
    BY DEF Rec
  <2> QED
    BY <1>1, <1>2, <2>1 DEF Cut, Fits, Kept
<1>4. Loose(blk, u, K, m.free)
  BY <1>1, <1>2, <1>3 DEF Cut
<1> HIDE DEF blk
<1>5. SameInode(r, m) /\ Fits(u, K, A, r.disk, r.free)
  BY <1>2, <1>3, <1>4, Deallocated DEF Cut
<1> HIDE DEF r
<1>6. Sound(n, A, r.disk, r.free)
  BY <1>2, <1>5 DEF Sound, Cut
<1> QED
  BY <1>5, <1>6 DEF r, blk

LEMMA ShrinkLevelStep ==
  ASSUME NEW m \in Rec, NEW n \in Counts, NEW f \in File, n[f] < Capacity,
         NEW l, l = Level(n[f] + 1), l # 0, Offset(n[f] + 1) = 0, Spot(n[f] + 1) # Undefined,
         RootOf(Leaf(f, n[f] + 1)) \notin Live(n),
         NEW A \in Addrs, A[f] = m.addr, Sound([n EXCEPT ![f] = n[f] + 1], A, m.disk, m.free)
  PROVE  Shrunk(ShrinkLevel(m, NDirect + l - 1, l), m, n, f, A)
<1> DEFINE y == Leaf(f, n[f] + 1)
           slot == NDirect + l - 1
           addr2 == [m.addr EXCEPT ![slot] = 0]
           A2 == [A EXCEPT ![f] = addr2]
           s == [m EXCEPT !.blk = m.addr[slot], !.addr[slot] = 0]
           r == ShrinkLevel(m, slot, l)
<1>1. /\ l \in 1 .. 3 /\ y \in Node /\ y[1] = f /\ y[3] = l /\ SlotOf(y) = slot
      /\ slot \in Slot /\ n[f] + 1 \in 1 .. Capacity /\ RootOf(y) \notin Live(n)
  <2>1. y \in Node /\ y[1] = f /\ y[3] = l /\ SlotOf(y) = slot /\ l \in 0 .. 3
        /\ n[f] + 1 \in 1 .. Capacity
    BY NextFacts
  <2> QED
    BY <2>1, RootFacts
<1>2. \A d \in 1 .. l : Ent(Anc(y, d)) = 0
  BY <1>1, SpotFacts, ZeroSpot
<1>3. RootOf(y) \in Node /\ RootOf(y)[1] = f /\ RootOf(y)[3] = 0 /\ SlotOf(RootOf(y)) = slot
      /\ RootOf(y) \in Path(y) /\ Anc(y, 0) = RootOf(y)
  BY <1>1, RootFacts, RootInPath
<1> HIDE DEF y, slot
<1>4. m.addr \in [Slot -> Ref] /\ m.addr[slot] \in Ref /\ 0 \in Ref
  BY <1>1 DEF Rec, Ref
<1>5. addr2 \in [Slot -> Ref] /\ \A i \in Slot : i # slot => addr2[i] = m.addr[i]
  BY <1>4
<1>6. s = [m EXCEPT !.blk = m.addr[slot], !.addr = addr2]
  BY <1>4 DEF Rec
<1> HIDE DEF s, addr2
<1>7. /\ SameCall(s, m) /\ s.addr = addr2 /\ s.blk = m.addr[slot]
      /\ s.disk = m.disk /\ s.free = m.free
  BY <1>4, <1>5, <1>6 DEF SameCall, Rec
<1>8. A2[f] = addr2 /\ \A g \in File : g # f => A2[g] = A[g]
  BY DEF Addrs
<1>9. ASSUME NEW x \in Live(n), x[3] = 0, x[1] = f
      PROVE  addr2[SlotOf(x)] = m.addr[SlotOf(x)]
  <2>1. x \in Node /\ RootOf(x) = x /\ SlotOf(x) \in Slot
    BY <1>9, LiveFacts, RootFacts
  <2>2. SlotOf(x) # slot
    BY <1>1, <1>3, <1>9, <2>1, SlotNames
  <2> QED
    BY <1>5, <2>1, <2>2
<1>10. ASSUME NEW x \in Live(n), x[3] = 0 PROVE A2[x[1]][SlotOf(x)] = A[x[1]][SlotOf(x)]
  <2>1. x[1] \in File
    BY LiveFacts
  <2> QED
    BY <1>8, <1>9, <1>10, <2>1
<1> HIDE DEF A2
<1>11. PICK w, L, u, K : Cut(w, L, u, K, n, A, A2, m.disk, m.free, y)
  <2>1. y = Leaf(f, n[f] + 1)
    BY DEF y
  <2> QED
    BY <1>1, <1>10, <2>1, RootCut
<1>12. w[RootOf(y)] = m.addr[slot] /\ L \in SUBSET Node /\ w \in [L -> DataBlock]
  BY <1>3, <1>11 DEF Cut, Fits, Kept
<1>13. PICK v \in [0 .. l -> Rec] :
           /\ v[0] = s
           /\ FoldLeft(LAMBDA x, i : RemoveSelf(x, x.blk), s, [i \in 1 .. l |-> i]) = v[l]
           /\ \A i \in 1 .. l : v[i] = RemoveSelf(v[i - 1], v[i - 1].blk)
  <2>1. s \in Rec /\ l \in Nat
    BY <1>1, <1>7 DEF SameCall
  <2> QED
    BY <2>1, UnwindSteps
<1> DEFINE P(i) == /\ SameInode(v[i], s) /\ Fits(u, K, A2, v[i].disk, v[i].free)
                   /\ Below(v[i], m, u, K, w, L, y, i)
<1>14. P(0)
  <2>1. SameInode(s, s)
    BY <1>7, SameItself DEF SameCall
  <2>2. ASSUME NEW j \in 0 .. y[3] PROVE Loose(w[Anc(y, j)], u, K, s.free)
    BY <1>1, <1>7, <1>11, <2>2, AncFacts DEF Cut
  <2>3. Below(s, m, u, K, w, L, y, 0)
    BY <1>3, <1>7, <1>11, <1>12, <2>2 DEF Below, Cut
  <2> QED
    BY <1>7, <1>11, <1>13, <2>1, <2>3 DEF Cut
<1>15. ASSUME NEW i \in 1 .. l, P(i - 1) PROVE P(i)
  <2> DEFINE x == v[i - 1]
             t == RemoveSelf(x, x.blk)
  <2>1. x \in Rec
    <3>1. i - 1 \in 0 .. l
      BY <1>1
    <3> QED
      BY <1>13, <3>1
  <2>2. SameInode(x, s) /\ Fits(u, K, A2, x.disk, x.free) /\ Below(x, m, u, K, w, L, y, i - 1)
    BY <1>15
  <2>3. v[i] = t
    BY <1>13
  <2> HIDE DEF x
  <2>4. i \in 1 .. y[3] /\ Ent(Anc(y, i)) = 0
    BY <1>1, <1>2
  <2>5. SameInode(t, x) /\ Fits(u, K, A2, t.disk, t.free) /\ Below(t, m, u, K, w, L, y, i)
    BY <1>1, <1>11, <2>1, <2>2, <2>4, UnwindStep DEF Cut
  <2> HIDE DEF t
  <2>6. SameInode(t, s)
    BY <2>2, <2>5, SameTwice
  <2> QED
    BY <2>3, <2>5, <2>6
<1> HIDE DEF P
<1>16. P(l)
  <2>1. P(1)
    <3>1. 1 \in 1 .. l /\ 1 - 1 = 0
      BY <1>1
    <3>2. P(1 - 1)
      BY <1>14, <3>1
    <3> QED
      BY <1>15, <3>1, <3>2
  <2>2. l >= 2 => P(2)
    BY <1>1, <1>15, <2>1
  <2>3. l = 3 => P(3)
    BY <1>1, <1>15, <2>2
  <2> QED
    BY <1>1, <2>1, <2>2, <2>3
<1> DEFINE e == v[l]
<1>17. r = Deallocate(e, e.blk)
  <2>1. ShrinkLevel(m, slot, l) =
          LET Last1(x) == Deallocate(x, x.blk)
          IN Last1(FoldLeft(LAMBDA x, i : RemoveSelf(x, x.blk), s, [i \in 1 .. l |-> i]))
    BY DEF ShrinkLevel, s
  <2> QED
    BY <1>13, <2>1
<1>18. SameInode(e, s) /\ Fits(u, K, A2, e.disk, e.free) /\ Below(e, m, u, K, w, L, y, l)
  BY <1>16 DEF P
<1> HIDE DEF e, r
<1>19. e \in Rec /\ e.blk \in Ref /\ Loose(e.blk, u, K, e.free)
  <2>1. e \in Rec /\ e.blk \in Ref
    BY <1>18 DEF SameInode, SameCall, Rec
  <2>2. l \in l .. y[3]
    BY <1>1
  <2>3. CASE e.blk = 0
    BY <2>1, <2>3 DEF Loose
  <2>4. CASE e.blk # 0
    BY <1>18, <2>1, <2>2, <2>4 DEF Below
  <2> QED
    BY <2>3, <2>4
<1>20. SameInode(r, e) /\ Fits(u, K, A2, r.disk, r.free)
  <2> DEFINE t == Deallocate(e, e.blk)
  <2>1. SameInode(t, e) /\ Fits(u, K, A2, t.disk, t.free)
    BY <1>18, <1>19, Deallocated
  <2> HIDE DEF t
  <2> QED
    BY <1>17, <2>1 DEF t
<1>21. SameCall(r, m) /\ r.addr = addr2
  BY <1>7, <1>18, <1>20 DEF SameInode, SameCall
<1>22. Sound(n, A2, r.disk, r.free)
  BY <1>11, <1>20 DEF Sound, Cut
<1>23. Shrunk(r, m, n, f, A)
  BY <1>9, <1>21, <1>22 DEF Shrunk, A2
<1> QED
  BY <1>23 DEF r, slot

-----------------------------------------------------------------------------
(* A turn of the loop of a contraction                                     *)

(* The last of k + 1 blocks.                                               *)
Shrinks(k, sz) ==
  LET before == Addr((sz + Word - BlkSize) % Word)
  IN  /\ Addr(sz) = Spot(k + 1)
      /\ k = 0 => before.level = 0
      /\ k # 0 => before = Spot(k)

LEMMA SpotOrder ==
  ASSUME NEW j \in Nat \ {0}, NEW k \in Nat \ {0}, j <= k, Spot(k) # Undefined
  PROVE  /\ Spot(j) # Undefined /\ Spot(j).level = Level(j) /\ Level(j) \in 0 .. 3
         /\ Spot(k).level = Level(k) /\ Level(j) <= Level(k)
<1>1. Level(j) <= Level(k) /\ Level(j) \in 0 .. 3 /\ Level(k) \in 0 .. 3
  BY LevelOrder, OffsetFacts
<1>2. Level(k) <= 1 \/ Size2 # 0
  BY DEF Spot
<1>3. Spot(j).level = Level(j) /\ Spot(k).level = Level(k)
  BY <1>1, <1>2 DEF Spot, At
<1>4. Undefined.level = 4
  BY DEF Undefined, At
<1> QED
  BY <1>1, <1>3, <1>4

LEMMA ShrinkCases ==
  ASSUME NEW m, NEW k \in Nat, k < Capacity, NEW sz, Shrinks(k, sz), Spot(k + 1) # Undefined
  PROVE  LET from == Spot(k + 1)
             to   == Spot(k)
             l    == Level(k + 1)
             r    == ShrinkStep(m, sz)
         IN  \/ l = 0 /\ r = Deallocate(m, m.addr[Offset(k + 1)])
             \/ /\ l # 0 /\ k # 0 /\ l # Level(k) /\ Offset(k + 1) = 0
                /\ r = ShrinkLevel(m, NDirect + l - 1, l)
             \/ /\ k # 0 /\ l = Level(k) /\ Spot(k) # Undefined
                /\ \/ l = 1 /\ r = RemoveLeaf(m, m.addr[Index1], from.index[1])
                   \/ l = 2 /\ r = Shrink2(m, m.addr[Index2], from.index, to.index)
                   \/ l = 3 /\ r = Shrink3(m, m.addr[Index3], from.index, to.index)
<1> DEFINE from == Spot(k + 1)
           l == Level(k + 1)
           to == Addr((sz + Word - BlkSize) % Word)
           r == ShrinkStep(m, sz)
<1>1. r = CASE from.level # to.level -> ShrinkLevel(m, NDirect + from.level - 1, from.level)
            [] to.level = 0 /\ from.level = 0 -> Deallocate(m, m.addr[from.index[1]])
            [] to.level = 1 /\ from.level = 1 -> RemoveLeaf(m, m.addr[Index1], from.index[1])
            [] to.level = 2 /\ from.level = 2 -> Shrink2(m, m.addr[Index2], from.index, to.index)
            [] to.level = 3 /\ from.level = 3 -> Shrink3(m, m.addr[Index3], from.index, to.index)
  BY DEF ShrinkStep, Shrinks
<1>2. k + 1 \in Nat \ {0} /\ l \in 0 .. 3 /\ from.level = l
  BY OffsetFacts, SpotOrder
<1>3. k # 0 => to = Spot(k) /\ Spot(k) # Undefined /\ to.level = Level(k) /\ Level(k) <= l
               /\ Level(k) \in 0 .. 3
  <2> SUFFICES ASSUME k # 0
               PROVE  to = Spot(k) /\ Spot(k) # Undefined /\ to.level = Level(k)
                      /\ Level(k) <= l /\ Level(k) \in 0 .. 3
    OBVIOUS
  <2>1. k \in Nat \ {0} /\ k <= k + 1 /\ to = Spot(k)
    BY DEF Shrinks
  <2>2. Spot(k) # Undefined /\ Spot(k).level = Level(k) /\ Level(k) <= l /\ Level(k) \in 0 .. 3
    BY <1>2, <2>1, SpotOrder
  <2> QED
    BY <2>1, <2>2
<1>4. k = 0 => l = 0 /\ to.level = 0
  <2>1. Level(1) = 0
    BY Constants DEF Level
  <2> QED
    BY <2>1 DEF Shrinks
<1>5. l = 0 => from.index[1] = Offset(k + 1)
  BY DEF Spot, At
<1>6. k # 0 /\ l # Level(k) => Offset(k + 1) = 0
  BY LevelNext
<1> HIDE DEF from, l, to, r
<1>7. CASE l = 0
  <2>1. to.level = 0
    BY <1>3, <1>4, <1>7
  <2>2. r = Deallocate(m, m.addr[from.index[1]])
    BY <1>1, <1>2, <1>7, <2>1
  <2> QED
    BY <1>5, <1>7, <2>2 DEF r, l
<1>8. CASE l # 0 /\ l # Level(k)
  <2>1. k # 0
    BY <1>4, <1>8
  <2>2. from.level # to.level /\ from.level = l
    BY <1>2, <1>3, <1>8, <2>1
  <2>3. r = ShrinkLevel(m, NDirect + l - 1, l)
    BY <1>1, <2>2
  <2> QED
    BY <1>6, <1>8, <2>1, <2>3 DEF r, l
<1>9. CASE l # 0 /\ l = Level(k)
  <2>1. k # 0
    BY <1>4, <1>9
  <2>2. from.level = l /\ to.level = l /\ l \in 1 .. 3
    BY <1>2, <1>3, <1>9, <2>1
  <2>3. \/ l = 1 /\ r = RemoveLeaf(m, m.addr[Index1], from.index[1])
        \/ l = 2 /\ r = Shrink2(m, m.addr[Index2], from.index, to.index)
        \/ l = 3 /\ r = Shrink3(m, m.addr[Index3], from.index, to.index)
    BY <1>1, <2>2
  <2> QED
    BY <1>3, <1>9, <2>1, <2>3 DEF r, l, from
<1> QED
  BY <1>7, <1>8, <1>9

LEMMA ShrinkLevelType ==
  ASSUME NEW m \in Rec, NEW slot \in Slot, NEW l \in 1 .. 3
  PROVE  ShrinkLevel(m, slot, l) \in Rec
<1> DEFINE addr2 == [m.addr EXCEPT ![slot] = 0]
           s == [m EXCEPT !.blk = m.addr[slot], !.addr[slot] = 0]
           r == ShrinkLevel(m, slot, l)
<1>1. m.addr \in [Slot -> Ref] /\ m.addr[slot] \in Ref /\ 0 \in Ref
  BY DEF Rec, Ref
<1>2. addr2 \in [Slot -> Ref]
  BY <1>1
<1>3. s = [m EXCEPT !.blk = m.addr[slot], !.addr = addr2]
  BY <1>1 DEF Rec
<1> HIDE DEF addr2, s
<1>4. s \in Rec
  BY <1>1, <1>2, <1>3 DEF Rec
<1>5. l \in Nat /\ l \in 0 .. l
  OBVIOUS
<1>6. PICK v \in [0 .. l -> Rec] :
         FoldLeft(LAMBDA x, i : RemoveSelf(x, x.blk), s, [i \in 1 .. l |-> i]) = v[l]
  BY <1>4, <1>5, UnwindSteps
<1> DEFINE e == v[l]
<1>7. e \in Rec
  BY <1>5, <1>6
<1>8. r = Deallocate(e, e.blk)
  <2>1. ShrinkLevel(m, slot, l) =
          LET Last1(x) == Deallocate(x, x.blk)
          IN Last1(FoldLeft(LAMBDA x, i : RemoveSelf(x, x.blk), s, [i \in 1 .. l |-> i]))
    BY DEF ShrinkLevel, s
  <2> QED
    BY <1>6, <2>1
<1> HIDE DEF e, r
<1>9. e.blk \in Ref
  BY <1>7 DEF Rec
<1>10. r \in Rec
  BY <1>7, <1>8, <1>9, DeallocateFacts DEF SameInode, SameCall
<1> QED
  BY <1>10 DEF r

LEMMA ShrinkStepType ==
  ASSUME NEW m \in Rec, NEW f \in File, NEW k \in Nat, k < Capacity, NEW sz,
         Shrinks(k, sz), Spot(k + 1) # Undefined
  PROVE  ShrinkStep(m, sz) \in Rec
<1> DEFINE from == Spot(k + 1)
           to   == Spot(k)
           l    == Level(k + 1)
           slot == IF l = 0 THEN Offset(k + 1) ELSE NDirect + l - 1
           r    == ShrinkStep(m, sz)
<1>1. \/ l = 0 /\ r = Deallocate(m, m.addr[slot])
      \/ l # 0 /\ r = ShrinkLevel(m, slot, l)
      \/ /\ k # 0 /\ l = Level(k) /\ Spot(k) # Undefined
         /\ \/ l = 1 /\ r = RemoveLeaf(m, m.addr[Index1], from.index[1])
            \/ l = 2 /\ r = Shrink2(m, m.addr[Index2], from.index, to.index)
            \/ l = 3 /\ r = Shrink3(m, m.addr[Index3], from.index, to.index)
  BY ShrinkCases
<1>2. k + 1 \in 1 .. Capacity
  BY Constants
<1>3. l \in 0 .. 3 /\ slot \in Slot /\ \A d \in 1 .. l : from.index[d] \in 0 .. Per - 1
  <2> DEFINE j == k + 1
  <2>1. j \in 1 .. Capacity /\ Spot(j) # Undefined
    BY <1>2
  <2> HIDE DEF j
  <2>2. /\ Level(j) \in 0 .. 3
        /\ \A d \in 1 .. Level(j) : Spot(j).index[d] \in 0 .. Per - 1
        /\ Level(j) = 0 => Spot(j).index[1] \in Slot
        /\ Level(j) # 0 => NDirect + Level(j) - 1 \in Slot
    BY <2>1, SpotTypes
  <2>3. Level(j) = 0 => Spot(j).index[1] = Offset(j)
    BY DEF Spot, At
  <2> QED
    BY <2>2, <2>3 DEF j
<1>4. m.addr[Index1] \in Ref /\ m.addr[Index2] \in Ref /\ m.addr[Index3] \in Ref
      /\ m.addr[slot] \in Ref
  <2>1. Index1 \in Slot /\ Index2 \in Slot /\ Index3 \in Slot
    BY Constants DEF Slot, Index1, Index2, Index3
  <2> HIDE DEF slot
  <2> QED
    BY <1>3, <2>1 DEF Rec
<1>5. ASSUME NEW x \in Rec, NEW up \in Ref, NEW i \in 0 .. Per - 1
      PROVE  RemoveLeaf(x, up, i) \in Rec /\ Link(x, up, i) \in Ref
  BY RemoveLeafType, LinkType DEF SameInode, SameCall
<1> HIDE DEF from, to, l, slot, r
<1>6. CASE l = 0 /\ r = Deallocate(m, m.addr[slot])
  BY <1>4, <1>6, DeallocateFacts DEF SameInode, SameCall, r
<1>7. CASE l # 0 /\ r = ShrinkLevel(m, slot, l)
  <2>1. l \in 1 .. 3
    BY <1>3, <1>7
  <2> QED
    BY <1>3, <1>7, <2>1, ShrinkLevelType DEF r
<1>8. CASE l = 1 /\ r = RemoveLeaf(m, m.addr[Index1], from.index[1])
  <2>1. from.index[1] \in 0 .. Per - 1
    BY <1>3, <1>8
  <2> QED
    BY <1>4, <1>5, <1>8, <2>1 DEF r
<1>9. CASE l = 2 /\ r = Shrink2(m, m.addr[Index2], from.index, to.index)
  <2> DEFINE list == m.addr[Index2]
             z == Link(m, list, from.index[1])
             s == RemoveLeaf(m, z, from.index[2])
  <2>1. from.index[1] \in 0 .. Per - 1 /\ from.index[2] \in 0 .. Per - 1 /\ list \in Ref
    BY <1>3, <1>4, <1>9
  <2>2. r = IF from.index[1] = to.index[1] THEN s ELSE RemoveLeaf(s, list, from.index[1])
    BY <1>9 DEF Shrink2
  <2> HIDE DEF list
  <2>3. z \in Ref
    BY <1>5, <2>1
  <2> HIDE DEF z
  <2>4. s \in Rec
    BY <1>5, <2>1, <2>3
  <2> HIDE DEF s
  <2>5. r \in Rec
    BY <1>5, <2>1, <2>2, <2>4
  <2> QED
    BY <2>5 DEF r
<1>10. CASE l = 3 /\ r = Shrink3(m, m.addr[Index3], from.index, to.index)
  <2> DEFINE list == m.addr[Index3]
             mid == Link(m, list, from.index[1])
             s == RemoveLeaf(m, Link(m, mid, from.index[2]), from.index[3])
             t == IF from.index[2] = to.index[2] THEN s
                  ELSE RemoveLeaf(s, Link(s, list, from.index[1]), from.index[2])
  <2>1. from.index[1] \in 0 .. Per - 1 /\ from.index[2] \in 0 .. Per - 1
        /\ from.index[3] \in 0 .. Per - 1 /\ list \in Ref
    BY <1>3, <1>4, <1>10
  <2>2. r = IF from.index[1] = to.index[1] THEN t ELSE RemoveLeaf(t, list, from.index[1])
    BY <1>10 DEF Shrink3
  <2> HIDE DEF list
  <2>3. mid \in Ref
    BY <1>5, <2>1
  <2> HIDE DEF mid
  <2>4. s \in Rec
    BY <1>5, <2>1, <2>3
  <2> HIDE DEF s
  <2>5. t \in Rec
    BY <1>5, <2>1, <2>4
  <2> HIDE DEF t
  <2>6. r \in Rec
    BY <1>5, <2>1, <2>2, <2>5
  <2> QED
    BY <2>6 DEF r
<1> QED
  BY <1>1, <1>6, <1>7, <1>8, <1>9, <1>10

(* From the counts n of files of which f is about to lose a block, those   *)
(* after it: n, and before it: one more.                                   *)
LEMMA ShrinkStepShrunk ==
  ASSUME NEW m \in Rec, NEW n \in Counts, NEW f \in File, n[f] < Capacity,
         NEW A \in Addrs, A[f] = m.addr,
         Sound([n EXCEPT ![f] = n[f] + 1], A, m.disk, m.free),
         NEW sz, Shrinks(n[f], sz), Spot(n[f] + 1) # Undefined
  PROVE  Shrunk(ShrinkStep(m, sz), m, n, f, A)
<1> DEFINE k    == n[f]
           from == Spot(k + 1)
           to   == Spot(k)
           l    == Level(k + 1)
           r    == ShrinkStep(m, sz)
           y    == Leaf(f, k + 1)
<1>1. /\ k \in Nat /\ k + 1 \in 1 .. Capacity
      /\ k = 0 \/ Level(k) # l => RootOf(y) \notin Live(n)
  BY NextFacts
<1>2. \/ l = 0 /\ r = Deallocate(m, m.addr[Offset(k + 1)])
      \/ /\ l # 0 /\ k # 0 /\ l # Level(k) /\ Offset(k + 1) = 0
         /\ r = ShrinkLevel(m, NDirect + l - 1, l)
      \/ /\ k # 0 /\ l = Level(k) /\ Spot(k) # Undefined
         /\ \/ l = 1 /\ r = RemoveLeaf(m, m.addr[Index1], from.index[1])
            \/ l = 2 /\ r = Shrink2(m, m.addr[Index2], from.index, to.index)
            \/ l = 3 /\ r = Shrink3(m, m.addr[Index3], from.index, to.index)
  <2> HIDE DEF k
  <2> QED
    BY <1>1, ShrinkCases DEF k
<1>3. k # 0 => k \in 1 .. Capacity
  BY <1>1, Constants
<1>4. Sound(n, A, m.disk, m.free)
  <2> DEFINE q == [n EXCEPT ![f] = n[f] + 1]
  <2>1. q \in Counts
    BY LiveMore
  <2>2. \A g \in File : n[g] <= q[g]
    <3>1. \A g \in File : n[g] \in Nat
      BY Constants DEF Counts
    <3>2. q[f] = n[f] + 1
      BY DEF Counts
    <3>3. \A g \in File : g # f => q[g] = n[g]
      BY DEF Counts
    <3> HIDE DEF q
    <3> QED
      BY <3>1, <3>2, <3>3
  <2>3. Sound(q, A, m.disk, m.free)
    OBVIOUS
  <2> HIDE DEF q
  <2> QED
    BY <2>1, <2>2, <2>3, SoundLess
<1> HIDE DEF from, to, r, y
<1>5. CASE l = 0 /\ r = Deallocate(m, m.addr[Offset(k + 1)])
  <2>1. SameInode(r, m) /\ Sound(n, A, r.disk, r.free)
    BY <1>5, Shrink0Step
  <2> QED
    BY <2>1, SoundShrunk DEF r
<1>6. CASE /\ l # 0 /\ k # 0 /\ l # Level(k) /\ Offset(k + 1) = 0
           /\ r = ShrinkLevel(m, NDirect + l - 1, l)
  <2>1. RootOf(Leaf(f, n[f] + 1)) \notin Live(n)
    BY <1>1, <1>6 DEF y
  <2>2. l = Level(n[f] + 1) /\ l # 0 /\ Offset(n[f] + 1) = 0
    BY <1>6
  <2>3. Sound([n EXCEPT ![f] = n[f] + 1], A, m.disk, m.free)
    OBVIOUS
  <2> HIDE DEF l
  <2>4. Shrunk(ShrinkLevel(m, NDirect + l - 1, l), m, n, f, A)
    BY <2>1, <2>2, <2>3, ShrinkLevelStep
  <2> QED
    BY <1>6, <2>4 DEF r
<1>7. CASE k # 0 /\ l = Level(k) /\ l = 1 /\ r = RemoveLeaf(m, m.addr[Index1], from.index[1])
  <2>1. SameInode(r, m) /\ Sound(n, A, r.disk, r.free)
    BY <1>3, <1>4, <1>7, Shrink1Step DEF from
  <2> QED
    BY <2>1, SoundShrunk DEF r
<1>8. CASE k # 0 /\ l = Level(k) /\ l = 2
           /\ r = Shrink2(m, m.addr[Index2], from.index, to.index)
  <2>1. SameInode(r, m) /\ Sound(n, A, r.disk, r.free)
    BY <1>3, <1>4, <1>8, Shrink2Step DEF from, to
  <2> QED
    BY <2>1, SoundShrunk DEF r
<1>9. CASE k # 0 /\ l = Level(k) /\ l = 3
           /\ r = Shrink3(m, m.addr[Index3], from.index, to.index)
  <2>1. SameInode(r, m) /\ Sound(n, A, r.disk, r.free)
    BY <1>3, <1>4, <1>9, Shrink3Step DEF from, to
  <2> QED
    BY <2>1, SoundShrunk DEF r
<1> QED
  BY <1>2, <1>5, <1>6, <1>7, <1>8, <1>9

(* The turns of the loop of a contraction, one by one.                     *)
LEMMA ShrinkSteps ==
  ASSUME NEW m \in Rec, NEW f \in File, NEW turns \in Nat, NEW k \in Nat, k <= Capacity,
         turns <= k, k = 0 \/ Spot(k) # Undefined,
         \A i \in 1 .. turns : Shrinks(k - i, (m.size + Word - (i - 1) * BlkSize) % Word)
  PROVE  \E v \in [0 .. turns -> Rec] :
           /\ v[0] = m
           /\ \A i \in 1 .. turns :
                v[i] = ShrinkStep(v[i - 1], (m.size + Word - (i - 1) * BlkSize) % Word)
           /\ FoldLeft(LAMBDA x, i : ShrinkStep(x, (m.size + Word - (i - 1) * BlkSize) % Word), m,
                       [i \in 1 .. turns |-> i]) = v[turns]
<1> DEFINE S == 1 .. turns
           seq == [i \in S |-> i]
           F == [q \in Rec \X S |-> ShrinkStep(q[1], (m.size + Word - (q[2] - 1) * BlkSize) % Word)]
           pick == [z \in SUBSET S |-> Max(z)]
           Iter(g) == g = [z \in SUBSET S |->
                             IF z = {} THEN m
                             ELSE ShrinkStep(g[z \ {Max(z)}],
                                             (m.size + Word - (seq[Max(z)] - 1) * BlkSize) % Word)]
<1>1. DOMAIN seq = S /\ IsFiniteSet(S)
  BY FS_Interval
<1>2. \A z \in SUBSET S : z # {} => pick[z] \in z /\ pick[z] = Max(z)
  BY MaxInside
<1>3. ASSUME NEW x \in Rec, NEW i \in S
      PROVE  ShrinkStep(x, (m.size + Word - (i - 1) * BlkSize) % Word) \in Rec
  <2> DEFINE j == k - i
  <2>1. j \in Nat /\ j < Capacity /\ j + 1 \in Nat \ {0} /\ j + 1 <= k /\ k \in Nat \ {0}
    BY Constants
  <2>2. Shrinks(j, (m.size + Word - (i - 1) * BlkSize) % Word)
    OBVIOUS
  <2> HIDE DEF j
  <2>3. Spot(j + 1) # Undefined
    BY <2>1, SpotOrder
  <2> QED
    BY <2>1, <2>2, <2>3, ShrinkStepType
<1>4. F \in [Rec \X S -> Rec]
  <2> HIDE DEF S
  <2> QED
    BY <1>3
<1>5. PICK g : Iterates(g, S, Rec, m, F, pick)
  <2> HIDE DEF S, F, pick
  <2> QED
    BY <1>1, <1>2, <1>4, IterExists
<1>6. Iter(g)
  <2>1. ASSUME NEW z \in SUBSET S, z # {}
        PROVE  F[<<g[z \ {pick[z]}], pick[z]>>] =
                 ShrinkStep(g[z \ {Max(z)}], (m.size + Word - (seq[Max(z)] - 1) * BlkSize) % Word)
    <3>1. pick[z] = Max(z) /\ Max(z) \in S /\ seq[Max(z)] = Max(z) /\ z \ {Max(z)} \in SUBSET S
      BY <1>2, <2>1
    <3>2. g[z \ {Max(z)}] \in Rec
      BY <1>5, <3>1 DEF Iterates
    <3> HIDE DEF S, pick, seq
    <3> QED
      BY <3>1, <3>2
  <2> HIDE DEF F, pick, seq
  <2>2. g = [z \in SUBSET S |-> g[z]]
    BY <1>5 DEF Iterates
  <2>3. \A z \in SUBSET S : g[z] = IF z = {} THEN m ELSE F[<<g[z \ {pick[z]}], pick[z]>>]
    BY <1>5 DEF Iterates
  <2> QED
    BY <2>1, <2>2, <2>3
<1> DEFINE iter == CHOOSE g1 : Iter(g1)
<1>7. Iter(iter)
  BY <1>6
<1>8. FoldLeft(LAMBDA x, i : ShrinkStep(x, (m.size + Word - (i - 1) * BlkSize) % Word), m, seq)
        = iter[S]
  <2> HIDE DEF seq, S
  <2> QED
    BY <1>1 DEF FoldLeft, MapThenFoldSet
<1>9. \A z \in SUBSET S :
        iter[z] = IF z = {} THEN m
                  ELSE ShrinkStep(iter[z \ {Max(z)}],
                                  (m.size + Word - (Max(z) - 1) * BlkSize) % Word)
  <2>1. \A z \in SUBSET S : z # {} => seq[Max(z)] = Max(z)
    BY <1>2
  <2> HIDE DEF iter, seq
  <2> QED
    BY <1>7, <2>1
<1> DEFINE v == [i \in 0 .. turns |-> iter[1 .. i]]
<1> HIDE DEF iter
<1>10. v[0] = m
  <2>1. 1 .. 0 = {} /\ {} \in SUBSET S /\ 0 \in 0 .. turns
    OBVIOUS
  <2>2. iter[{}] = m
    BY <1>9
  <2> QED
    BY <2>1, <2>2
<1>11. ASSUME NEW i \in 1 .. turns
       PROVE  v[i] = ShrinkStep(v[i - 1], (m.size + Word - (i - 1) * BlkSize) % Word)
  <2>1. i \in Nat /\ i # 0 /\ 1 .. i \in SUBSET S /\ i \in 0 .. turns /\ i - 1 \in 0 .. turns
    OBVIOUS
  <2>2. Max(1 .. i) = i /\ (1 .. i) \ {i} = 1 .. i - 1 /\ 1 .. i # {}
    BY <2>1, MaxOfInterval
  <2> HIDE DEF S
  <2>3. iter[1 .. i] = ShrinkStep(iter[1 .. i - 1], (m.size + Word - (i - 1) * BlkSize) % Word)
    BY <1>9, <2>1, <2>2
  <2> QED
    BY <2>1, <2>3
<1>12. \A i \in 0 .. turns : v[i] \in Rec
  <2>1. ASSUME NEW z \in SUBSET S, z # {}, iter[z \ {pick[z]}] \in Rec PROVE iter[z] \in Rec
    <3>1. pick[z] = Max(z) /\ Max(z) \in S
      BY <1>2, <2>1
    <3> HIDE DEF pick, S
    <3> QED
      BY <1>3, <1>9, <2>1, <3>1
  <2>2. iter[{}] \in Rec
    BY <1>9
  <2>3. \A z \in SUBSET S : iter[z] \in Rec
    <3> HIDE DEF S, pick
    <3> QED
      BY <1>1, <1>2, <2>1, <2>2, IterStays
  <2> QED
    BY <2>3
<1>13. v \in [0 .. turns -> Rec] /\ v[turns] = iter[S]
  BY <1>12
<1> HIDE DEF v
<1> QED
  BY <1>8, <1>10, <1>11, <1>13

(* What a contraction leaves after j turns.                                *)
Contracted(r, m, n, f, A, j) ==
  LET q == [n EXCEPT ![f] = n[f] - j]
  IN  /\ SameCall(r, m)
      /\ \A x \in Live(q) : x[1] = f /\ x[3] = 0 => r.addr[SlotOf(x)] = m.addr[SlotOf(x)]
      /\ Sound(q, [A EXCEPT ![f] = r.addr], r.disk, r.free)

LEMMA ContractedNext ==
  ASSUME NEW m \in Rec, NEW n \in Counts, NEW f \in File, NEW A \in Addrs, A[f] = m.addr,
         NEW j \in Nat, j < n[f], Spot(n[f]) # Undefined, NEW sz, Shrinks(n[f] - (j + 1), sz),
         NEW x \in Rec, Contracted(x, m, n, f, A, j)
  PROVE  Contracted(ShrinkStep(x, sz), m, n, f, A, j + 1)
<1> DEFINE q == [n EXCEPT ![f] = n[f] - j]
           q2 == [n EXCEPT ![f] = n[f] - (j + 1)]
           B == [A EXCEPT ![f] = x.addr]
           r == ShrinkStep(x, sz)
<1>1. /\ n[f] \in 0 .. Capacity /\ Capacity \in Nat /\ n[f] - j \in 0 .. Capacity
      /\ n[f] - (j + 1) \in 0 .. Capacity
  BY Constants DEF Counts
<1>2. /\ q \in Counts /\ q2 \in Counts /\ q2[f] = n[f] - (j + 1)
      /\ [q2 EXCEPT ![f] = q2[f] + 1] = q
      /\ q2[f] < Capacity /\ \A h \in File : q2[h] <= q[h]
  <2> DEFINE a == n[f] - j
             b == n[f] - (j + 1)
             s == [n EXCEPT ![f] = a]
             t == [n EXCEPT ![f] = b]
  <2>1. a \in 0 .. Capacity /\ b \in 0 .. Capacity /\ b + 1 = a
    BY <1>1
  <2> HIDE DEF a, b
  <2>2. s \in Counts /\ t \in Counts
    BY <2>1, CountFacts
  <2>3. s[f] = a /\ t[f] = b
    BY DEF Counts
  <2>4. [[n EXCEPT ![f] = b] EXCEPT ![f] = a] = [n EXCEPT ![f] = a]
    BY <2>1, CountFacts
  <2>5. \A h \in File : h # f => s[h] = n[h] /\ t[h] = n[h]
    BY <2>1, CountFacts
  <2>6. \A h \in File : n[h] \in Nat
    BY Constants DEF Counts
  <2>7. [t EXCEPT ![f] = a] = s
    BY <2>4
  <2> HIDE DEF s, t
  <2>8. [t EXCEPT ![f] = t[f] + 1] = s
    BY <2>1, <2>3, <2>7
  <2>9. b < Capacity /\ b <= a
    BY <1>1, <2>1
  <2>10. ASSUME NEW h \in File PROVE t[h] <= s[h]
    <3>1. CASE h = f
      BY <2>3, <2>9, <3>1
    <3>2. CASE h # f
      BY <2>5, <2>6, <3>2
    <3> QED
      BY <3>1, <3>2
  <2> QED
    BY <2>2, <2>3, <2>8, <2>9, <2>10 DEF a, b, s, t
<1>3. B \in Addrs /\ B[f] = x.addr /\ x.addr \in [Slot -> Ref]
  <2>1. x.addr \in [Slot -> Ref]
    BY DEF Rec
  <2> QED
    BY <2>1, AddrFacts
<1>4. /\ SameCall(x, m) /\ Sound(q, B, x.disk, x.free)
      /\ \A z \in Live(q) : z[1] = f /\ z[3] = 0 => x.addr[SlotOf(z)] = m.addr[SlotOf(z)]
  BY DEF Contracted
<1>5. Spot(q2[f] + 1) # Undefined
  <2> DEFINE a == q2[f] + 1
             b == n[f]
  <2>1. a \in Nat \ {0} /\ b \in Nat \ {0} /\ a <= b
    <3> HIDE DEF q2
    <3> QED
      BY <1>1, <1>2
  <2>2. Spot(b) # Undefined
    OBVIOUS
  <2> HIDE DEF a, b
  <2>3. Spot(a) # Undefined
    BY <2>1, <2>2, SpotOrder
  <2> QED
    BY <2>3 DEF a
<1>6. Shrinks(q2[f], sz)
  BY <1>2
<1>7. Live(q2) \subseteq Live(q)
  <2> HIDE DEF q, q2, B
  <2>1. \A z \in Live(q2) : z[3] = 0 => B[z[1]][SlotOf(z)] = B[z[1]][SlotOf(z)]
    OBVIOUS
  <2> QED
    BY <1>2, <1>4, <2>1, SoundLess
<1>8. Shrunk(r, x, q2, f, B)
  <2> HIDE DEF q, B
  <2>1. Sound([q2 EXCEPT ![f] = q2[f] + 1], B, x.disk, x.free)
    BY <1>2, <1>4
  <2> HIDE DEF q2
  <2> QED
    BY <1>2, <1>3, <1>5, <1>6, <2>1, ShrinkStepShrunk
<1> HIDE DEF q, q2, r
<1>9. r \in Rec /\ SameCall(r, m)
  BY <1>4, <1>8 DEF Shrunk, SameCall
<1>10. [B EXCEPT ![f] = r.addr] = [A EXCEPT ![f] = r.addr]
  <2>1. r.addr \in [Slot -> Ref]
    BY <1>9 DEF Rec
  <2> QED
    BY <1>3, <2>1, AddrFacts
<1>11. Sound(q2, [A EXCEPT ![f] = r.addr], r.disk, r.free)
  BY <1>8, <1>10 DEF Shrunk
<1>12. \A z \in Live(q2) : z[1] = f /\ z[3] = 0 => r.addr[SlotOf(z)] = m.addr[SlotOf(z)]
  BY <1>4, <1>7, <1>8 DEF Shrunk
<1>13. Contracted(r, m, n, f, A, j + 1)
  BY <1>9, <1>11, <1>12 DEF Contracted, q2
<1> QED
  BY <1>13 DEF r

LEMMA ContractSound ==
  ASSUME NEW m \in Rec, NEW n \in Counts, NEW f \in File, NEW A \in Addrs,
         A[f] = m.addr, Sound(n, A, m.disk, m.free),
         n[f] = 0 \/ Spot(n[f]) # Undefined,
         NEW turns \in Nat, turns <= n[f],
         \A i \in 1 .. turns : Shrinks(n[f] - i, (m.size + Word - (i - 1) * BlkSize) % Word)
  PROVE  Contracted(FoldLeft(LAMBDA x, i : ShrinkStep(x, (m.size + Word - (i - 1) * BlkSize) % Word),
                             m, [i \in 1 .. turns |-> i]), m, n, f, A, turns)
<1> DEFINE r == FoldLeft(LAMBDA x, i : ShrinkStep(x, (m.size + Word - (i - 1) * BlkSize) % Word),
                         m, [i \in 1 .. turns |-> i])
<1>1. n[f] \in Nat /\ n[f] <= Capacity
  BY Constants DEF Counts
<1>2. PICK v \in [0 .. turns -> Rec] :
           /\ v[0] = m
           /\ \A i \in 1 .. turns :
                v[i] = ShrinkStep(v[i - 1], (m.size + Word - (i - 1) * BlkSize) % Word)
           /\ r = v[turns]
  <2> DEFINE k == n[f]
  <2>1. k \in Nat /\ k <= Capacity /\ turns <= k /\ (k = 0 \/ Spot(k) # Undefined)
        /\ \A i \in 1 .. turns : Shrinks(k - i, (m.size + Word - (i - 1) * BlkSize) % Word)
    BY <1>1
  <2> HIDE DEF k
  <2> QED
    BY <2>1, ShrinkSteps
<1> DEFINE broken == {i \in 0 .. turns : ~ Contracted(v[i], m, n, f, A, i)}
<1>3. Contracted(v[0], m, n, f, A, 0)
  <2>1. [A EXCEPT ![f] = m.addr] = A /\ [n EXCEPT ![f] = n[f] - 0] = n
    <3>1. n[f] - 0 = n[f]
      BY <1>1
    <3>2. [n EXCEPT ![f] = n[f]] = n
      BY DEF Counts
    <3> QED
      BY <3>1, <3>2, SameAddr
  <2> QED
    BY <1>2, <2>1, SameItself DEF Contracted, SameInode
<1>4. broken = {}
  <2> SUFFICES ASSUME broken # {} PROVE FALSE
    OBVIOUS
  <2>1. broken \in SUBSET Nat
    OBVIOUS
  <2>2. PICK i \in broken : \A k \in broken : i <= k
    <3> HIDE DEF broken
    <3> QED
      BY <2>1, LeastNat
  <2>3. i \in 1 .. turns /\ i - 1 \in 0 .. turns /\ i - 1 \in Nat /\ (i - 1) + 1 = i
    BY <1>3, <2>1
  <2>4. Contracted(v[i - 1], m, n, f, A, i - 1)
    BY <2>2, <2>3
  <2> DEFINE sz == (m.size + Word - (i - 1) * BlkSize) % Word
             j == i - 1
  <2>5. Shrinks(n[f] - (j + 1), sz) /\ j < n[f] /\ Spot(n[f]) # Undefined
    <3>1. j + 1 = i
      BY <2>3
    <3>2. Shrinks(n[f] - i, sz)
      BY <2>3
    <3> HIDE DEF sz
    <3> QED
      BY <1>1, <2>3, <3>1, <3>2
  <2>6. v[i] = ShrinkStep(v[j], sz) /\ v[j] \in Rec
    BY <1>2, <2>3
  <2> HIDE DEF sz, j
  <2>7. j \in Nat /\ j + 1 = i /\ Contracted(v[j], m, n, f, A, j)
    BY <2>3, <2>4 DEF j
  <2>8. Contracted(v[i], m, n, f, A, i)
    BY <2>5, <2>6, <2>7, ContractedNext
  <2> QED
    BY <2>2, <2>8
<1> HIDE DEF r
<1>5. Contracted(r, m, n, f, A, turns)
  BY <1>2, <1>4
<1> QED
  BY <1>5 DEF r

-----------------------------------------------------------------------------
(* The turns of a call                                                     *)

LEMMA GrowsAt ==
  ASSUME NEW s \in Nat, s + BlkSize <= Word, NEW k, k = NBlk(s),
         NEW i \in Nat \ {0}, (k + i) * BlkSize + BlkSize <= Word
  PROVE  Grows(k + i - 1, s + (i - 1) * BlkSize)
<1> DEFINE B == BlkSize
           j == k + i - 1
           e == (i - 1) * B
           b == k * B
           sz == s + e
<1>1. B \in Nat \ {0} /\ Word \in Nat
  BY Constants
<1>2. k \in Nat /\ (k - 1) * B < s /\ s <= b /\ (k = 0 <=> s = 0)
  BY BlockCount
<1>3. /\ (k - 1) * B = b - B /\ b \in Nat /\ e \in Nat
      /\ j * B = b + e /\ (j - 1) * B = b + e - B /\ (j + 1) * B = b + e + B
      /\ (k + i) * B = b + e + B /\ ((j + 1) - 1) * B = b + e
  <2> HIDE DEF B
  <2>1. i \in Nat /\ i >= 1 /\ k \in Nat /\ j \in Nat
    BY <1>2
  <2> QED
    BY <1>1, <2>1
<1>4. j \in Nat /\ j + 1 \in Nat \ {0} /\ k + i = j + 1
  BY <1>2
<1>5. (j = 0 => k = 0 /\ i = 1) /\ (k + i) * B + B <= Word
  BY <1>2
<1>6. j = 0 => e = 0
  <2>1. j = 0 => i - 1 = 0
    BY <1>5
  <2> HIDE DEF B, j
  <2> QED
    BY <1>1, <2>1
<1> HIDE DEF B, j, e, b
<1>7. sz \in Nat /\ sz + B \in Nat /\ b - B < s /\ s <= b
  BY <1>1, <1>2, <1>3
<1>8. Addr(sz + B) = Spot(j + 1)
  <2>1. ((j + 1) - 1) * B < sz + B /\ sz + B <= (j + 1) * B /\ (j + 1) * B + B <= Word
    BY <1>1, <1>3, <1>5, <1>7
  <2> HIDE DEF sz
  <2> QED
    BY <1>4, <1>7, <2>1, AddrSpot DEF B
<1>9. CASE j = 0
  <2>1. sz = 0
    BY <1>2, <1>5, <1>6, <1>9
  <2>2. Addr(sz) = Spot(1)
    BY <2>1, AddrZero
  <2> HIDE DEF sz
  <2>3. Grows(j, sz)
    BY <1>8, <1>9, <2>2 DEF Grows, B
  <2> QED
    BY <2>3 DEF sz, e, B, j
<1>10. CASE j # 0
  <2>1. (j - 1) * B < sz /\ sz <= j * B /\ j * B + B <= Word
    BY <1>1, <1>3, <1>5, <1>7
  <2> HIDE DEF sz
  <2>2. Addr(sz) = Spot(j)
    BY <1>4, <1>7, <1>10, <2>1, AddrSpot DEF B
  <2>3. Grows(j, sz)
    BY <1>8, <1>10, <2>2 DEF Grows, B
  <2> QED
    BY <2>3 DEF sz, e, B, j
<1> QED
  BY <1>9, <1>10

LEMMA WordRest ==
  ASSUME NEW x \in Nat, x < Word
  PROVE  (x + Word) % Word = x /\ x % Word = x
<1>1. Word \in Nat \ {0} /\ x \in 0 .. Word - 1
  BY Constants
<1>2. (1 * Word + x) % Word = x /\ (0 * Word + x) % Word = x
  BY <1>1, DivNames
<1>3. 1 * Word + x = x + Word /\ 0 * Word + x = x
  BY <1>1
<1> QED
  BY <1>2, <1>3

LEMMA ShrinksAt ==
  ASSUME NEW s \in Nat, s + BlkSize <= Word, NEW k, k = NBlk(s), k * BlkSize + BlkSize <= Word,
         NEW i \in 1 .. k
  PROVE  Shrinks(k - i, (s + Word - (i - 1) * BlkSize) % Word)
<1> DEFINE B == BlkSize
           j == k - i
           e == (i - 1) * B
           b == k * B
           z == s - e
           sz == (s + Word - e) % Word
           before == Addr((sz + Word - B) % Word)
<1>1. B \in Nat \ {0} /\ Word \in Nat \ {0} /\ 2 * B <= Word
  BY Constants
<1>2. k \in Nat /\ (k - 1) * B < s /\ s <= b
  BY BlockCount
<1>3. j \in Nat /\ j + 1 \in Nat \ {0} /\ j + 1 <= k
  BY <1>2
<1>4. /\ (k - 1) * B = b - B /\ b \in Nat /\ e \in Nat
      /\ (j + 1) * B = b - e /\ j * B = b - e - B /\ ((j + 1) - 1) * B = b - e - B
      /\ (j - 1) * B = b - e - B - B
  <2> HIDE DEF B
  <2>1. i \in Nat /\ i >= 1 /\ k \in Nat
    BY <1>2
  <2> QED
    BY <1>1, <2>1
<1>5. j * B \in Nat
  <2> HIDE DEF B, j
  <2> QED
    BY <1>1, <1>3
<1>6. b + B <= Word
  OBVIOUS
<1>7. j = 0 => j * B = 0
  <2> HIDE DEF B, j
  <2> QED
    BY <1>1
<1> HIDE DEF B, j, e, b
<1>8. z \in Nat /\ z \in Int /\ z > 0 /\ z < Word /\ j * B < z /\ z <= j * B + B
  BY <1>1, <1>2, <1>4, <1>5, <1>6
<1>9. s + Word - e = z + Word
  BY <1>1, <1>4
<1> HIDE DEF z
<1>10. sz = z
  BY <1>8, <1>9, WordRest
<1>11. Addr(z) = Spot(j + 1)
  <2>1. ((j + 1) - 1) * B < z /\ z <= (j + 1) * B /\ (j + 1) * B + B <= Word
    BY <1>1, <1>4, <1>5, <1>6, <1>8
  <2> QED
    BY <1>3, <1>8, <2>1, AddrSpot DEF B
<1>12. CASE z >= B
  <2> DEFINE y == z - B
  <2>1. y \in Nat /\ y < Word /\ z + Word - B = y + Word
    BY <1>1, <1>8, <1>12
  <2> HIDE DEF y
  <2>2. (z + Word - B) % Word = y
    BY <2>1, WordRest
  <2>3. before = Addr(y)
    BY <1>10, <2>2
  <2>4. y > j * B - B /\ y <= j * B
    BY <1>1, <1>5, <1>8, <2>1 DEF y
  <2>5. j = 0 => before.level = 0
    <3> SUFFICES ASSUME j = 0 PROVE before.level = 0
      OBVIOUS
    <3>1. y = 0
      BY <1>7, <2>1, <2>4
    <3>2. Spot(1).level = 0
      <4>1. Level(1) = 0
        BY Constants DEF Level
      <4> QED
        BY <4>1 DEF Spot, At
    <3> QED
      BY <2>3, <3>1, <3>2, AddrZero
  <2>6. j # 0 => before = Spot(j)
    <3> SUFFICES ASSUME j # 0 PROVE before = Spot(j)
      OBVIOUS
    <3>1. (j - 1) * B < y /\ y <= j * B /\ j * B + B <= Word
      BY <1>1, <1>4, <1>5, <1>6, <2>4
    <3>2. Addr(y) = Spot(j)
      BY <1>3, <2>1, <3>1, AddrSpot DEF B
    <3> QED
      BY <2>3, <3>2
  <2> HIDE DEF before, sz
  <2>7. Shrinks(j, sz)
    BY <1>10, <1>11, <2>5, <2>6 DEF Shrinks, before, B
  <2> QED
    BY <2>7 DEF sz, e, B, j
<1>13. CASE z < B
  <2> DEFINE y == z + Word - B
  <2>1. y \in Nat /\ y < Word /\ y + B > Word
    BY <1>1, <1>8, <1>13
  <2>2. j = 0
    <3>1. j * B < B
      BY <1>1, <1>5, <1>8, <1>13
    <3>2. 1 \in Int /\ j \in Int /\ 1 * B = B
      BY <1>1, <1>3
    <3>3. (1 * B <= j * B) <=> (1 <= j)
      BY <1>1, <3>2, MultipleOrder
    <3> QED
      BY <1>1, <1>3, <1>5, <3>1, <3>2, <3>3
  <2> HIDE DEF y
  <2>3. y % Word = y /\ Addr(y).level = 0
    BY <2>1, WordRest, AddrBelow DEF B
  <2>4. before.level = 0
    BY <1>10, <2>3 DEF y
  <2> HIDE DEF before, sz
  <2>5. Shrinks(j, sz)
    BY <1>10, <1>11, <2>2, <2>4 DEF Shrinks, before, B
  <2> QED
    BY <2>5 DEF sz, e, B, j
<1> QED
  BY <1>8, <1>12, <1>13, <1>1

LEMMA CountOrder ==
  ASSUME NEW s \in Nat, NEW t \in Nat, s <= t, t + BlkSize <= Word
  PROVE  NBlk(s) \in Nat /\ NBlk(t) \in Nat /\ NBlk(s) <= NBlk(t)
<1> DEFINE a == NBlk(s)
           b == NBlk(t)
<1>1. BlkSize \in Nat \ {0} /\ s + BlkSize <= Word
  BY Constants
<1>2. a \in Nat /\ (a - 1) * BlkSize < s /\ b \in Nat /\ t <= b * BlkSize
  BY <1>1, BlockCount
<1> HIDE DEF a, b
<1>3. a - 1 < b
  <2> DEFINE c == a - 1
  <2>1. c \in Int /\ b \in Int
    BY <1>2
  <2>2. ~ (b * BlkSize <= c * BlkSize)
    BY <1>1, <1>2
  <2> HIDE DEF c
  <2>3. ~ (b <= c)
    BY <1>1, <2>1, <2>2, MultipleOrder
  <2>4. c < b
    BY <2>1, <2>3
  <2> QED
    BY <2>4 DEF c
<1> QED
  BY <1>2, <1>3 DEF a, b

(* The numbers in the inode that blocks 1 to k of f are found by.          *)
Agree(a, b, k, f) == \A i \in 1 .. k : a[SlotOf(Leaf(f, i))] = b[SlotOf(Leaf(f, i))]

LEMMA LiveRoots ==
  ASSUME NEW n \in Counts, NEW f \in File
  PROVE  /\ \A k \in 1 .. n[f] :
              LET z == RootOf(Leaf(f, k))
              IN  z \in Live(n) /\ z[1] = f /\ z[3] = 0 /\ SlotOf(z) = SlotOf(Leaf(f, k))
         /\ \A z \in Live(n) : z[1] = f /\ z[3] = 0 =>
              \E k \in 1 .. n[f] : SlotOf(z) = SlotOf(Leaf(f, k))
<1>1. ASSUME NEW k \in 1 .. n[f]
      PROVE  LET z == RootOf(Leaf(f, k))
             IN  z \in Live(n) /\ z[1] = f /\ z[3] = 0 /\ SlotOf(z) = SlotOf(Leaf(f, k))
  <2> DEFINE y == Leaf(f, k)
  <2>1. y \in Live(n) /\ y \in Node /\ y[1] = f
    <3>1. k \in 1 .. Capacity /\ y \in Live(n)
      BY LeafLive
    <3> QED
      BY <3>1, LeafFacts
  <2> HIDE DEF y
  <2>2. RootOf(y) \in Live(n) /\ RootOf(y)[1] = f /\ RootOf(y)[3] = 0
        /\ SlotOf(RootOf(y)) = SlotOf(y)
    BY <2>1, LiveFacts, RootFacts
  <2> QED
    BY <2>2 DEF y
<1>2. ASSUME NEW z \in Live(n), z[1] = f, z[3] = 0
      PROVE  \E k \in 1 .. n[f] : SlotOf(z) = SlotOf(Leaf(f, k))
  <2>1. PICK k \in 1 .. n[f] : z \in Path(Leaf(f, k))
    BY <1>2 DEF Live
  <2> DEFINE y == Leaf(f, k)
  <2>2. y \in Node
    <3>1. k \in 1 .. Capacity
      BY LeafLive
    <3> QED
      BY <3>1, LeafFacts
  <2>3. z \in Path(y)
    BY <2>1
  <2> HIDE DEF y
  <2>4. z \in Node /\ RootOf(z) = RootOf(y) /\ RootOf(z) = z
    BY <1>2, <2>2, <2>3, PathFacts, RootFacts
  <2>5. SlotOf(z) = SlotOf(y)
    BY <2>2, <2>4, RootFacts
  <2> QED
    BY <2>5 DEF y
<1> QED
  BY <1>1, <1>2

LEMMA AgreeLive ==
  ASSUME NEW n \in Counts, NEW f \in File, NEW a, NEW b
  PROVE  (\A z \in Live(n) : z[1] = f /\ z[3] = 0 => a[SlotOf(z)] = b[SlotOf(z)])
           <=> Agree(a, b, n[f], f)
<1>1. ASSUME \A z \in Live(n) : z[1] = f /\ z[3] = 0 => a[SlotOf(z)] = b[SlotOf(z)],
             NEW k \in 1 .. n[f]
      PROVE  a[SlotOf(Leaf(f, k))] = b[SlotOf(Leaf(f, k))]
  BY <1>1, LiveRoots
<1>2. ASSUME Agree(a, b, n[f], f), NEW z \in Live(n), z[1] = f, z[3] = 0
      PROVE  a[SlotOf(z)] = b[SlotOf(z)]
  <2>1. PICK k \in 1 .. n[f] : SlotOf(z) = SlotOf(Leaf(f, k))
    BY <1>2, LiveRoots
  <2> QED
    BY <1>2, <2>1 DEF Agree
<1> QED
  BY <1>1, <1>2 DEF Agree

(* The inode between calls: the one on the disk names the blocks the file  *)
(* has.                                                                    *)
Steady(x, f) ==
  LET k == NBlk(x.size)
  IN  /\ x.size \in Sizes \cup {0} /\ x.saved.size = x.size
      /\ k = 0 \/ Spot(k) # Undefined
      /\ Agree(x.saved.addr, x.addr, k, f)

(* What a call leaves.                                                     *)
Resized(r, n, f, A) ==
  /\ r \in Rec /\ Steady(r, f)
  /\ Sound([n EXCEPT ![f] = NBlk(r.size)], [A EXCEPT ![f] = r.addr], r.disk, r.free)

LEMMA Written ==
  ASSUME NEW m \in Rec, NEW s \in Sizes \cup {0}, s \in 0 .. Word - 1, NEW f,
         NBlk(s) = 0 \/ Spot(NBlk(s)) # Undefined
  PROVE  LET r == Writeback(m, s)
         IN  /\ r \in Rec /\ Steady(r, f) /\ r.size = s /\ r.addr = m.addr
             /\ r.disk = m.disk /\ r.free = m.free
<1> DEFINE r == Writeback(m, s)
           v == [size |-> s, addr |-> m.addr]
<1>1. r = [m EXCEPT !.size = s, !.saved = v]
  BY DEF Writeback
<1>2. v \in [size : 0 .. Word - 1, addr : [Slot -> Ref]] /\ v.size = s /\ v.addr = m.addr
  BY DEF Rec
<1> HIDE DEF r, v
<1>3. /\ r \in Rec /\ r.size = s /\ r.addr = m.addr /\ r.saved = v
      /\ r.disk = m.disk /\ r.free = m.free
  BY <1>1, <1>2 DEF Rec
<1>4. Steady(r, f)
  BY <1>2, <1>3 DEF Steady, Agree
<1> QED
  BY <1>3, <1>4 DEF r

LEMMA ExpandCall ==
  ASSUME Within, NEW m \in Rec, m.error = "ok", NEW f \in File, Steady(m, f),
         NEW n \in Counts, n[f] = NBlk(m.size),
         NEW A \in Addrs, A[f] = m.addr, Sound(n, A, m.disk, m.free),
         NEW s \in Sizes, m.size < s
  PROVE  Resized(Expand(m, s - m.size), n, f, A)
<1> DEFINE k == n[f]
           k2 == NBlk(s)
           turns == k2 - k
           B == BlkSize
           g == FoldLeft(LAMBDA x, i : Grow(x, m.size + (i - 1) * BlkSize, m), m,
                         [i \in 1 .. turns |-> i])
           r == Expand(m, s - m.size)
<1>1. /\ m.size \in Nat /\ 2 * m.size < Word /\ m.size + B <= Word
      /\ s \in Nat /\ 2 * s < Word /\ s + B <= Word /\ k2 <= Capacity /\ k2 * B + B <= Word
  <2>1. m.size \in Sizes \cup {0} /\ s \in Sizes \cup {0}
    BY DEF Steady
  <2> QED
    BY <2>1, SizeBounds
<1>2. (m.size + (s - m.size)) % Word = s
  <2>1. m.size + (s - m.size) = s /\ s < Word
    BY <1>1, Constants
  <2> QED
    BY <1>1, <2>1, WordRest
<1>3. k \in Nat /\ k2 \in Nat /\ k <= k2 /\ turns \in Nat /\ k + turns = k2
  <2>1. NBlk(m.size) \in Nat /\ NBlk(s) \in Nat /\ NBlk(m.size) <= NBlk(s)
    BY <1>1, CountOrder
  <2> QED
    BY <2>1
<1>4. r = IF g.error = "ok" THEN Writeback(g, s) ELSE g
  <2>1. r = LET Done(grown) == IF grown.error = "ok" THEN Writeback(grown, s) ELSE grown
            IN Done(FoldLeft(LAMBDA x, i : Grow(x, m.size + (i - 1) * BlkSize, m), m,
                             [i \in 1 .. NBlk(s) - NBlk(m.size) |-> i]))
    BY <1>2 DEF Expand
  <2> QED
    BY <2>1
<1>5. k = 0 \/ Spot(k) # Undefined
  BY DEF Steady
<1>6. \A i \in 1 .. turns : Grows(k + i - 1, m.size + (i - 1) * BlkSize)
  <2> SUFFICES ASSUME NEW i \in 1 .. turns PROVE Grows(k + i - 1, m.size + (i - 1) * BlkSize)
    OBVIOUS
  <2>1. i \in Nat \ {0} /\ k + i <= k2 /\ k + i \in Int /\ k2 \in Int
    BY <1>3
  <2>2. (k + i) * BlkSize + BlkSize <= Word
    <3> DEFINE c == k + i
    <3>1. c <= k2 /\ c \in Int /\ k2 \in Int
      BY <2>1
    <3> HIDE DEF c, k2
    <3>2. c * BlkSize <= k2 * BlkSize
      BY <3>1, Constants, MultipleOrder
    <3>3. c * BlkSize + BlkSize <= Word
      BY <1>1, <3>1, <3>2, Constants
    <3> QED
      BY <3>3 DEF c
  <2>3. k = NBlk(m.size) /\ m.size + BlkSize <= Word /\ m.size \in Nat
    BY <1>1
  <2> HIDE DEF k, turns
  <2> QED
    BY <2>1, <2>2, <2>3, GrowsAt
<1>7. Expanded(g, m, n, f, A, turns)
  <2>1. turns \in Nat /\ n[f] + turns <= Capacity
        /\ \A i \in 1 .. turns : Grows(n[f] + i - 1, m.size + (i - 1) * BlkSize)
    BY <1>1, <1>3, <1>6
  <2>2. n[f] = 0 \/ Spot(n[f]) # Undefined
    BY <1>5
  <2> HIDE DEF turns
  <2> QED
    BY <2>1, <2>2, ExpandSound
<1> HIDE DEF g, r
<1>8. CASE g.error = "ok"
  <2>1. g \in Rec /\ Sound([n EXCEPT ![f] = n[f] + turns], [A EXCEPT ![f] = g.addr], g.disk, g.free)
        /\ (n[f] + turns = 0 \/ Spot(n[f] + turns) # Undefined)
    BY <1>7, <1>8 DEF Expanded, SameCall
  <2>2. n[f] + turns = NBlk(s)
    BY <1>3
  <2>3. Sound([n EXCEPT ![f] = NBlk(s)], [A EXCEPT ![f] = g.addr], g.disk, g.free)
        /\ (NBlk(s) = 0 \/ Spot(NBlk(s)) # Undefined)
    BY <2>1, <2>2
  <2>4. s \in Sizes \cup {0} /\ s \in 0 .. Word - 1 /\ r = Writeback(g, s)
    BY <1>1, <1>4, <1>8, Constants
  <2> DEFINE t == Writeback(g, s)
  <2>5. /\ t \in Rec /\ Steady(t, f) /\ t.size = s /\ t.addr = g.addr
        /\ t.disk = g.disk /\ t.free = g.free
    BY <2>1, <2>3, <2>4, Written
  <2> HIDE DEF t
  <2>6. r = t
    BY <2>4 DEF t
  <2>7. Resized(r, n, f, A)
    BY <2>3, <2>5, <2>6 DEF Resized
  <2> QED
    BY <2>7 DEF r
<1>9. CASE g.error # "ok"
  <2>1. r = g
    BY <1>4, <1>9
  <2>2. g \in Rec /\ g.size = m.size /\ g.saved = m.saved
        /\ Sound(n, [A EXCEPT ![f] = g.addr], g.disk, g.free)
        /\ \A z \in Live(n) : z[1] = f /\ z[3] = 0 => g.addr[SlotOf(z)] = m.addr[SlotOf(z)]
    BY <1>7 DEF Expanded, SameCall
  <2>3. Agree(g.addr, m.addr, n[f], f)
    BY <2>2, AgreeLive
  <2>4. Steady(g, f)
    BY <2>2, <2>3 DEF Steady, Agree
  <2>5. [n EXCEPT ![f] = NBlk(g.size)] = n
    <3>1. [n EXCEPT ![f] = n[f]] = n
      BY DEF Counts
    <3> QED
      BY <2>2, <3>1
  <2>6. Resized(r, n, f, A)
    BY <2>1, <2>2, <2>4, <2>5 DEF Resized
  <2> QED
    BY <2>6 DEF r
<1> QED
  BY <1>8, <1>9

LEMMA ContractCall ==
  ASSUME Within, NEW m \in Rec, NEW f \in File, Steady(m, f),
         NEW n \in Counts, n[f] = NBlk(m.size),
         NEW A \in Addrs, A[f] = m.addr, Sound(n, A, m.disk, m.free),
         NEW s \in Sizes, s < m.size
  PROVE  Resized(Contract(m, m.size - s), n, f, A)
<1> DEFINE k == n[f]
           k2 == NBlk(s)
           turns == k - k2
           g == FoldLeft(LAMBDA x, i : ShrinkStep(x, (m.size + Word - (i - 1) * BlkSize) % Word),
                         m, [i \in 1 .. turns |-> i])
           r == Contract(m, m.size - s)
<1>1. /\ m.size \in Nat /\ m.size + BlkSize <= Word /\ k * BlkSize + BlkSize <= Word
      /\ s \in Nat /\ s \in 0 .. Word - 1 /\ s \in Sizes \cup {0} /\ k2 <= Capacity
  <2>1. m.size \in Sizes \cup {0} /\ s \in Sizes \cup {0}
    BY DEF Steady
  <2>2. /\ m.size \in Nat /\ m.size + BlkSize <= Word /\ k * BlkSize + BlkSize <= Word
        /\ s \in Nat /\ 2 * s < Word /\ k2 <= Capacity
    BY <2>1, SizeBounds
  <2> QED
    BY <2>1, <2>2, Constants
<1>2. (m.size - (m.size - s)) % Word = s
  <2>1. m.size - (m.size - s) = s /\ s < Word
    BY <1>1, Constants
  <2> QED
    BY <1>1, <2>1, WordRest
<1>3. k \in Nat /\ k2 \in Nat /\ turns \in Nat /\ turns <= k /\ k - turns = k2 /\ k2 <= k
  <2>1. NBlk(m.size) \in Nat /\ NBlk(s) \in Nat /\ NBlk(s) <= NBlk(m.size)
    BY <1>1, CountOrder
  <2> QED
    BY <2>1
<1>4. r = Writeback(g, s)
  <2>1. r = Writeback(FoldLeft(LAMBDA x, i : ShrinkStep(x, (m.size + Word - (i - 1) * BlkSize) % Word),
                               m, [i \in 1 .. NBlk(m.size) - NBlk(s) |-> i]), s)
    BY <1>2 DEF Contract
  <2> QED
    BY <2>1
<1>5. k = 0 \/ Spot(k) # Undefined
  BY DEF Steady
<1>6. \A i \in 1 .. turns : Shrinks(k - i, (m.size + Word - (i - 1) * BlkSize) % Word)
  <2> SUFFICES ASSUME NEW i \in 1 .. turns
               PROVE  Shrinks(k - i, (m.size + Word - (i - 1) * BlkSize) % Word)
    OBVIOUS
  <2>1. i \in 1 .. k
    BY <1>3
  <2>2. k = NBlk(m.size) /\ m.size + BlkSize <= Word /\ m.size \in Nat
        /\ k * BlkSize + BlkSize <= Word
    BY <1>1
  <2> HIDE DEF k, turns
  <2> QED
    BY <2>1, <2>2, ShrinksAt
<1>7. Contracted(g, m, n, f, A, turns)
  <2>1. turns \in Nat /\ turns <= n[f]
        /\ \A i \in 1 .. turns : Shrinks(n[f] - i, (m.size + Word - (i - 1) * BlkSize) % Word)
    BY <1>3, <1>6
  <2>2. n[f] = 0 \/ Spot(n[f]) # Undefined
    BY <1>5
  <2> HIDE DEF turns
  <2> QED
    BY <2>1, <2>2, ContractSound
<1> HIDE DEF g
<1>8. g \in Rec /\ Sound([n EXCEPT ![f] = NBlk(s)], [A EXCEPT ![f] = g.addr], g.disk, g.free)
  <2>1. n[f] - turns = NBlk(s)
    BY <1>3
  <2> HIDE DEF turns
  <2> QED
    BY <1>7, <2>1 DEF Contracted, SameCall
<1>9. NBlk(s) = 0 \/ Spot(NBlk(s)) # Undefined
  <2> SUFFICES ASSUME k2 # 0 PROVE Spot(k2) # Undefined
    OBVIOUS
  <2>1. k2 \in Nat \ {0} /\ k \in Nat \ {0} /\ k2 <= k /\ Spot(k) # Undefined
    BY <1>3, <1>5
  <2> HIDE DEF k, k2
  <2> QED
    BY <2>1, SpotOrder
<1> DEFINE t == Writeback(g, s)
<1>10. /\ t \in Rec /\ Steady(t, f) /\ t.size = s /\ t.addr = g.addr
       /\ t.disk = g.disk /\ t.free = g.free
  BY <1>1, <1>8, <1>9, Written
<1> HIDE DEF t, r
<1>11. r = t
  BY <1>4 DEF t
<1>12. Resized(r, n, f, A)
  BY <1>8, <1>10, <1>11 DEF Resized
<1> QED
  BY <1>12 DEF r

LEMMA NegativeRest ==
  ASSUME NEW b \in Nat \ {0}, NEW x \in 0 .. b - 1
  PROVE  ((-1) * b + x) % b = x
<1> DEFINE a == (-1) * b + x
<1>1. a \in Int /\ (-1) * b <= a /\ a < (-1) * b + b /\ -1 \in Int
  OBVIOUS
<1>2. a \div b = -1
  <2> DEFINE q == -1
  <2>1. q \in Int /\ q * b <= a /\ a < q * b + b
    BY <1>1
  <2> HIDE DEF q, a
  <2>2. a \div b = q
    BY <1>1, <2>1, DivUnique
  <2> QED
    BY <2>2 DEF q
<1>3. a = ((a \div b) * b) + (a % b) /\ a % b \in 0 .. b - 1
  <2> HIDE DEF a
  <2> QED
    BY <1>1, DivBounds
<1>4. a = (-1) * b + (a % b)
  <2> HIDE DEF a
  <2> QED
    BY <1>2, <1>3
<1>5. a % b = x
  <2> DEFINE c == a % b
  <2>1. c \in Int /\ (-1) * b + x = (-1) * b + c
    BY <1>3, <1>4
  <2> HIDE DEF c
  <2>2. c = x
    BY <2>1
  <2> QED
    BY <2>2 DEF c
<1> QED
  BY <1>5

LEMMA SizeChangeCall ==
  ASSUME Within, NEW m \in Rec, m.error = "ok", NEW f \in File, Steady(m, f),
         NEW n \in Counts, n[f] = NBlk(m.size),
         NEW A \in Addrs, A[f] = m.addr, Sound(n, A, m.disk, m.free),
         NEW s \in Sizes
  PROVE  Resized(SizeChange(m, s), n, f, A)
<1> DEFINE z == m.size
           up == (s - z) % Word
           r == SizeChange(m, s)
<1>1. z \in Nat /\ 2 * z < Word /\ s \in Nat /\ 2 * s < Word /\ Word \in Nat \ {0}
  <2>1. z \in Sizes \cup {0} /\ s \in Sizes \cup {0}
    BY DEF Steady
  <2> QED
    BY <2>1, SizeBounds, Constants
<1>2. r = IF up = 0 THEN m ELSE IF 2 * up < Word THEN Expand(m, up) ELSE Contract(m, Word - up)
  BY DEF SizeChange
<1>3. CASE s = z
  <2>1. up = 0
    <3>1. s - z = 0 /\ 0 \in Nat /\ 0 < Word
      BY <1>1, <1>3
    <3> QED
      BY <3>1, WordRest
  <2>2. r = m
    BY <1>2, <2>1
  <2>3. [n EXCEPT ![f] = NBlk(m.size)] = n /\ [A EXCEPT ![f] = m.addr] = A
    <3>1. [n EXCEPT ![f] = n[f]] = n
      BY DEF Counts
    <3> QED
      BY <3>1, SameAddr
  <2> HIDE DEF r
  <2>4. Resized(r, n, f, A)
    BY <2>2, <2>3 DEF Resized
  <2> QED
    BY <2>4 DEF r
<1>4. CASE z < s
  <2>1. up = s - z
    <3> DEFINE x == s - z
    <3>1. x \in Nat /\ x < Word
      BY <1>1, <1>4
    <3> HIDE DEF x
    <3>2. x % Word = x
      BY <3>1, WordRest
    <3> QED
      BY <3>2 DEF x
  <2>2. s - z # 0 /\ 2 * (s - z) < Word
    BY <1>1, <1>4
  <2> HIDE DEF up
  <2>3. r = Expand(m, s - m.size)
    BY <1>2, <2>1, <2>2
  <2> HIDE DEF r
  <2>4. Resized(r, n, f, A)
    <3> DEFINE t == Expand(m, s - m.size)
    <3>1. Resized(t, n, f, A)
      BY <1>4, ExpandCall
    <3> HIDE DEF t
    <3>2. r = t
      BY <2>3 DEF t
    <3> QED
      BY <3>1, <3>2
  <2> QED
    BY <2>4 DEF r
<1>5. CASE s < z
  <2>1. up = s - z + Word
    <3> DEFINE x == s - z + Word
    <3>1. x \in 0 .. Word - 1 /\ x \in Nat
      BY <1>1, <1>5
    <3>2. s - z = (-1) * Word + x
      BY <1>1
    <3> HIDE DEF x
    <3>3. ((-1) * Word + x) % Word = x
      BY <1>1, <3>1, NegativeRest
    <3> QED
      BY <3>2, <3>3 DEF x
  <2>2. s - z + Word # 0 /\ ~ (2 * (s - z + Word) < Word) /\ Word - (s - z + Word) = z - s
    BY <1>1, <1>5
  <2> HIDE DEF up
  <2>3. r = Contract(m, m.size - s)
    BY <1>2, <2>1, <2>2
  <2> HIDE DEF r
  <2>4. Resized(r, n, f, A)
    <3> DEFINE t == Contract(m, m.size - s)
    <3>1. Resized(t, n, f, A)
      BY <1>5, ContractCall
    <3> HIDE DEF t
    <3>2. r = t
      BY <2>3 DEF t
    <3> QED
      BY <3>1, <3>2
  <2> QED
    BY <2>4 DEF r
<1> QED
  BY <1>1, <1>3, <1>4, <1>5

-----------------------------------------------------------------------------
(* The inductive invariant                                                 *)

FileRec == [size : 0 .. Word - 1, addr : [Slot -> Ref],
            saved : [size : 0 .. Word - 1, addr : [Slot -> Ref]]]

CountsOf(fl) == [f \in File |-> NBlk(fl[f].size)]
AddrsOf(fl)  == [f \in File |-> fl[f].addr]

(* Each file has the blocks of its size, in trees that share no block with *)
(* another file or the free list, and the inode on the disk names them.    *)
MapInv ==
  /\ file \in [File -> FileRec] /\ free \in Seq(DataBlock)
  /\ disk \in [DataBlock -> [Cell -> Ref]]
  /\ \A f \in File : Steady(file[f], f)
  /\ Sound(CountsOf(file), AddrsOf(file), disk, free)

LEMMA CountsType ==
  ASSUME Within, NEW fl \in [File -> FileRec], \A f \in File : fl[f].size \in Sizes \cup {0}
  PROVE  /\ CountsOf(fl) \in Counts /\ AddrsOf(fl) \in Addrs
         /\ \A f \in File : CountsOf(fl)[f] = NBlk(fl[f].size) /\ AddrsOf(fl)[f] = fl[f].addr
<1>1. ASSUME NEW f \in File PROVE NBlk(fl[f].size) \in 0 .. Capacity
  <2> DEFINE s == fl[f].size
  <2>1. s \in Sizes \cup {0}
    OBVIOUS
  <2> HIDE DEF s
  <2>2. s \in Nat /\ s + BlkSize <= Word /\ NBlk(s) <= Capacity
    BY <2>1, SizeBounds
  <2>3. NBlk(s) \in Nat
    BY <2>2, BlockCount
  <2> QED
    BY <2>2, <2>3, Constants DEF s
<1>2. \A f \in File : fl[f].addr \in [Slot -> Ref]
  BY DEF FileRec
<1> QED
  BY <1>1, <1>2 DEF CountsOf, AddrsOf, Counts, Addrs

LEMMA NoTrees ==
  ASSUME NEW n, \A f \in File : n[f] = 0, NEW A, NEW disk0, NEW free0,
         \A i, j \in 1 .. Len(free0) : free0[i] = free0[j] => i = j
  PROVE  Sound(n, A, disk0, free0)
<1> DEFINE L == {}
           w == [x \in L |-> 0]
<1>1. L \in SUBSET Node /\ w \in [L -> DataBlock] /\ \A x \in L : FALSE
  OBVIOUS
<1>2. Live(n) \subseteq L
  BY NodeFacts DEF Live
<1> HIDE DEF L, w
<1>3. Fits(w, L, A, disk0, free0)
  BY <1>1 DEF Fits, Kept, Spare
<1> QED
  BY <1>1, <1>2, <1>3 DEF Sound

LEMMA InitInv ==
  ASSUME Within, MapInit
  PROVE  MapInv
<1>1. file \in [File -> FileRec] /\ \A f \in File : file[f].size = 0 /\ file[f].saved.size = 0
  <2>1. NoAddr \in [Slot -> Ref] /\ 0 \in 0 .. Word - 1
    BY Constants DEF NoAddr, Ref
  <2> DEFINE v == [size |-> 0, addr |-> NoAddr, saved |-> [size |-> 0, addr |-> NoAddr]]
  <2>2. v \in FileRec /\ v.size = 0 /\ v.saved.size = 0
    BY <2>1 DEF FileRec
  <2>3. file = [f \in File |-> v]
    BY DEF MapInit
  <2> HIDE DEF v
  <2> QED
    BY <2>2, <2>3
<1>2. disk \in [DataBlock -> [Cell -> Ref]]
  BY ZerosFacts DEF MapInit
<1>3. free \in Seq(DataBlock) /\ \A i, j \in 1 .. Len(free) : free[i] = free[j] => i = j
  <2> DEFINE c == Volume - Start
             g == [i \in 1 .. c |-> Volume - i]
  <2>1. c \in Nat /\ Volume \in Nat /\ Start \in Nat
    BY MapAssumption
  <2>2. \A i \in 1 .. c : Volume - i \in DataBlock
    BY <2>1 DEF DataBlock
  <2>3. free = g
    BY DEF MapInit
  <2>4. g \in [1 .. c -> DataBlock] /\ \A i, j \in 1 .. c : g[i] = g[j] => i = j
    BY <2>1, <2>2
  <2> HIDE DEF g, c
  <2>5. g \in Seq(DataBlock)
    BY <2>1, <2>4, SeqDef
  <2>6. DOMAIN g = 1 .. c /\ DOMAIN g = 1 .. Len(g)
    BY <2>4, <2>5, LenProperties
  <2> QED
    BY <2>3, <2>4, <2>5, <2>6
<1>4. NBlk(0) = 0
  BY BlockCount, Constants
<1>5. \A f \in File : Steady(file[f], f)
  BY <1>1, <1>4 DEF Steady, Agree
<1>6. \A f \in File : CountsOf(file)[f] = 0
  BY <1>1, <1>4 DEF CountsOf
<1>7. Sound(CountsOf(file), AddrsOf(file), disk, free)
  BY <1>3, <1>6, NoTrees
<1> QED
  BY <1>1, <1>2, <1>3, <1>5, <1>7 DEF MapInv

LEMMA ViewType ==
  ASSUME MapInv, NEW f \in File, NEW broken \in Bad \cup {0}
  PROVE  LET m == [View(f) EXCEPT !.bad = broken]
         IN  /\ m \in Rec /\ m.error = "ok" /\ m.size = file[f].size /\ m.addr = file[f].addr
             /\ m.saved = file[f].saved /\ m.free = free /\ m.disk = disk /\ m.bad = broken
<1>1. /\ file[f].size \in 0 .. Word - 1 /\ file[f].addr \in [Slot -> Ref]
      /\ file[f].saved \in [size : 0 .. Word - 1, addr : [Slot -> Ref]]
      /\ free \in Seq(DataBlock) /\ disk \in [DataBlock -> [Cell -> Ref]]
  BY DEF MapInv, FileRec
<1>2. 0 \in Ref /\ "ok" \in Errors
  BY DEF Ref, Errors
<1> DEFINE a == file[f].size
           b == file[f].addr
           c == file[f].saved
           m == [View(f) EXCEPT !.bad = broken]
<1>3. m = [size |-> a, addr |-> b, saved |-> c, free |-> free, disk |-> disk,
           bad |-> broken, blk |-> 0, error |-> "ok"]
  BY DEF View
<1> HIDE DEF a, b, c, m
<1>4. m \in Rec
  BY <1>1, <1>2, <1>3 DEF Rec, a, b, c
<1> QED
  BY <1>3, <1>4 DEF a, b, c, m

LEMMA ResizeInv ==
  ASSUME Within, MapInv, NEW f \in File, NEW size \in Sizes, NEW broken \in Bad,
         Resize(f, size, broken)
  PROVE  MapInv'
<1> DEFINE m == [View(f) EXCEPT !.bad = broken]
           r == SizeChange(m, size)
           n == CountsOf(file)
           A == AddrsOf(file)
           v == [size |-> r.size, addr |-> r.addr, saved |-> r.saved]
<1>1. /\ m \in Rec /\ m.error = "ok" /\ m.size = file[f].size /\ m.addr = file[f].addr
      /\ m.saved = file[f].saved /\ m.free = free /\ m.disk = disk
  BY ViewType
<1>2. /\ file' = [file EXCEPT ![f] = v] /\ free' = r.free /\ disk' = r.disk
  BY DEF Resize, Store
<1>3. file \in [File -> FileRec] /\ (\A g \in File : Steady(file[g], g)) /\ Sound(n, A, disk, free)
  BY DEF MapInv
<1>4. n \in Counts /\ A \in Addrs /\ n[f] = NBlk(file[f].size) /\ A[f] = file[f].addr
  <2>1. \A g \in File : file[g].size \in Sizes \cup {0}
    BY <1>3 DEF Steady
  <2> QED
    BY <1>3, <2>1, CountsType
<1> HIDE DEF m
<1>5. Steady(m, f)
  BY <1>1, <1>3 DEF Steady
<1>6. Resized(r, n, f, A)
  <2> HIDE DEF n, A
  <2>1. n[f] = NBlk(m.size) /\ A[f] = m.addr /\ Sound(n, A, m.disk, m.free)
    BY <1>1, <1>3, <1>4
  <2> QED
    BY <1>1, <1>4, <1>5, <2>1, SizeChangeCall
<1> HIDE DEF r
<1>7. v \in FileRec /\ r.free \in Seq(DataBlock) /\ r.disk \in [DataBlock -> [Cell -> Ref]]
  BY <1>6 DEF Resized, Rec, FileRec
<1>8. Steady(v, f)
  BY <1>6 DEF Resized, Steady
<1>9. CountsOf(file') = [n EXCEPT ![f] = NBlk(r.size)]
  <2>1. v.size = r.size
    OBVIOUS
  <2> HIDE DEF v
  <2> QED
    BY <1>2, <1>3, <2>1 DEF CountsOf
<1>10. AddrsOf(file') = [A EXCEPT ![f] = r.addr]
  <2>1. v.addr = r.addr
    OBVIOUS
  <2> HIDE DEF v
  <2> QED
    BY <1>2, <1>3, <2>1 DEF AddrsOf
<1>11. Sound(CountsOf(file'), AddrsOf(file'), disk', free')
  BY <1>2, <1>6, <1>9, <1>10 DEF Resized
<1> HIDE DEF v
<1>12. file' \in [File -> FileRec] /\ \A g \in File : Steady(file'[g], g)
  BY <1>2, <1>3, <1>7, <1>8
<1> QED
  BY <1>2, <1>7, <1>11, <1>12 DEF MapInv

LEMMA NextInv ==
  ASSUME Within, MapInv, [MapNext]_mapVars
  PROVE  MapInv'
<1>1. CASE MapNext
  BY <1>1, ResizeInv DEF MapNext
<1>2. CASE UNCHANGED mapVars
  BY <1>2 DEF mapVars, MapInv
<1> QED
  BY <1>1, <1>2

-----------------------------------------------------------------------------
(* Reading the map                                                         *)

(* A file with its blocks in trees, when no read fails.                    *)
Reads(m, w, L, A, n, f) ==
  /\ m \in Rec /\ m.bad = 0 /\ f \in File /\ n \in Counts /\ n[f] = NBlk(m.size)
  /\ Fits(w, L, A, m.disk, m.free) /\ Live(n) \subseteq L
  /\ Agree(m.addr, A[f], n[f], f)
  /\ n[f] = 0 \/ Spot(n[f]) # Undefined
  /\ n[f] * BlkSize + BlkSize <= Word

LEMMA LinkLive ==
  ASSUME NEW m, NEW w, NEW L, NEW A, NEW p, NEW n, Entered(m, w, L, A, p, n),
         Child(p, n) \in L, w[p] # m.bad
  PROVE  Link(m, w[p], n) = w[Child(p, n)]
<1> DEFINE c == Child(p, n)
           blk == w[p]
<1>1. /\ Fits(w, L, A, m.disk, m.free) /\ p \in L /\ p[3] < p[2] /\ n \in 0 .. Per - 1
      /\ c \in L /\ blk # m.bad /\ p \in Node /\ blk \in DataBlock /\ w[c] \in DataBlock
  BY DEF Entered, Fits
<1>2. Up(c) = p /\ Ent(c) = n /\ c[3] > 0
  BY <1>1, ChildFacts
<1> HIDE DEF c
<1>3. m.disk[w[Up(c)]][Ent(c)] = w[c]
  BY <1>1, <1>2 DEF Fits, Kept
<1>4. m.disk[blk][n] = w[c]
  BY <1>2, <1>3
<1> HIDE DEF blk
<1>5. Sane(blk) /\ Sane(w[c])
  BY <1>1, RefFacts DEF Ref
<1>6. Link(m, blk, n) = w[c]
  BY <1>1, <1>4, <1>5 DEF Link
<1> QED
  BY <1>6 DEF blk, c

LEMMA PathRead ==
  ASSUME NEW m, NEW w, NEW L, NEW A, NEW n, NEW f, Reads(m, w, L, A, n, f),
         NEW k \in 1 .. n[f]
  PROVE  LET y == Leaf(f, k)
             l == Level(k)
         IN  /\ k \in 1 .. Capacity /\ l \in 0 .. 3
             /\ Addr(k * BlkSize) = Spot(k) /\ Spot(k) # Undefined /\ Spot(k).level = l
             /\ y \in Node /\ y[1] = f /\ y[3] = l /\ Anc(y, l) = y /\ Path(y) \subseteq L
             /\ \A d \in 0 .. l : Anc(y, d) \in L /\ w[Anc(y, d)] \in DataBlock
             /\ m.addr[SlotOf(y)] = w[Anc(y, 0)]
             /\ \A d \in 1 .. l : /\ Spot(k).index[d] \in 0 .. Per - 1
                                  /\ Link(m, w[Anc(y, d - 1)], Spot(k).index[d]) = w[Anc(y, d)]
<1> USE DEF Reads
<1> DEFINE y == Leaf(f, k)
           l == Level(k)
<1>1. k \in 1 .. Capacity /\ k \in Nat \ {0} /\ y \in Live(n) /\ Path(y) \subseteq Live(n)
  BY LeafLive
<1>2. y \in Node /\ y[1] = f /\ y[2] = l /\ y[3] = l /\ l \in 0 .. 3
  BY <1>1, LeafFacts, OffsetFacts
<1>3. Spot(k) # Undefined /\ Spot(k).level = l
  <2> DEFINE j == n[f]
  <2>1. j \in Nat \ {0} /\ k <= j /\ Spot(j) # Undefined
    <3>1. j \in Nat
      BY Constants DEF Counts
    <3> QED
      BY <3>1
  <2> HIDE DEF j
  <2> QED
    BY <1>1, <2>1, SpotOrder
<1>4. Addr(k * BlkSize) = Spot(k)
  <2> DEFINE j == n[f]
             sz == k * BlkSize
  <2>1. j \in Nat /\ k <= j /\ j * BlkSize + BlkSize <= Word /\ BlkSize \in Nat \ {0}
    BY Constants DEF Counts
  <2> HIDE DEF j
  <2>2. k * BlkSize <= j * BlkSize
    BY <1>1, <2>1, MultipleOrder
  <2>3. sz \in Nat /\ (k - 1) * BlkSize < sz /\ sz <= k * BlkSize /\ k * BlkSize + BlkSize <= Word
    <3>1. k \in Nat /\ (k - 1) * BlkSize = k * BlkSize - BlkSize
      BY <1>1, <2>1
    <3>2. k * BlkSize \in Nat /\ j * BlkSize \in Nat
      BY <2>1, <3>1
    <3> DEFINE a == k * BlkSize
               b == j * BlkSize
    <3> HIDE DEF a, b
    <3>3. a \in Nat /\ b \in Nat /\ a <= b /\ b + BlkSize <= Word
      BY <2>1, <2>2, <3>2 DEF a, b
    <3>4. a - BlkSize < a /\ a + BlkSize <= Word
      BY <2>1, <3>3, Constants
    <3> QED
      BY <3>1, <3>3, <3>4 DEF a
  <2> HIDE DEF sz
  <2>4. Addr(sz) = Spot(k)
    BY <1>1, <2>3, AddrSpot
  <2> QED
    BY <2>4 DEF sz
<1> HIDE DEF y
<1>5. \A d \in 0 .. l : /\ Anc(y, d) \in L /\ Anc(y, d)[3] = d /\ w[Anc(y, d)] \in DataBlock
  <2> SUFFICES ASSUME NEW d \in 0 .. l
               PROVE  Anc(y, d) \in L /\ Anc(y, d)[3] = d /\ w[Anc(y, d)] \in DataBlock
    OBVIOUS
  <2>1. Anc(y, d) \in Path(y) /\ Anc(y, d)[3] = d
    BY <1>2, AncFacts
  <2>2. Anc(y, d) \in L
    BY <1>1, <2>1 DEF y
  <2> QED
    BY <2>1, <2>2 DEF Fits
<1>6. m.addr[SlotOf(y)] = w[Anc(y, 0)]
  <2>1. Anc(y, 0) = RootOf(y) /\ RootOf(y)[1] = f /\ RootOf(y)[3] = 0
        /\ SlotOf(RootOf(y)) = SlotOf(y)
    BY <1>2, RootInPath, RootFacts
  <2>2. RootOf(y) \in L
    BY <1>5, <1>2, <2>1
  <2>3. w[RootOf(y)] = A[f][SlotOf(y)]
    BY <2>1, <2>2 DEF Fits, Kept
  <2>4. m.addr[SlotOf(y)] = A[f][SlotOf(y)]
    BY DEF Agree, y
  <2> QED
    BY <2>1, <2>3, <2>4
<1>7. ASSUME NEW d \in 1 .. l
      PROVE  /\ Spot(k).index[d] \in 0 .. Per - 1
             /\ Link(m, w[Anc(y, d - 1)], Spot(k).index[d]) = w[Anc(y, d)]
  <2> DEFINE p == Anc(y, d - 1)
             i == Spot(k).index[d]
             c == Anc(y, d)
  <2>1. i \in 0 .. Per - 1 /\ c = Child(p, i) /\ p[3] < p[2]
    BY <1>1, <1>3, SpotFacts DEF y
  <2>2. d - 1 \in 0 .. l /\ d \in 0 .. l
    BY <1>2
  <2>3. p \in L /\ c \in L /\ w[p] # m.bad
    <3>1. p \in L /\ c \in L /\ w[p] \in DataBlock
      BY <1>5, <2>2
    <3> QED
      BY <3>1, RefFacts
  <2> HIDE DEF p, i, c
  <2>4. Link(m, w[p], i) = w[Child(p, i)]
    <3>1. Entered(m, w, L, A, p, i)
      BY <2>1, <2>3 DEF Entered
    <3>2. Child(p, i) \in L
      BY <2>1, <2>3
    <3> QED
      BY <2>3, <3>1, <3>2, LinkLive
  <2>5. Link(m, w[p], i) = w[c]
    BY <2>1, <2>4
  <2> QED
    BY <2>1, <2>5 DEF p, i, c
<1>8. Anc(y, l) = y /\ Path(y) \subseteq L
  <2>1. Anc(y, l) = y
    BY <1>2 DEF Anc
  <2> QED
    BY <1>1, <2>1 DEF y
<1> QED
  BY <1>1, <1>2, <1>3, <1>4, <1>5, <1>6, <1>7, <1>8 DEF y

LEMMA SlotLevel ==
  ASSUME NEW f \in File, NEW k \in 1 .. Capacity
  PROVE  LET y == Leaf(f, k)
         IN  /\ Level(k) = 0 => SlotOf(y) = Offset(k)
             /\ Level(k) = 1 => SlotOf(y) = Index1
             /\ Level(k) = 2 => SlotOf(y) = Index2
             /\ Level(k) = 3 => SlotOf(y) = Index3
<1>1. Leaf(f, k)[2] = Level(k) /\ Leaf(f, k)[4] = Offset(k)
  BY LeafFacts
<1>2. NDirect \in Nat
  BY Constants
<1> QED
  BY <1>1, <1>2 DEF SlotOf, Index1, Index2, Index3

LEMMA BlockRead ==
  ASSUME NEW m, NEW w, NEW L, NEW A, NEW n, NEW f, Reads(m, w, L, A, n, f),
         NEW k \in 1 .. n[f]
  PROVE  LastBlk(m, k * BlkSize) = w[Leaf(f, k)]
<1> DEFINE y == Leaf(f, k)
           l == Level(k)
           at == Spot(k)
           b(d) == w[Anc(y, d)]
<1>1. /\ k \in 1 .. Capacity /\ l \in 0 .. 3 /\ Addr(k * BlkSize) = at /\ at.level = l
      /\ Anc(y, l) = y /\ m.addr[SlotOf(y)] = b(0)
      /\ \A d \in 1 .. l : at.index[d] \in 0 .. Per - 1 /\ Link(m, b(d - 1), at.index[d]) = b(d)
  BY PathRead
<1>2. /\ l = 0 => SlotOf(y) = Offset(k)
      /\ l = 1 => SlotOf(y) = Index1
      /\ l = 2 => SlotOf(y) = Index2
      /\ l = 3 => SlotOf(y) = Index3
  BY <1>1, SlotLevel DEF Reads
<1>3. l = 0 => at.index[1] = Offset(k)
  BY DEF Spot, At
<1>4. LastBlk(m, k * BlkSize) =
        LET At1(list, i) == Link(m, list, i)
            At2(list, i) == At1(At1(list, i[1]), i[2])
        IN CASE at.level = 0 -> m.addr[at.index[1]]
             [] at.level = 1 -> At1(m.addr[Index1], at.index[1])
             [] at.level = 2 -> At2(m.addr[Index2], at.index)
             [] at.level = 3 /\ at.index[3] < Per -> At1(At2(m.addr[Index3], at.index), at.index[3])
             [] OTHER -> 0
  BY <1>1 DEF LastBlk
<1> HIDE DEF y, l, at, b
<1>5. b(l) = w[y]
  BY <1>1 DEF b
<1>6. CASE l = 0
  BY <1>1, <1>2, <1>3, <1>4, <1>5, <1>6 DEF y
<1>7. CASE l = 1
  <2>1. 1 \in 1 .. l /\ 1 - 1 = 0
    BY <1>7
  <2>2. Link(m, b(0), at.index[1]) = b(1)
    BY <1>1, <2>1
  <2> QED
    BY <1>1, <1>2, <1>4, <1>5, <1>7, <2>2 DEF y
<1>8. CASE l = 2
  <2>1. 1 \in 1 .. l /\ 1 - 1 = 0 /\ 2 \in 1 .. l /\ 2 - 1 = 1
    BY <1>8
  <2>2. Link(m, b(0), at.index[1]) = b(1) /\ Link(m, b(1), at.index[2]) = b(2)
    BY <1>1, <2>1
  <2> QED
    BY <1>1, <1>2, <1>4, <1>5, <1>8, <2>2 DEF y
<1>9. CASE l = 3
  <2>1. 1 \in 1 .. l /\ 1 - 1 = 0 /\ 2 \in 1 .. l /\ 2 - 1 = 1 /\ 3 \in 1 .. l /\ 3 - 1 = 2
    BY <1>9
  <2>2. Link(m, b(0), at.index[1]) = b(1) /\ Link(m, b(1), at.index[2]) = b(2)
        /\ Link(m, b(2), at.index[3]) = b(3) /\ at.index[3] \in 0 .. Per - 1
    BY <1>1, <2>1
  <2>3. at.index[3] < Per
    BY <2>2, Constants
  <2> QED
    BY <1>1, <1>2, <1>4, <1>5, <1>9, <2>2, <2>3 DEF y
<1> QED
  BY <1>1, <1>6, <1>7, <1>8, <1>9

(* The index blocks that the place p is found through.                     *)
Above(m, p) ==
  LET Named(list) == Link(m, list, p.index[1])
  IN IF p.level = 0 THEN {}
     ELSE IF p.level = 1 THEN {m.addr[Index1]}
     ELSE IF p.level = 2 THEN {m.addr[Index2], Named(m.addr[Index2])}
     ELSE {m.addr[Index3], Named(m.addr[Index3]),
           Link(m, Named(m.addr[Index3]), p.index[2])}

LEMMA AboveRead ==
  ASSUME NEW m, NEW w, NEW L, NEW A, NEW n, NEW f, Reads(m, w, L, A, n, f),
         NEW k \in 1 .. n[f]
  PROVE  Above(m, Addr(k * BlkSize)) = {w[Anc(Leaf(f, k), d)] : d \in 0 .. Level(k) - 1}
<1> DEFINE y == Leaf(f, k)
           l == Level(k)
           at == Spot(k)
           b(d) == w[Anc(y, d)]
           S == {w[Anc(y, d)] : d \in 0 .. l - 1}
<1>1. /\ k \in 1 .. Capacity /\ l \in 0 .. 3 /\ Addr(k * BlkSize) = at /\ at.level = l
      /\ m.addr[SlotOf(y)] = b(0)
      /\ \A d \in 1 .. l : at.index[d] \in 0 .. Per - 1 /\ Link(m, b(d - 1), at.index[d]) = b(d)
  BY PathRead
<1>2. /\ l = 1 => SlotOf(y) = Index1
      /\ l = 2 => SlotOf(y) = Index2
      /\ l = 3 => SlotOf(y) = Index3
  BY <1>1, SlotLevel DEF Reads
<1>3. S = {b(d) : d \in 0 .. l - 1}
  OBVIOUS
<1> HIDE DEF y, l, at, b, S
<1>4. CASE l = 0
  <2>1. S = {}
    BY <1>3, <1>4
  <2>2. Above(m, at) = {}
    BY <1>1, <1>4 DEF Above
  <2> QED
    BY <1>1, <2>1, <2>2 DEF S, y, l
<1>5. CASE l = 1
  <2>1. S = {b(0)}
    <3>1. 0 .. l - 1 = {0}
      BY <1>5
    <3> QED
      BY <1>3, <3>1
  <2>2. Above(m, at) = {b(0)}
    BY <1>1, <1>2, <1>5 DEF Above
  <2> QED
    BY <1>1, <2>1, <2>2 DEF S, y, l
<1>6. CASE l = 2
  <2>1. S = {b(0), b(1)}
    <3>1. 0 .. l - 1 = {0, 1}
      BY <1>6
    <3> QED
      BY <1>3, <3>1
  <2>2. 1 \in 1 .. l /\ 1 - 1 = 0
    BY <1>6
  <2>3. Link(m, b(0), at.index[1]) = b(1)
    BY <1>1, <2>2
  <2>4. Above(m, at) = {b(0), b(1)}
    BY <1>1, <1>2, <1>6, <2>3 DEF Above
  <2> QED
    BY <1>1, <2>1, <2>4 DEF S, y, l
<1>7. CASE l = 3
  <2>1. S = {b(0), b(1), b(2)}
    <3>1. 0 .. l - 1 = {0, 1, 2}
      BY <1>7
    <3> QED
      BY <1>3, <3>1
  <2>2. 1 \in 1 .. l /\ 1 - 1 = 0 /\ 2 \in 1 .. l /\ 2 - 1 = 1
    BY <1>7
  <2>3. Link(m, b(0), at.index[1]) = b(1) /\ Link(m, b(1), at.index[2]) = b(2)
    BY <1>1, <2>2
  <2>4. Above(m, at) = {b(0), b(1), b(2)}
    BY <1>1, <1>2, <1>7, <2>3 DEF Above
  <2> QED
    BY <1>1, <2>1, <2>4 DEF S, y, l
<1> QED
  BY <1>1, <1>4, <1>5, <1>6, <1>7

LEMMA MapRead ==
  ASSUME NEW m, NEW w, NEW L, NEW A, NEW n, NEW f, Reads(m, w, L, A, n, f)
  PROVE  /\ Data(m) = [k \in 1 .. n[f] |-> w[Leaf(f, k)]]
         /\ Index(m) = UNION {{w[Anc(Leaf(f, k), d)] : d \in 0 .. Level(k) - 1} : k \in 1 .. n[f]}
<1> DEFINE B(k) == {w[Anc(Leaf(f, k), d)] : d \in 0 .. Level(k) - 1}
           at(k) == Addr(k * BlkSize)
           c == n[f]
           places == {at(k) : k \in 1 .. c}
<1>1. NBlk(m.size) = c
  BY DEF Reads
<1>2. \A k \in 1 .. c : LastBlk(m, k * BlkSize) = w[Leaf(f, k)]
  BY BlockRead
<1>3. \A k \in 1 .. c : Above(m, at(k)) = B(k)
  BY AboveRead
<1>4. Index(m) = UNION {Above(m, p) : p \in places}
  BY <1>1 DEF Index, Above
<1> HIDE DEF B, at, c
<1>5. UNION {Above(m, p) : p \in places} = UNION {B(k) : k \in 1 .. c}
  BY <1>3
<1>6. Data(m) = [k \in 1 .. c |-> w[Leaf(f, k)]]
  BY <1>1, <1>2 DEF Data
<1> QED
  BY <1>4, <1>5, <1>6 DEF B, c

(* The nodes whose blocks a file's map finds.                              *)
LEMMA NodesRead ==
  ASSUME NEW m, NEW w, NEW L, NEW A, NEW n, NEW f, Reads(m, w, L, A, n, f)
  PROVE  /\ DOMAIN Data(m) = 1 .. n[f]
         /\ \A k \in 1 .. n[f] :
              LET x == Leaf(f, k)
              IN  x \in L /\ x[1] = f /\ x[3] = x[2] /\ Data(m)[k] = w[x]
         /\ \A blk \in Index(m) : \E x \in L : x[1] = f /\ x[3] < x[2] /\ blk = w[x]
<1>1. /\ Data(m) = [k \in 1 .. n[f] |-> w[Leaf(f, k)]]
      /\ Index(m) = UNION {{w[Anc(Leaf(f, k), d)] : d \in 0 .. Level(k) - 1} : k \in 1 .. n[f]}
  BY MapRead
<1>2. ASSUME NEW k \in 1 .. n[f]
      PROVE  LET x == Leaf(f, k)
             IN  /\ x \in L /\ x[1] = f /\ x[3] = x[2] /\ x[3] = Level(k) /\ x \in Node
                 /\ Path(x) \subseteq L
  <2>1. k \in 1 .. Capacity /\ f \in File /\ Path(Leaf(f, k)) \subseteq L
    BY PathRead DEF Reads
  <2>2. Leaf(f, k) \in Path(Leaf(f, k))
    BY DEF Path
  <2> QED
    BY <2>1, <2>2, LeafFacts
<1>3. ASSUME NEW blk \in Index(m)
      PROVE  \E x \in L : x[1] = f /\ x[3] < x[2] /\ blk = w[x]
  <2>0. PICK k \in 1 .. n[f] : blk \in {w[Anc(Leaf(f, k), d)] : d \in 0 .. Level(k) - 1}
    BY <1>1, <1>3
  <2>1. PICK d \in 0 .. Level(k) - 1 : blk = w[Anc(Leaf(f, k), d)]
    BY <2>0
  <2> DEFINE y == Leaf(f, k)
             x == Anc(y, d)
  <2>2. y \in Node /\ y[1] = f /\ y[3] = y[2] /\ y[3] = Level(k) /\ Path(y) \subseteq L
    BY <1>2
  <2>3. y[3] \in 0 .. 3 /\ d \in 0 .. y[3] /\ d < y[3]
    BY <2>1, <2>2, NodeFacts
  <2> HIDE DEF y
  <2>4. x \in Path(y) /\ x[3] = d
    BY <2>2, <2>3, AncFacts
  <2>5. x[1] = f /\ x[2] = y[2] /\ x \in L
    BY <2>2, <2>4, PathFacts
  <2> QED
    BY <2>1, <2>2, <2>3, <2>4, <2>5 DEF y
<1> QED
  BY <1>1, <1>2, <1>3

-----------------------------------------------------------------------------
(* What the invariant says of the blocks                                   *)

OnDisk(f) == [View(f) EXCEPT !.size = file[f].saved.size, !.addr = file[f].saved.addr]

LEMMA FileReads ==
  ASSUME Within, MapInv, NEW f \in File, NEW w, NEW L,
         Fits(w, L, AddrsOf(file), disk, free), Live(CountsOf(file)) \subseteq L
  PROVE  /\ Reads(View(f), w, L, AddrsOf(file), CountsOf(file), f)
         /\ Reads(OnDisk(f), w, L, AddrsOf(file), CountsOf(file), f)
<1> DEFINE n == CountsOf(file)
           A == AddrsOf(file)
           v == View(f)
           o == OnDisk(f)
           s == file[f].size
<1>1. /\ file \in [File -> FileRec] /\ Steady(file[f], f) /\ \A g \in File : Steady(file[g], g)
  BY DEF MapInv
<1>2. n \in Counts /\ n[f] = NBlk(s) /\ A[f] = file[f].addr
  <2>1. \A g \in File : file[g].size \in Sizes \cup {0}
    BY <1>1 DEF Steady
  <2> QED
    BY <1>1, <2>1, CountsType
<1>3. /\ s \in Sizes \cup {0} /\ file[f].saved.size = s
      /\ NBlk(s) = 0 \/ Spot(NBlk(s)) # Undefined
      /\ Agree(file[f].saved.addr, file[f].addr, NBlk(s), f)
  BY <1>1 DEF Steady
<1>4. NBlk(s) * BlkSize + BlkSize <= Word
  BY <1>3, SizeBounds
<1>5. /\ v \in Rec /\ v.size = s /\ v.addr = file[f].addr /\ v.free = free /\ v.disk = disk
      /\ v.bad = 0
  <2> DEFINE m == [View(f) EXCEPT !.bad = 0]
  <2>1. m \in Rec /\ m.size = s /\ m.addr = file[f].addr /\ m.free = free /\ m.disk = disk
        /\ m.bad = 0
    BY ViewType
  <2>2. m = v
    BY DEF View
  <2> HIDE DEF m, v, s
  <2> QED
    BY <2>1, <2>2
<1>6. /\ o \in Rec /\ o.size = s /\ o.addr = file[f].saved.addr /\ o.free = free /\ o.disk = disk
      /\ o.bad = 0
  <2>1. o = [v EXCEPT !.size = file[f].saved.size, !.addr = file[f].saved.addr]
    BY DEF OnDisk
  <2>2. /\ file[f].saved.size \in 0 .. Word - 1 /\ file[f].saved.addr \in [Slot -> Ref]
    BY <1>1 DEF FileRec
  <2> HIDE DEF o, v
  <2> QED
    BY <1>3, <1>5, <2>1, <2>2 DEF Rec
<1>7. Agree(v.addr, A[f], n[f], f) /\ Agree(o.addr, A[f], n[f], f)
  BY <1>2, <1>3, <1>5, <1>6 DEF Agree
<1> HIDE DEF n, A, v, o, s
<1>8. Fits(w, L, A, v.disk, v.free) /\ Fits(w, L, A, o.disk, o.free) /\ Live(n) \subseteq L
  BY <1>5, <1>6 DEF n, A
<1>9. Reads(v, w, L, A, n, f)
  BY <1>2, <1>3, <1>4, <1>5, <1>7, <1>8 DEF Reads
<1>10. Reads(o, w, L, A, n, f)
  BY <1>2, <1>3, <1>4, <1>6, <1>7, <1>8 DEF Reads
<1> QED
  BY <1>9, <1>10 DEF n, A, v, o

(* The blocks that the maps of the files find.                             *)
Apart(w, L, n) ==
  /\ L \in SUBSET Node /\ w \in [L -> DataBlock]
  /\ \A x, y \in L : w[x] = w[y] => x = y
  /\ Spare(w, L, free)
  /\ \A f \in File :
       /\ n[f] \in 0 .. Capacity
       /\ DOMAIN Data(View(f)) = 1 .. n[f]
       /\ \A k \in 1 .. n[f] :
            LET x == Leaf(f, k)
            IN  x \in L /\ x[1] = f /\ x[3] = x[2] /\ Data(View(f))[k] = w[x]
       /\ \A blk \in Index(View(f)) : \E x \in L : x[1] = f /\ x[3] < x[2] /\ blk = w[x]
       /\ Data(OnDisk(f)) = Data(View(f)) /\ Index(OnDisk(f)) = Index(View(f))

LEMMA InvApart ==
  ASSUME Within, MapInv
  PROVE  \E w, L, n : Apart(w, L, n)
<1> DEFINE n == CountsOf(file)
           A == AddrsOf(file)
<1>1. PICK w, L : Fits(w, L, A, disk, free) /\ Live(n) \subseteq L
  BY DEF MapInv, Sound
<1>2. ASSUME NEW f \in File
      PROVE  Reads(View(f), w, L, A, n, f) /\ Reads(OnDisk(f), w, L, A, n, f)
  BY <1>1, FileReads
<1> HIDE DEF n, A
<1>3. ASSUME NEW f \in File
      PROVE  /\ n[f] \in 0 .. Capacity
             /\ DOMAIN Data(View(f)) = 1 .. n[f]
             /\ \A k \in 1 .. n[f] :
                  LET x == Leaf(f, k)
                  IN  x \in L /\ x[1] = f /\ x[3] = x[2] /\ Data(View(f))[k] = w[x]
             /\ \A blk \in Index(View(f)) : \E x \in L : x[1] = f /\ x[3] < x[2] /\ blk = w[x]
             /\ Data(OnDisk(f)) = Data(View(f)) /\ Index(OnDisk(f)) = Index(View(f))
  <2>1. Reads(View(f), w, L, A, n, f) /\ Reads(OnDisk(f), w, L, A, n, f)
    BY <1>2
  <2>2. n[f] \in 0 .. Capacity
    BY <2>1 DEF Reads, Counts
  <2>3. Data(OnDisk(f)) = Data(View(f)) /\ Index(OnDisk(f)) = Index(View(f))
    <3> DEFINE D == [k \in 1 .. n[f] |-> w[Leaf(f, k)]]
               I == UNION {{w[Anc(Leaf(f, k), d)] : d \in 0 .. Level(k) - 1} : k \in 1 .. n[f]}
               v == View(f)
               o == OnDisk(f)
    <3> HIDE DEF v, o
    <3>1. Data(v) = D /\ Index(v) = I
      BY <2>1, MapRead DEF v
    <3>2. Data(o) = D /\ Index(o) = I
      BY <2>1, MapRead DEF o
    <3> QED
      BY <3>1, <3>2 DEF v, o
  <2> QED
    BY <2>1, <2>2, <2>3, NodesRead
<1>4. Apart(w, L, n)
  BY <1>1, <1>3 DEF Apart, Fits
<1> QED
  BY <1>4

LEMMA LeafInjective ==
  ASSUME NEW f, NEW j \in 1 .. Capacity, NEW k \in 1 .. Capacity, Leaf(f, j) = Leaf(f, k)
  PROVE  j = k
<1>1. Level(j) = Level(k) /\ Offset(j) = Offset(k)
  BY DEF Leaf
<1>2. j \in Nat \ {0} /\ k \in Nat \ {0}
  BY Constants
<1>3. j <= k \/ k <= j
  BY <1>2
<1> QED
  BY <1>1, <1>2, <1>3, LevelOrder

LEMMA InvDisjoint ==
  ASSUME Within, MapInv
  PROVE  BlocksDisjoint
<1>1. PICK w, L, n : Apart(w, L, n)
  BY InvApart
<1>2. /\ L \in SUBSET Node /\ w \in [L -> DataBlock] /\ \A x, y \in L : w[x] = w[y] => x = y
      /\ free \in Seq(DataBlock)
  BY <1>1 DEF Apart, MapInv
<1>3. DOMAIN free = 1 .. Len(free)
  BY <1>2
<1>4. ASSUME NEW f \in File, NEW blk \in Range(Data(View(f)))
      PROVE  \E x \in L : x[1] = f /\ x[3] = x[2] /\ blk = w[x]
  BY <1>1, <1>4 DEF Apart, Range
<1>5. ASSUME NEW f \in File, NEW blk \in Index(View(f))
      PROVE  \E x \in L : x[1] = f /\ x[3] < x[2] /\ blk = w[x]
  BY <1>1, <1>5 DEF Apart
<1>6. ASSUME NEW f \in File, NEW blk \in Owned(f)
      PROVE  \E x \in L : x[1] = f /\ blk = w[x]
  BY <1>4, <1>5, <1>6 DEF Owned
<1>7. ASSUME NEW f \in File, NEW k \in DOMAIN Data(View(f))
      PROVE  Sane(Data(View(f))[k])
  <2>1. k \in 1 .. n[f] /\ Data(View(f))[k] = w[Leaf(f, k)] /\ Leaf(f, k) \in L
    BY <1>1, <1>7 DEF Apart
  <2>2. w[Leaf(f, k)] \in DataBlock
    BY <1>2, <2>1
  <2> QED
    BY <2>1, <2>2, RefFacts DEF Ref
<1>8. ASSUME NEW f \in File
      PROVE  IsInjective(Data(View(f)))
  <2> SUFFICES ASSUME NEW j \in DOMAIN Data(View(f)), NEW k \in DOMAIN Data(View(f)),
                      Data(View(f))[j] = Data(View(f))[k]
               PROVE  j = k
    BY DEF IsInjective
  <2>1. /\ j \in 1 .. n[f] /\ Data(View(f))[j] = w[Leaf(f, j)] /\ Leaf(f, j) \in L
        /\ k \in 1 .. n[f] /\ Data(View(f))[k] = w[Leaf(f, k)] /\ Leaf(f, k) \in L
        /\ n[f] \in 0 .. Capacity
    BY <1>1 DEF Apart
  <2>2. Leaf(f, j) = Leaf(f, k)
    BY <1>2, <2>1
  <2>3. j \in 1 .. Capacity /\ k \in 1 .. Capacity
    BY <2>1, Constants
  <2> QED
    BY <2>2, <2>3, LeafInjective
<1>9. ASSUME NEW f \in File
      PROVE  Range(Data(View(f))) \cap Index(View(f)) = {}
  <2> SUFFICES ASSUME NEW blk \in Range(Data(View(f))), blk \in Index(View(f))
               PROVE  FALSE
    OBVIOUS
  <2>1. PICK x \in L : x[1] = f /\ x[3] = x[2] /\ blk = w[x]
    BY <1>4
  <2>2. PICK y \in L : y[1] = f /\ y[3] < y[2] /\ blk = w[y]
    BY <1>5
  <2>3. x = y
    BY <1>2, <2>1, <2>2
  <2>4. x \in Node
    BY <1>2
  <2>5. x[3] \in 0 .. 3
    BY <2>4, NodeFacts
  <2> QED
    BY <2>1, <2>2, <2>3, <2>5
<1>10. ASSUME NEW f \in File, NEW g \in File \ {f}
       PROVE  Owned(f) \cap Owned(g) = {}
  <2> SUFFICES ASSUME NEW blk \in Owned(f), blk \in Owned(g)
               PROVE  FALSE
    OBVIOUS
  <2>1. PICK x \in L : x[1] = f /\ blk = w[x]
    BY <1>6
  <2>2. PICK y \in L : y[1] = g /\ blk = w[y]
    BY <1>6
  <2> QED
    BY <1>2, <2>1, <2>2
<1>11. ASSUME NEW f \in File
       PROVE  Owned(f) \cap Range(free) = {}
  <2> SUFFICES ASSUME NEW blk \in Owned(f), blk \in Range(free)
               PROVE  FALSE
    OBVIOUS
  <2>1. PICK x \in L : x[1] = f /\ blk = w[x]
    BY <1>6
  <2>2. PICK i \in 1 .. Len(free) : blk = free[i]
    BY <1>3 DEF Range
  <2>3. \A j \in 1 .. Len(free) : \A z \in L : free[j] # w[z]
    BY <1>1 DEF Apart, Spare
  <2> QED
    BY <2>1, <2>2, <2>3
<1>12. IsInjective(free)
  BY <1>1, <1>3 DEF Apart, Spare, IsInjective
<1> QED
  BY <1>7, <1>8, <1>9, <1>10, <1>11, <1>12 DEF BlocksDisjoint

LEMMA InvSaved ==
  ASSUME Within, MapInv
  PROVE  SavedSame
<1>1. PICK w, L, n : Apart(w, L, n)
  BY InvApart
<1> QED
  BY <1>1 DEF Apart, SavedSame, OnDisk

-----------------------------------------------------------------------------
(* The walk                                                                *)

(* Sequences of one length, and t, which has one after the other.          *)
Pieces(s, n, N, S) ==
  /\ N \in Nat \ {0} /\ n \in Nat \ {0} /\ s \in [1 .. n -> Seq(S)]
  /\ \A i \in 1 .. n : Len(s[i]) = N

Joined(t, s, n, N, S) ==
  /\ t \in Seq(S) /\ Len(t) = n * N
  /\ \A p \in 0 .. n * N - 1 : /\ p \div N \in 0 .. n - 1 /\ p % N \in 0 .. N - 1
                               /\ t[p + 1] = s[p \div N + 1][(p % N) + 1]

LEMMA FlattenUniform ==
  ASSUME NEW S, NEW N, NEW n, NEW s, Pieces(s, n, N, S)
  PROVE  Joined(FlattenSeq(s), s, n, N, S)
<1> USE DEF Pieces
<1> DEFINE at(p) == s[p \div N + 1][(p % N) + 1]
           G == [i \in 1 .. n |-> [p \in 1 .. i * N |-> at(p - 1)]]
           Step(g) == [i \in 1 .. n |-> IF i = 1 THEN s[i] ELSE g[i - 1] \o s[i]]
<1>1. ASSUME NEW i \in 1 .. n, NEW p \in 0 .. i * N - 1
      PROVE  p \div N \in 0 .. i - 1 /\ p % N \in 0 .. N - 1 /\ at(p) \in S
  <2>1. p \in Nat /\ p < i * N /\ i \in Nat
    <3>1. i * N \in Nat
      OBVIOUS
    <3> QED
      BY <3>1
  <2> DEFINE q == p \div N
             r == p % N
  <2>2. q \in Nat /\ q < i /\ r \in 0 .. N - 1
    <3> HIDE DEF at
    <3> QED
      BY <2>1, DivBelow
  <2> HIDE DEF q, r
  <2>3. q + 1 \in 1 .. n /\ r + 1 \in 1 .. N
    BY <2>2
  <2>4. s[q + 1] \in Seq(S) /\ Len(s[q + 1]) = N
    BY <2>3
  <2>5. s[q + 1][r + 1] \in S
    BY <2>3, <2>4, LenProperties
  <2> QED
    BY <2>2, <2>5 DEF q, r
<1>2. ASSUME NEW i \in 1 .. n
      PROVE  /\ i * N \in Nat /\ G[i] \in Seq(S) /\ Len(G[i]) = i * N
             /\ \A p \in 1 .. i * N : G[i][p] = at(p - 1)
  <2> DEFINE c == i * N
             t == [p \in 1 .. c |-> at(p - 1)]
  <2>1. c \in Nat
    OBVIOUS
  <2>2. \A p \in 0 .. c - 1 : at(p) \in S
    BY <1>1
  <2> HIDE DEF at, c
  <2>3. t \in [1 .. c -> S]
    BY <2>1, <2>2
  <2>4. t \in Seq(S) /\ Len(t) = c /\ \A p \in 1 .. c : t[p] = at(p - 1)
    BY <2>1, <2>3, SeqDef
  <2>5. G[i] = t
    BY DEF c, at
  <2> HIDE DEF G, t
  <2> QED
    BY <2>1, <2>4, <2>5 DEF c
<1>3. G[1] = s[1]
  <2>1. 1 \in 1 .. n /\ 1 * N = N
    OBVIOUS
  <2>2. ASSUME NEW p \in 1 .. N PROVE at(p - 1) = s[1][p]
    <3>1. p - 1 \in 0 .. N - 1 /\ 0 * N + (p - 1) = p - 1 /\ 0 \in Nat
      OBVIOUS
    <3>2. (0 * N + (p - 1)) \div N = 0 /\ (0 * N + (p - 1)) % N = p - 1
      BY <3>1, DivNames
    <3>3. (p - 1) \div N = 0 /\ (p - 1) % N = p - 1
      BY <3>1, <3>2
    <3> QED
      BY <3>1, <3>3
  <2> HIDE DEF at
  <2>3. /\ G[1] \in Seq(S) /\ Len(G[1]) = N /\ s[1] \in Seq(S) /\ Len(s[1]) = N
        /\ \A p \in 1 .. N : G[1][p] = at(p - 1)
    BY <1>2, <2>1
  <2> HIDE DEF G
  <2> QED
    BY <2>2, <2>3, SeqEqual
<1>4. ASSUME NEW i \in 1 .. n, i # 1
      PROVE  G[i] = G[i - 1] \o s[i]
  <2> DEFINE b == (i - 1) * N
             u == G[i - 1]
             v == G[i]
             t == u \o s[i]
  <2>1. i - 1 \in 1 .. n /\ i - 1 \in Nat /\ b \in Nat /\ i * N = b + N
    BY <1>4
  <2>2. /\ u \in Seq(S) /\ Len(u) = b /\ v \in Seq(S) /\ Len(v) = b + N
        /\ s[i] \in Seq(S) /\ Len(s[i]) = N
        /\ (\A p \in 1 .. b : u[p] = at(p - 1)) /\ \A p \in 1 .. b + N : v[p] = at(p - 1)
    <3> HIDE DEF G, at
    <3> QED
      BY <1>2, <2>1
  <2>3. ASSUME NEW r \in 0 .. N - 1 PROVE at(b + r) = s[i][r + 1]
    <3>1. (b + r) \div N = i - 1 /\ (b + r) % N = r
      BY <2>1, DivNames
    <3>2. i - 1 + 1 = i
      OBVIOUS
    <3> QED
      BY <3>1, <3>2
  <2> HIDE DEF b, u, v, at
  <2>4. /\ t \in Seq(S) /\ Len(t) = b + N
        /\ \A p \in 1 .. b + N : t[p] = IF p <= b THEN u[p] ELSE s[i][p - b]
    BY <2>2, ConcatProperties
  <2> HIDE DEF t
  <2>5. ASSUME NEW p \in 1 .. b + N PROVE v[p] = t[p]
    <3>1. CASE p <= b
      BY <2>1, <2>2, <2>4, <3>1
    <3>2. CASE p > b
      <4> DEFINE r == p - 1 - b
      <4>1. r \in 0 .. N - 1 /\ b + r = p - 1 /\ r + 1 = p - b
        BY <2>1, <3>2
      <4> HIDE DEF r
      <4>2. at(p - 1) = s[i][p - b]
        BY <2>3, <4>1
      <4> QED
        BY <2>1, <2>2, <2>4, <3>2, <4>2
    <3> QED
      BY <2>1, <3>1, <3>2
  <2>6. v = t
    BY <2>2, <2>4, <2>5, SeqEqual
  <2> QED
    BY <2>6 DEF u, v, t
<1>5. G = Step(G)
  BY <1>3, <1>4
<1>6. ASSUME NEW g, g = Step(g)
      PROVE  g[n] = G[n]
  <2> DEFINE wrong == {i \in 1 .. n : g[i] # G[i]}
  <2>1. ASSUME NEW i \in 1 .. n
        PROVE  /\ g[i] = IF i = 1 THEN s[i] ELSE g[i - 1] \o s[i]
               /\ G[i] = IF i = 1 THEN s[i] ELSE G[i - 1] \o s[i]
    <3> HIDE DEF G
    <3> QED
      BY <1>5, <1>6
  <2> HIDE DEF G
  <2> SUFFICES ASSUME wrong # {} PROVE FALSE
    OBVIOUS
  <2>2. PICK i \in wrong : \A j \in wrong : i <= j
    <3>1. wrong \in SUBSET Nat
      OBVIOUS
    <3> HIDE DEF wrong
    <3> QED
      BY <3>1, LeastNat
  <2>3. i \in 1 .. n /\ g[i] # G[i]
    OBVIOUS
  <2>4. i # 1
    BY <2>1, <2>3
  <2>5. i - 1 \in 1 .. n /\ ~ (i <= i - 1)
    BY <2>3, <2>4
  <2>6. g[i - 1] = G[i - 1]
    BY <2>2, <2>5
  <2> QED
    BY <2>1, <2>3, <2>4, <2>6
<1>7. FlattenSeq(s) = G[n]
  <2>1. Len(s) = n
    BY LenProperties, SeqDef
  <2> DEFINE g == CHOOSE h : h = Step(h)
  <2>2. FlattenSeq(s) = g[n]
    BY <2>1 DEF FlattenSeq
  <2>3. g = Step(g)
    <3> HIDE DEF G
    <3> QED
      BY <1>5
  <2> HIDE DEF g
  <2> QED
    BY <1>6, <2>2, <2>3
<1>8. n \in 1 .. n
  OBVIOUS
<1>9. ASSUME NEW p \in 0 .. n * N - 1
      PROVE  /\ p \div N \in 0 .. n - 1 /\ p % N \in 0 .. N - 1
             /\ G[n][p + 1] = at(p)
  <2>1. n * N \in Nat
    OBVIOUS
  <2>2. p + 1 \in 1 .. n * N /\ p + 1 - 1 = p
    BY <2>1
  <2>3. G[n][p + 1] = at(p + 1 - 1)
    <3> HIDE DEF G, at
    <3> QED
      BY <1>2, <1>8, <2>2
  <2> QED
    BY <1>1, <1>8, <2>2, <2>3
<1> HIDE DEF G
<1> QED
  BY <1>2, <1>7, <1>8, <1>9 DEF Joined

(* Division by the number of blocks below an index of index blocks.        *)
LEMMA DivSquare ==
  ASSUME NEW q \in Nat, NEW p \in Nat \ {0}
  PROVE  /\ q \div (p * p) = (q \div p) \div p
         /\ (q % (p * p)) \div p = (q \div p) % p /\ (q % (p * p)) % p = q % p
<1> DEFINE a == q \div p
           r == q % p
           b == a \div p
           c == a % p
           s == p * p
           t == c * p + r
<1>1. a \in Nat /\ r \in 0 .. p - 1 /\ q = a * p + r
  <2>1. q < (q + 1) * p
    <3>1. (q + 1) * 1 <= (q + 1) * p
      OBVIOUS
    <3> QED
      BY <3>1
  <2>2. q + 1 \in Nat
    OBVIOUS
  <2>3. a \in Nat /\ r \in 0 .. p - 1
    BY <2>1, <2>2, DivBelow
  <2>4. q = a * p + r
    <3>1. q \in Int
      OBVIOUS
    <3> QED
      BY <3>1, DivBounds
  <2> QED
    BY <2>3, <2>4
<1> HIDE DEF a, r
<1>2. b \in Nat /\ c \in 0 .. p - 1 /\ a = b * p + c
  <2>1. a < (a + 1) * p
    <3>1. (a + 1) * 1 <= (a + 1) * p
      BY <1>1
    <3> QED
      BY <1>1, <3>1
  <2>2. a + 1 \in Nat
    BY <1>1
  <2>3. b \in Nat /\ c \in 0 .. p - 1
    BY <1>1, <2>1, <2>2, DivBelow
  <2>4. a = b * p + c
    <3>1. a \in Int
      BY <1>1
    <3> QED
      BY <3>1, DivBounds
  <2> QED
    BY <2>3, <2>4
<1> HIDE DEF b, c
<1>3. s \in Nat \ {0}
  <2>1. p * p \in Nat /\ p * p > 0
    OBVIOUS
  <2> QED
    BY <2>1
<1>4. t \in 0 .. s - 1
  <2>1. c + 1 <= p /\ c \in Nat /\ c \in Int /\ p \in Int /\ c + 1 \in Int
    BY <1>2
  <2>2. (c + 1) * p <= p * p
    BY <2>1, MultipleOrder
  <2>3. (c + 1) * p = c * p + p /\ c * p \in Nat
    BY <2>1
  <2> DEFINE u == c * p
  <2>4. u \in Nat /\ u + p <= s
    BY <2>2, <2>3
  <2> HIDE DEF u, s
  <2>5. u + r \in 0 .. s - 1
    BY <1>1, <1>3, <2>4
  <2> QED
    BY <2>5 DEF u
<1>5. q = b * s + t
  <2>1. a * p = b * (p * p) + c * p
    BY <1>2
  <2>2. b * (p * p) \in Nat /\ c * p \in Nat
    BY <1>2
  <2> DEFINE u == b * (p * p)
             v == c * p
  <2> HIDE DEF u, v
  <2>3. a * p = u + v /\ u \in Nat /\ v \in Nat
    BY <2>1, <2>2 DEF u, v
  <2>4. q = u + (v + r)
    BY <1>1, <2>3
  <2> QED
    BY <2>4 DEF u, v
<1> HIDE DEF s
<1>6. q \div s = b /\ q % s = t
  <2> HIDE DEF t
  <2> QED
    BY <1>2, <1>3, <1>4, <1>5, DivNames
<1>7. t \div p = c /\ t % p = r
  BY <1>1, <1>2, DivNames
<1> HIDE DEF t
<1> QED
  BY <1>6, <1>7 DEF a, b, c, r, s

LEMMA LoopFacts ==
  ASSUME NEW m \in Rec
  PROVE  \A list \in Ref :
           /\ Loop1(m, list) \in Seq(Ref) /\ Len(Loop1(m, list)) = Per
           /\ \A q \in 0 .. Per - 1 : Loop1(m, list)[q + 1] = Link(m, list, q)
           /\ Loop2(m, list) \in Seq(Ref) /\ Len(Loop2(m, list)) = Per * Per
           /\ \A q \in 0 .. Per * Per - 1 :
                Loop2(m, list)[q + 1] = Link(m, Link(m, list, q \div Per), q % Per)
           /\ Loop3(m, list) \in Seq(Ref) /\ Len(Loop3(m, list)) = Per * Per * Per
           /\ \A q \in 0 .. Per * Per * Per - 1 :
                Loop3(m, list)[q + 1] =
                  Link(m, Link(m, Link(m, list, (q \div Per) \div Per), (q \div Per) % Per), q % Per)
<1>0. Per \in Nat \ {0} /\ Per * Per \in Nat \ {0}
  BY Constants
<1>1. ASSUME NEW list \in Ref, NEW i \in 0 .. Per - 1
      PROVE  Link(m, list, i) \in Ref
  BY LinkType
<1>2. ASSUME NEW list \in Ref
      PROVE  /\ Loop1(m, list) \in Seq(Ref) /\ Len(Loop1(m, list)) = Per
             /\ \A q \in 0 .. Per - 1 : Loop1(m, list)[q + 1] = Link(m, list, q)
  <2> DEFINE t == [k \in 1 .. Per |-> Link(m, list, k - 1)]
  <2>1. Loop1(m, list) = t
    BY DEF Loop1
  <2>2. \A k \in 1 .. Per : k - 1 \in 0 .. Per - 1
    BY <1>0
  <2>3. t \in [1 .. Per -> Ref]
    BY <1>1, <2>2
  <2>4. \A q \in 0 .. Per - 1 : q + 1 \in 1 .. Per /\ q + 1 - 1 = q
    BY <1>0
  <2>5. \A q \in 0 .. Per - 1 : t[q + 1] = Link(m, list, q)
    BY <2>4
  <2> HIDE DEF t
  <2>6. t \in Seq(Ref) /\ Len(t) = Per
    BY <1>0, <2>3, SeqDef
  <2> QED
    BY <2>1, <2>5, <2>6
<1>3. ASSUME NEW list \in Ref
      PROVE  /\ Loop2(m, list) \in Seq(Ref) /\ Len(Loop2(m, list)) = Per * Per
             /\ \A q \in 0 .. Per * Per - 1 :
                  /\ q \div Per \in 0 .. Per - 1 /\ q % Per \in 0 .. Per - 1
                  /\ Loop2(m, list)[q + 1] = Link(m, Link(m, list, q \div Per), q % Per)
  <2> DEFINE t == [j \in 1 .. Per |-> Loop1(m, Link(m, list, j - 1))]
  <2>1. Loop2(m, list) = FlattenSeq(t)
    BY DEF Loop2
  <2>2. \A j \in 1 .. Per : j - 1 \in 0 .. Per - 1 /\ Link(m, list, j - 1) \in Ref
    BY <1>0, <1>1
  <2>3. t \in [1 .. Per -> Seq(Ref)] /\ \A j \in 1 .. Per : Len(t[j]) = Per
    BY <1>2, <2>2
  <2>4. \A i \in 0 .. Per - 1 : i + 1 \in 1 .. Per /\ i + 1 - 1 = i
    BY <1>0
  <2>5. \A i \in 0 .. Per - 1 : t[i + 1] = Loop1(m, Link(m, list, i))
    BY <2>4
  <2> HIDE DEF t
  <2>6. /\ FlattenSeq(t) \in Seq(Ref) /\ Len(FlattenSeq(t)) = Per * Per
        /\ \A q \in 0 .. Per * Per - 1 :
             /\ q \div Per \in 0 .. Per - 1 /\ q % Per \in 0 .. Per - 1
             /\ FlattenSeq(t)[q + 1] = t[q \div Per + 1][(q % Per) + 1]
    <3>1. Pieces(t, Per, Per, Ref)
      BY <1>0, <2>3 DEF Pieces
    <3> QED
      BY <3>1, FlattenUniform DEF Joined
  <2>7. ASSUME NEW q \in 0 .. Per * Per - 1
        PROVE  FlattenSeq(t)[q + 1] = Link(m, Link(m, list, q \div Per), q % Per)
    <3> DEFINE i == q \div Per
               j == q % Per
    <3>1. i \in 0 .. Per - 1 /\ j \in 0 .. Per - 1 /\ FlattenSeq(t)[q + 1] = t[i + 1][j + 1]
      BY <2>6
    <3> HIDE DEF i, j
    <3> QED
      BY <1>1, <1>2, <2>5, <3>1 DEF i, j
  <2> QED
    BY <2>1, <2>6, <2>7
<1>4. ASSUME NEW list \in Ref
      PROVE  /\ Loop3(m, list) \in Seq(Ref) /\ Len(Loop3(m, list)) = Per * Per * Per
             /\ \A q \in 0 .. Per * Per * Per - 1 :
                  Loop3(m, list)[q + 1] =
                    Link(m, Link(m, Link(m, list, (q \div Per) \div Per), (q \div Per) % Per), q % Per)
  <2> DEFINE t == [j \in 1 .. Per |-> Loop2(m, Link(m, list, j - 1))]
             N == Per * Per
  <2>1. Loop3(m, list) = FlattenSeq(t)
    BY DEF Loop3
  <2>2. \A j \in 1 .. Per : j - 1 \in 0 .. Per - 1 /\ Link(m, list, j - 1) \in Ref
    BY <1>0, <1>1
  <2>3. t \in [1 .. Per -> Seq(Ref)] /\ \A j \in 1 .. Per : Len(t[j]) = N
    BY <1>3, <2>2
  <2>4. \A i \in 0 .. Per - 1 : i + 1 \in 1 .. Per /\ i + 1 - 1 = i
    BY <1>0
  <2>5. \A i \in 0 .. Per - 1 : t[i + 1] = Loop2(m, Link(m, list, i))
    BY <2>4
  <2>6. N \in Nat \ {0} /\ Per * N = Per * Per * Per
    BY <1>0
  <2> HIDE DEF t, N
  <2>7. /\ FlattenSeq(t) \in Seq(Ref) /\ Len(FlattenSeq(t)) = Per * N
        /\ \A q \in 0 .. Per * N - 1 :
             /\ q \div N \in 0 .. Per - 1 /\ q % N \in 0 .. N - 1
             /\ FlattenSeq(t)[q + 1] = t[q \div N + 1][(q % N) + 1]
    <3>1. Pieces(t, Per, N, Ref)
      BY <1>0, <2>3, <2>6 DEF Pieces
    <3> QED
      BY <3>1, FlattenUniform DEF Joined
  <2>8. ASSUME NEW q \in 0 .. Per * N - 1
        PROVE  FlattenSeq(t)[q + 1] =
                 Link(m, Link(m, Link(m, list, (q \div Per) \div Per), (q \div Per) % Per), q % Per)
    <3> DEFINE i == q \div N
               j == q % N
    <3>1. i \in 0 .. Per - 1 /\ j \in 0 .. N - 1 /\ FlattenSeq(t)[q + 1] = t[i + 1][j + 1]
      BY <2>7
    <3>2. i = (q \div Per) \div Per /\ j \div Per = (q \div Per) % Per /\ j % Per = q % Per
      <4>1. q \in Nat
        BY <1>0, <2>6
      <4> QED
        BY <1>0, <4>1, DivSquare DEF N
    <3> HIDE DEF i, j
    <3>3. t[i + 1] = Loop2(m, Link(m, list, i)) /\ Link(m, list, i) \in Ref
      BY <1>1, <2>5, <3>1
    <3>4. t[i + 1][j + 1] = Link(m, Link(m, Link(m, list, i), j \div Per), j % Per)
      BY <1>3, <3>1, <3>3 DEF N
    <3> QED
      BY <3>1, <3>2, <3>4
  <2> QED
    BY <2>1, <2>6, <2>7, <2>8
<1> QED
  BY <1>2, <1>3, <1>4

Places(m) ==
  [i \in 1 .. NDirect |-> m.addr[i - 1]] \o Loop1(m, m.addr[Index1])
    \o Loop2(m, m.addr[Index2]) \o Loop3(m, m.addr[Index3])

(* Where the walk has the numbers in the inode and below each index block. *)
LEMMA PlaceFacts ==
  ASSUME NEW m \in Rec
  PROVE  /\ Places(m) \in Seq(Ref) /\ Len(Places(m)) = Capacity
         /\ \A q \in 0 .. NDirect - 1 : Places(m)[q + 1] = m.addr[q]
         /\ \A q \in 0 .. Per - 1 :
              Places(m)[NDirect + q + 1] = Loop1(m, m.addr[Index1])[q + 1]
         /\ \A q \in 0 .. Per * Per - 1 :
              Places(m)[Second + q + 1] = Loop2(m, m.addr[Index2])[q + 1]
         /\ \A q \in 0 .. Per * Per * Per - 1 :
              Places(m)[Third + q + 1] = Loop3(m, m.addr[Index3])[q + 1]
<1> DEFINE D == [i \in 1 .. NDirect |-> m.addr[i - 1]]
           L1 == Loop1(m, m.addr[Index1])
           L2 == Loop2(m, m.addr[Index2])
           L3 == Loop3(m, m.addr[Index3])
           A1 == D \o L1
           A2 == A1 \o L2
           A3 == A2 \o L3
           p2 == Per * Per
           p3 == Per * Per * Per
<1>1. /\ NDirect \in Nat \ {0} /\ Per \in Nat /\ p2 \in Nat /\ p3 \in Nat
      /\ Second = NDirect + Per /\ Third = Second + p2 /\ Capacity = Third + p3
      /\ Second \in Nat /\ Third \in Nat
  BY Constants DEF Second, Third, Capacity
<1>2. m.addr \in [Slot -> Ref] /\ Index1 \in Slot /\ Index2 \in Slot /\ Index3 \in Slot
  BY <1>1 DEF Rec, Slot, Index1, Index2, Index3
<1>3. D \in Seq(Ref) /\ Len(D) = NDirect /\ \A q \in 0 .. NDirect - 1 : D[q + 1] = m.addr[q]
  <2>1. \A i \in 1 .. NDirect : i - 1 \in Slot
    BY <1>1 DEF Slot
  <2>2. D \in [1 .. NDirect -> Ref]
    BY <1>2, <2>1
  <2>3. \A q \in 0 .. NDirect - 1 : q + 1 \in 1 .. NDirect /\ q + 1 - 1 = q
    BY <1>1
  <2>4. \A q \in 0 .. NDirect - 1 : D[q + 1] = m.addr[q]
    BY <2>3
  <2> HIDE DEF D
  <2>5. D \in Seq(Ref)
    BY <1>1, <2>2, SeqDef
  <2>6. Len(D) = NDirect
    BY <1>1, <2>2, <2>5, LenProperties
  <2> QED
    BY <2>4, <2>5, <2>6
<1>4. /\ L1 \in Seq(Ref) /\ Len(L1) = Per /\ L2 \in Seq(Ref) /\ Len(L2) = p2
      /\ L3 \in Seq(Ref) /\ Len(L3) = p3
  <2>1. m.addr[Index1] \in Ref /\ m.addr[Index2] \in Ref /\ m.addr[Index3] \in Ref
    BY <1>2
  <2> QED
    BY <2>1, LoopFacts
<1>5. Places(m) = A3
  BY DEF Places
<1> HIDE DEF D, L1, L2, L3, p2, p3
<1>6. /\ A1 \in Seq(Ref) /\ Len(A1) = Second
      /\ \A i \in 1 .. Second : A1[i] = IF i <= NDirect THEN D[i] ELSE L1[i - NDirect]
  <2>1. D \in Seq(Ref) /\ L1 \in Seq(Ref)
    BY <1>4, <1>3
  <2>2. /\ D \o L1 \in Seq(Ref) /\ Len(D \o L1) = Len(D) + Len(L1)
        /\ \A i \in 1 .. Len(D) + Len(L1) :
             (D \o L1)[i] = IF i <= Len(D) THEN D[i] ELSE L1[i - Len(D)]
    BY <2>1, ConcatProperties
  <2> QED
    BY <1>1, <1>4, <1>3, <2>2
<1> HIDE DEF A1
<1>7. /\ A2 \in Seq(Ref) /\ Len(A2) = Third
      /\ \A i \in 1 .. Third : A2[i] = IF i <= Second THEN A1[i] ELSE L2[i - Second]
  <2>1. A1 \in Seq(Ref) /\ L2 \in Seq(Ref)
    BY <1>4, <1>6
  <2>2. /\ A1 \o L2 \in Seq(Ref) /\ Len(A1 \o L2) = Len(A1) + Len(L2)
        /\ \A i \in 1 .. Len(A1) + Len(L2) :
             (A1 \o L2)[i] = IF i <= Len(A1) THEN A1[i] ELSE L2[i - Len(A1)]
    BY <2>1, ConcatProperties
  <2> QED
    BY <1>1, <1>4, <1>6, <2>2
<1> HIDE DEF A2
<1>8. /\ A3 \in Seq(Ref) /\ Len(A3) = Capacity
      /\ \A i \in 1 .. Capacity : A3[i] = IF i <= Third THEN A2[i] ELSE L3[i - Third]
  <2>1. A2 \in Seq(Ref) /\ L3 \in Seq(Ref)
    BY <1>4, <1>7
  <2>2. /\ A2 \o L3 \in Seq(Ref) /\ Len(A2 \o L3) = Len(A2) + Len(L3)
        /\ \A i \in 1 .. Len(A2) + Len(L3) :
             (A2 \o L3)[i] = IF i <= Len(A2) THEN A2[i] ELSE L3[i - Len(A2)]
    BY <2>1, ConcatProperties
  <2> QED
    BY <1>1, <1>4, <1>7, <2>2
<1> HIDE DEF A3
<1>9. ASSUME NEW q \in 0 .. NDirect - 1 PROVE A3[q + 1] = m.addr[q]
  <2>1. q + 1 \in 1 .. Capacity /\ q + 1 <= Third /\ q + 1 <= Second /\ q + 1 <= NDirect
        /\ q + 1 \in 1 .. Third /\ q + 1 \in 1 .. Second
    BY <1>1
  <2> QED
    BY <1>3, <1>6, <1>7, <1>8, <2>1
<1>10. ASSUME NEW q \in 0 .. Per - 1 PROVE A3[NDirect + q + 1] = L1[q + 1]
  <2> DEFINE i == NDirect + q + 1
  <2>1. i \in 1 .. Capacity /\ i <= Third /\ i <= Second /\ ~ (i <= NDirect)
        /\ i \in 1 .. Third /\ i \in 1 .. Second /\ i - NDirect = q + 1
    BY <1>1
  <2> HIDE DEF i
  <2>2. A3[i] = L1[q + 1]
    BY <1>6, <1>7, <1>8, <2>1
  <2> QED
    BY <2>2 DEF i
<1>11. ASSUME NEW q \in 0 .. p2 - 1 PROVE A3[Second + q + 1] = L2[q + 1]
  <2> DEFINE i == Second + q + 1
  <2>1. i \in 1 .. Capacity /\ i <= Third /\ ~ (i <= Second) /\ i \in 1 .. Third
        /\ i - Second = q + 1
    BY <1>1
  <2> HIDE DEF i
  <2>2. A3[i] = L2[q + 1]
    BY <1>7, <1>8, <2>1
  <2> QED
    BY <2>2 DEF i
<1>12. ASSUME NEW q \in 0 .. p3 - 1 PROVE A3[Third + q + 1] = L3[q + 1]
  <2> DEFINE i == Third + q + 1
  <2>1. i \in 1 .. Capacity /\ ~ (i <= Third) /\ i - Third = q + 1
    BY <1>1
  <2> HIDE DEF i
  <2>2. A3[i] = L3[q + 1]
    BY <1>8, <2>1
  <2> QED
    BY <2>2 DEF i
<1> QED
  BY <1>5, <1>8, <1>9, <1>10, <1>11, <1>12 DEF L1, L2, L3, p2, p3

LEMMA WalkRead ==
  ASSUME NEW m, NEW w, NEW L, NEW A, NEW n, NEW f, Reads(m, w, L, A, n, f),
         NEW k \in 1 .. n[f]
  PROVE  Places(m)[k] = w[Leaf(f, k)] /\ Sane(Places(m)[k])
<1> DEFINE y == Leaf(f, k)
           l == Level(k)
           o == Offset(k)
           at == Spot(k)
           b(d) == w[Anc(y, d)]
<1>1. /\ k \in 1 .. Capacity /\ l \in 0 .. 3 /\ at # Undefined
      /\ y \in Node /\ Anc(y, l) = y /\ m.addr[SlotOf(y)] = b(0)
      /\ \A d \in 1 .. l : at.index[d] \in 0 .. Per - 1 /\ Link(m, b(d - 1), at.index[d]) = b(d)
      /\ \A d \in 0 .. l : b(d) \in DataBlock
  BY PathRead
<1>2. /\ l = 0 => SlotOf(y) = o
      /\ l = 1 => SlotOf(y) = Index1
      /\ l = 2 => SlotOf(y) = Index2
      /\ l = 3 => SlotOf(y) = Index3
  BY <1>1, SlotLevel DEF Reads
<1>3. m \in Rec
  BY DEF Reads
<1>4. m.addr[Index1] \in Ref /\ m.addr[Index2] \in Ref /\ m.addr[Index3] \in Ref
  <2>1. m.addr \in [Slot -> Ref] /\ Index1 \in Slot /\ Index2 \in Slot /\ Index3 \in Slot
    BY <1>3, Constants DEF Rec, Slot, Index1, Index2, Index3
  <2> QED
    BY <2>1
<1>5. /\ o \in Nat
      /\ l = 0 => k = o + 1 /\ o \in 0 .. NDirect - 1
      /\ l = 1 => k = NDirect + o + 1 /\ o \in 0 .. Per - 1
      /\ l = 2 => k = Second + o + 1 /\ o \in 0 .. Per * Per - 1
      /\ l = 3 => k = Third + o + 1 /\ o \in 0 .. Per * Per * Per - 1
  <2>1. k \in Nat \ {0} /\ k <= Capacity
    BY <1>1, Constants
  <2> QED
    BY <2>1, OffsetFacts, Constants
<1>6. /\ l = 1 => at.index[1] = o
      /\ l = 2 => at.index[1] = o \div Per /\ at.index[2] = o % Per
      /\ l = 3 => /\ at.index[1] = (o \div Per) \div Per /\ at.index[2] = (o \div Per) % Per
                  /\ at.index[3] = o % Per
  BY <1>1 DEF Spot, At
<1> HIDE DEF y, l, at, b, o
<1>7. b(l) = w[y] /\ b(l) \in DataBlock
  <2>1. l \in 0 .. l
    BY <1>1
  <2> QED
    BY <1>1, <2>1 DEF b
<1>8. CASE l = 0
  <2>1. Places(m)[k] = m.addr[o]
    BY <1>3, <1>5, <1>8, PlaceFacts
  <2> QED
    BY <1>1, <1>2, <1>7, <1>8, <2>1, RefFacts DEF y, Ref
<1>9. CASE l = 1
  <2>1. Places(m)[k] = Loop1(m, m.addr[Index1])[o + 1]
    BY <1>3, <1>5, <1>9, PlaceFacts
  <2>2. Places(m)[k] = Link(m, m.addr[Index1], o)
    BY <1>3, <1>4, <1>5, <1>9, <2>1, LoopFacts
  <2>3. 1 \in 1 .. l /\ 1 - 1 = 0
    BY <1>9
  <2>4. Link(m, b(0), at.index[1]) = b(1)
    BY <1>1, <2>3
  <2>5. b(0) = m.addr[Index1]
    BY <1>1, <1>2, <1>9
  <2>6. Places(m)[k] = b(l)
    BY <1>6, <1>9, <2>2, <2>4, <2>5
  <2> QED
    BY <1>2, <1>7, <2>6, RefFacts DEF y, Ref
<1>10. CASE l = 2
  <2>1. Places(m)[k] = Loop2(m, m.addr[Index2])[o + 1]
    BY <1>3, <1>5, <1>10, PlaceFacts
  <2>2. Places(m)[k] = Link(m, Link(m, m.addr[Index2], o \div Per), o % Per)
    BY <1>3, <1>4, <1>5, <1>10, <2>1, LoopFacts
  <2>3. 1 \in 1 .. l /\ 1 - 1 = 0 /\ 2 \in 1 .. l /\ 2 - 1 = 1
    BY <1>10
  <2>4. Link(m, b(0), at.index[1]) = b(1) /\ Link(m, b(1), at.index[2]) = b(2)
    BY <1>1, <2>3
  <2>5. b(0) = m.addr[Index2]
    BY <1>1, <1>2, <1>10
  <2>6. Places(m)[k] = b(l)
    BY <1>6, <1>10, <2>2, <2>4, <2>5
  <2> QED
    BY <1>2, <1>7, <2>6, RefFacts DEF y, Ref
<1>11. CASE l = 3
  <2>1. Places(m)[k] = Loop3(m, m.addr[Index3])[o + 1]
    BY <1>3, <1>5, <1>11, PlaceFacts
  <2>2. Places(m)[k] =
          Link(m, Link(m, Link(m, m.addr[Index3], (o \div Per) \div Per), (o \div Per) % Per), o % Per)
    BY <1>3, <1>4, <1>5, <1>11, <2>1, LoopFacts
  <2>3. 1 \in 1 .. l /\ 1 - 1 = 0 /\ 2 \in 1 .. l /\ 2 - 1 = 1 /\ 3 \in 1 .. l /\ 3 - 1 = 2
    BY <1>11
  <2>4. Link(m, b(0), at.index[1]) = b(1) /\ Link(m, b(1), at.index[2]) = b(2)
        /\ Link(m, b(2), at.index[3]) = b(3)
    BY <1>1, <2>3
  <2>5. b(0) = m.addr[Index3]
    BY <1>1, <1>2, <1>11
  <2>6. Places(m)[k] = b(l)
    BY <1>6, <1>11, <2>2, <2>4, <2>5
  <2> QED
    BY <1>2, <1>7, <2>6, RefFacts DEF y, Ref
<1> QED
  BY <1>1, <1>8, <1>9, <1>10, <1>11

LEMMA WalkSame ==
  ASSUME NEW m, NEW w, NEW L, NEW A, NEW n, NEW f, Reads(m, w, L, A, n, f)
  PROVE  [k \in DOMAIN ForEach(m) |-> ForEach(m)[k].blk] = Data(m)
<1> DEFINE c == n[f]
           places == Places(m)
           sane == {k \in 1 .. Len(places) : \A j \in 1 .. k : Sane(places[j])}
           dom == {j \in sane : j <= c}
           bytes(k) == IF k = c THEN m.size - (k - 1) * BlkSize ELSE BlkSize
           walk == [k \in dom |-> [blk |-> places[k], bytes |-> bytes(k)]]
<1>1. m \in Rec /\ NBlk(m.size) = c /\ c \in Nat /\ c <= Capacity
  BY Constants DEF Reads, Counts
<1>2. ForEach(m) = walk
  BY <1>1 DEF ForEach, Places
<1>3. Len(places) = Capacity
  BY <1>1, PlaceFacts
<1>4. \A k \in 1 .. c : places[k] = w[Leaf(f, k)] /\ Sane(places[k])
  BY WalkRead
<1>5. Data(m) = [k \in 1 .. c |-> w[Leaf(f, k)]]
  BY MapRead
<1> HIDE DEF places, c
<1>6. dom = 1 .. c
  <2>1. ASSUME NEW k \in 1 .. c PROVE k \in dom
    <3>1. k \in 1 .. Len(places) /\ k <= c /\ \A j \in 1 .. k : j \in 1 .. c
      BY <1>1, <1>3, Constants
    <3> QED
      BY <1>4, <3>1
  <2>2. ASSUME NEW k \in dom PROVE k \in 1 .. c
    <3>1. k \in 1 .. Len(places) /\ k <= c
      OBVIOUS
    <3> QED
      BY <1>1, <1>3, <3>1, Constants
  <2> HIDE DEF dom
  <2> QED
    BY <2>1, <2>2
<1> HIDE DEF dom, bytes
<1>7. DOMAIN walk = 1 .. c /\ \A k \in 1 .. c : walk[k].blk = places[k]
  BY <1>6
<1> HIDE DEF walk
<1> QED
  BY <1>2, <1>4, <1>5, <1>7

LEMMA InvWalks ==
  ASSUME Within, MapInv
  PROVE  WalkAgrees
<1> DEFINE n == CountsOf(file)
           A == AddrsOf(file)
<1>1. PICK w, L : Fits(w, L, A, disk, free) /\ Live(n) \subseteq L
  BY DEF MapInv, Sound
<1>2. ASSUME NEW f \in File
      PROVE  [k \in DOMAIN ForEach(View(f)) |-> ForEach(View(f))[k].blk] = Data(View(f))
  <2>1. Reads(View(f), w, L, A, n, f)
    BY <1>1, FileReads
  <2> HIDE DEF n, A
  <2> QED
    BY <2>1, WalkSame
<1> QED
  BY <1>2 DEF WalkAgrees

-----------------------------------------------------------------------------
(* The theorems                                                            *)

(* Sizes, block numbers and the free list keep their types, through every  *)
(* call of ufs_datablock_size_change and its errors.                       *)
THEOREM MapTyped == Within => (MapSpec => []MapTypeOK)
<1> SUFFICES ASSUME Within
             PROVE  MapSpec => []MapTypeOK
  OBVIOUS
<1>1. MapInit => MapInv
  BY InitInv
<1>2. MapInv /\ [MapNext]_mapVars => MapInv'
  BY NextInv
<1>3. MapInv => MapTypeOK
  BY DEF MapInv, MapTypeOK, FileRec, Ref
<1> QED
  BY <1>1, <1>2, <1>3, PTL DEF MapSpec

(* Every block of a file, data or index, is of that file and of that place *)
(* in its map only, and is not free: however ufs_datablock_expand and      *)
(* _contract grew and shrank the files, with and without failing.          *)
THEOREM MapDisjoint == Within => (MapSpec => []BlocksDisjoint)
<1> SUFFICES ASSUME Within
             PROVE  MapSpec => []BlocksDisjoint
  OBVIOUS
<1>1. MapInit => MapInv
  BY InitInv
<1>2. MapInv /\ [MapNext]_mapVars => MapInv'
  BY NextInv
<1>3. MapInv => BlocksDisjoint
  BY InvDisjoint
<1> QED
  BY <1>1, <1>2, <1>3, PTL DEF MapSpec

(* The inode on the disk finds the blocks that the inode in storage finds, *)
(* also after ufs_datablock_expand returned an error and left in storage   *)
(* numbers that it did not write.                                          *)
THEOREM MapSaved == Within => (MapSpec => []SavedSame)
<1> SUFFICES ASSUME Within
             PROVE  MapSpec => []SavedSame
  OBVIOUS
<1>1. MapInit => MapInv
  BY InitInv
<1>2. MapInv /\ [MapNext]_mapVars => MapInv'
  BY NextInv
<1>3. MapInv => SavedSame
  BY InvSaved
<1> QED
  BY <1>1, <1>2, <1>3, PTL DEF MapSpec

(* ufs_datablock_foreach, with its nested loops over the index blocks,     *)
(* calls its function for the blocks that ufs_datablock_last finds, in the *)
(* order of the file.                                                      *)
THEOREM MapWalked == Within => (MapSpec => []WalkAgrees)
<1> SUFFICES ASSUME Within
             PROVE  MapSpec => []WalkAgrees
  OBVIOUS
<1>1. MapInit => MapInv
  BY InitInv
<1>2. MapInv /\ [MapNext]_mapVars => MapInv'
  BY NextInv
<1>3. MapInv => WalkAgrees
  BY InvWalks
<1> QED
  BY <1>1, <1>2, <1>3, PTL DEF MapSpec
=============================================================================
