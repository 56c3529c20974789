------------------------- MODULE UfsFreeBlockProofs -------------------------
(***************************************************************************)
(* Proofs about the free block list, for every volume, every well formed   *)
(* list left by the formatter and any number of threads.  The lemmas say   *)
(* what pushing, popping, refilling and spilling do to a well formed list; *)
(* the theorems lift them to the two operations.                           *)
(***************************************************************************)
EXTENDS UfsFreeBlock, FiniteSetTheorems, SequenceTheorems, TLAPS

(* The word 0 that ends the chain is not a data block.                     *)
LEMMA NilNotData == Nil \notin DataBlock
BY ConstantAssumption DEF Nil, DataBlock

(* The sanity check accepts exactly the data blocks.                       *)
LEMMA SaneIsData == \A b \in BlockNo : Sane(b) <=> b \in DataBlock
BY ConstantAssumption DEF Sane, BlockNo, DataBlock

(* Two lists with the same count and the same entries below it are the     *)
(* same list to everything that reads them.                                *)
LEMMA SameEntries ==
  ASSUME NEW x \in FreeList, NEW y \in FreeList,
         x.nfreeblock = y.nfreeblock, x.nfreeblock <= MaxFree,
         \A i \in 0 .. x.nfreeblock - 1 : x.freeblock[i] = y.freeblock[i],
         NEW c, NEW k, ListOK(y, c, k)
  PROVE  ListOK(x, c, k) /\ Spares(x) = Spares(y)
<1>1. x.nfreeblock \in Nat
  BY ConstantAssumption DEF FreeList, BlockNo
<1>2. \A i \in 1 .. x.nfreeblock - 1 : x.freeblock[i] = y.freeblock[i]
  BY <1>1
<1>3. Spares(x) = Spares(y)
  BY <1>2 DEF Spares
<1>4. DistinctSpares(x)
  BY <1>2 DEF DistinctSpares, ListOK
<1>5. x.freeblock[0] = y.freeblock[0]
  BY <1>1 DEF ListOK
<1> QED
  BY <1>3, <1>4, <1>5 DEF ListOK

(* Popping a spare entry takes one block out of the free ones.             *)
LEMMA PopSpareLemma ==
  ASSUME NEW c \in FreeList, NEW d \in [DataBlock -> FreeList],
         NEW ch \in Seq(DataBlock), ChainOK(c, d, ch),
         c.nfreeblock > 1,
         NEW n \in FreeList,
         n.nfreeblock = c.nfreeblock - 1, n.freeblock = c.freeblock
  PROVE  LET b == c.freeblock[c.nfreeblock - 1]
         IN  /\ b \in DataBlock
             /\ b \in FreeOf(c, d, ch)
             /\ FreeOf(n, d, ch) = FreeOf(c, d, ch) \ {b}
             /\ ChainOK(n, d, ch)
<1> DEFINE b == c.freeblock[c.nfreeblock - 1]
<1>1. c.nfreeblock \in 2 .. MaxFree /\ MaxFree \in Nat
  BY ConstantAssumption DEF ChainOK, ListOK
<1>2. n.freeblock = c.freeblock /\ n.nfreeblock = c.nfreeblock - 1
  OBVIOUS
<1>3. b \in Spares(c)
  BY <1>1 DEF Spares
<1>4. Spares(n) = Spares(c) \ {b}
  <2>1. \A i \in 1 .. c.nfreeblock - 2 : c.freeblock[i] # b
    <3>1. DistinctSpares(c)
      BY DEF ChainOK, ListOK
    <3>2. ASSUME NEW i \in 1 .. c.nfreeblock - 2, c.freeblock[i] = c.freeblock[c.nfreeblock - 1]
          PROVE  FALSE
      <4>1. i \in 1 .. c.nfreeblock - 1 /\ c.nfreeblock - 1 \in 1 .. c.nfreeblock - 1
            /\ i # c.nfreeblock - 1
        BY <1>1
      <4> QED
        BY <3>1, <3>2, <4>1 DEF DistinctSpares
    <3> QED
      BY <3>2
  <2>2. Spares(n) = {c.freeblock[i] : i \in 1 .. c.nfreeblock - 2}
    BY <1>1, <1>2 DEF Spares
  <2>3. Spares(c) = {c.freeblock[i] : i \in 1 .. c.nfreeblock - 2} \cup {b}
    BY <1>1 DEF Spares
  <2> QED
    BY <2>1, <2>2, <2>3
<1>5. b \notin Links(ch) /\ b \in DataBlock
  BY <1>3 DEF ChainOK, ListOK
<1>6. \A l \in Links(ch) : b \notin Spares(d[l])
  BY <1>3 DEF ChainOK
<1>7. FreeOf(n, d, ch) = FreeOf(c, d, ch) \ {b}
  BY <1>4, <1>5, <1>6 DEF FreeOf
<1>8. ListOK(n, ch, Len(ch))
  <2>1. ListOK(c, ch, Len(ch))
    BY DEF ChainOK
  <2>2. DistinctSpares(n)
    BY <1>1, <1>2, <2>1 DEF ListOK, DistinctSpares
  <2>3. Spares(n) \subseteq DataBlock \ Links(ch)
    BY <1>4, <2>1 DEF ListOK
  <2> QED
    BY <1>1, <1>2, <2>1, <2>2, <2>3 DEF ListOK
<1>9. ChainOK(n, d, ch)
  BY <1>4, <1>8 DEF ChainOK
<1> QED
  BY <1>3, <1>5, <1>7, <1>9 DEF FreeOf

(* Pushing a block that is not free adds it to the free ones.              *)
LEMMA PushLemma ==
  ASSUME NEW c \in FreeList, NEW d \in [DataBlock -> FreeList],
         NEW ch \in Seq(DataBlock), ChainOK(c, d, ch),
         c.nfreeblock < MaxFree,
         NEW b \in DataBlock, b \notin FreeOf(c, d, ch),
         NEW n \in FreeList,
         n.nfreeblock = c.nfreeblock + 1,
         n.freeblock = [c.freeblock EXCEPT ![c.nfreeblock] = b]
  PROVE  /\ FreeOf(n, d, ch) = FreeOf(c, d, ch) \cup {b}
         /\ ChainOK(n, d, ch)
<1>1. c.nfreeblock \in 1 .. MaxFree - 1 /\ MaxFree \in Nat
  BY ConstantAssumption DEF ChainOK, ListOK
<1>2. c.freeblock \in [Slot -> BlockNo]
  BY DEF FreeList
<1>3. /\ n.nfreeblock = c.nfreeblock + 1
      /\ n.freeblock[c.nfreeblock] = b
      /\ \A i \in 0 .. c.nfreeblock - 1 : n.freeblock[i] = c.freeblock[i]
  BY <1>1, <1>2 DEF Slot
<1>4. Spares(n) = Spares(c) \cup {b}
  <2>1. Spares(n) = {n.freeblock[i] : i \in 1 .. c.nfreeblock - 1} \cup {b}
    BY <1>1, <1>3 DEF Spares
  <2>2. {n.freeblock[i] : i \in 1 .. c.nfreeblock - 1} = Spares(c)
    BY <1>1, <1>3 DEF Spares
  <2> QED
    BY <2>1, <2>2
<1>5. FreeOf(n, d, ch) = FreeOf(c, d, ch) \cup {b}
  BY <1>4 DEF FreeOf
<1>6. b \notin Spares(c) /\ b \notin Links(ch)
      /\ \A l \in Links(ch) : b \notin Spares(d[l])
  BY DEF FreeOf
<1>7. ListOK(n, ch, Len(ch))
  <2>1. ListOK(c, ch, Len(ch))
    BY DEF ChainOK
  <2>2. DistinctSpares(n)
    <3>1. \A i \in 1 .. c.nfreeblock - 1 : c.freeblock[i] # b
      BY <1>6 DEF Spares
    <3>2. ASSUME NEW i \in 1 .. n.nfreeblock - 1, NEW j \in 1 .. n.nfreeblock - 1,
                 n.freeblock[i] = n.freeblock[j]
          PROVE  i = j
      <4>1. CASE i = c.nfreeblock
        BY <1>1, <1>3, <3>1, <3>2, <4>1
      <4>2. CASE j = c.nfreeblock
        BY <1>1, <1>3, <3>1, <3>2, <4>2
      <4>3. CASE i # c.nfreeblock /\ j # c.nfreeblock
        BY <1>1, <1>3, <2>1, <3>2, <4>3 DEF ListOK, DistinctSpares
      <4> QED
        BY <4>1, <4>2, <4>3
    <3> QED
      BY <3>2 DEF DistinctSpares
  <2>3. Spares(n) \subseteq DataBlock \ Links(ch)
    BY <1>4, <1>6, <2>1 DEF ListOK
  <2>4. n.freeblock[0] = c.freeblock[0]
    BY <1>1, <1>3
  <2>5. n.nfreeblock \in 1 .. MaxFree
    BY <1>1, <1>3
  <2> QED
    BY <2>1, <2>2, <2>3, <2>4, <2>5 DEF ListOK
<1>8. ChainOK(n, d, ch)
  <2>1. \A l \in Links(ch) : Spares(n) \cap Spares(d[l]) = {}
    BY <1>4, <1>6 DEF ChainOK
  <2> QED
    BY <1>7, <2>1 DEF ChainOK
<1> QED
  BY <1>5, <1>8

(* The list depends on the contents of its list blocks only.               *)
LEMMA WriteLemma ==
  ASSUME NEW c \in FreeList, NEW ch \in Seq(DataBlock),
         NEW d \in [DataBlock -> FreeList], NEW e \in [DataBlock -> FreeList],
         \A l \in Links(ch) : e[l] = d[l]
  PROVE  /\ FreeOf(c, e, ch) = FreeOf(c, d, ch)
         /\ ChainOK(c, d, ch) => ChainOK(c, e, ch)
<1>1. ASSUME NEW l \in Links(ch) PROVE e[l] = d[l]
  OBVIOUS
<1>2. ASSUME NEW k \in 1 .. Len(ch) PROVE e[ch[k]] = d[ch[k]]
  BY <1>1 DEF Links
<1>3. FreeOf(c, e, ch) = FreeOf(c, d, ch)
  <2>1. UNION {Spares(e[l]) : l \in Links(ch)} = UNION {Spares(d[l]) : l \in Links(ch)}
    BY <1>1
  <2> QED
    BY <2>1 DEF FreeOf
<1>4. ASSUME ChainOK(c, d, ch) PROVE ChainOK(c, e, ch)
  <2>1. \A k \in 1 .. Len(ch) : ListOK(e[ch[k]], ch, k - 1)
    BY <1>2, <1>4 DEF ChainOK
  <2>2. \A l \in Links(ch) : Spares(c) \cap Spares(e[l]) = {}
    BY <1>1, <1>4 DEF ChainOK
  <2>3. \A l, m \in Links(ch) : l # m => Spares(e[l]) \cap Spares(e[m]) = {}
    BY <1>1, <1>4 DEF ChainOK
  <2> QED
    BY <2>1, <2>2, <2>3, <1>4 DEF ChainOK
<1> QED
  BY <1>3, <1>4

(* Refilling the cache from the block at the top of the chain hands that   *)
(* block out and leaves every other free block on the list.                *)
LEMMA PopLinkLemma ==
  ASSUME NEW c \in FreeList, NEW d \in [DataBlock -> FreeList],
         NEW ch \in Seq(DataBlock), ChainOK(c, d, ch),
         c.nfreeblock = 1, ch # << >>,
         NEW n \in FreeList,
         n.nfreeblock = d[c.freeblock[0]].nfreeblock,
         \A i \in 0 .. n.nfreeblock - 1 :
            n.freeblock[i] = d[c.freeblock[0]].freeblock[i]
  PROVE  /\ c.freeblock[0] \in DataBlock
         /\ c.freeblock[0] \in FreeOf(c, d, ch)
         /\ SubSeq(ch, 1, Len(ch) - 1) \in Seq(DataBlock)
         /\ FreeOf(n, d, SubSeq(ch, 1, Len(ch) - 1))
               = FreeOf(c, d, ch) \ {c.freeblock[0]}
         /\ ChainOK(n, d, SubSeq(ch, 1, Len(ch) - 1))
<1> DEFINE b    == c.freeblock[0]
           rest == SubSeq(ch, 1, Len(ch) - 1)
<1>1. Len(ch) \in Nat \ {0}
  OBVIOUS
<1>2. /\ rest \in Seq(DataBlock)
      /\ Len(rest) = Len(ch) - 1
      /\ \A k \in 1 .. Len(rest) : rest[k] = ch[k]
  <2> DEFINE m == Len(ch) - 1
  <2>1. m \in Nat /\ 1 \in Int /\ \A i \in 1 .. m : ch[i] \in DataBlock
    BY <1>1
  <2> HIDE DEF m
  <2>2. /\ SubSeq(ch, 1, m) \in Seq(DataBlock)
        /\ Len(SubSeq(ch, 1, m)) = IF 1 <= m THEN m - 1 + 1 ELSE 0
        /\ \A k \in 1 .. m - 1 + 1 : SubSeq(ch, 1, m)[k] = ch[1 + k - 1]
    <3>1. m \in Int
      BY <2>1
    <3> QED
      BY <2>1, <3>1, SubSeqProperties
  <2>3. Len(SubSeq(ch, 1, m)) = m
    BY <2>1, <2>2
  <2>4. \A k \in 1 .. m : SubSeq(ch, 1, m)[k] = ch[k]
    BY <2>1, <2>2
  <2> QED
    BY <2>2, <2>3, <2>4 DEF m
<1>3. b = ch[Len(ch)]
  BY <1>1 DEF ChainOK, ListOK, LinkTo
<1>4. b \in Links(ch) /\ b \in DataBlock
  BY <1>1, <1>3 DEF Links
<1>5. b \notin Links(rest)
  <2> SUFFICES ASSUME NEW k \in 1 .. Len(rest), rest[k] = b PROVE FALSE
    BY DEF Links
  <2>1. k \in 1 .. Len(ch) /\ Len(ch) \in 1 .. Len(ch) /\ k # Len(ch)
    BY <1>1, <1>2
  <2>2. ch[k] = ch[Len(ch)]
    BY <1>2, <1>3
  <2> QED
    BY <2>1, <2>2 DEF ChainOK
<1>6. Links(ch) = Links(rest) \cup {b}
  <2>1. 1 .. Len(ch) = (1 .. Len(rest)) \cup {Len(ch)}
    BY <1>1, <1>2
  <2>2. Links(ch) = {ch[k] : k \in 1 .. Len(rest)} \cup {b}
    BY <1>3, <2>1 DEF Links
  <2>3. {ch[k] : k \in 1 .. Len(rest)} = Links(rest)
    BY <1>2 DEF Links
  <2> QED
    BY <2>2, <2>3
<1>7. d[b] \in FreeList
  BY <1>4
<1> HIDE DEF rest
<1>8. ASSUME NEW x, NEW k \in 0 .. Len(rest), ListOK(x, ch, k)
      PROVE  ListOK(x, rest, k)
  <2>1. LinkTo(rest, k) = LinkTo(ch, k)
    BY <1>1, <1>2 DEF LinkTo
  <2>2. DataBlock \ Links(ch) \subseteq DataBlock \ Links(rest)
    BY <1>6
  <2> QED
    BY <1>8, <2>1, <2>2 DEF ListOK
<1>9. ListOK(d[b], ch, Len(rest))
  <2>1. Len(ch) \in 1 .. Len(ch)
    BY <1>1
  <2> QED
    BY <1>2, <1>3, <2>1 DEF ChainOK
<1>10. ListOK(n, rest, Len(rest)) /\ Spares(n) = Spares(d[b])
  <2>1. ListOK(d[b], rest, Len(rest))
    BY <1>1, <1>2, <1>8, <1>9
  <2>2. n.nfreeblock <= MaxFree
    BY <1>9, ConstantAssumption DEF ListOK
  <2> QED
    BY <1>7, <2>1, <2>2, SameEntries
<1>11. Spares(c) = {}
  BY DEF Spares
<1>12. UNION {Spares(d[l]) : l \in Links(ch)}
         = (UNION {Spares(d[l]) : l \in Links(rest)}) \cup Spares(d[b])
  BY <1>6
<1>13. b \notin Spares(d[b]) /\ \A l \in Links(rest) : b \notin Spares(d[l])
  <2>1. ASSUME NEW l \in Links(ch) PROVE b \notin Spares(d[l])
    <3>1. PICK k \in 1 .. Len(ch) : l = ch[k]
      BY DEF Links
    <3>2. Spares(d[l]) \subseteq DataBlock \ Links(ch)
      BY <3>1 DEF ChainOK, ListOK
    <3> QED
      BY <1>4, <3>2
  <2> QED
    BY <1>6, <2>1
<1>14. FreeOf(n, d, rest) = FreeOf(c, d, ch) \ {b}
  BY <1>5, <1>6, <1>10, <1>11, <1>12, <1>13 DEF FreeOf
<1>15. ChainOK(n, d, rest)
  <2>1. Links(rest) \subseteq DataBlock
    BY <1>2 DEF Links
  <2>2. \A j, k \in 1 .. Len(rest) : rest[j] = rest[k] => j = k
    BY <1>1, <1>2 DEF ChainOK
  <2>3. ASSUME NEW k \in 1 .. Len(rest) PROVE ListOK(d[rest[k]], rest, k - 1)
    <3>1. k \in 1 .. Len(ch) /\ rest[k] = ch[k] /\ k - 1 \in 0 .. Len(rest)
      BY <1>1, <1>2
    <3>2. ListOK(d[ch[k]], ch, k - 1)
      BY <3>1 DEF ChainOK
    <3> QED
      BY <1>8, <3>1, <3>2
  <2>4. \A l \in Links(rest) : Spares(n) \cap Spares(d[l]) = {}
    BY <1>5, <1>6, <1>10 DEF ChainOK
  <2>5. \A l, m \in Links(rest) : l # m => Spares(d[l]) \cap Spares(d[m]) = {}
    BY <1>6 DEF ChainOK
  <2> QED
    BY <1>10, <2>1, <2>2, <2>3, <2>4, <2>5 DEF ChainOK
<1> QED
  BY <1>2, <1>4, <1>14, <1>15 DEF FreeOf, rest

(* Spilling a full cache into a block makes that block the top of the      *)
(* chain: it is free, and so are the blocks it now lists.                  *)
LEMMA SpillLemma ==
  ASSUME NEW c \in FreeList, NEW d \in [DataBlock -> FreeList],
         NEW ch \in Seq(DataBlock), ChainOK(c, d, ch),
         c.nfreeblock = MaxFree,
         NEW b \in DataBlock, b \notin FreeOf(c, d, ch),
         NEW e \in [DataBlock -> FreeList],
         e[b] = c, \A x \in DataBlock \ {b} : e[x] = d[x],
         NEW n \in FreeList,
         n.nfreeblock = 1, n.freeblock[0] = b
  PROVE  /\ FreeOf(n, e, Append(ch, b)) = FreeOf(c, d, ch) \cup {b}
         /\ ChainOK(n, e, Append(ch, b))
<1> DEFINE ext == Append(ch, b)
<1>1. /\ ext \in Seq(DataBlock)
      /\ Len(ext) = Len(ch) + 1
      /\ \A k \in 1 .. Len(ch) : ext[k] = ch[k]
      /\ ext[Len(ext)] = b
      /\ Len(ch) \in Nat
  OBVIOUS
<1> HIDE DEF ext
<1>2. Links(ext) = Links(ch) \cup {b}
  <2>1. 1 .. Len(ext) = (1 .. Len(ch)) \cup {Len(ext)}
    BY <1>1
  <2>2. Links(ext) = {ext[k] : k \in 1 .. Len(ch)} \cup {b}
    BY <1>1, <2>1 DEF Links
  <2>3. {ext[k] : k \in 1 .. Len(ch)} = Links(ch)
    BY <1>1 DEF Links
  <2> QED
    BY <2>2, <2>3
<1>3. b \notin Spares(c) /\ b \notin Links(ch)
      /\ \A l \in Links(ch) : b \notin Spares(d[l])
  BY DEF FreeOf
<1>4. e[b] = c /\ \A l \in Links(ch) : e[l] = d[l]
  <2>1. Links(ch) \subseteq DataBlock
    BY DEF ChainOK
  <2> QED
    BY <1>3, <2>1
<1>5. Spares(n) = {}
  BY DEF Spares
<1>6. UNION {Spares(e[l]) : l \in Links(ext)}
         = (UNION {Spares(d[l]) : l \in Links(ch)}) \cup Spares(c)
  BY <1>2, <1>4
<1>7. FreeOf(n, e, ext) = FreeOf(c, d, ch) \cup {b}
  BY <1>2, <1>5, <1>6 DEF FreeOf
<1>8. ASSUME NEW x, NEW k \in 0 .. Len(ch), ListOK(x, ch, k), b \notin Spares(x)
      PROVE  ListOK(x, ext, k)
  <2>1. LinkTo(ext, k) = LinkTo(ch, k)
    BY <1>1 DEF LinkTo
  <2>2. Spares(x) \subseteq DataBlock \ Links(ext)
    BY <1>2, <1>8 DEF ListOK
  <2> QED
    BY <1>8, <2>1, <2>2 DEF ListOK
<1>9. ChainOK(n, e, ext)
  <2>1. Links(ext) \subseteq DataBlock
    BY <1>2 DEF ChainOK
  <2>2. ASSUME NEW j \in 1 .. Len(ext), NEW k \in 1 .. Len(ext), ext[j] = ext[k]
        PROVE  j = k
    <3>1. ASSUME NEW i \in 1 .. Len(ch) PROVE ext[i] # b
      BY <1>1, <1>3 DEF Links
    <3>2. CASE j = Len(ext)
      BY <1>1, <2>2, <3>1, <3>2
    <3>3. CASE k = Len(ext)
      BY <1>1, <2>2, <3>1, <3>3
    <3>4. CASE j # Len(ext) /\ k # Len(ext)
      <4>1. j \in 1 .. Len(ch) /\ k \in 1 .. Len(ch)
        BY <1>1, <3>4
      <4> QED
        BY <1>1, <2>2, <4>1 DEF ChainOK
    <3> QED
      BY <3>2, <3>3, <3>4
  <2>3. ListOK(n, ext, Len(ext))
    <3>1. LinkTo(ext, Len(ext)) = b
      BY <1>1 DEF LinkTo
    <3>2. DistinctSpares(n)
      BY DEF DistinctSpares
    <3> QED
      BY <1>5, <3>1, <3>2, ConstantAssumption DEF ListOK
  <2>4. ASSUME NEW k \in 1 .. Len(ext) PROVE ListOK(e[ext[k]], ext, k - 1)
    <3>1. CASE k = Len(ext)
      <4>1. ListOK(c, ch, Len(ch))
        BY DEF ChainOK
      <4>2. ListOK(c, ext, Len(ch))
        BY <1>1, <1>3, <1>8, <4>1
      <4> QED
        BY <1>1, <1>4, <3>1, <4>2
    <3>2. CASE k # Len(ext)
      <4>1. k \in 1 .. Len(ch) /\ k - 1 \in 0 .. Len(ch) /\ ext[k] = ch[k]
        BY <1>1, <3>2
      <4>2. ch[k] \in Links(ch)
        BY <4>1 DEF Links
      <4>3. ListOK(d[ch[k]], ch, k - 1)
        BY <4>1 DEF ChainOK
      <4>4. ListOK(d[ch[k]], ext, k - 1)
        BY <1>3, <1>8, <4>1, <4>2, <4>3
      <4> QED
        BY <1>4, <4>1, <4>2, <4>4
    <3> QED
      BY <3>1, <3>2
  <2>5. \A l \in Links(ext) : Spares(n) \cap Spares(e[l]) = {}
    BY <1>5
  <2>6. ASSUME NEW l \in Links(ext), NEW m \in Links(ext), l # m
        PROVE  Spares(e[l]) \cap Spares(e[m]) = {}
    <3>1. CASE l = b
      BY <1>2, <1>4, <2>6, <3>1 DEF ChainOK
    <3>2. CASE m = b
      BY <1>2, <1>4, <2>6, <3>2 DEF ChainOK
    <3>3. CASE l # b /\ m # b
      BY <1>2, <1>4, <2>6, <3>3 DEF ChainOK
    <3> QED
      BY <3>1, <3>2, <3>3
  <2> QED
    BY <2>1, <2>2, <2>3, <2>4, <2>5, <2>6 DEF ChainOK
<1> QED
  BY <1>7, <1>9 DEF ext

-----------------------------------------------------------------------------
(* The inductive invariant: without read errors in ufs_freeblock_update    *)
(* the list stays well formed, and the local variable error stays zero.    *)
NoError == \A t \in Thread : ~error[t]

IInv ==
  /\ TypeOK
  /\ ListWellFormed
  /\ TotalExact
  /\ Partition
  /\ LockHeld
  /\ NoError

LEMMA FreeIsData ==
  ASSUME TypeOK, ListWellFormed
  PROVE  Free \subseteq DataBlock /\ IsFiniteSet(Free) /\ Cardinality(Free) \in Nat
<1>1. Spares(sb) \subseteq DataBlock /\ Links(chain) \subseteq DataBlock
  BY DEF ListWellFormed, ChainOK, ListOK
<1>2. ASSUME NEW b \in Links(chain) PROVE Spares(disk[b]) \subseteq DataBlock
  <2>1. PICK k \in 1 .. Len(chain) : b = chain[k]
    BY DEF Links
  <2> QED
    BY <2>1 DEF ListWellFormed, ChainOK, ListOK
<1>3. Free \subseteq DataBlock
  BY <1>1, <1>2 DEF Free, FreeOf
<1>4. IsFiniteSet(DataBlock)
  BY ConstantAssumption, FS_Interval DEF DataBlock
<1> QED
  BY <1>3, <1>4, FS_Subset, FS_CardinalityType

(* With blocks left to count, the cache has a spare or its link is a list  *)
(* block: allocate never steps below the cache and never meets the 0.      *)
LEMMA CacheNotEmpty ==
  ASSUME IInv
  PROVE  /\ sb.nfreeblock \in 1 .. MaxFree
         /\ PrevCount = sb.nfreeblock - 1
         /\ total > 0 /\ PrevCount = 0 => chain # << >> /\ Sane(sb.freeblock[0])
<1>1. sb.nfreeblock \in 1 .. MaxFree
  BY DEF IInv, ListWellFormed, ChainOK, ListOK
<1>2. PrevCount = sb.nfreeblock - 1
  BY <1>1, ConstantAssumption DEF PrevCount
<1>3. ASSUME total > 0, PrevCount = 0
      PROVE  chain # << >> /\ Sane(sb.freeblock[0])
  <2>1. Spares(sb) = {}
    BY <1>1, <1>2, <1>3 DEF Spares
  <2>2. Free # {}
    BY <1>3, FS_EmptySet DEF IInv, TotalExact
  <2>3. chain # << >>
    BY <2>1, <2>2 DEF Free, FreeOf, Links
  <2>4. chain \in Seq(DataBlock)
    BY DEF IInv, TypeOK
  <2>5. Len(chain) \in Nat \ {0} /\ chain[Len(chain)] \in DataBlock
    BY <2>3, <2>4
  <2>6. sb.freeblock[0] = chain[Len(chain)]
    BY <2>5 DEF IInv, ListWellFormed, ChainOK, ListOK, LinkTo
  <2> QED
    BY <2>3, <2>5, <2>6, ConstantAssumption, SaneIsData DEF DataBlock, BlockNo
<1> QED
  BY <1>1, <1>2, <1>3

(* A step that leaves the list and the blocks as they are, or writes a     *)
(* block that is not free.                                                 *)
LEMMA ListUntouched ==
  ASSUME IInv, UNCHANGED <<sb, chain>>,
         \/ UNCHANGED disk
         \/ \E b \in DataBlock \ Free, v \in FreeList : disk' = [disk EXCEPT ![b] = v]
  PROVE  ListWellFormed' /\ Free' = Free
<1>1. CASE UNCHANGED disk
  BY <1>1 DEF IInv, ListWellFormed, Free
<1>2. CASE \E b \in DataBlock \ Free, v \in FreeList : disk' = [disk EXCEPT ![b] = v]
  <2>1. PICK b \in DataBlock \ Free, v \in FreeList : disk' = [disk EXCEPT ![b] = v]
    BY <1>2
  <2>2. b \notin Links(chain)
    BY <2>1 DEF Free, FreeOf
  <2>3. disk \in [DataBlock -> FreeList] /\ chain \in Seq(DataBlock)
    BY DEF IInv, TypeOK
  <2>4. sb \in FreeList /\ disk' \in [DataBlock -> FreeList]
    BY <2>1, <2>3 DEF IInv, TypeOK
  <2>5. \A l \in Links(chain) : disk'[l] = disk[l]
    BY <2>1, <2>2, <2>3 DEF Links
  <2>6. /\ FreeOf(sb, disk', chain) = FreeOf(sb, disk, chain)
        /\ ChainOK(sb, disk, chain) => ChainOK(sb, disk', chain)
    BY <2>3, <2>4, <2>5, WriteLemma
  <2> QED
    BY <2>6 DEF IInv, ListWellFormed, Free
<1> QED
  BY <1>1, <1>2

(* One iteration of allocate takes exactly one block, free until then.     *)
LEMMA PopStep ==
  ASSUME IInv, NEW t \in Thread, AllocPopSpare(t) \/ AllocPopLink(t)
  PROVE  \E b \in Free :
           /\ Free' = Free \ {b}
           /\ ListWellFormed'
           /\ sb' \in FreeList /\ chain' \in Seq(DataBlock)
           /\ total' = total - 1 /\ total > 0 /\ modified' = TRUE
           /\ lock' = NoThread
           /\ pc[t] = "pop" /\ pc' = [pc EXCEPT ![t] = "zero"]
           /\ blk' = [blk EXCEPT ![t] = b]
           /\ UNCHANGED <<disk, error, inuse, lost>>
<1>1. /\ sb \in FreeList /\ disk \in [DataBlock -> FreeList]
      /\ chain \in Seq(DataBlock) /\ ChainOK(sb, disk, chain)
  BY DEF IInv, TypeOK, ListWellFormed
<1>0. error[t] = FALSE
  BY DEF IInv, TypeOK, NoError
<1>2. sb.nfreeblock \in 1 .. MaxFree /\ MaxFree \in Nat /\ MaxFree < Word /\ Word \in Nat
  BY CacheNotEmpty, ConstantAssumption
<1>3. sb.freeblock \in [Slot -> BlockNo]
  BY <1>1 DEF FreeList
<1>4. CASE AllocPopSpare(t)
  <2> DEFINE b == sb.freeblock[sb.nfreeblock - 1]
  <2>1. PrevCount = sb.nfreeblock - 1 /\ PrevCount # 0
    BY <1>4, CacheNotEmpty DEF AllocPopSpare
  <2>2. EntryAt(PrevCount) = {b}
    BY <1>2, <2>1 DEF EntryAt
  <2>3. sb' = [sb EXCEPT !.nfreeblock = PrevCount] /\ PopDone(t, b, FALSE)
        /\ chain' = chain /\ pc[t] = "pop" /\ total > 0
    <3>1. PICK x \in EntryAt(PrevCount) :
             sb' = [sb EXCEPT !.nfreeblock = PrevCount] /\ PopDone(t, x, error[t])
      BY <1>4 DEF AllocPopSpare
    <3>2. x = b
      BY <2>2
    <3> QED
      BY <1>0, <1>4, <3>1, <3>2 DEF AllocPopSpare
  <2>4. sb'.nfreeblock = sb.nfreeblock - 1 /\ sb'.freeblock = sb.freeblock
    BY <1>1, <2>1, <2>3 DEF FreeList
  <2>5. sb' \in FreeList
    <3>1. sb' = [nfreeblock |-> sb.nfreeblock - 1, freeblock |-> sb.freeblock]
      BY <1>1, <2>1, <2>3 DEF FreeList
    <3>2. sb.nfreeblock - 1 \in BlockNo
      BY <1>2 DEF BlockNo
    <3> QED
      BY <1>3, <3>1, <3>2 DEF FreeList
  <2>6. sb.nfreeblock > 1
    BY <1>2, <2>1
  <2>7. b \in DataBlock /\ b \in Free
        /\ FreeOf(sb', disk, chain) = Free \ {b} /\ ChainOK(sb', disk, chain)
    BY <1>1, <2>4, <2>5, <2>6, PopSpareLemma DEF Free
  <2>8. Sane(b)
    BY <2>7, ConstantAssumption DEF Sane, DataBlock
  <2>9. disk' = disk
    BY <2>3 DEF PopDone
  <2>10. Free' = Free \ {b} /\ ListWellFormed'
    BY <2>3, <2>7, <2>9 DEF Free, ListWellFormed
  <2>11. /\ total' = total - 1 /\ modified' = TRUE /\ lock' = NoThread
         /\ pc' = [pc EXCEPT ![t] = "zero"] /\ blk' = [blk EXCEPT ![t] = b]
         /\ UNCHANGED <<disk, error, inuse, lost>>
    BY <2>3, <2>8 DEF PopDone
  <2> HIDE DEF b
  <2> QED
    BY <1>1, <2>3, <2>5, <2>7, <2>10, <2>11
<1>5. CASE AllocPopLink(t)
  <2> DEFINE b    == sb.freeblock[0]
             rest == SubSeq(chain, 1, Len(chain) - 1)
  <2>1. sb.nfreeblock = 1 /\ chain # << >> /\ Sane(b)
    BY <1>2, <1>5, CacheNotEmpty DEF AllocPopLink
  <2>2. /\ sb' = Refilled(disk[b]) /\ PopDone(t, b, FALSE) /\ chain' = rest
        /\ pc[t] = "pop" /\ total > 0
    BY <1>5, <2>1 DEF AllocPopLink
  <2>3. b \in DataBlock
    BY <2>1, <1>3, ConstantAssumption, SaneIsData DEF Slot
  <2>4. disk[b] \in FreeList /\ disk[b].nfreeblock \in BlockNo
        /\ disk[b].freeblock \in [Slot -> BlockNo]
    BY <1>1, <2>3 DEF FreeList
  <2>5. sb'.nfreeblock = disk[b].nfreeblock
        /\ sb'.freeblock = [i \in Slot |-> IF i < disk[b].nfreeblock
                                  THEN disk[b].freeblock[i] ELSE sb.freeblock[i]]
    BY <2>2 DEF Refilled
  <2>6. sb' \in FreeList
    BY <1>3, <2>2, <2>4 DEF Refilled, FreeList
  <2>7. b \in Links(chain)
    <3>1. Len(chain) \in Nat \ {0}
      BY <1>1, <2>1
    <3>2. b = chain[Len(chain)]
      BY <1>1, <3>1 DEF ChainOK, ListOK, LinkTo
    <3> QED
      BY <3>1, <3>2 DEF Links
  <2>8. disk[b].nfreeblock \in 1 .. MaxFree
    <3>1. PICK k \in 1 .. Len(chain) : b = chain[k]
      BY <2>7 DEF Links
    <3> QED
      BY <1>1, <3>1 DEF ChainOK, ListOK
  <2>9. \A i \in 0 .. sb'.nfreeblock - 1 : sb'.freeblock[i] = disk[b].freeblock[i]
    BY <1>2, <2>5, <2>8 DEF Slot
  <2>10. /\ b \in Free /\ rest \in Seq(DataBlock)
         /\ FreeOf(sb', disk, rest) = Free \ {b}
         /\ ChainOK(sb', disk, rest)
    <3>1. /\ sb.nfreeblock = 1 /\ chain # << >>
          /\ sb'.nfreeblock = disk[sb.freeblock[0]].nfreeblock
          /\ \A i \in 0 .. sb'.nfreeblock - 1 :
                sb'.freeblock[i] = disk[sb.freeblock[0]].freeblock[i]
      BY <2>1, <2>5, <2>9
    <3>2. /\ b \in DataBlock /\ b \in FreeOf(sb, disk, chain)
          /\ rest \in Seq(DataBlock)
          /\ FreeOf(sb', disk, rest) = FreeOf(sb, disk, chain) \ {b}
          /\ ChainOK(sb', disk, rest)
      BY <1>1, <2>6, <3>1, PopLinkLemma
    <3> QED
      BY <3>2 DEF Free
  <2>11. disk' = disk
    BY <2>2 DEF PopDone
  <2>12. Free' = Free \ {b} /\ ListWellFormed'
    BY <2>2, <2>10, <2>11 DEF Free, ListWellFormed
  <2>13. /\ total' = total - 1 /\ modified' = TRUE /\ lock' = NoThread
         /\ pc' = [pc EXCEPT ![t] = "zero"] /\ blk' = [blk EXCEPT ![t] = b]
         /\ UNCHANGED <<disk, error, inuse, lost>>
    BY <2>1, <2>2 DEF PopDone
  <2> HIDE DEF b, rest
  <2> QED
    BY <2>2, <2>6, <2>10, <2>12, <2>13
<1> QED
  BY <1>4, <1>5

(* A deallocate that succeeds adds its block to the list and nothing else. *)
LEMMA GiveStep ==
  ASSUME IInv, NEW b \in inuse, DeallocPush(b) \/ DeallocSpill(b)
  PROVE  /\ b \in DataBlock /\ b \notin Free
         /\ Free' = Free \cup {b}
         /\ ListWellFormed'
         /\ sb' \in FreeList /\ chain' \in Seq(DataBlock)
         /\ disk' \in [DataBlock -> FreeList]
         /\ total' = total + 1 /\ modified' = TRUE
         /\ inuse' = inuse \ {b}
         /\ UNCHANGED <<lock, pc, blk, error, lost>>
<1>1. /\ sb \in FreeList /\ disk \in [DataBlock -> FreeList]
      /\ chain \in Seq(DataBlock) /\ ChainOK(sb, disk, chain)
  BY DEF IInv, TypeOK, ListWellFormed
<1>2. b \in DataBlock /\ b \notin Free
  BY DEF IInv, TypeOK, Partition
<1>3. sb.nfreeblock \in 1 .. MaxFree /\ MaxFree \in Nat /\ MaxFree < Word /\ Word \in Nat
  BY CacheNotEmpty, ConstantAssumption
<1>4. sb.freeblock \in [Slot -> BlockNo]
  BY <1>1 DEF FreeList
<1>5. b \in BlockNo
  BY <1>2, ConstantAssumption DEF DataBlock, BlockNo
<1>6. CASE DeallocPush(b)
  <2>1. /\ sb.nfreeblock < MaxFree /\ UNCHANGED <<disk, chain>>
        /\ sb'.nfreeblock = sb.nfreeblock + 1
        /\ sb'.freeblock = [sb.freeblock EXCEPT ![sb.nfreeblock] = b]
        /\ sb' = [nfreeblock |-> sb'.nfreeblock, freeblock |-> sb'.freeblock]
    BY <1>6 DEF DeallocPush
  <2>2. sb' \in FreeList
    <3>1. sb'.nfreeblock \in BlockNo
      BY <1>3, <2>1 DEF BlockNo
    <3>2. sb'.freeblock \in [Slot -> BlockNo]
      BY <1>4, <1>5, <2>1
    <3> QED
      BY <2>1, <3>1, <3>2 DEF FreeList
  <2>3. /\ FreeOf(sb', disk, chain) = FreeOf(sb, disk, chain) \cup {b}
        /\ ChainOK(sb', disk, chain)
    BY <1>1, <1>2, <2>1, <2>2, PushLemma DEF Free
  <2>4. Free' = Free \cup {b} /\ ListWellFormed'
    BY <2>1, <2>3 DEF Free, ListWellFormed
  <2> QED
    BY <1>1, <1>2, <1>6, <2>1, <2>2, <2>4 DEF DeallocPush
<1>7. CASE DeallocSpill(b)
  <2>1. sb.nfreeblock = MaxFree
    BY <1>3, <1>7 DEF DeallocSpill
  <2>2. sb = [nfreeblock |-> MaxFree, freeblock |-> sb.freeblock]
    BY <1>1, <2>1 DEF FreeList
  <2>3. disk' = [disk EXCEPT ![b] = sb] /\ chain' = Append(chain, b)
    BY <1>7, <2>2 DEF DeallocSpill
  <2>4. /\ sb'.nfreeblock = 1
        /\ sb'.freeblock = [i \in Slot |-> IF i = 0 THEN b
                                           ELSE IF i < MaxFree \div 4 THEN 0
                                           ELSE sb.freeblock[i]]
        /\ sb' = [nfreeblock |-> sb'.nfreeblock, freeblock |-> sb'.freeblock]
    BY <1>7 DEF DeallocSpill
  <2>5. 0 \in BlockNo /\ 1 \in BlockNo /\ 0 \in Slot
    BY <1>3 DEF BlockNo, Slot
  <2>6. sb' \in FreeList /\ sb'.freeblock[0] = b
    <3>1. sb'.freeblock \in [Slot -> BlockNo]
      BY <1>4, <1>5, <2>4, <2>5
    <3>2. sb'.freeblock[0] = b
      BY <2>4, <2>5
    <3> QED
      BY <2>4, <2>5, <3>1, <3>2 DEF FreeList
  <2>7. disk' \in [DataBlock -> FreeList] /\ chain' \in Seq(DataBlock)
    BY <1>1, <1>2, <2>3
  <2>8. /\ FreeOf(sb', disk', Append(chain, b)) = FreeOf(sb, disk, chain) \cup {b}
        /\ ChainOK(sb', disk', Append(chain, b))
    <3>1. b \notin FreeOf(sb, disk, chain)
      BY <1>2 DEF Free
    <3>2. disk'[b] = sb /\ \A x \in DataBlock \ {b} : disk'[x] = disk[x]
      BY <1>1, <1>2, <2>3
    <3>3. sb'.nfreeblock = 1
      BY <2>4
    <3>4. sb \in FreeList /\ sb' \in FreeList
      BY <1>1, <2>6
    <3>5. FreeOf(sb', disk', Append(chain, b)) = FreeOf(sb, disk, chain) \cup {b}
      BY <1>1, <1>2, <2>1, <2>6, <2>7, <3>1, <3>2, <3>3, <3>4, SpillLemma, SMTT(30)
    <3>6. ChainOK(sb', disk', Append(chain, b))
      BY <1>1, <1>2, <2>1, <2>6, <2>7, <3>1, <3>2, <3>3, <3>4, SpillLemma, SMTT(30)
    <3> QED
      BY <3>5, <3>6
  <2>9. Free' = Free \cup {b} /\ ListWellFormed'
    BY <2>3, <2>8 DEF Free, ListWellFormed
  <2> QED
    BY <1>2, <1>7, <2>6, <2>7, <2>9 DEF DeallocSpill
<1> QED
  BY <1>6, <1>7

(* The steps that leave the list and its count alone.                      *)
QuietStep ==
  \/ \E t \in Thread : AllocLock(t) \/ AllocExhausted(t) \/ AllocZero(t) \/ AllocZeroFails(t)
  \/ \E b \in inuse : DeallocSpillFails(b) \/ WriteData(b)
  \/ SaveSuper
  \/ UNCHANGED vars

LEMMA QuietLemma ==
  ASSUME IInv, QuietStep
  PROVE  ListWellFormed' /\ Free' = Free /\ UNCHANGED <<sb, chain, total>>
<1>1. UNCHANGED <<sb, chain, total>>
  BY DEF QuietStep, AllocLock, AllocExhausted, AllocZero, AllocZeroFails,
         DeallocSpillFails, WriteData, SaveSuper, vars
<1>2. \/ UNCHANGED disk
      \/ \E b \in DataBlock \ Free, v \in FreeList : disk' = [disk EXCEPT ![b] = v]
  <2>1. ASSUME NEW t \in Thread, AllocZero(t)
        PROVE  \E b \in DataBlock \ Free, v \in FreeList : disk' = [disk EXCEPT ![b] = v]
    <3>1. blk[t] \in DataBlock \ Free
      BY <2>1 DEF AllocZero, IInv, Partition, Pending
    <3>2. Zeroed \in FreeList
      BY ConstantAssumption DEF Zeroed, FreeList, BlockNo
    <3> QED
      BY <2>1, <3>1, <3>2 DEF AllocZero
  <2>2. ASSUME NEW b \in inuse, WriteData(b)
        PROVE  \E c \in DataBlock \ Free, v \in FreeList : disk' = [disk EXCEPT ![c] = v]
    <3>1. b \in DataBlock \ Free
      BY DEF IInv, TypeOK, Partition
    <3>2. Payload \subseteq FreeList
      BY ConstantAssumption
    <3> QED
      BY <2>2, <3>1, <3>2 DEF WriteData
  <2> QED
    BY <2>1, <2>2 DEF QuietStep, AllocLock, AllocExhausted, AllocZeroFails,
                      DeallocSpillFails, SaveSuper, vars
<1> QED
  BY <1>1, <1>2, ListUntouched

(* Every step without a refill error is one of these kinds.                *)
LEMMA StepKinds ==
  ASSUME "refill" \notin FaultAt, IInv, [Next]_vars
  PROVE  \/ \E t \in Thread : AllocPopSpare(t) \/ AllocPopLink(t)
         \/ \E b \in inuse : DeallocPush(b) \/ DeallocSpill(b)
         \/ QuietStep
<1>1. ASSUME NEW t \in Thread, AllocRefillFails(t) PROVE FALSE
  BY <1>1, CacheNotEmpty DEF AllocRefillFails
<1> QED
  BY <1>1 DEF Next, AllocStep, UserStep, QuietStep

LEMMA TypeStep ==
  ASSUME "refill" \notin FaultAt, IInv, [Next]_vars
  PROVE  TypeOK'
<1> USE DEF TypeOK
<1>1. ASSUME NEW t \in Thread, AllocPopSpare(t) \/ AllocPopLink(t) PROVE TypeOK'
  <2>1. PICK b \in Free :
           /\ sb' \in FreeList /\ chain' \in Seq(DataBlock)
           /\ total' = total - 1 /\ total > 0 /\ modified' = TRUE
           /\ lock' = NoThread /\ pc' = [pc EXCEPT ![t] = "zero"]
           /\ blk' = [blk EXCEPT ![t] = b]
           /\ UNCHANGED <<disk, error, inuse, lost>>
    BY <1>1, PopStep
  <2>2. b \in BlockNo
    BY FreeIsData, ConstantAssumption DEF IInv, DataBlock, BlockNo
  <2> QED
    BY <2>1, <2>2 DEF IInv
<1>2. ASSUME NEW b \in inuse, DeallocPush(b) \/ DeallocSpill(b) PROVE TypeOK'
  <2>1. /\ sb' \in FreeList /\ chain' \in Seq(DataBlock)
        /\ disk' \in [DataBlock -> FreeList]
        /\ total' = total + 1 /\ modified' = TRUE
        /\ inuse' = inuse \ {b}
        /\ UNCHANGED <<lock, pc, blk, error, lost>>
    BY <1>2, GiveStep
  <2> QED
    BY <2>1 DEF IInv
<1>3. CASE QuietStep
  <2>1. 0 \in BlockNo /\ Zeroed \in FreeList
    BY ConstantAssumption DEF BlockNo, Zeroed, FreeList
  <2>2. ASSUME NEW t \in Thread,
               AllocLock(t) \/ AllocExhausted(t) \/ AllocZero(t) \/ AllocZeroFails(t)
        PROVE  TypeOK'
    <3>1. pc[t] = "zero" => blk[t] \in DataBlock
      BY DEF IInv, Partition, Pending
    <3>2. CASE AllocLock(t)
      BY <3>2 DEF AllocLock, IInv
    <3>3. CASE AllocExhausted(t)
      BY <3>3 DEF AllocExhausted, IInv
    <3>4. CASE AllocZero(t)
      BY <2>1, <3>1, <3>4 DEF AllocZero, IInv
    <3>5. CASE AllocZeroFails(t)
      BY <2>1, <3>1, <3>5 DEF AllocZeroFails, IInv
    <3> QED
      BY <2>2, <3>2, <3>3, <3>4, <3>5
  <2>3. ASSUME NEW b \in inuse, DeallocSpillFails(b) \/ WriteData(b) PROVE TypeOK'
    <3>1. CASE DeallocSpillFails(b)
      BY <3>1 DEF DeallocSpillFails, IInv
    <3>2. CASE WriteData(b)
      BY <3>2, ConstantAssumption DEF WriteData, IInv
    <3> QED
      BY <2>3, <3>1, <3>2
  <2>4. CASE SaveSuper
    BY <2>4 DEF SaveSuper, IInv
  <2>5. CASE UNCHANGED vars
    BY <2>5 DEF vars, IInv
  <2> QED
    BY <1>3, <2>2, <2>3, <2>4, <2>5 DEF QuietStep
<1> QED
  BY <1>1, <1>2, <1>3, StepKinds

(* The count follows the set of free blocks.                               *)
LEMMA TotalStep ==
  ASSUME "refill" \notin FaultAt, IInv, [Next]_vars
  PROVE  TotalExact'
<1>1. IsFiniteSet(Free) /\ Cardinality(Free) \in Nat /\ total = Cardinality(Free)
  BY FreeIsData DEF IInv, TotalExact
<1>2. ASSUME NEW t \in Thread, AllocPopSpare(t) \/ AllocPopLink(t) PROVE TotalExact'
  <2>1. PICK b \in Free : Free' = Free \ {b} /\ total' = total - 1
    BY <1>2, PopStep
  <2>2. Cardinality(Free \ {b}) = Cardinality(Free) - 1
    BY <1>1, FS_RemoveElement
  <2> QED
    BY <1>1, <2>1, <2>2 DEF TotalExact
<1>3. ASSUME NEW b \in inuse, DeallocPush(b) \/ DeallocSpill(b) PROVE TotalExact'
  <2>1. b \notin Free /\ Free' = Free \cup {b} /\ total' = total + 1
    BY <1>3, GiveStep
  <2>2. Cardinality(Free \cup {b}) = Cardinality(Free) + 1
    BY <1>1, <2>1, FS_AddElement
  <2> QED
    BY <1>1, <2>1, <2>2 DEF TotalExact
<1>4. CASE QuietStep
  BY <1>1, <1>4, QuietLemma DEF TotalExact
<1> QED
  BY <1>2, <1>3, <1>4, StepKinds

(* Threads and the lock: who is inside allocate, and without an error.     *)
LEMMA LockStep ==
  ASSUME "refill" \notin FaultAt, IInv, [Next]_vars
  PROVE  LockHeld' /\ NoError'
<1> USE DEF LockHeld, NoError, IInv, TypeOK
<1>1. ASSUME NEW t \in Thread, AllocPopSpare(t) \/ AllocPopLink(t)
      PROVE  LockHeld' /\ NoError'
  <2>1. /\ lock' = NoThread /\ pc[t] = "pop" /\ pc' = [pc EXCEPT ![t] = "zero"]
        /\ error' = error
    BY <1>1, PopStep
  <2> QED
    BY <2>1, ConstantAssumption
<1>2. ASSUME NEW b \in inuse, DeallocPush(b) \/ DeallocSpill(b)
      PROVE  LockHeld' /\ NoError'
  BY <1>2, GiveStep
<1>3. CASE QuietStep
  <2>1. ASSUME NEW t \in Thread,
               AllocLock(t) \/ AllocExhausted(t) \/ AllocZero(t) \/ AllocZeroFails(t)
        PROVE  LockHeld' /\ NoError'
    BY <2>1, ConstantAssumption
       DEF AllocLock, AllocExhausted, AllocZero, AllocZeroFails
  <2>2. ASSUME NEW b \in inuse, DeallocSpillFails(b) \/ WriteData(b)
        PROVE  LockHeld' /\ NoError'
    BY <2>2 DEF DeallocSpillFails, WriteData
  <2>3. CASE SaveSuper \/ UNCHANGED vars
    BY <2>3 DEF SaveSuper, vars
  <2> QED
    BY <1>3, <2>1, <2>2, <2>3 DEF QuietStep
<1> QED
  BY <1>1, <1>2, <1>3, StepKinds

-----------------------------------------------------------------------------
(* Who holds a block: what each kind of step does to Pending.              *)
LEMMA PendingGrows ==
  ASSUME IInv, NEW t \in Thread, NEW b, pc[t] # "zero",
         pc' = [pc EXCEPT ![t] = "zero"], blk' = [blk EXCEPT ![t] = b]
  PROVE  Pending' = Pending \cup {b}
<1>1. pc \in [Thread -> {"idle", "pop", "zero"}] /\ blk \in [Thread -> BlockNo]
  BY DEF IInv, TypeOK
<1>2. pc'[t] = "zero" /\ blk'[t] = b
  BY <1>1
<1>3. \A u \in Thread \ {t} : pc'[u] = pc[u] /\ blk'[u] = blk[u]
  BY <1>1
<1> QED
  BY <1>2, <1>3 DEF Pending

LEMMA PendingShrinks ==
  ASSUME IInv, NEW t \in Thread, pc[t] = "zero",
         pc' = [pc EXCEPT ![t] = "idle"], blk' = [blk EXCEPT ![t] = 0]
  PROVE  Pending' = Pending \ {blk[t]} /\ blk[t] \in Pending
<1>1. pc \in [Thread -> {"idle", "pop", "zero"}] /\ blk \in [Thread -> BlockNo]
  BY DEF IInv, TypeOK
<1>2. pc'[t] = "idle"
  BY <1>1
<1>3. \A u \in Thread \ {t} : pc'[u] = pc[u] /\ blk'[u] = blk[u]
  BY <1>1
<1>4. \A u \in Thread \ {t} : pc[u] = "zero" => blk[u] # blk[t]
  BY DEF IInv, Partition
<1> QED
  BY <1>2, <1>3, <1>4 DEF Pending

LEMMA PendingSame ==
  ASSUME IInv, NEW t \in Thread, pc[t] # "zero", NEW s \in {"idle", "pop"},
         pc' = [pc EXCEPT ![t] = s], blk' = blk
  PROVE  Pending' = Pending
<1>1. pc \in [Thread -> {"idle", "pop", "zero"}]
  BY DEF IInv, TypeOK
<1>2. \A u \in Thread : pc'[u] = "zero" <=> pc[u] = "zero"
  BY <1>1
<1> QED
  BY <1>2 DEF Pending

(* The exclusive places of a block, and the threads' blocks being distinct.*)
LEMMA PartitionStep ==
  ASSUME "refill" \notin FaultAt, IInv, [Next]_vars
  PROVE  Partition'
<1> DEFINE OneEach == \A t, u \in Thread :
              pc[t] = "zero" /\ pc[u] = "zero" /\ blk[t] = blk[u] => t = u
<1>1. pc \in [Thread -> {"idle", "pop", "zero"}] /\ blk \in [Thread -> BlockNo]
  BY DEF IInv, TypeOK
<1>2. Partition
  BY DEF IInv
<1>3. OneEach
  BY <1>2 DEF Partition
<1>4. ASSUME NEW t \in Thread, AllocPopSpare(t) \/ AllocPopLink(t) PROVE Partition'
  <2>1. PICK b \in Free :
           /\ Free' = Free \ {b}
           /\ pc[t] = "pop" /\ pc' = [pc EXCEPT ![t] = "zero"]
           /\ blk' = [blk EXCEPT ![t] = b]
           /\ UNCHANGED <<inuse, lost>>
    BY <1>4, PopStep
  <2>2. Pending' = Pending \cup {b}
    BY <2>1, PendingGrows
  <2>3. \A u \in Thread : pc[u] = "zero" => blk[u] # b
    BY <1>2, <2>1 DEF Partition, Pending
  <2>4. OneEach'
    BY <1>1, <1>3, <2>1, <2>3
  <2> QED
    BY <1>2, <2>1, <2>2, <2>4 DEF Partition
<1>5. ASSUME NEW b \in inuse, DeallocPush(b) \/ DeallocSpill(b) PROVE Partition'
  <2>1. /\ Free' = Free \cup {b} /\ b \in DataBlock
        /\ inuse' = inuse \ {b} /\ UNCHANGED <<pc, blk, lost>>
    BY <1>5, GiveStep
  <2>2. Pending' = Pending
    BY <2>1 DEF Pending
  <2> QED
    BY <1>2, <2>1, <2>2 DEF Partition
<1>6. CASE QuietStep
  <2>1. Free' = Free
    BY <1>6, QuietLemma
  <2>2. ASSUME NEW t \in Thread, AllocLock(t) \/ AllocExhausted(t) PROVE Partition'
    <3>1. UNCHANGED <<inuse, lost>>
      BY <2>2 DEF AllocLock, AllocExhausted
    <3>2. Pending' = Pending
      BY <2>2, PendingSame DEF AllocLock, AllocExhausted
    <3>3. OneEach'
      BY <1>1, <1>3, <2>2 DEF AllocLock, AllocExhausted
    <3> QED
      BY <1>2, <2>1, <3>1, <3>2, <3>3 DEF Partition
  <2>3. ASSUME NEW t \in Thread, AllocZero(t) \/ AllocZeroFails(t) PROVE Partition'
    <3>1. Pending' = Pending \ {blk[t]} /\ blk[t] \in Pending
      BY <2>3, PendingShrinks DEF AllocZero, AllocZeroFails
    <3>2. OneEach'
      BY <1>1, <1>3, <2>3 DEF AllocZero, AllocZeroFails
    <3>3. \/ inuse' = inuse \cup {blk[t]} /\ lost' = lost
          \/ inuse' = inuse /\ lost' = lost \cup {blk[t]}
      BY <2>3 DEF AllocZero, AllocZeroFails
    <3> QED
      BY <1>2, <2>1, <3>1, <3>2, <3>3 DEF Partition
  <2>4. ASSUME NEW b \in inuse, DeallocSpillFails(b) \/ WriteData(b) PROVE Partition'
    <3>1. UNCHANGED <<pc, blk>>
      BY <2>4 DEF DeallocSpillFails, WriteData
    <3>2. Pending' = Pending
      BY <3>1 DEF Pending
    <3>3. \/ inuse' = inuse \ {b} /\ lost' = lost \cup {b}
          \/ UNCHANGED <<inuse, lost>>
      BY <2>4 DEF DeallocSpillFails, WriteData
    <3> QED
      BY <1>2, <2>1, <3>1, <3>2, <3>3 DEF Partition
  <2>5. ASSUME SaveSuper \/ UNCHANGED vars PROVE Partition'
    <3>1. UNCHANGED <<pc, blk, inuse, lost>>
      BY <2>5 DEF SaveSuper, vars
    <3>2. Pending' = Pending
      BY <3>1 DEF Pending
    <3> QED
      BY <1>2, <2>1, <3>1, <3>2 DEF Partition
  <2> QED
    BY <1>6, <2>2, <2>3, <2>4, <2>5 DEF QuietStep
<1> QED
  BY <1>4, <1>5, <1>6, StepKinds

LEMMA InitLemma == Init => IInv
<1> SUFFICES ASSUME Init PROVE IInv
  OBVIOUS
<1>1. ListWellFormed
  BY FormatAssumption DEF Init, ListWellFormed
<1>2. IsFiniteSet(Free) /\ Cardinality(Free) \in Nat /\ Free \subseteq DataBlock
  <2>1. Free \subseteq DataBlock
    <3>1. Spares(sb) \subseteq DataBlock /\ Links(chain) \subseteq DataBlock
      BY <1>1 DEF ListWellFormed, ChainOK, ListOK
    <3>2. ASSUME NEW b \in Links(chain) PROVE Spares(disk[b]) \subseteq DataBlock
      <4>1. PICK k \in 1 .. Len(chain) : b = chain[k]
        BY DEF Links
      <4> QED
        BY <1>1, <4>1 DEF ListWellFormed, ChainOK, ListOK
    <3> QED
      BY <3>1, <3>2 DEF Free, FreeOf
  <2>2. IsFiniteSet(DataBlock)
    BY ConstantAssumption, FS_Interval DEF DataBlock
  <2> QED
    BY <2>1, <2>2, FS_Subset, FS_CardinalityType
<1>3. TypeOK
  <2>1. 0 \in BlockNo
    BY ConstantAssumption DEF BlockNo
  <2> QED
    BY <1>2, <2>1, FormatAssumption DEF Init, TypeOK
<1>4. TotalExact /\ NoError
  BY DEF Init, TotalExact, NoError
<1>5. LockHeld
  BY ConstantAssumption DEF Init, LockHeld
<1>6. Pending = {}
  BY DEF Init, Pending
<1>7. Partition
  BY <1>2, <1>6 DEF Init, Partition
<1> QED
  BY <1>1, <1>3, <1>4, <1>5, <1>7 DEF IInv

LEMMA StepLemma ==
  ASSUME "refill" \notin FaultAt
  PROVE  IInv /\ [Next]_vars => IInv'
<1> SUFFICES ASSUME IInv, [Next]_vars PROVE IInv'
  OBVIOUS
<1>1. ListWellFormed'
  BY StepKinds, PopStep, GiveStep, QuietLemma
<1> QED
  BY <1>1, TypeStep, TotalStep, PartitionStep, LockStep DEF IInv

-----------------------------------------------------------------------------
(* Whatever the volume and the number of threads, if no refill read fails  *)
(* the free list of UFSDAALC and UFSDADAL stays linked and names each free *)
(* block once, its count is exact, and no block is ever given out twice.   *)
THEOREM FreeListSafe ==
  ASSUME "refill" \notin FaultAt
  PROVE  Spec => [](TypeOK /\ ListWellFormed /\ TotalExact /\ Partition)
<1>1. IInv => TypeOK /\ ListWellFormed /\ TotalExact /\ Partition
  BY DEF IInv
<1> QED
  BY <1>1, InitLemma, StepLemma, PTL DEF Spec

(* ufs_sync never misses a change: a step that changes the cache or the    *)
(* count leaves sb->modified set.                                          *)
THEOREM FreeListMarked ==
  ASSUME "refill" \notin FaultAt
  PROVE  Spec => ChangeMarked
<1>1. ASSUME IInv, [Next]_vars, <<sb, total>>' # <<sb, total>>
      PROVE  modified'
  <2>1. ASSUME NEW t \in Thread, AllocPopSpare(t) \/ AllocPopLink(t) PROVE modified'
    BY <1>1, <2>1, PopStep
  <2>2. ASSUME NEW b \in inuse, DeallocPush(b) \/ DeallocSpill(b) PROVE modified'
    BY <1>1, <2>2, GiveStep
  <2>3. CASE QuietStep
    BY <1>1, <2>3, QuietLemma
  <2> QED
    BY <1>1, <2>1, <2>2, <2>3, StepKinds
<1>2. IInv /\ [Next]_vars => [<<sb, total>>' # <<sb, total>> => modified']_vars
  BY <1>1
<1> QED
  BY <1>2, InitLemma, StepLemma, PTL DEF Spec, ChangeMarked

(* Allocate and deallocate implement the abstract allocator: a reserved    *)
(* block was available, and a block comes back only from its owner.        *)
THEOREM FreeListRefines ==
  ASSUME "refill" \notin FaultAt
  PROVE  Spec => SpaceSpec
<1> USE DEF Space!vars
<1>1. Init => Space!Init
  <2> SUFFICES ASSUME Init PROVE Space!Init
    OBVIOUS
  <2>1. IInv
    BY InitLemma
  <2>2. Free \subseteq DataBlock /\ inuse = DataBlock \ Free
    BY <2>1, FreeIsData DEF IInv, Init
  <2>3. Pending = {}
    BY DEF Init, Pending
  <2> QED
    BY <2>2, <2>3 DEF Space!Init
<1>2. IInv /\ [Next]_vars => [Space!Next]_(Space!vars)
  <2> SUFFICES ASSUME IInv, [Next]_vars PROVE [Space!Next]_(Space!vars)
    OBVIOUS
  <2>0. Free \subseteq DataBlock /\ inuse \subseteq DataBlock
        /\ Pending \subseteq DataBlock /\ Pending \cap inuse = {}
    BY FreeIsData DEF IInv, TypeOK, Partition
  <2>1. ASSUME NEW t \in Thread, AllocPopSpare(t) \/ AllocPopLink(t)
        PROVE  Space!Next
    <3>1. PICK b \in Free :
             /\ Free' = Free \ {b}
             /\ pc[t] = "pop" /\ pc' = [pc EXCEPT ![t] = "zero"]
             /\ blk' = [blk EXCEPT ![t] = b]
             /\ inuse' = inuse
      BY <2>1, PopStep
    <3>2. Pending' = Pending \cup {b}
      BY <3>1, PendingGrows
    <3> QED
      BY <2>0, <3>1, <3>2 DEF Space!Next, Space!Reserve
  <2>2. ASSUME NEW b \in inuse, DeallocPush(b) \/ DeallocSpill(b)
        PROVE  Space!Next
    <3>1. /\ Free' = Free \cup {b} /\ b \in DataBlock
          /\ inuse' = inuse \ {b} /\ UNCHANGED <<pc, blk>>
      BY <2>2, GiveStep
    <3>2. Pending' = Pending
      BY <3>1 DEF Pending
    <3> QED
      BY <3>1, <3>2 DEF Space!Next, Space!Return
  <2>3. CASE QuietStep
    <3>1. Free' = Free
      BY <2>3, QuietLemma
    <3>2. ASSUME NEW t \in Thread, AllocLock(t) \/ AllocExhausted(t)
          PROVE  UNCHANGED <<Free, Pending, inuse>>
      BY <3>1, <3>2, PendingSame DEF AllocLock, AllocExhausted
    <3>3. ASSUME NEW t \in Thread, AllocZero(t) PROVE Space!Next
      <4>1. Pending' = Pending \ {blk[t]} /\ blk[t] \in Pending
        BY <3>3, PendingShrinks DEF AllocZero
      <4> QED
        BY <2>0, <3>1, <3>3, <4>1 DEF AllocZero, Space!Next, Space!HandOver
    <3>4. ASSUME NEW t \in Thread, AllocZeroFails(t) PROVE Space!Next
      <4>1. Pending' = Pending \ {blk[t]} /\ blk[t] \in Pending
        BY <3>4, PendingShrinks DEF AllocZeroFails
      <4>2. inuse' = inuse \ {blk[t]}
        BY <2>0, <3>4, <4>1 DEF AllocZeroFails
      <4> QED
        BY <2>0, <3>1, <4>1, <4>2 DEF Space!Next, Space!Drop
    <3>5. ASSUME NEW b \in inuse, DeallocSpillFails(b) PROVE Space!Next
      <4>1. UNCHANGED <<pc, blk>> /\ inuse' = inuse \ {b}
        BY <3>5 DEF DeallocSpillFails
      <4>2. Pending' = Pending \ {b}
        BY <2>0, <4>1 DEF Pending
      <4> QED
        BY <2>0, <3>1, <4>1, <4>2 DEF Space!Next, Space!Drop
    <3>6. ASSUME \/ \E b \in inuse : WriteData(b)
                 \/ SaveSuper
                 \/ UNCHANGED vars
          PROVE  UNCHANGED <<Free, Pending, inuse>>
      <4>1. UNCHANGED <<pc, blk, inuse>>
        BY <3>6 DEF WriteData, SaveSuper, vars
      <4> QED
        BY <3>1, <4>1 DEF Pending
    <3> QED
      BY <2>3, <3>2, <3>3, <3>4, <3>5, <3>6 DEF QuietStep
  <2> QED
    BY <2>1, <2>2, <2>3, StepKinds
<1> QED
  BY <1>1, <1>2, InitLemma, StepLemma, PTL DEF Spec, SpaceSpec, Space!Spec

=============================================================================
