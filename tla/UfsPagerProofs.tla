--------------------------- MODULE UfsPagerProofs ---------------------------
(***************************************************************************)
(* Safety of the pager and its refinement of BlockDevice, for any number   *)
(* of blocks and pages, under the hypothesis that the dirty counter of a   *)
(* page does not wrap: MaxDeferred, the bound on deferred writes between   *)
(* two flushes of a page, is below Word.                                   *)
(***************************************************************************)
EXTENDS UfsPager, SequenceTheorems, TLAPS

Unique(ps) ==
  \A i, j \in 1 .. Len(ps) :
     ps[i].block = ps[j].block /\ ps[i].block # NoBlock => i = j

(* Names for what the actions assign, so that the lemmas can speak of it.  *)
Put(d, b, v) == [d EXCEPT ![b] = v]

Written(ps, k, u, v, w) ==
  Stamp([ps EXCEPT ![k].used = u, ![k].buf = v, ![k].dirty = w], k)

Refilled(ps, k, b, v) ==
  Stamp([ps EXCEPT ![k].block = b, ![k].buf = v, ![k].dirty = 0, ![k].used = 1], k)

Cleaned(ps, k) == [ps EXCEPT ![k].dirty = 0]

(* The page is as it was but for the counters.                             *)
SameContents(p, q) == p.block = q.block /\ p.buf = q.buf

-----------------------------------------------------------------------------
(* Lemmas about Contents                                                   *)

(* The fields of a page.                                                   *)
LEMMA PageFields ==
  ASSUME NEW p \in Page
  PROVE  /\ p.block \in Block \cup {NoBlock} /\ p.buf \in Value
         /\ p.dirty \in 0 .. Word - 1 /\ p.used \in 0 .. Word - 1 /\ p.lru \in Nat
BY DEF Page

(* The CHOOSE in Contents has one candidate.                               *)
LEMMA ContentsIs ==
  ASSUME NEW ps \in Seq(Page), Unique(ps), NEW d \in [Block -> Value]
  PROVE  /\ Contents(ps, d) \in [Block -> Value]
         /\ \A i \in 1 .. Len(ps) :
               ps[i].block \in Block => Contents(ps, d)[ps[i].block] = ps[i].buf
         /\ \A b \in Block :
               (\A i \in 1 .. Len(ps) : ps[i].block # b) => Contents(ps, d)[b] = d[b]
<1>0. \A i \in 1 .. Len(ps) : ps[i].buf \in Value
  <2>1. \A i \in 1 .. Len(ps) : ps[i] \in Page
    OBVIOUS
  <2> QED BY <2>1, PageFields
<1>1. ASSUME NEW i \in 1 .. Len(ps), ps[i].block \in Block
      PROVE  (CHOOSE j \in 1 .. Len(ps) : ps[j].block = ps[i].block) = i
  BY <1>1, PagerAssumption DEF Unique, PagerAssumption
<1>2. ASSUME NEW i \in 1 .. Len(ps), ps[i].block \in Block
      PROVE  Contents(ps, d)[ps[i].block] = ps[i].buf
  BY <1>1, <1>2 DEF Contents
<1>3. ASSUME NEW b \in Block, \A i \in 1 .. Len(ps) : ps[i].block # b
      PROVE  Contents(ps, d)[b] = d[b]
  BY <1>3 DEF Contents
<1>4. ASSUME NEW b \in Block
      PROVE  Contents(ps, d)[b] \in Value
  <2>1. CASE \A i \in 1 .. Len(ps) : ps[i].block # b
    BY <1>3, <2>1
  <2>2. CASE \E i \in 1 .. Len(ps) : ps[i].block = b
    BY <1>0, <1>2, <2>2
  <2> QED BY <2>1, <2>2
<1>5. Contents(ps, d) \in [Block -> Value]
  BY <1>4 DEF Contents
<1> QED BY <1>2, <1>3, <1>5

(* Contents is the only function that fits pages and disk.                 *)
LEMMA ContentsFits ==
  ASSUME NEW ps \in Seq(Page), Unique(ps), NEW d \in [Block -> Value],
         NEW f \in [Block -> Value],
         \A i \in 1 .. Len(ps) : ps[i].block \in Block => f[ps[i].block] = ps[i].buf,
         \A b \in Block : (\A i \in 1 .. Len(ps) : ps[i].block # b) => f[b] = d[b]
  PROVE  Contents(ps, d) = f
<1>1. ASSUME NEW b \in Block PROVE Contents(ps, d)[b] = f[b]
  <2>1. CASE \A i \in 1 .. Len(ps) : ps[i].block # b
    BY <2>1, ContentsIs
  <2>2. CASE \E i \in 1 .. Len(ps) : ps[i].block = b
    BY <2>2, ContentsIs
  <2> QED BY <2>1, <2>2
<1>2. Contents(ps, d) \in [Block -> Value]
  BY ContentsIs
<1> QED BY <1>1, <1>2

(* Touching counters changes nothing.                                      *)
LEMMA SameView ==
  ASSUME NEW ps \in Seq(Page), NEW qs \in Seq(Page), NEW d \in [Block -> Value],
         Unique(ps), Len(qs) = Len(ps),
         \A i \in 1 .. Len(ps) : SameContents(qs[i], ps[i])
  PROVE  Unique(qs) /\ Contents(qs, d) = Contents(ps, d)
<1>1. Unique(qs)
  BY DEF Unique, SameContents
<1>2. Contents(ps, d) \in [Block -> Value]
  BY ContentsIs
<1>3. \A i \in 1 .. Len(qs) :
         qs[i].block \in Block => Contents(ps, d)[qs[i].block] = qs[i].buf
  BY ContentsIs DEF SameContents
<1>4. \A b \in Block : (\A i \in 1 .. Len(qs) : qs[i].block # b)
                          => Contents(ps, d)[b] = d[b]
  BY ContentsIs DEF SameContents
<1>5. Contents(qs, d) = Contents(ps, d)
  BY <1>1, <1>2, <1>3, <1>4, ContentsFits
<1> QED BY <1>1, <1>5

(* A new page has no block yet.                                            *)
LEMMA AddView ==
  ASSUME NEW ps \in Seq(Page), NEW qs \in Seq(Page), NEW d \in [Block -> Value],
         Unique(ps), Len(qs) = Len(ps) + 1,
         \A i \in 1 .. Len(ps) : SameContents(qs[i], ps[i]),
         qs[Len(qs)].block = NoBlock
  PROVE  Unique(qs) /\ Contents(qs, d) = Contents(ps, d)
<1>0. NoBlock \notin Block
  BY PagerAssumption DEF PagerAssumption
<1>a. Len(ps) \in Nat /\ \A i \in 1 .. Len(qs) : i \in 1 .. Len(ps) \/ i = Len(qs)
  OBVIOUS
<1>1. Unique(qs)
  BY <1>a DEF Unique, SameContents
<1>2. Contents(ps, d) \in [Block -> Value]
  BY ContentsIs
<1>3. \A i \in 1 .. Len(qs) :
         qs[i].block \in Block => Contents(ps, d)[qs[i].block] = qs[i].buf
  BY <1>0, <1>a, ContentsIs DEF SameContents
<1>4. \A b \in Block : (\A i \in 1 .. Len(qs) : qs[i].block # b)
                          => Contents(ps, d)[b] = d[b]
  BY <1>a, ContentsIs DEF SameContents
<1>5. Contents(qs, d) = Contents(ps, d)
  BY <1>1, <1>2, <1>3, <1>4, ContentsFits
<1> QED BY <1>1, <1>5

(* A write to a cached block.                                              *)
LEMMA PutView ==
  ASSUME NEW ps \in Seq(Page), NEW qs \in Seq(Page), NEW d \in [Block -> Value],
         Unique(ps), Len(qs) = Len(ps), NEW k \in 1 .. Len(ps),
         \A i \in 1 .. Len(ps) : i # k => SameContents(qs[i], ps[i]),
         NEW b \in Block, ps[k].block = b, qs[k].block = b,
         NEW v \in Value, qs[k].buf = v
  PROVE  Unique(qs) /\ Contents(qs, d) = Put(Contents(ps, d), b, v)
<1> DEFINE f == [Contents(ps, d) EXCEPT ![b] = v]
<1>0. NoBlock \notin Block
  BY PagerAssumption DEF PagerAssumption
<1>b. \A i \in 1 .. Len(ps) : qs[i].block = ps[i].block
  BY DEF SameContents
<1>1. Unique(qs)
  BY <1>b DEF Unique
<1>2. Contents(ps, d) \in [Block -> Value]
  BY ContentsIs
<1>f. f \in [Block -> Value] /\ f[b] = v
      /\ \A c \in Block : c # b => f[c] = Contents(ps, d)[c]
  BY <1>2
<1> HIDE DEF f
<1>3. ASSUME NEW i \in 1 .. Len(qs), qs[i].block \in Block
      PROVE  f[qs[i].block] = qs[i].buf
  <2>1. CASE i = k
    BY <2>1, <1>f
  <2>2. CASE i # k
    <3>1. qs[i].block # b
      BY <1>0, <1>b, <2>2 DEF Unique
    <3>2. Contents(ps, d)[ps[i].block] = ps[i].buf
      BY <1>3, <1>b, ContentsIs
    <3> QED BY <3>1, <3>2, <1>3, <1>b, <1>f, <2>2 DEF SameContents
  <2> QED BY <2>1, <2>2
<1>4. ASSUME NEW c \in Block, \A i \in 1 .. Len(qs) : qs[i].block # c
      PROVE  f[c] = d[c]
  <2>1. c # b
    BY <1>4
  <2>2. Contents(ps, d)[c] = d[c]
    BY <1>4, <1>b, ContentsIs
  <2> QED BY <2>1, <2>2, <1>f
<1>5. Contents(qs, d) = f
  BY <1>1, <1>f, <1>3, <1>4, ContentsFits
<1> QED BY <1>1, <1>5 DEF f, Put

(* A clean page takes a block that is not cached, as it is on the disk.    *)
LEMMA TakeView ==
  ASSUME NEW ps \in Seq(Page), NEW qs \in Seq(Page), NEW d \in [Block -> Value],
         Unique(ps), Len(qs) = Len(ps), NEW k \in 1 .. Len(ps),
         \A i \in 1 .. Len(ps) : i # k => SameContents(qs[i], ps[i]),
         ps[k].block # NoBlock => ps[k].buf = d[ps[k].block],
         NEW b \in Block, \A i \in 1 .. Len(ps) : ps[i].block # b,
         qs[k].block = b, qs[k].buf = d[b]
  PROVE  Unique(qs) /\ Contents(qs, d) = Contents(ps, d)
<1>0. NoBlock \notin Block /\ ps[k].block \in Block \cup {NoBlock}
  <2>1. ps[k] \in Page
    OBVIOUS
  <2> QED BY <2>1, PageFields, PagerAssumption DEF PagerAssumption
<1>1. Unique(qs)
  <2> SUFFICES ASSUME NEW i \in 1 .. Len(qs), NEW j \in 1 .. Len(qs),
                      qs[i].block = qs[j].block, qs[i].block # NoBlock
               PROVE  i = j
    BY DEF Unique
  <2>1. CASE i = k \/ j = k
    BY <2>1 DEF SameContents
  <2>2. CASE i # k /\ j # k
    BY <2>2 DEF SameContents, Unique
  <2> QED BY <2>1, <2>2
<1>2. Contents(ps, d) \in [Block -> Value]
  BY ContentsIs
<1>3. ASSUME NEW i \in 1 .. Len(qs), qs[i].block \in Block
      PROVE  Contents(ps, d)[qs[i].block] = qs[i].buf
  <2>1. CASE i = k
    BY <2>1, ContentsIs
  <2>2. CASE i # k
    BY <1>3, <2>2, ContentsIs DEF SameContents
  <2> QED BY <2>1, <2>2
<1>4. ASSUME NEW c \in Block, \A i \in 1 .. Len(qs) : qs[i].block # c
      PROVE  Contents(ps, d)[c] = d[c]
  <2>1. CASE ps[k].block = c
    <3>1. Contents(ps, d)[ps[k].block] = ps[k].buf
      BY <2>1, ContentsIs
    <3> QED BY <2>1, <3>1, <1>0
  <2>2. CASE ps[k].block # c
    <3>1. \A i \in 1 .. Len(ps) : ps[i].block # c
      BY <1>4, <2>2 DEF SameContents
    <3> QED BY <3>1, ContentsIs
  <2> QED BY <2>1, <2>2
<1>5. Contents(qs, d) = Contents(ps, d)
  BY <1>1, <1>2, <1>3, <1>4, ContentsFits
<1> QED BY <1>1, <1>5

(* What the disk holds of a cached block does not show ...                 *)
LEMMA HiddenDisk ==
  ASSUME NEW ps \in Seq(Page), NEW d \in [Block -> Value], Unique(ps),
         NEW k \in 1 .. Len(ps), ps[k].block \in Block, NEW v \in Value
  PROVE  Contents(ps, Put(d, ps[k].block, v)) = Contents(ps, d)
<1> DEFINE e == [d EXCEPT ![ps[k].block] = v]
<1>1. e \in [Block -> Value] /\ \A c \in Block : c # ps[k].block => e[c] = d[c]
  OBVIOUS
<1> HIDE DEF e
<1>2. Contents(ps, d) \in [Block -> Value]
  BY ContentsIs
<1>3. \A c \in Block : (\A i \in 1 .. Len(ps) : ps[i].block # c)
                          => Contents(ps, d)[c] = e[c]
  BY <1>1, ContentsIs
<1>4. \A i \in 1 .. Len(ps) :
         ps[i].block \in Block => Contents(ps, d)[ps[i].block] = ps[i].buf
  BY ContentsIs
<1>5. Contents(ps, e) = Contents(ps, d)
  BY <1>1, <1>2, <1>3, <1>4, ContentsFits
<1> QED BY <1>5 DEF e, Put

(* ... and of one that is not cached it is what is seen.                   *)
LEMMA ShownDisk ==
  ASSUME NEW ps \in Seq(Page), NEW d \in [Block -> Value], Unique(ps),
         NEW b \in Block, \A i \in 1 .. Len(ps) : ps[i].block # b, NEW v \in Value
  PROVE  Contents(ps, Put(d, b, v)) = Put(Contents(ps, d), b, v)
<1> DEFINE e == [d EXCEPT ![b] = v]
           f == [Contents(ps, d) EXCEPT ![b] = v]
<1>1. e \in [Block -> Value] /\ e[b] = v /\ \A c \in Block : c # b => e[c] = d[c]
  OBVIOUS
<1>2. Contents(ps, d) \in [Block -> Value]
  BY ContentsIs
<1>f. f \in [Block -> Value] /\ f[b] = v
      /\ \A c \in Block : c # b => f[c] = Contents(ps, d)[c]
  BY <1>2
<1> HIDE DEF e, f
<1>3. \A c \in Block : (\A i \in 1 .. Len(ps) : ps[i].block # c) => f[c] = e[c]
  BY <1>1, <1>f, ContentsIs
<1>4. \A i \in 1 .. Len(ps) : ps[i].block \in Block => f[ps[i].block] = ps[i].buf
  BY <1>f, ContentsIs
<1>5. Contents(ps, e) = f
  BY <1>1, <1>f, <1>3, <1>4, ContentsFits
<1> QED BY <1>5 DEF e, f, Put

(* When every page is clean, or there is none, the disk is what is seen.   *)
LEMMA CleanView ==
  ASSUME NEW ps \in Seq(Page), NEW d \in [Block -> Value], Unique(ps),
         \A i \in 1 .. Len(ps) : ps[i].block # NoBlock => ps[i].buf = d[ps[i].block]
  PROVE  Contents(ps, d) = d
<1>0. NoBlock \notin Block
  BY PagerAssumption DEF PagerAssumption
<1> QED BY <1>0, ContentsFits

-----------------------------------------------------------------------------
(* Lemmas about pages                                                      *)

(* One page is replaced.                                                   *)
LEMMA SetPage ==
  ASSUME NEW ps \in Seq(Page), NEW k \in 1 .. Len(ps), NEW q \in Page
  PROVE  /\ [ps EXCEPT ![k] = q] \in Seq(Page)
         /\ Len([ps EXCEPT ![k] = q]) = Len(ps)
         /\ [ps EXCEPT ![k] = q][k] = q
         /\ \A i \in 1 .. Len(ps) : i # k => [ps EXCEPT ![k] = q][i] = ps[i]
BY ExceptSeq

(* A new time stamp changes the ranks only.                                *)
LEMMA StampLemma ==
  ASSUME NEW ps \in Seq(Page), NEW k \in 1 .. Len(ps)
  PROVE  /\ Stamp(ps, k) \in Seq(Page)
         /\ Len(Stamp(ps, k)) = Len(ps)
         /\ \A i \in 1 .. Len(ps) :
               /\ Stamp(ps, k)[i].block = ps[i].block
               /\ Stamp(ps, k)[i].buf = ps[i].buf
               /\ Stamp(ps, k)[i].dirty = ps[i].dirty
<1> DEFINE rank(i) == IF i = k THEN Len(ps)
                      ELSE IF ps[i].lru > ps[k].lru THEN ps[i].lru - 1 ELSE ps[i].lru
           page(i) == [ps[i] EXCEPT !.lru = rank(i)]
           qs == [i \in 1 .. Len(ps) |-> page(i)]
<1>1. \A i \in 1 .. Len(ps) : ps[i] \in Page
  OBVIOUS
<1>2. \A i \in 1 .. Len(ps) : ps[i].lru \in Nat
  BY <1>1, PageFields
<1>3. \A i \in 1 .. Len(ps) : rank(i) \in Nat
  BY <1>2
<1>4. ASSUME NEW p \in Page, NEW r \in Nat
      PROVE  /\ [p EXCEPT !.lru = r] \in Page
             /\ [p EXCEPT !.lru = r].block = p.block
             /\ [p EXCEPT !.lru = r].buf = p.buf
             /\ [p EXCEPT !.lru = r].dirty = p.dirty
  BY DEF Page
<1>5. Stamp(ps, k) = qs
  BY DEF Stamp
<1> HIDE DEF rank
<1>6. \A i \in 1 .. Len(ps) :
         /\ page(i) \in Page
         /\ page(i).block = ps[i].block
         /\ page(i).buf = ps[i].buf
         /\ page(i).dirty = ps[i].dirty
  BY <1>1, <1>3, <1>4
<1> HIDE DEF page
<1>7. qs \in Seq(Page) /\ Len(qs) = Len(ps)
  <2>1. Len(ps) \in Nat /\ qs \in [1 .. Len(ps) -> Page]
    BY <1>6
  <2> HIDE DEF qs
  <2>2. qs \in Seq(Page)
    BY <2>1, SeqDef
  <2> QED BY <2>1, <2>2
<1>8. \A i \in 1 .. Len(ps) :
         qs[i].block = ps[i].block /\ qs[i].buf = ps[i].buf /\ qs[i].dirty = ps[i].dirty
  BY <1>6
<1> QED BY <1>5, <1>7, <1>8

(* The parts of a page that an action sets.                                *)
LEMMA UsedPart ==
  ASSUME NEW p \in Page, NEW u \in 0 .. Word - 1, NEW q, q = [p EXCEPT !.used = u]
  PROVE  q \in Page /\ SameContents(q, p) /\ q.dirty = p.dirty
BY DEF Page, SameContents

LEMMA CleanPart ==
  ASSUME NEW p \in Page, NEW q, q = [p EXCEPT !.dirty = 0]
  PROVE  q \in Page /\ SameContents(q, p) /\ q.dirty = 0
<1>1. 0 \in 0 .. Word - 1
  BY PagerAssumption DEF PagerAssumption
<1> QED BY <1>1 DEF Page, SameContents

-----------------------------------------------------------------------------
(* What each way of changing the pages does to them.                       *)

LEMMA HitPage ==
  ASSUME NEW ps \in Seq(Page), NEW k \in 1 .. Len(ps), NEW u \in 0 .. Word - 1
  PROVE  LET qs == Stamp([ps EXCEPT ![k].used = u], k) IN
         /\ qs \in Seq(Page) /\ Len(qs) = Len(ps)
         /\ \A i \in 1 .. Len(ps) :
               SameContents(qs[i], ps[i]) /\ qs[i].dirty = ps[i].dirty
<1> DEFINE q == [ps[k] EXCEPT !.used = u]
           rs == [ps EXCEPT ![k] = q]
<1>1. ps[k] \in Page
  OBVIOUS
<1>3. [ps EXCEPT ![k].used = u] = rs
  OBVIOUS
<1>d. q = [ps[k] EXCEPT !.used = u]
  OBVIOUS
<1> HIDE DEF q
<1>2. q \in Page /\ SameContents(q, ps[k]) /\ q.dirty = ps[k].dirty
  BY <1>1, <1>d, UsedPart DEF SameContents
<1>4. /\ rs \in Seq(Page) /\ Len(rs) = Len(ps) /\ rs[k] = q
      /\ \A i \in 1 .. Len(ps) : i # k => rs[i] = ps[i]
  BY <1>2, SetPage
<1> HIDE DEF rs
<1>5. /\ Stamp(rs, k) \in Seq(Page) /\ Len(Stamp(rs, k)) = Len(rs)
      /\ \A i \in 1 .. Len(rs) :
            /\ SameContents(Stamp(rs, k)[i], rs[i])
            /\ Stamp(rs, k)[i].dirty = rs[i].dirty
  BY <1>4, StampLemma DEF SameContents
<1>6. \A i \in 1 .. Len(ps) : SameContents(rs[i], ps[i]) /\ rs[i].dirty = ps[i].dirty
  BY <1>2, <1>4 DEF SameContents
<1> QED BY <1>3, <1>4, <1>5, <1>6 DEF SameContents

LEMMA WritePage ==
  ASSUME NEW ps \in Seq(Page), NEW k \in 1 .. Len(ps), NEW u \in 0 .. Word - 1,
         NEW v \in Value, NEW w \in 0 .. Word - 1
  PROVE  LET qs == Written(ps, k, u, v, w) IN
         /\ qs \in Seq(Page) /\ Len(qs) = Len(ps)
         /\ qs[k].block = ps[k].block /\ qs[k].buf = v /\ qs[k].dirty = w
         /\ \A i \in 1 .. Len(ps) :
               i # k => SameContents(qs[i], ps[i]) /\ qs[i].dirty = ps[i].dirty
<1> DEFINE q == [ps[k] EXCEPT !.used = u, !.buf = v, !.dirty = w]
           rs == [ps EXCEPT ![k] = q]
<1>1. ps[k] \in Page
  OBVIOUS
<1>3. [ps EXCEPT ![k].used = u, ![k].buf = v, ![k].dirty = w] = rs
  OBVIOUS
<1>d. q = [ps[k] EXCEPT !.used = u, !.buf = v, !.dirty = w]
  OBVIOUS
<1> HIDE DEF q
<1>2. q \in Page /\ q.block = ps[k].block /\ q.buf = v /\ q.dirty = w
  <2> DEFINE p == ps[k]
  <2>1. p \in Page /\ q = [p EXCEPT !.used = u, !.buf = v, !.dirty = w]
    BY <1>1, <1>d
  <2> HIDE DEF p
  <2>2. q \in Page /\ q.block = p.block /\ q.buf = v /\ q.dirty = w
    BY <2>1 DEF Page
  <2> QED BY <2>2 DEF p
<1>4. /\ rs \in Seq(Page) /\ Len(rs) = Len(ps) /\ rs[k] = q
      /\ \A i \in 1 .. Len(ps) : i # k => rs[i] = ps[i]
  BY <1>2, SetPage
<1> HIDE DEF rs
<1>5. /\ Stamp(rs, k) \in Seq(Page) /\ Len(Stamp(rs, k)) = Len(rs)
      /\ \A i \in 1 .. Len(rs) :
            /\ SameContents(Stamp(rs, k)[i], rs[i])
            /\ Stamp(rs, k)[i].dirty = rs[i].dirty
  BY <1>4, StampLemma DEF SameContents
<1> QED BY <1>2, <1>3, <1>4, <1>5 DEF SameContents, Written

LEMMA RefillPage ==
  ASSUME NEW ps \in Seq(Page), NEW k \in 1 .. Len(ps), NEW b \in Block, NEW v \in Value
  PROVE  LET qs == Refilled(ps, k, b, v) IN
         /\ qs \in Seq(Page) /\ Len(qs) = Len(ps)
         /\ qs[k].block = b /\ qs[k].buf = v /\ qs[k].dirty = 0
         /\ \A i \in 1 .. Len(ps) :
               i # k => SameContents(qs[i], ps[i]) /\ qs[i].dirty = ps[i].dirty
<1> DEFINE q == [ps[k] EXCEPT !.block = b, !.buf = v, !.dirty = 0, !.used = 1]
           rs == [ps EXCEPT ![k] = q]
<1>1. ps[k] \in Page
  OBVIOUS
<1>3. [ps EXCEPT ![k].block = b, ![k].buf = v, ![k].dirty = 0, ![k].used = 1] = rs
  OBVIOUS
<1>d. q = [ps[k] EXCEPT !.block = b, !.buf = v, !.dirty = 0, !.used = 1]
  OBVIOUS
<1> HIDE DEF q
<1>2. q \in Page /\ q.block = b /\ q.buf = v /\ q.dirty = 0
  <2> DEFINE p == ps[k]
  <2>0. 0 \in 0 .. Word - 1 /\ 1 \in 0 .. Word - 1 /\ b \in Block \cup {NoBlock}
    BY PagerAssumption DEF PagerAssumption
  <2>1. p \in Page /\ q = [p EXCEPT !.block = b, !.buf = v, !.dirty = 0, !.used = 1]
    BY <1>1, <1>d
  <2> HIDE DEF p
  <2>2. q \in Page /\ q.block = b /\ q.buf = v /\ q.dirty = 0
    BY <2>0, <2>1 DEF Page
  <2> QED BY <2>2 DEF p
<1>4. /\ rs \in Seq(Page) /\ Len(rs) = Len(ps) /\ rs[k] = q
      /\ \A i \in 1 .. Len(ps) : i # k => rs[i] = ps[i]
  BY <1>2, SetPage
<1> HIDE DEF rs
<1>5. /\ Stamp(rs, k) \in Seq(Page) /\ Len(Stamp(rs, k)) = Len(rs)
      /\ \A i \in 1 .. Len(rs) :
            /\ SameContents(Stamp(rs, k)[i], rs[i])
            /\ Stamp(rs, k)[i].dirty = rs[i].dirty
  BY <1>4, StampLemma DEF SameContents
<1>6. /\ Stamp(rs, k)[k].block = b /\ Stamp(rs, k)[k].buf = v /\ Stamp(rs, k)[k].dirty = 0
      /\ \A i \in 1 .. Len(ps) :
            i # k => /\ SameContents(Stamp(rs, k)[i], ps[i])
                     /\ Stamp(rs, k)[i].dirty = ps[i].dirty
  BY <1>2, <1>4, <1>5 DEF SameContents
<1> QED BY <1>3, <1>4, <1>5, <1>6 DEF Refilled

LEMMA CleanPage ==
  ASSUME NEW ps \in Seq(Page), NEW k \in 1 .. Len(ps)
  PROVE  LET qs == Cleaned(ps, k) IN
         /\ qs \in Seq(Page) /\ Len(qs) = Len(ps)
         /\ \A i \in 1 .. Len(ps) : SameContents(qs[i], ps[i])
         /\ \A i \in 1 .. Len(ps) : qs[i].dirty = IF i = k THEN 0 ELSE ps[i].dirty
<1> DEFINE q == [ps[k] EXCEPT !.dirty = 0]
           rs == [ps EXCEPT ![k] = q]
<1>0. 0 \in 0 .. Word - 1
  BY PagerAssumption DEF PagerAssumption
<1>1. ps[k] \in Page
  OBVIOUS
<1>3. [ps EXCEPT ![k].dirty = 0] = rs
  OBVIOUS
<1>d. q = [ps[k] EXCEPT !.dirty = 0]
  OBVIOUS
<1> HIDE DEF q
<1>2. q \in Page /\ SameContents(q, ps[k]) /\ q.dirty = 0
  BY <1>1, <1>d, CleanPart DEF SameContents
<1>4. /\ rs \in Seq(Page) /\ Len(rs) = Len(ps) /\ rs[k] = q
      /\ \A i \in 1 .. Len(ps) : i # k => rs[i] = ps[i]
  BY <1>2, SetPage
<1> HIDE DEF rs
<1> QED BY <1>2, <1>3, <1>4 DEF SameContents, Cleaned

LEMMA AppendPage ==
  ASSUME NEW ps \in Seq(Page), NEW q \in Page
  PROVE  /\ Append(ps, q) \in Seq(Page)
         /\ Len(Append(ps, q)) = Len(ps) + 1
         /\ Append(ps, q)[Len(ps) + 1] = q
         /\ \A i \in 1 .. Len(ps) : Append(ps, q)[i] = ps[i]
BY AppendProperties

-----------------------------------------------------------------------------
(* The inductive invariant                                                 *)

(* A clean page is as the disk has it; a page without a block is clean.    *)
PageOK(p, d) ==
  /\ p.dirty <= MaxDeferred
  /\ p.block = NoBlock => p.dirty = 0
  /\ p.block # NoBlock /\ p.dirty = 0 => p.buf = d[p.block]

PagesOK(ps, d) ==
  /\ ps \in Seq(Page)
  /\ Unique(ps)
  /\ \A i \in 1 .. Len(ps) : PageOK(ps[i], d)

Uncached(ps, b) == \A i \in 1 .. Len(ps) : ps[i].block # b

(* The block a page is being filled with is in no page, and if it was      *)
(* written the disk has it; the pages a flush has passed are clean.        *)
FillFits(ps, d, o, i, b, v, write) ==
  /\ o = Fill(i, b, v, write)
  /\ Uncached(ps, b)
  /\ write => d[b] = v

FlushFits(ps, o, n, free) ==
  /\ o = Flush(n, free)
  /\ \A i \in 1 .. n - 1 : ps[i].dirty = 0

OpFits(ps, d, o) ==
  \/ o = Idle
  \/ \E i \in 1 .. Len(ps), b \in Block, v \in Value, write \in BOOLEAN :
        FillFits(ps, d, o, i, b, v, write)
  \/ \E n \in 1 .. Len(ps) + 1, free \in BOOLEAN : FlushFits(ps, o, n, free)

ReplyOK == reply = NoReply \/ reply \in [block : Block, value : Value]

IInv ==
  /\ disk \in [Block -> Value]
  /\ PagesOK(pages, disk)
  /\ OpFits(pages, disk, op)
  /\ ReplyOK

(* Where the operation is, from the form of its record.                    *)
LEMMA OpForms ==
  ASSUME NEW ps, NEW d, NEW o, OpFits(ps, d, o)
  PROVE  /\ o.at = "fill" =>
               /\ o.page \in 1 .. Len(ps) /\ o.block \in Block
               /\ o.buf \in Value /\ o.write \in BOOLEAN
               /\ FillFits(ps, d, o, o.page, o.block, o.buf, o.write)
         /\ o.at = "flush" =>
               /\ o.n \in 1 .. Len(ps) + 1 /\ o.free \in BOOLEAN
               /\ FlushFits(ps, o, o.n, o.free)
<1>1. CASE o = Idle
  BY <1>1 DEF Idle
<1>2. CASE \E i \in 1 .. Len(ps), b \in Block, v \in Value, write \in BOOLEAN :
             FillFits(ps, d, o, i, b, v, write)
  <2>1. PICK i \in 1 .. Len(ps), b \in Block, v \in Value, write \in BOOLEAN :
             FillFits(ps, d, o, i, b, v, write)
    BY <1>2
  <2>2. /\ o.at = "fill" /\ o.page = i /\ o.block = b /\ o.buf = v /\ o.write = write
    BY <2>1 DEF FillFits, Fill
  <2> QED BY <2>1, <2>2
<1>3. CASE \E n \in 1 .. Len(ps) + 1, free \in BOOLEAN : FlushFits(ps, o, n, free)
  <2>1. PICK n \in 1 .. Len(ps) + 1, free \in BOOLEAN : FlushFits(ps, o, n, free)
    BY <1>3
  <2>2. o.at = "flush" /\ o.n = n /\ o.free = free
    BY <2>1 DEF FlushFits, Flush
  <2> QED BY <2>1, <2>2
<1> QED BY <1>1, <1>2, <1>3 DEF OpFits

(* The invariant is the three state properties, and more.                  *)
LEMMA IInvGives ==
  ASSUME IInv, MaxDeferred < Word
  PROVE  TypeOK /\ OneCopy /\ DeferredMarked
<1>1. OpOK
  BY DEF IInv, OpFits, OpOK, FillFits, FlushFits
<1>2. TypeOK
  BY <1>1 DEF IInv, PagesOK, ReplyOK, TypeOK
<1>3. OneCopy
  BY DEF IInv, PagesOK, Unique, OneCopy
<1>4. DeferredMarked
  BY DEF IInv, PagesOK, PageOK, DeferredMarked
<1> QED BY <1>2, <1>3, <1>4

LEMMA InitLemma == Init => IInv /\ Device!Init
<1> SUFFICES ASSUME Init PROVE IInv /\ Device!Init
  OBVIOUS
<1>0. disk \in [Block -> Value] /\ pages \in Seq(Page) /\ Len(pages) = 0
  BY DEF Init
<1>1. PagesOK(pages, disk)
  BY <1>0 DEF PagesOK, Unique
<1>2. IInv
  BY <1>1 DEF Init, IInv, OpFits, ReplyOK
<1>3. Contents(pages, disk) = disk
  <2>1. Unique(pages)
    BY <1>1 DEF PagesOK
  <2>2. \A i \in 1 .. Len(pages) :
           pages[i].block # NoBlock => pages[i].buf = disk[pages[i].block]
    BY <1>0
  <2> QED BY <1>0, <2>1, <2>2, CleanView
<1> QED BY <1>2, <1>3 DEF Init, Device!Init, View

-----------------------------------------------------------------------------
(* Each action keeps the invariant and is a step of the device.            *)

(* What the invariant says of a page.                                      *)
LEMMA PageGives ==
  ASSUME NEW ps, NEW d, PagesOK(ps, d), NEW k \in 1 .. Len(ps)
  PROVE  /\ ps[k] \in Page /\ PageOK(ps[k], d)
         /\ ps[k].block \in Block \cup {NoBlock} /\ ps[k].buf \in Value
         /\ ps[k].dirty \in 0 .. Word - 1 /\ ps[k].used \in 0 .. Word - 1
<1>1. ps[k] \in Page
  BY DEF PagesOK
<1> QED BY <1>1, PageFields DEF PagesOK

LEMMA IncRange ==
  ASSUME NEW c \in 0 .. Word - 1
  PROVE  Inc(c, 1) \in 0 .. Word - 1
BY PagerAssumption DEF PagerAssumption, Inc

(* A block found in a page is read from it.                                *)
LEMMA HitSeen ==
  ASSUME NEW ps, NEW d \in [Block -> Value], PagesOK(ps, d),
         NEW k \in 1 .. Len(ps), ps[k].block \in Block
  PROVE  Contents(ps, d)[ps[k].block] = ps[k].buf
BY ContentsIs DEF PagesOK

LEMMA ReadHitStep ==
  ASSUME IInv, NEW b \in Block, ReadHit(b)
  PROVE  IInv' /\ Device!Read(b)
<1>1. PICK k \in 1 .. Len(pages) :
         /\ Hit(b, k)
         /\ pages' = Stamp([pages EXCEPT ![k].used = Inc(@, 1)], k)
         /\ reply' = [block |-> b, value |-> pages[k].buf]
  BY DEF ReadHit
<1>2. disk' = disk /\ op' = op /\ op = Idle
  BY DEF ReadHit
<1>3. pages[k].used \in 0 .. Word - 1 /\ pages[k].buf \in Value
  BY PageGives DEF IInv
<1> DEFINE u == Inc(pages[k].used, 1)
<1>4. u \in 0 .. Word - 1
  BY <1>3, IncRange
<1>5. pages' = Stamp([pages EXCEPT ![k].used = u], k)
  BY <1>1
<1> HIDE DEF u
<1>6. /\ pages' \in Seq(Page) /\ Len(pages') = Len(pages)
      /\ \A i \in 1 .. Len(pages) :
            SameContents(pages'[i], pages[i]) /\ pages'[i].dirty = pages[i].dirty
  BY <1>4, <1>5, HitPage DEF IInv, PagesOK
<1>7. Unique(pages') /\ Contents(pages', disk) = Contents(pages, disk)
  BY <1>6, SameView DEF IInv, PagesOK
<1>8. PagesOK(pages', disk')
  BY <1>2, <1>6, <1>7 DEF IInv, PagesOK, PageOK, SameContents
<1>9. IInv'
  BY <1>1, <1>2, <1>3, <1>8 DEF IInv, OpFits, ReplyOK
<1>10. Contents(pages, disk)[b] = pages[k].buf
  BY <1>1, HitSeen DEF IInv, Hit
<1> QED BY <1>1, <1>2, <1>7, <1>9, <1>10 DEF Device!Read, View

(* ufs_pager_lru_page adds a page that shows nothing, or changes no page.  *)
LEMMA LruPageStep ==
  ASSUME NEW d \in [Block -> Value], PagesOK(pages, d),
         NEW b \in Block, Uncached(pages, b), NEW v \in Value, NEW write \in BOOLEAN,
         write => d[b] = v, LruPage(b, v, write)
  PROVE  /\ PagesOK(pages', d) /\ OpFits(pages', d, op')
         /\ Contents(pages', d) = Contents(pages, d)
<1>0. NoBlock \notin Block /\ 0 \in 0 .. Word - 1 /\ Blank \in Value /\ MaxDeferred \in Nat
  BY PagerAssumption DEF PagerAssumption
<1>1. CASE pages' = Append(pages, NewPage) /\ op' = Fill(Len(pages) + 1, b, v, write)
  <2>1. NewPage \in Page /\ NewPage.block = NoBlock /\ NewPage.dirty = 0
    <3>1. Len(pages) + 1 \in Nat
      BY DEF PagesOK
    <3> QED BY <1>0, <3>1 DEF NewPage, Page
  <2>2. /\ pages' \in Seq(Page) /\ Len(pages') = Len(pages) + 1
        /\ pages'[Len(pages) + 1] = NewPage
        /\ \A i \in 1 .. Len(pages) : pages'[i] = pages[i]
    BY <1>1, <2>1, AppendPage DEF PagesOK
  <2>3. Unique(pages') /\ Contents(pages', d) = Contents(pages, d)
    BY <2>1, <2>2, AddView DEF PagesOK, SameContents
  <2>4. Len(pages) \in Nat
        /\ \A i \in 1 .. Len(pages') : i \in 1 .. Len(pages) \/ i = Len(pages) + 1
    BY <2>2 DEF PagesOK
  <2>5. PageOK(NewPage, d)
    BY <1>0, <2>1 DEF PageOK
  <2>6. PagesOK(pages', d)
    BY <2>2, <2>3, <2>4, <2>5 DEF PagesOK
  <2>7. Uncached(pages', b)
    BY <1>0, <2>1, <2>2, <2>4 DEF Uncached
  <2>8. FillFits(pages', d, op', Len(pages) + 1, b, v, write)
    BY <1>1, <2>7 DEF FillFits
  <2>9. Len(pages) + 1 \in 1 .. Len(pages')
    BY <2>2, <2>4
  <2> QED BY <2>3, <2>6, <2>8, <2>9 DEF OpFits
<1>2. CASE pages' = pages /\ \E i \in 1 .. Len(pages) : op' = Fill(i, b, v, write)
  BY <1>2 DEF OpFits, FillFits
<1> QED BY <1>1, <1>2 DEF LruPage

LEMMA ReadMissStep ==
  ASSUME IInv, NEW b \in Block, ReadMiss(b)
  PROVE  IInv' /\ Device!Silent
<1>0. Blank \in Value
  BY PagerAssumption DEF PagerAssumption
<1>1. disk' = disk /\ reply' = NoReply /\ Uncached(pages, b)
  BY DEF ReadMiss, Cached, Uncached
<1>2. CASE LruPage(b, Blank, FALSE)
  <2>1. /\ PagesOK(pages', disk) /\ OpFits(pages', disk, op')
        /\ Contents(pages', disk) = Contents(pages, disk)
    BY <1>0, <1>1, <1>2, LruPageStep DEF IInv
  <2> QED BY <1>1, <2>1 DEF IInv, ReplyOK, Device!Silent, View
<1>3. CASE NoPage
  BY <1>1, <1>3 DEF NoPage, IInv, OpFits, ReplyOK, Device!Silent, View
<1> QED BY <1>2, <1>3 DEF ReadMiss

(* The mark of a written page is not zero: here the counter must not wrap. *)
LEMMA IncDirtyRange ==
  ASSUME MaxDeferred < Word, NEW c \in 0 .. Word - 1, c < MaxDeferred
  PROVE  /\ IncDirty(c) \in 0 .. Word - 1
         /\ IncDirty(c) # 0 /\ IncDirty(c) <= MaxDeferred
BY PagerAssumption DEF PagerAssumption, IncDirty

LEMMA WriteHitStep ==
  ASSUME IInv, MaxDeferred < Word, NEW b \in Block, NEW v \in Value, WriteHit(b, v)
  PROVE  IInv' /\ Device!Write(b, v)
<1>1. PICK k \in 1 .. Len(pages) :
         /\ Hit(b, k)
         /\ pages[k].dirty < MaxDeferred
         /\ pages' = Stamp([pages EXCEPT ![k].used = Inc(@, 1), ![k].buf = v,
                                         ![k].dirty = IncDirty(@)], k)
  BY DEF WriteHit
<1>2. disk' = disk /\ op' = op /\ op = Idle /\ reply' = NoReply
  BY DEF WriteHit
<1>3. /\ pages[k].used \in 0 .. Word - 1 /\ pages[k].dirty \in 0 .. Word - 1
      /\ pages[k] \in Page
  BY PageGives DEF IInv
<1> DEFINE u == Inc(pages[k].used, 1)
           w == IncDirty(pages[k].dirty)
<1>4. u \in 0 .. Word - 1 /\ w \in 0 .. Word - 1 /\ w # 0 /\ w <= MaxDeferred
  BY <1>1, <1>3, IncRange, IncDirtyRange
<1>5. pages' = Written(pages, k, u, v, w)
  <2>1. [pages EXCEPT ![k].used = Inc(@, 1), ![k].buf = v, ![k].dirty = IncDirty(@)]
          = [pages EXCEPT ![k] = [pages[k] EXCEPT !.used = u, !.buf = v, !.dirty = w]]
    BY <1>3 DEF Page
  <2>2. [pages EXCEPT ![k].used = u, ![k].buf = v, ![k].dirty = w]
          = [pages EXCEPT ![k] = [pages[k] EXCEPT !.used = u, !.buf = v, !.dirty = w]]
    BY <1>3 DEF Page
  <2> QED BY <1>1, <2>1, <2>2 DEF Written
<1> HIDE DEF u, w
<1>6. /\ pages' \in Seq(Page) /\ Len(pages') = Len(pages)
      /\ pages'[k].block = pages[k].block /\ pages'[k].buf = v /\ pages'[k].dirty = w
      /\ \A i \in 1 .. Len(pages) :
            i # k => SameContents(pages'[i], pages[i]) /\ pages'[i].dirty = pages[i].dirty
  <2>1. pages \in Seq(Page)
    BY DEF IInv, PagesOK
  <2> DEFINE qs == Written(pages, k, u, v, w)
  <2>2. /\ qs \in Seq(Page) /\ Len(qs) = Len(pages)
        /\ qs[k].block = pages[k].block /\ qs[k].buf = v /\ qs[k].dirty = w
        /\ \A i \in 1 .. Len(pages) :
              i # k => SameContents(qs[i], pages[i]) /\ qs[i].dirty = pages[i].dirty
    BY <1>4, <2>1, WritePage
  <2> QED BY <1>5, <2>2
<1>7. /\ Unique(pages')
      /\ Contents(pages', disk) = Put(Contents(pages, disk), b, v)
  <2>1. pages \in Seq(Page) /\ Unique(pages) /\ disk \in [Block -> Value]
    BY DEF IInv, PagesOK
  <2>2. pages[k].block = b /\ pages'[k].block = b
    BY <1>1, <1>6 DEF Hit
  <2> QED BY <1>6, <2>1, <2>2, PutView
<1>8. NoBlock \notin Block
  BY PagerAssumption DEF PagerAssumption
<1>9. \A i \in 1 .. Len(pages) : PageOK(pages'[i], disk)
  <2>1. PageOK(pages'[k], disk)
    BY <1>1, <1>4, <1>6, <1>8 DEF PageOK, Hit
  <2>2. ASSUME NEW i \in 1 .. Len(pages), i # k PROVE PageOK(pages'[i], disk)
    BY <1>6, <2>2 DEF IInv, PagesOK, PageOK, SameContents
  <2> QED BY <2>1, <2>2
<1>10. IInv'
  BY <1>2, <1>6, <1>7, <1>9 DEF IInv, PagesOK, OpFits, ReplyOK
<1> QED BY <1>2, <1>7, <1>10 DEF Device!Write, View, Put

(* The disk takes a block that is in no page.                              *)
LEMMA UncachedDisk ==
  ASSUME NEW ps, NEW d \in [Block -> Value], PagesOK(ps, d),
         NEW b \in Block, Uncached(ps, b), NEW v \in Value
  PROVE  /\ PagesOK(ps, Put(d, b, v))
         /\ Contents(ps, Put(d, b, v)) = Put(Contents(ps, d), b, v)
<1>1. \A c \in Block : c # b => Put(d, b, v)[c] = d[c]
  BY DEF Put
<1>2. Contents(ps, Put(d, b, v)) = Put(Contents(ps, d), b, v)
  BY ShownDisk DEF PagesOK, Uncached
<1>3. \A i \in 1 .. Len(ps) : ps[i].block \in Block \cup {NoBlock} /\ ps[i].block # b
  BY PageGives DEF Uncached
<1>4. PagesOK(ps, Put(d, b, v))
  BY <1>1, <1>3 DEF PagesOK, PageOK
<1> QED BY <1>2, <1>4

LEMMA WriteMissStep ==
  ASSUME IInv, NEW b \in Block, NEW v \in Value, WriteMiss(b, v)
  PROVE  IInv' /\ Device!Write(b, v)
<1>1. /\ disk' = Put(disk, b, v) /\ reply' = NoReply /\ Uncached(pages, b)
      /\ disk' \in [Block -> Value] /\ disk'[b] = v
  BY DEF IInv, WriteMiss, Cached, Uncached, Put
<1>2. /\ PagesOK(pages, disk')
      /\ Contents(pages, disk') = Put(Contents(pages, disk), b, v)
  BY <1>1, UncachedDisk DEF IInv
<1>3. CASE LruPage(b, v, TRUE)
  <2>1. /\ PagesOK(pages', disk') /\ OpFits(pages', disk', op')
        /\ Contents(pages', disk') = Contents(pages, disk')
    BY <1>1, <1>2, <1>3, LruPageStep
  <2> QED BY <1>1, <1>2, <2>1 DEF IInv, ReplyOK, Device!Write, View, Put
<1>4. CASE NoPage
  BY <1>1, <1>2, <1>4 DEF NoPage, IInv, OpFits, ReplyOK, Device!Write, View, Put
<1> QED BY <1>3, <1>4 DEF WriteMiss

LEMMA QuietStep ==
  ASSUME IInv, disk' = disk, pages' = pages, op' = Idle, reply' = NoReply
  PROVE  IInv' /\ Device!Silent
BY DEF IInv, OpFits, ReplyOK, Device!Silent, View

LEMMA WriteMissFailsStep ==
  ASSUME IInv, NEW b \in Block, WriteMissFails(b)
  PROVE  IInv' /\ Device!Silent
BY QuietStep DEF WriteMissFails

(* A dirty page goes to the disk.  The block it has is not the one that is *)
(* being brought in, so what the operation has done so far stands.         *)
LEMMA PageFlushStep ==
  ASSUME IInv, NEW k \in 1 .. Len(pages), pages[k].dirty # 0, PageFlush(k)
  PROVE  /\ disk' \in [Block -> Value] /\ PagesOK(pages', disk')
         /\ Len(pages') = Len(pages)
         /\ \A i \in 1 .. Len(pages) :
               /\ pages'[i].block = pages[i].block
               /\ i = k \/ pages[i].dirty = 0 => pages'[i].dirty = 0
         /\ \A b \in Block : Uncached(pages, b) => disk'[b] = disk[b]
         /\ reply' = NoReply => Device!WriteBack(pages[k].block)
         /\ pages[k].block \in Block
<1>0. /\ pages \in Seq(Page) /\ Unique(pages) /\ disk \in [Block -> Value]
      /\ PagesOK(pages, disk)
  BY DEF IInv, PagesOK
<1>1. pages[k].block \in Block /\ pages[k].buf \in Value
  BY <1>0, PageGives DEF PageOK
<1>2. pages' = Cleaned(pages, k) /\ disk' = Put(disk, pages[k].block, pages[k].buf)
  BY DEF PageFlush, Cleaned, Put
<1>3. /\ pages' \in Seq(Page) /\ Len(pages') = Len(pages)
      /\ \A i \in 1 .. Len(pages) : SameContents(pages'[i], pages[i])
      /\ \A i \in 1 .. Len(pages) :
            pages'[i].dirty = IF i = k THEN 0 ELSE pages[i].dirty
  BY <1>0, <1>2, CleanPage
<1>4. /\ disk' \in [Block -> Value] /\ disk'[pages[k].block] = pages[k].buf
      /\ \A b \in Block : b # pages[k].block => disk'[b] = disk[b]
  BY <1>0, <1>1, <1>2 DEF Put
<1>5. Unique(pages') /\ Contents(pages', disk') = Contents(pages, disk')
  BY <1>0, <1>3, <1>4, SameView
<1>6. Contents(pages, disk') = Contents(pages, disk)
  BY <1>0, <1>1, <1>2, HiddenDisk
<1>7. \A i \in 1 .. Len(pages) : PageOK(pages'[i], disk')
  <2>0. MaxDeferred \in Nat
    BY PagerAssumption DEF PagerAssumption
  <2>1. PageOK(pages'[k], disk')
    BY <1>3, <1>4, <2>0 DEF PageOK, SameContents
  <2>2. ASSUME NEW i \in 1 .. Len(pages), i # k PROVE PageOK(pages'[i], disk')
    <3>1. PageOK(pages[i], disk) /\ pages[i].block \in Block \cup {NoBlock}
      BY <1>0, PageGives
    <3>2. pages[i].block # NoBlock => pages[i].block # pages[k].block
      BY <1>0, <2>2 DEF Unique
    <3> QED BY <1>3, <1>4, <2>2, <3>1, <3>2 DEF PageOK, SameContents
  <2> QED BY <2>1, <2>2
<1>8. PagesOK(pages', disk')
  BY <1>3, <1>5, <1>7 DEF PagesOK
<1>9. Contents(pages, disk)[pages[k].block] = pages[k].buf
  BY <1>0, <1>1, HitSeen
<1>10. reply' = NoReply => Device!WriteBack(pages[k].block)
  BY <1>2, <1>5, <1>6, <1>9 DEF Device!WriteBack, View, Put
<1>11. \A b \in Block : Uncached(pages, b) => disk'[b] = disk[b]
  BY <1>4 DEF Uncached
<1>12. \A i \in 1 .. Len(pages) :
          /\ pages'[i].block = pages[i].block
          /\ i = k \/ pages[i].dirty = 0 => pages'[i].dirty = 0
  BY <1>3 DEF SameContents
<1> QED BY <1>1, <1>3, <1>4, <1>8, <1>10, <1>11, <1>12

LEMMA EvictStep ==
  ASSUME IInv, Evict
  PROVE  IInv' /\ \E b \in Block : Device!WriteBack(b)
<1>1. /\ op.page \in 1 .. Len(pages) /\ op.block \in Block
      /\ op.buf \in Value /\ op.write \in BOOLEAN
      /\ FillFits(pages, disk, op, op.page, op.block, op.buf, op.write)
  BY OpForms DEF IInv, Evict
<1>2. /\ pages[op.page].dirty # 0 /\ PageFlush(op.page)
      /\ op' = op /\ reply' = NoReply
  BY DEF Evict
<1>3. /\ disk' \in [Block -> Value] /\ PagesOK(pages', disk')
      /\ Len(pages') = Len(pages)
      /\ \A i \in 1 .. Len(pages) : pages'[i].block = pages[i].block
      /\ \A b \in Block : Uncached(pages, b) => disk'[b] = disk[b]
      /\ Device!WriteBack(pages[op.page].block) /\ pages[op.page].block \in Block
  BY <1>1, <1>2, PageFlushStep
<1>4. FillFits(pages', disk', op', op.page, op.block, op.buf, op.write)
  BY <1>1, <1>2, <1>3 DEF FillFits, Uncached
<1>5. OpFits(pages', disk', op')
  BY <1>1, <1>3, <1>4 DEF OpFits
<1> QED BY <1>2, <1>3, <1>5 DEF IInv, ReplyOK

LEMMA FlushPageStep ==
  ASSUME IInv, FlushPage
  PROVE  IInv' /\ (Device!Silent \/ \E b \in Block : Device!WriteBack(b))
<1>1. /\ op.n \in 1 .. Len(pages) /\ op.free \in BOOLEAN
      /\ FlushFits(pages, op, op.n, op.free)
  BY OpForms DEF IInv, PagesOK, FlushPage
<1>2. op' = Flush(op.n + 1, op.free) /\ reply' = NoReply
  BY DEF FlushPage
<1>a. Len(pages) \in Nat /\ op.n + 1 \in 1 .. Len(pages) + 1
  BY <1>1 DEF IInv, PagesOK
<1>3. CASE pages[op.n].dirty # 0
  <2>1. PageFlush(op.n)
    BY <1>3 DEF FlushPage
  <2>2. /\ disk' \in [Block -> Value] /\ PagesOK(pages', disk')
        /\ Len(pages') = Len(pages)
        /\ \A i \in 1 .. Len(pages) :
              i = op.n \/ pages[i].dirty = 0 => pages'[i].dirty = 0
        /\ Device!WriteBack(pages[op.n].block) /\ pages[op.n].block \in Block
    BY <1>1, <1>2, <1>3, <2>1, PageFlushStep
  <2>3. \A i \in 1 .. op.n : pages'[i].dirty = 0
    BY <1>1, <2>2 DEF FlushFits
  <2>4. FlushFits(pages', op', op.n + 1, op.free)
    BY <1>1, <1>2, <2>3 DEF FlushFits
  <2>5. OpFits(pages', disk', op')
    BY <1>1, <1>a, <2>2, <2>4 DEF OpFits
  <2> QED BY <1>2, <2>2, <2>5 DEF IInv, ReplyOK
<1>4. CASE pages[op.n].dirty = 0
  <2>1. disk' = disk /\ pages' = pages
    BY <1>4 DEF FlushPage
  <2>2. \A i \in 1 .. op.n : pages[i].dirty = 0
    BY <1>1, <1>4 DEF FlushFits
  <2>3. FlushFits(pages, op', op.n + 1, op.free)
    BY <1>1, <1>2, <2>2 DEF FlushFits
  <2>4. OpFits(pages', disk', op')
    BY <1>1, <1>a, <2>1, <2>3 DEF OpFits
  <2>5. IInv'
    BY <1>2, <2>1, <2>4 DEF IInv, ReplyOK
  <2> QED BY <1>2, <2>1, <2>5 DEF Device!Silent, View
<1> QED BY <1>3, <1>4

(* The page that was emptied takes the block, as the disk has it.          *)
LEMMA RefillStep ==
  ASSUME IInv, NEW v \in Value, Refill(v), v = disk[op.block]
  PROVE  /\ PagesOK(pages', disk') /\ disk' = disk /\ op' = Idle /\ op.block \in Block
         /\ Contents(pages', disk') = Contents(pages, disk)
         /\ Contents(pages, disk)[op.block] = v
<1>0. /\ pages \in Seq(Page) /\ Unique(pages) /\ disk \in [Block -> Value]
      /\ PagesOK(pages, disk)
  BY DEF IInv, PagesOK
<1>1. op.page \in 1 .. Len(pages) /\ op.block \in Block /\ Uncached(pages, op.block)
  BY OpForms DEF IInv, Refill, FillFits
<1>2. /\ pages[op.page].dirty = 0
      /\ pages' = Refilled(pages, op.page, op.block, v)
      /\ op' = Idle /\ disk' = disk
  BY DEF Refill, Refilled
<1>3. /\ pages' \in Seq(Page) /\ Len(pages') = Len(pages)
      /\ pages'[op.page].block = op.block /\ pages'[op.page].buf = v
      /\ pages'[op.page].dirty = 0
      /\ \A i \in 1 .. Len(pages) :
            i # op.page => /\ SameContents(pages'[i], pages[i])
                           /\ pages'[i].dirty = pages[i].dirty
  <2> DEFINE qs == Refilled(pages, op.page, op.block, v)
  <2>1. /\ qs \in Seq(Page) /\ Len(qs) = Len(pages)
        /\ qs[op.page].block = op.block /\ qs[op.page].buf = v
        /\ qs[op.page].dirty = 0
        /\ \A i \in 1 .. Len(pages) :
              i # op.page => /\ SameContents(qs[i], pages[i])
                             /\ qs[i].dirty = pages[i].dirty
    BY <1>0, <1>1, RefillPage
  <2> QED BY <1>2, <2>1
<1>4. pages[op.page].block # NoBlock
        => pages[op.page].buf = disk[pages[op.page].block]
  BY <1>0, <1>1, <1>2 DEF PagesOK, PageOK
<1>5. \A i \in 1 .. Len(pages) : pages[i].block # op.block
  BY <1>1 DEF Uncached
<1>6. Unique(pages') /\ Contents(pages', disk) = Contents(pages, disk)
  BY <1>0, <1>1, <1>3, <1>4, <1>5, TakeView
<1>7. \A i \in 1 .. Len(pages) : PageOK(pages'[i], disk)
  <2>0. MaxDeferred \in Nat
    BY PagerAssumption DEF PagerAssumption
  <2>1. PageOK(pages'[op.page], disk)
    BY <1>3, <2>0 DEF PageOK
  <2>2. ASSUME NEW i \in 1 .. Len(pages), i # op.page PROVE PageOK(pages'[i], disk)
    BY <1>0, <1>3, <2>2 DEF PagesOK, PageOK, SameContents
  <2> QED BY <2>1, <2>2
<1>8. PagesOK(pages', disk')
  BY <1>2, <1>3, <1>6, <1>7 DEF PagesOK
<1>9. Contents(pages, disk)[op.block] = disk[op.block]
  BY <1>0, <1>1, <1>5, ContentsIs
<1> QED BY <1>1, <1>2, <1>6, <1>8, <1>9

LEMMA ReadRefillStep ==
  ASSUME IInv, ReadRefill
  PROVE  IInv' /\ \E b \in Block : Device!Read(b)
<1>0. op.block \in Block /\ disk[op.block] \in Value
  BY OpForms DEF IInv, ReadRefill
<1>1. /\ PagesOK(pages', disk') /\ disk' = disk /\ op' = Idle
      /\ Contents(pages', disk') = Contents(pages, disk)
      /\ Contents(pages, disk)[op.block] = disk[op.block]
  BY <1>0, RefillStep DEF ReadRefill
<1>2. reply' = [block |-> op.block, value |-> disk[op.block]]
  BY DEF ReadRefill
<1>3. IInv'
  BY <1>0, <1>1, <1>2 DEF IInv, OpFits, ReplyOK
<1>4. Device!Read(op.block)
  BY <1>1, <1>2 DEF Device!Read, View
<1> QED BY <1>0, <1>3, <1>4

LEMMA WriteRefillStep ==
  ASSUME IInv, WriteRefill
  PROVE  IInv' /\ Device!Silent
<1>0. op.buf \in Value /\ op.buf = disk[op.block]
  BY OpForms DEF IInv, WriteRefill, FillFits
<1>1. /\ PagesOK(pages', disk') /\ disk' = disk /\ op' = Idle
      /\ Contents(pages', disk') = Contents(pages, disk)
  BY <1>0, RefillStep DEF WriteRefill
<1>2. reply' = NoReply
  BY DEF WriteRefill
<1>3. IInv'
  BY <1>1, <1>2 DEF IInv, OpFits, ReplyOK
<1> QED BY <1>1, <1>2, <1>3 DEF Device!Silent, View

LEMMA FlushStartStep ==
  ASSUME IInv, FlushStart
  PROVE  IInv' /\ Device!Silent
<1>1. PICK free \in BOOLEAN : op' = Flush(1, free)
  BY DEF FlushStart
<1>2. disk' = disk /\ pages' = pages /\ reply' = NoReply
  BY DEF FlushStart
<1>3. 1 \in 1 .. Len(pages) + 1
  BY DEF IInv, PagesOK
<1>4. FlushFits(pages', op', 1, free)
  BY <1>1 DEF FlushFits
<1>5. IInv'
  BY <1>2, <1>3, <1>4 DEF IInv, OpFits, ReplyOK
<1> QED BY <1>2, <1>5 DEF Device!Silent, View

(* With no pages the disk is what is seen.                                 *)
LEMMA NoPages ==
  ASSUME NEW d \in [Block -> Value]
  PROVE  PagesOK(<< >>, d) /\ Contents(<< >>, d) = d
<1> DEFINE ps == << >>
<1>1. ps \in Seq(Page) /\ Len(ps) = 0
  OBVIOUS
<1> HIDE DEF ps
<1>2. PagesOK(ps, d)
  BY <1>1 DEF PagesOK, Unique
<1>3. /\ Unique(ps)
      /\ \A i \in 1 .. Len(ps) : ps[i].block # NoBlock => ps[i].buf = d[ps[i].block]
  BY <1>1 DEF Unique
<1>4. Contents(ps, d) = d
  BY <1>1, <1>3, CleanView
<1> QED BY <1>2, <1>4 DEF ps

(* The cache is given up: what is seen falls back to the disk.             *)
LEMMA DropStep ==
  ASSUME IInv, pages' = << >>, disk' = disk, op' = Idle, reply' = NoReply
  PROVE  /\ IInv'
         /\ Crashes \/ "write" \in FaultAt \/ disk = View => Device!Next
<1>1. PagesOK(pages', disk') /\ Contents(pages', disk') = disk'
  BY NoPages DEF IInv
<1>2. IInv'
  BY <1>1 DEF IInv, OpFits, ReplyOK
<1>3. CASE Crashes \/ "write" \in FaultAt
  BY <1>1, <1>2, <1>3 DEF Device!Next, Device!Lose, View
<1>4. CASE disk = View
  BY <1>1, <1>2, <1>4 DEF Device!Next, Device!Silent, View
<1> QED BY <1>2, <1>3, <1>4

LEMMA FlushFailsStep ==
  ASSUME IInv, FlushFails
  PROVE  IInv' /\ Device!Next
<1>1. disk' = disk /\ op' = Idle /\ reply' = NoReply /\ "write" \in FaultAt
  BY DEF FlushFails
<1>2. CASE op.free
  BY <1>1, <1>2, DropStep DEF FlushFails, Discard
<1>3. CASE ~op.free
  BY <1>1, <1>3, QuietStep DEF FlushFails, Discard, Device!Next
<1> QED BY <1>2, <1>3

(* After the last page nothing is left to write.                           *)
LEMMA FlushedView ==
  ASSUME IInv, FlushEnd
  PROVE  disk = View
<1>1. op.n \in 1 .. Len(pages) + 1 /\ FlushFits(pages, op, op.n, op.free)
  BY OpForms DEF IInv, FlushEnd
<1>2. \A i \in 1 .. Len(pages) : pages[i].dirty = 0
  BY <1>1 DEF IInv, PagesOK, FlushEnd, FlushFits
<1>3. \A i \in 1 .. Len(pages) :
         pages[i].block # NoBlock => pages[i].buf = disk[pages[i].block]
  BY <1>2 DEF IInv, PagesOK, PageOK
<1>4. Contents(pages, disk) = disk
  BY <1>3, CleanView DEF IInv, PagesOK
<1> QED BY <1>4 DEF View

LEMMA FlushEndStep ==
  ASSUME IInv, FlushEnd
  PROVE  IInv' /\ Device!Next
<1>1. disk' = disk /\ op' = Idle /\ reply' = NoReply
  BY DEF FlushEnd
<1>2. CASE op.free
  BY <1>1, <1>2, FlushedView, DropStep DEF FlushEnd, Discard
<1>3. CASE ~op.free
  BY <1>1, <1>3, QuietStep DEF FlushEnd, Discard, Device!Next
<1> QED BY <1>2, <1>3

LEMMA CrashStep ==
  ASSUME IInv, Crash
  PROVE  IInv' /\ Device!Next
BY DropStep DEF Crash

-----------------------------------------------------------------------------
(* The theorems                                                            *)

LEMMA NextStep ==
  ASSUME IInv, MaxDeferred < Word, Next
  PROVE  IInv' /\ Device!Next
<1>1. ASSUME NEW b \in Block, ReadHit(b) PROVE IInv' /\ Device!Next
  BY <1>1, ReadHitStep DEF Device!Next
<1>2. ASSUME NEW b \in Block, ReadMiss(b) PROVE IInv' /\ Device!Next
  BY <1>2, ReadMissStep DEF Device!Next
<1>3. ASSUME NEW b \in Block, WriteMissFails(b) PROVE IInv' /\ Device!Next
  BY <1>3, WriteMissFailsStep DEF Device!Next
<1>4. ASSUME NEW b \in Block, NEW v \in Value, WriteHit(b, v)
      PROVE  IInv' /\ Device!Next
  BY <1>4, WriteHitStep DEF Device!Next
<1>5. ASSUME NEW b \in Block, NEW v \in Value, WriteMiss(b, v)
      PROVE  IInv' /\ Device!Next
  BY <1>5, WriteMissStep DEF Device!Next
<1>6. CASE FlushStart
  BY <1>6, FlushStartStep DEF Device!Next
<1>7. CASE Evict
  BY <1>7, EvictStep DEF Device!Next
<1>8. CASE EvictFails
  BY <1>8, QuietStep DEF EvictFails, Device!Next
<1>9. CASE ReadRefill
  BY <1>9, ReadRefillStep DEF Device!Next
<1>10. CASE ReadRefillFails
  BY <1>10, QuietStep DEF ReadRefillFails, Device!Next
<1>11. CASE WriteRefill
  BY <1>11, WriteRefillStep DEF Device!Next
<1>12. CASE FlushPage
  BY <1>12, FlushPageStep DEF Device!Next
<1>13. CASE FlushFails
  BY <1>13, FlushFailsStep
<1>14. CASE FlushEnd
  BY <1>14, FlushEndStep
<1>15. CASE Crash
  BY <1>15, CrashStep
<1> QED BY <1>1, <1>2, <1>3, <1>4, <1>5, <1>6, <1>7, <1>8, <1>9, <1>10,
           <1>11, <1>12, <1>13, <1>14, <1>15 DEF Next, Continue

LEMMA StutterStep ==
  ASSUME IInv, UNCHANGED vars
  PROVE  IInv' /\ UNCHANGED Device!vars
BY DEF vars, IInv, ReplyOK, Device!vars, View

LEMMA PagerInductive ==
  ASSUME MaxDeferred < Word
  PROVE  Spec => []IInv
<1>1. Init => IInv
  BY InitLemma
<1>2. IInv /\ [Next]_vars => IInv'
  BY NextStep, StutterStep
<1> QED BY <1>1, <1>2, PTL DEF Spec

(* No block is in two pages, and a page that differs from the disk is      *)
(* marked (ufs_pager_read, ufs_pager_write and ufs_pager_lru_page), for    *)
(* every number of blocks and pages, faults and crashes included.          *)
THEOREM PagerSafe ==
  ASSUME MaxDeferred < Word
  PROVE  Spec => [](TypeOK /\ OneCopy /\ DeferredMarked)
<1>1. IInv => TypeOK /\ OneCopy /\ DeferredMarked
  BY IInvGives
<1> QED BY <1>1, PagerInductive, PTL

(* When ufs_pager_flush gets to its end, the disk has every deferred write. *)
THEOREM PagerFlushComplete ==
  ASSUME MaxDeferred < Word
  PROVE  Spec => FlushComplete
<1>1. IInv /\ [Next]_vars => [FlushEnd => disk = View]_vars
  BY FlushedView
<1> QED BY <1>1, PagerInductive, PTL DEF Spec, FlushComplete

(* The pager is a device that returns the last write of each block,        *)
(* whatever it evicts, defers or flushes in between.                       *)
THEOREM PagerRefines ==
  ASSUME MaxDeferred < Word
  PROVE  Spec => DeviceSpec
<1>1. Init => Device!Init
  BY InitLemma
<1>2. IInv /\ [Next]_vars => [Device!Next]_(Device!vars)
  BY NextStep, StutterStep
<1> QED BY <1>1, <1>2, PagerInductive, PTL DEF Spec, DeviceSpec, Device!Spec

=============================================================================
