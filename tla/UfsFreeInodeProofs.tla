------------------------- MODULE UfsFreeInodeProofs -------------------------
(***************************************************************************)
(* Proofs about the free inodes, for any number of tasks, any inode list,  *)
(* cache and format.                                                       *)
(***************************************************************************)
EXTENDS UfsFreeInode, FiniteSetTheorems, TLAPS

-----------------------------------------------------------------------------
(* The scan                                                                *)

(* A finite set of numbers has a member with each number of members below  *)
(* it, which is why the scan finds an inode for each place it fills.       *)
LEMMA Ranked ==
  ASSUME NEW S \in SUBSET Nat, IsFiniteSet(S), NEW i \in 0 .. Cardinality(S) - 1
  PROVE  \E n \in S : Cardinality({m \in S : m < n}) = i
<1> DEFINE Below(n) == {m \in S : m < n}
           rank     == [n \in S |-> Cardinality(Below(n))]
<1>0. \A n \in S : n \in Nat
  OBVIOUS
<1>1. Cardinality(S) \in Nat
  BY FS_CardinalityType
<1>2. ASSUME NEW n \in S
      PROVE  IsFiniteSet(Below(n)) /\ rank[n] \in 0 .. Cardinality(S) - 1
  <2>1. Below(n) \subseteq S /\ n \notin Below(n)
    BY <1>0
  <2>2. IsFiniteSet(Below(n)) /\ Cardinality(Below(n)) <= Cardinality(S)
        /\ Cardinality(Below(n)) # Cardinality(S)
    BY <2>1, FS_Subset
  <2>3. Cardinality(Below(n)) \in Nat
    BY <2>2, FS_CardinalityType
  <2> QED
    BY <1>1, <2>2, <2>3
<1>3. ASSUME NEW n \in S, NEW k \in S, n < k
      PROVE  rank[n] # rank[k]
  <2>1. n \in Below(k) /\ n \notin Below(n)
    BY <1>0, <1>3
  <2>2. \A m \in S : m < n => m < k
    BY <1>0, <1>3
  <2>3. Below(n) \subseteq Below(k)
    BY <2>2
  <2>4. Cardinality(Below(n)) # Cardinality(Below(k))
    BY <1>2, <2>1, <2>3, FS_Subset
  <2> QED
    BY <2>4
<1>4. \A n, k \in S : rank[n] = rank[k] => n = k
  <2> SUFFICES ASSUME NEW n \in S, NEW k \in S, n # k PROVE rank[n] # rank[k]
    OBVIOUS
  <2>1. n < k \/ k < n
    BY <1>0
  <2> HIDE DEF rank
  <2> QED
    BY <1>3, <2>1
<1>5. SUFFICES ASSUME \A n \in S : rank[n] # i PROVE FALSE
  OBVIOUS
<1> DEFINE T == (0 .. Cardinality(S) - 1) \ {i}
<1>6. IsFiniteSet(T) /\ Cardinality(T) = Cardinality(S) - 1
  <2>1. IsFiniteSet(0 .. Cardinality(S) - 1)
        /\ Cardinality(0 .. Cardinality(S) - 1) = Cardinality(S)
    BY <1>1, FS_Interval
  <2> QED
    BY <2>1, FS_RemoveElement
<1>7. rank \in [S -> T]
  BY <1>2, <1>5
<1>8. \E n, k \in S : n # k /\ rank[n] = rank[k]
  <2> HIDE DEF rank, T
  <2>1. Cardinality(T) < Cardinality(S)
    BY <1>1, <1>6
  <2> QED
    BY <1>6, <1>7, <2>1, FS_PigeonHole, Zenon
<1> QED
  BY <1>4, <1>8

LEMMA InodeFacts ==
  /\ MaxInode \in Nat /\ IsFiniteSet(Inode) /\ Inode \subseteq Nat
  /\ Inode \subseteq Number /\ 0 \in Number /\ Word \in Nat /\ MaxFree \in Nat /\ MaxFree < Word
<1>1. MaxInode \in Nat
  BY InodeAssumption DEF MaxInode
<1> QED
  BY <1>1, InodeAssumption, FS_Interval DEF Inode, Number

(* What a scan leaves in the cache.                                        *)
LEMMA FilledLemma ==
  ASSUME sb \in Cache, NEW read
  PROVE  LET list == Filled(read)
         IN /\ list \in Cache
            /\ list.nfreeinode <= MaxFree
            /\ Found(read) # {} <=> list.nfreeinode # 0
            /\ Entries(list) \subseteq Found(read)
            /\ \A i, j \in 0 .. list.nfreeinode - 1 : list.freeinode[i] = list.freeinode[j] => i = j
            /\ sb.nfreeinode = 0 /\ Found(read) = {} => list = sb
<1> DEFINE S == Found(read)
           k == IF Cardinality(S) < MaxFree THEN Cardinality(S) ELSE MaxFree
           Pick(i) == CHOOSE n \in S : Cardinality({m \in S : m < n}) = i
           list == Filled(read)
<1>1. S \subseteq Inode /\ IsFiniteSet(S) /\ S \in SUBSET Nat /\ Cardinality(S) \in Nat
  <2>1. S \subseteq Inode
    BY DEF Found
  <2>2. IsFiniteSet(S)
    BY <2>1, InodeFacts, FS_Subset
  <2> QED
    BY <2>1, <2>2, InodeFacts, FS_CardinalityType
<1>2. k \in 0 .. MaxFree /\ k <= Cardinality(S)
  BY <1>1, InodeFacts
<1>3. S = {} <=> k = 0
  <2>1. Cardinality(S) = 0 <=> S = {}
    BY <1>1, FS_EmptySet
  <2> QED
    BY <1>1, <2>1, InodeAssumption
<1>4. \A i \in 0 .. k - 1 : Pick(i) \in S /\ Cardinality({m \in S : m < Pick(i)}) = i
  <2> SUFFICES ASSUME NEW i \in 0 .. k - 1
               PROVE  Pick(i) \in S /\ Cardinality({m \in S : m < Pick(i)}) = i
    OBVIOUS
  <2>1. i \in 0 .. Cardinality(S) - 1
    BY <1>1, <1>2
  <2>2. \E n \in S : Cardinality({m \in S : m < n}) = i
    <3> HIDE DEF S
    <3> QED
      BY <1>1, <2>1, Ranked
  <2> HIDE DEF S
  <2> QED
    BY <2>2
<1> DEFINE f == [i \in Slot |-> IF i < k THEN Pick(i) ELSE sb.freeinode[i]]
<1>5. list = [nfreeinode |-> k, freeinode |-> f]
  BY Zenon DEF Filled
<1> HIDE DEF S, list, Pick, k
<1>6. \A i \in 0 .. k - 1 : i \in Slot /\ f[i] = Pick(i)
  BY <1>2, InodeFacts DEF Slot
<1>7. f \in [Slot -> Number]
  <2> SUFFICES ASSUME NEW i \in Slot PROVE f[i] \in Number
    OBVIOUS
  <2>1. sb.freeinode[i] \in Number
    BY DEF Cache
  <2>2. i < k => i \in 0 .. k - 1
    BY <1>2 DEF Slot
  <2>3. i < k => Pick(i) \in Number
    BY <2>2, <1>1, <1>4, InodeFacts
  <2> QED
    BY <2>1, <2>3
<1> HIDE DEF f
<1>8. list \in Cache
  BY <1>2, <1>5, <1>7, InodeFacts DEF Cache, Number
<1>9. Entries(list) \subseteq S
  BY <1>2, <1>4, <1>5, <1>6 DEF Entries
<1>10. \A i, j \in 0 .. k - 1 : f[i] = f[j] => i = j
  BY <1>4, <1>6
<1>11. sb.nfreeinode = 0 /\ S = {} => list = sb
  <2> SUFFICES ASSUME sb.nfreeinode = 0, k = 0 PROVE list = sb
    BY <1>3
  <2>1. f = [i \in Slot |-> sb.freeinode[i]]
    BY DEF f, Slot
  <2> QED
    BY <1>5, <2>1 DEF Cache
<1> QED
  BY <1>2, <1>3, <1>5, <1>8, <1>9, <1>10, <1>11 DEF S, list

-----------------------------------------------------------------------------
(* Types, the saved list, and the total                                    *)

(* The total is backed in every state because each create that is under    *)
(* way has a number of its own to lose: the induction needs that those     *)
(* numbers are inodes, and that the creates under way are finitely many.   *)
CountInv ==
  /\ TypeOK
  /\ IsFiniteSet(Creating)
  /\ \A t \in Creating : ino[t] \in Inode
  /\ SavedOrMarked
  /\ TotalBacked

Written == {ino[t] : t \in {u \in Thread : pc[u] = "written"}}

(* What the induction for Exclusive adds: the cache is never emptied below *)
(* zero, and, until a scan meets a create or a mode is not written, the    *)
(* disk knows every inode that is in use.                                  *)
UseInv ==
  /\ sb.nfreeinode <= MaxFree
  /\ Exclusive
  /\ outside = {} => taken \subseteq allocated /\ Written \subseteq allocated

LEMMA LoseOne ==
  ASSUME NEW R, NEW Q, NEW x, IsFiniteSet(Q), R \ {x} \subseteq Q
  PROVE  IsFiniteSet(R) /\ Cardinality(R) - 1 <= Cardinality(Q)
<1>1. IsFiniteSet(R \ {x}) /\ Cardinality(R \ {x}) <= Cardinality(Q)
  BY FS_Subset
<1>2. IsFiniteSet((R \ {x}) \cup {x})
  BY <1>1, FS_AddElement
<1>3. R \subseteq (R \ {x}) \cup {x}
  OBVIOUS
<1>4. IsFiniteSet(R)
  BY <1>2, <1>3, FS_Subset
<1>5. Cardinality(R \ {x}) = IF x \in R THEN Cardinality(R) - 1 ELSE Cardinality(R)
  BY <1>4, FS_RemoveElement
<1>6. Cardinality(R) \in Nat /\ Cardinality(Q) \in Nat
  BY <1>4, FS_CardinalityType
<1> QED
  BY <1>1, <1>4, <1>5, <1>6

(* What can be reclaimed is a finite set of inodes.                        *)
LEMMA ReclaimableFacts ==
  ASSUME CountInv
  PROVE  /\ Reclaimable \subseteq Inode /\ IsFiniteSet(Reclaimable)
         /\ Cardinality(Reclaimable) \in Nat /\ Cardinality(Creating) \in Nat
<1>1. Reclaimable \subseteq Inode
  BY DEF CountInv, Reclaimable, Creating
<1> QED
  BY <1>1, InodeFacts, FS_Subset, FS_CardinalityType DEF CountInv

(* A task that begins, and one that is done.                               *)
LEMMA Begun ==
  ASSUME CountInv, NEW t \in Thread, pc[t] = "idle",
         NEW c \in {"new", "written", "cleared"}, pc' = [pc EXCEPT ![t] = c]
  PROVE  /\ Creating' = Creating \cup {t} /\ IsFiniteSet(Creating')
         /\ Cardinality(Creating') = Cardinality(Creating) + 1
<1>1. Creating' = Creating \cup {t} /\ t \notin Creating
  BY DEF CountInv, TypeOK, Creating
<1> QED
  BY <1>1, FS_AddElement DEF CountInv

LEMMA Left ==
  ASSUME CountInv, NEW t \in Thread, pc[t] # "idle", Leave(t)
  PROVE  /\ Creating' = Creating \ {t} /\ IsFiniteSet(Creating')
         /\ Cardinality(Creating') = Cardinality(Creating) - 1
         /\ \A u \in Creating' : pc'[u] = pc[u] /\ ino'[u] = ino[u]
         /\ pc' \in [Thread -> {"idle", "new", "written", "cleared"}]
         /\ ino' \in [Thread -> Number]
<1>1. Creating' = Creating \ {t} /\ t \in Creating
  BY DEF CountInv, TypeOK, Creating, Leave
<1>2. IsFiniteSet(Creating') /\ Cardinality(Creating') = Cardinality(Creating) - 1
  BY <1>1, FS_RemoveElement DEF CountInv
<1> QED
  BY <1>1, <1>2, InodeFacts DEF CountInv, TypeOK, Creating, Leave

(* The steps that change no task: the total may only be counted down.      *)
LEMMA CountIdle ==
  ASSUME CountInv, UNCHANGED <<allocated, pc, ino, taken>>,
         total' \in Nat, total' <= total,
         sb' \in Cache, modified' \in BOOLEAN, saved' \in Cache \X Nat,
         outside' \subseteq {"raced", "unwritten"}, SavedOrMarked'
  PROVE  CountInv'
<1>1. TypeOK'
  BY DEF CountInv, TypeOK
<1>2. Creating' = Creating /\ Reclaimable' = Reclaimable
  BY DEF Creating, Reclaimable
<1>3. TotalBacked'
  BY <1>2, ReclaimableFacts DEF CountInv, TotalBacked, TypeOK
<1> QED
  BY <1>1, <1>2, <1>3 DEF CountInv

(* What the refill leaves to pop from.                                     *)
LEMMA RefreshedFacts ==
  ASSUME CountInv, NEW list, Refreshed(list)
  PROVE  /\ list \in Cache
         /\ saved' \in Cache \X Nat
         /\ outside' \subseteq {"raced", "unwritten"}
         /\ EntryAt(list) \subseteq Number
         /\ [list EXCEPT !.nfreeinode = PrevCount(list)] \in Cache
<1>1. list \in Cache /\ saved' \in Cache \X Nat /\ outside' \subseteq {"raced", "unwritten"}
  <2>1. CASE sb.nfreeinode > 0
    BY <2>1 DEF Refreshed, CountInv, TypeOK
  <2>2. CASE ~(sb.nfreeinode > 0)
    <3>1. PICK read \in Reads :
             /\ list = Filled(read)
             /\ saved' = IF ToWrite(read) THEN <<list, total>> ELSE saved
             /\ Scanned(read)
      BY <2>2 DEF Refreshed
    <3>2. sb \in Cache
      BY DEF CountInv, TypeOK
    <3>3. list \in Cache
      BY <3>1, <3>2, FilledLemma
    <3> QED
      BY <3>1, <3>3 DEF CountInv, TypeOK, Scanned
  <2> QED
    BY <2>1, <2>2
<1>2. PrevCount(list) \in Number
  BY <1>1, InodeFacts DEF PrevCount, Cache, Number
<1>3. EntryAt(list) \subseteq Number
  <2>1. PrevCount(list) < MaxFree => PrevCount(list) \in Slot
    BY <1>2, InodeFacts DEF Slot, Number
  <2>2. list.freeinode \in [Slot -> Number]
    BY <1>1 DEF Cache
  <2>3. PrevCount(list) < MaxFree => list.freeinode[PrevCount(list)] \in Number
    BY <2>1, <2>2
  <2> QED
    BY <2>3 DEF EntryAt
<1> QED
  BY <1>1, <1>2, <1>3 DEF Cache

LEMMA PopFacts ==
  ASSUME CountInv, NEW n, Pop(n)
  PROVE  /\ n \in Number /\ sb' \in Cache /\ saved' \in Cache \X Nat
         /\ outside' \subseteq {"raced", "unwritten"}
         /\ total' = total - 1 /\ total' \in Nat /\ modified' = TRUE
<1>1. PICK list \in {sb} \cup {Filled(read) : read \in Reads} :
         /\ Refreshed(list)
         /\ n \in EntryAt(list)
         /\ sb' = [list EXCEPT !.nfreeinode = PrevCount(list)]
  BY DEF Pop, Take
<1> QED
  BY <1>1, RefreshedFacts DEF Pop, CountInv, TypeOK

(* The start: nothing under way, the total counts the free inodes.         *)
LEMMA CountInit == Init => CountInv
<1> SUFFICES ASSUME Init PROVE CountInv
  OBVIOUS
<1>1. sb \in Cache
  <2>1. sb \in [nfreeinode : 0 .. MaxFree, freeinode : [Slot -> {0} \cup Inode]]
    BY DEF Init
  <2>2. 0 .. MaxFree \subseteq Number /\ {0} \cup Inode \subseteq Number
    BY InodeFacts DEF Number
  <2> QED
    BY <2>1, <2>2 DEF Cache
<1>2. IsFiniteSet(Inode \ Formatted) /\ total \in Nat
  BY InodeFacts, FS_Subset, FS_CardinalityType DEF Init
<1>3. TypeOK
  BY <1>1, <1>2, InodeFacts, InodeAssumption DEF Init, TypeOK
<1>4. Creating = {} /\ Reclaimable = Inode \ Formatted
  BY DEF Init, Creating, Reclaimable
<1>5. Cardinality(Creating) = 0 /\ IsFiniteSet(Creating)
  BY <1>4, FS_EmptySet
<1>6. TotalBacked
  BY <1>2, <1>4, <1>5 DEF TotalBacked, Init
<1> QED
  BY <1>3, <1>4, <1>5, <1>6 DEF CountInv, SavedOrMarked, Init

LEMMA CountAllocRefillFails ==
  ASSUME CountInv, NEW t \in Thread, AllocRefillFails(t)
  PROVE  CountInv'
<1>1. PICK read \in Reads, done \in 0 .. Sectors :
         LET got == read \cap 1 .. done IN
         /\ sb' = Filled(got)
         /\ Scanned(got)
         /\ \/ /\ modified' = FALSE
               /\ saved' = IF ToWrite(got) THEN <<sb', total>> ELSE saved
            \/ /\ modified' = TRUE
               /\ saved' \in {saved, <<sb', total>>}
  BY DEF AllocRefillFails
<1> DEFINE got == read \cap 1 .. done
<1>2. sb \in Cache /\ total \in Nat /\ saved \in Cache \X Nat /\ sb.nfreeinode = 0
  BY DEF CountInv, TypeOK, AllocRefillFails
<1>3. sb' \in Cache /\ (Found(got) = {} => sb' = sb)
  BY <1>1, <1>2, FilledLemma
<1>4. SavedOrMarked'
  BY <1>1, <1>2, <1>3 DEF SavedOrMarked, ToWrite, CountInv, AllocRefillFails
<1>5. saved' \in Cache \X Nat /\ modified' \in BOOLEAN
  <2>1. <<sb', total>> \in Cache \X Nat
    BY <1>2, <1>3
  <2>2. saved' = saved \/ saved' = <<sb', total>>
    BY <1>1, Zenon
  <2> QED
    BY <1>1, <1>2, <2>1, <2>2
<1>6. outside' \subseteq {"raced", "unwritten"}
  BY <1>1 DEF Scanned, CountInv, TypeOK
<1>7. total' = total /\ UNCHANGED <<allocated, pc, ino, taken>>
  BY DEF AllocRefillFails
<1> QED
  BY <1>2, <1>3, <1>4, <1>5, <1>6, <1>7, CountIdle

LEMMA CountAllocInode ==
  ASSUME CountInv, NEW t \in Thread, NEW n \in Number, AllocInode(t, n)
  PROVE  CountInv'
<1>1. /\ sb' \in Cache /\ saved' \in Cache \X Nat /\ outside' \subseteq {"raced", "unwritten"}
      /\ total' = total - 1 /\ total' \in Nat /\ modified' = TRUE
  BY PopFacts DEF AllocInode
<1>2. n \in Inode
  BY InodeFacts DEF AllocInode, Sane, Number, Inode, RootInode
<1>3. TypeOK'
  BY <1>1 DEF AllocInode, CountInv, TypeOK
<1>4. /\ Creating' = Creating \cup {t} /\ IsFiniteSet(Creating')
      /\ Cardinality(Creating') = Cardinality(Creating) + 1
  BY Begun DEF AllocInode
<1>5. \A u \in Creating' : ino'[u] \in Inode
  BY <1>2, <1>4 DEF AllocInode, CountInv, TypeOK, Creating
<1>6. Reclaimable' = Reclaimable
  <2>1. \A u \in Thread : (pc'[u] = "written" <=> pc[u] = "written")
                          /\ (pc[u] = "written" => ino'[u] = ino[u])
    BY DEF AllocInode, CountInv, TypeOK
  <2> QED
    BY <2>1 DEF AllocInode, Reclaimable
<1>7. TotalBacked'
  BY <1>1, <1>4, <1>6, ReclaimableFacts DEF TotalBacked, CountInv, TypeOK
<1> QED
  BY <1>1, <1>3, <1>4, <1>5, <1>7 DEF CountInv, SavedOrMarked

LEMMA CountAllocRefused ==
  ASSUME CountInv, NEW t \in Thread, NEW n \in Number, AllocRefused(t, n)
  PROVE  CountInv'
<1>1. /\ sb' \in Cache /\ saved' \in Cache \X Nat /\ outside' \subseteq {"raced", "unwritten"}
      /\ total' = total - 1 /\ total' \in Nat /\ modified' = TRUE
  BY PopFacts DEF AllocRefused
<1>2. total \in Nat /\ UNCHANGED <<allocated, pc, ino, taken>>
  BY DEF AllocRefused, CountInv, TypeOK
<1> QED
  BY <1>1, <1>2, CountIdle DEF SavedOrMarked

(* A task leaves with its inode, which costs one inode at most.            *)
LEMMA CountLeave ==
  ASSUME CountInv, NEW t \in Thread, pc[t] # "idle", Leave(t),
         UNCHANGED <<sb, total, modified, saved>>,
         allocated' \subseteq allocated \cup {ino[t]}, allocated' \subseteq Inode,
         taken' \subseteq Inode, outside' \subseteq {"raced", "unwritten"}
  PROVE  CountInv'
<1>1. /\ Creating' = Creating \ {t} /\ IsFiniteSet(Creating')
      /\ Cardinality(Creating') = Cardinality(Creating) - 1
      /\ \A u \in Creating' : pc'[u] = pc[u] /\ ino'[u] = ino[u]
      /\ pc' \in [Thread -> {"idle", "new", "written", "cleared"}]
      /\ ino' \in [Thread -> Number]
  BY Left
<1>2. TypeOK'
  BY <1>1 DEF CountInv, TypeOK
<1>3. \A u \in Creating' : ino'[u] \in Inode
  BY <1>1 DEF CountInv
<1>4. Reclaimable \ {ino[t]} \subseteq Reclaimable'
  <2>1. \A u \in Thread : pc[u] = "written" /\ u # t => pc'[u] = "written" /\ ino'[u] = ino[u]
    BY <1>1 DEF Creating
  <2> QED
    BY <2>1 DEF Reclaimable
<1>5. Reclaimable' \subseteq Inode /\ IsFiniteSet(Reclaimable') /\ Cardinality(Reclaimable') \in Nat
  <2>1. Reclaimable' \subseteq Inode
    BY <1>3 DEF Reclaimable, Creating
  <2> QED
    BY <2>1, InodeFacts, FS_Subset, FS_CardinalityType
<1>6. Cardinality(Reclaimable) - 1 <= Cardinality(Reclaimable')
  BY <1>4, <1>5, LoseOne
<1>7. TotalBacked'
  BY <1>1, <1>5, <1>6, ReclaimableFacts DEF TotalBacked, CountInv, TypeOK
<1> QED
  BY <1>1, <1>2, <1>3, <1>7 DEF CountInv, SavedOrMarked

LEMMA CountGetFails ==
  ASSUME CountInv, NEW t \in Thread, GetFails(t)
  PROVE  CountInv'
BY CountLeave DEF GetFails, CountInv, TypeOK

LEMMA CountAbandonDirectory ==
  ASSUME CountInv, NEW t \in Thread, AbandonDirectory(t)
  PROVE  CountInv'
<1>1. ino[t] \in Inode
  BY DEF AbandonDirectory, CountInv, Creating
<1> QED
  BY <1>1, CountLeave DEF AbandonDirectory, CountInv, TypeOK

LEMMA CountWriteInode ==
  ASSUME CountInv, NEW t \in Thread, WriteInode(t)
  PROVE  CountInv'
<1>1. ino[t] \in Inode
  BY DEF WriteInode, CountInv, Creating
<1> QED
  BY <1>1, CountLeave DEF WriteInode, CountInv, TypeOK

(* A create goes on: nothing that can be reclaimed is lost.                *)
LEMMA CountGoOn ==
  ASSUME CountInv, NEW t \in Thread, pc[t] # "idle",
         NEW c \in {"written", "cleared"}, pc' = [pc EXCEPT ![t] = c],
         UNCHANGED <<sb, total, modified, saved, ino, taken, outside>>,
         allocated' \subseteq Inode,
         Reclaimable \subseteq Reclaimable'
  PROVE  CountInv'
<1>1. TypeOK'
  BY DEF CountInv, TypeOK
<1>2. Creating' = Creating
  BY DEF CountInv, TypeOK, Creating
<1>3. \A u \in Creating' : ino'[u] \in Inode
  BY <1>2 DEF CountInv
<1>4. Reclaimable' \subseteq Inode
  BY <1>3 DEF Reclaimable, Creating
<1>5. /\ IsFiniteSet(Reclaimable') /\ Cardinality(Reclaimable') \in Nat
      /\ Cardinality(Reclaimable) <= Cardinality(Reclaimable')
  BY <1>4, InodeFacts, FS_Subset, FS_CardinalityType
<1>6. TotalBacked'
  BY <1>2, <1>5, ReclaimableFacts DEF TotalBacked, CountInv, TypeOK
<1> QED
  BY <1>1, <1>2, <1>3, <1>6 DEF CountInv, SavedOrMarked

LEMMA CountExpandDirectory ==
  ASSUME CountInv, NEW t \in Thread, ExpandDirectory(t)
  PROVE  CountInv'
<1>1. ino[t] \in Inode /\ pc[t] = "new" /\ allocated' = allocated \cup {ino[t]}
  BY DEF ExpandDirectory, CountInv, Creating
<1>2. \A u \in Thread : pc[u] = "written" \/ u = t => pc'[u] = "written" /\ ino'[u] = ino[u]
  BY DEF ExpandDirectory, CountInv, TypeOK
<1>3. Reclaimable \subseteq Reclaimable'
  BY <1>1, <1>2 DEF Reclaimable
<1> QED
  BY <1>1, <1>3, CountGoOn DEF ExpandDirectory, CountInv, TypeOK

LEMMA CountDeallocClear ==
  ASSUME CountInv, NEW t \in Thread, DeallocClear(t)
  PROVE  CountInv'
<1>1. /\ ino[t] \in Inode /\ allocated' = allocated \ {ino[t]} /\ pc[t] # "idle"
      /\ allocated \subseteq Inode
  BY DEF DeallocClear, CountInv, TypeOK, Creating
<1>2. \A u \in Thread : pc[u] = "written" /\ u # t => pc'[u] = "written" /\ ino'[u] = ino[u]
  BY DEF DeallocClear, CountInv, TypeOK
<1>3. Reclaimable \subseteq Reclaimable'
  BY <1>1, <1>2 DEF Reclaimable
<1> QED
  BY <1>1, <1>3, CountGoOn DEF DeallocClear

LEMMA PushedFacts ==
  ASSUME sb \in Cache, NEW n \in Number
  PROVE  Pushed(n) \in Cache
<1>1. CASE sb.nfreeinode < MaxFree
  <2>1. sb.nfreeinode \in Number /\ sb.freeinode \in [Slot -> Number]
    BY DEF Cache
  <2>2. sb.nfreeinode + 1 \in Number
    BY <1>1, <2>1, InodeFacts DEF Number
  <2>3. [sb.freeinode EXCEPT ![sb.nfreeinode] = n] \in [Slot -> Number]
    BY <2>1
  <2> QED
    BY <1>1, <2>2, <2>3 DEF Pushed, Cache
<1>2. CASE ~(sb.nfreeinode < MaxFree)
  BY <1>2 DEF Pushed
<1> QED
  BY <1>1, <1>2

LEMMA CountDeallocPush ==
  ASSUME CountInv, NEW t \in Thread, DeallocPush(t)
  PROVE  CountInv'
<1>1. /\ Creating' = Creating \ {t} /\ IsFiniteSet(Creating')
      /\ Cardinality(Creating') = Cardinality(Creating) - 1
      /\ \A u \in Creating' : pc'[u] = pc[u] /\ ino'[u] = ino[u]
      /\ pc' \in [Thread -> {"idle", "new", "written", "cleared"}]
      /\ ino' \in [Thread -> Number]
  BY Left DEF DeallocPush
<1>2. sb' \in Cache
  BY PushedFacts DEF DeallocPush, CountInv, TypeOK
<1>3. TypeOK'
  BY <1>1, <1>2 DEF DeallocPush, CountInv, TypeOK
<1>4. Reclaimable' = Reclaimable
  <2>1. \A u \in Thread : (pc'[u] = "written" <=> pc[u] = "written")
                          /\ (pc[u] = "written" => ino'[u] = ino[u])
    BY DEF DeallocPush, Leave, CountInv, TypeOK
  <2> QED
    BY <2>1 DEF DeallocPush, Reclaimable
<1>5. TotalBacked'
  BY <1>1, <1>4, ReclaimableFacts DEF DeallocPush, TotalBacked, CountInv, TypeOK
<1> QED
  BY <1>1, <1>3, <1>5 DEF CountInv, SavedOrMarked, DeallocPush

LEMMA CountSaveSuper == CountInv /\ SaveSuper => CountInv'
<1> SUFFICES ASSUME CountInv, SaveSuper PROVE CountInv'
  OBVIOUS
<1>1. sb \in Cache /\ total \in Nat /\ outside \subseteq {"raced", "unwritten"}
  BY DEF CountInv, TypeOK
<1>2. saved' = <<sb, total>> /\ modified' = FALSE
      /\ UNCHANGED <<allocated, sb, total, pc, ino, taken, outside>>
  BY DEF SaveSuper
<1>3. saved' \in Cache \X Nat /\ SavedOrMarked'
  BY <1>1, <1>2 DEF SavedOrMarked
<1>4. /\ UNCHANGED <<allocated, pc, ino, taken>>
      /\ total' \in Nat /\ total' <= total /\ sb' \in Cache
      /\ outside' \subseteq {"raced", "unwritten"}
  BY <1>1, <1>2
<1>5. modified' \in BOOLEAN
  BY <1>2, Zenon
<1> QED
  BY <1>3, <1>4, <1>5, CountIdle

LEMMA CountNext == CountInv /\ [Next]_vars => CountInv'
<1> SUFFICES ASSUME CountInv, [Next]_vars PROVE CountInv'
  OBVIOUS
<1>1. CASE UNCHANGED vars
  BY <1>1 DEF vars, CountInv, TypeOK, Creating, SavedOrMarked, TotalBacked, Reclaimable, Cache, Slot
<1>2. CASE SaveSuper
  BY <1>2, CountSaveSuper
<1>3. ASSUME NEW t \in Thread, FileStep(t) PROVE CountInv'
  <2>1. CASE AllocExhausted(t)
    BY <1>1, <2>1 DEF AllocExhausted
  <2>2. ASSUME NEW n \in Number, AllocInode(t, n) \/ AllocRefused(t, n) PROVE CountInv'
    BY <2>2, CountAllocInode, CountAllocRefused
  <2> QED
    BY <1>3, <2>1, <2>2, CountAllocRefillFails, CountGetFails, CountExpandDirectory,
       CountAbandonDirectory, CountWriteInode, CountDeallocClear, CountDeallocPush DEF FileStep
<1> QED
  BY <1>1, <1>2, <1>3 DEF Next

(* The lists, the total and the steps of ufs_file_allocate keep their      *)
(* types whatever fails; in particular the total never falls below zero.   *)
THEOREM TypeCorrect == Spec => []TypeOK
<1>1. CountInv => TypeOK
  BY DEF CountInv
<1> QED
  BY <1>1, CountInit, CountNext, PTL DEF Spec

(* sb->total_freeinode, the only thing ufs_inode_allocate tests before it  *)
(* takes from the cache, promises no more inodes than could be had: for    *)
(* any number of creates, in any order, whatever they give up and whatever *)
(* reads and writes fail.                                                  *)
THEOREM TotalAlwaysBacked == Spec => []TotalBacked
<1>1. CountInv => TotalBacked
  BY DEF CountInv
<1> QED
  BY <1>1, CountInit, CountNext, PTL DEF Spec

(* The super block of the dataset differs from the one in core only while  *)
(* sb->modified says so, through every way ufs_freeinode_update can end.   *)
THEOREM AlwaysSavedOrMarked == Spec => []SavedOrMarked
<1>1. CountInv => SavedOrMarked
  BY DEF CountInv
<1> QED
  BY <1>1, CountInit, CountNext, PTL DEF Spec

-----------------------------------------------------------------------------
(* Which inode is whose                                                    *)

(* Nothing in this list is in use or on its way, or is in it twice.        *)
Spare(list) ==
  /\ Entries(list) \cap (taken \cup {ino[u] : u \in Creating}) = {}
  /\ \A i, j \in 0 .. list.nfreeinode - 1 : list.freeinode[i] = list.freeinode[j] => i = j

(* A block is read for every inode.                                        *)
LEMMA SectorInList == \A n \in Inode : SectorOf(n) \in Sector
<1> SUFFICES ASSUME NEW n \in Inode PROVE SectorOf(n) \in Sector
  OBVIOUS
<1>1. n \in Nat /\ 1 <= n /\ n <= PerBlock * Sectors /\ PerBlock \in Nat /\ Sectors \in Nat
  BY InodeAssumption DEF Inode, MaxInode
<1>2. PerBlock > 0
  BY <1>1
<1> DEFINE q == (n - 1) \div PerBlock
<1>3. q \in Nat /\ PerBlock * q <= n - 1
  BY <1>1, <1>2
<1> HIDE DEF q
<1>4. q < Sectors
  <2> SUFFICES ASSUME q >= Sectors PROVE FALSE
    BY <1>1, <1>3
  <2>1. PerBlock * q >= PerBlock * Sectors
    BY <1>1, <1>3
  <2> QED
    BY <1>1, <1>3, <2>1
<1> QED
  BY <1>1, <1>3, <1>4 DEF SectorOf, Sector, q

(* While the total is not zero the scan of the whole list finds an inode:  *)
(* those that are only on their way are not more than their creates.       *)
LEMMA ScanFinds ==
  ASSUME CountInv, total # 0
  PROVE  Found(Sector) # {}
<1> SUFFICES ASSUME Inode \ allocated = {} PROVE FALSE
  BY SectorInList DEF Found
<1> DEFINE W == {u \in Thread : pc[u] = "written"}
           f == [u \in W |-> ino[u]]
<1>1. Reclaimable = Written
  BY DEF Reclaimable, Written
<1>2. IsFiniteSet(W) /\ Cardinality(W) <= Cardinality(Creating) /\ Cardinality(W) \in Nat
  <2>1. W \subseteq Creating
    BY DEF Creating
  <2> QED
    BY <2>1, FS_Subset, FS_CardinalityType DEF CountInv
<1>3. f \in Surjection(W, Written)
  BY DEF Written, Surjection
<1>4. Cardinality(Written) <= Cardinality(W)
  <2> HIDE DEF W, f
  <2> QED
    BY <1>2, <1>3, FS_Surjection
<1> QED
  BY <1>1, <1>2, <1>4, ReclaimableFacts DEF CountInv, TypeOK, TotalBacked

(* What ufs_inode_allocate takes from a list of spare inodes.              *)
LEMMA PopSpare ==
  ASSUME "scan" \notin FaultAt, CountInv, UseInv, NEW n, Pop(n)
  PROVE  /\ sb'.nfreeinode <= MaxFree
         /\ outside' = {} =>
              /\ outside = {}
              /\ n \notin taken \cup {ino[u] : u \in Creating}
              /\ n \notin Entries(sb')
              /\ Entries(sb') \cap (taken \cup {ino[u] : u \in Creating}) = {}
              /\ \A i, j \in 0 .. sb'.nfreeinode - 1 :
                    sb'.freeinode[i] = sb'.freeinode[j] => i = j
<1>1. PICK list \in {sb} \cup {Filled(read) : read \in Reads} :
         /\ Refreshed(list)
         /\ n \in EntryAt(list)
         /\ sb' = [list EXCEPT !.nfreeinode = PrevCount(list)]
  BY DEF Pop, Take
<1>2. sb \in Cache /\ total # 0
  BY DEF Pop, CountInv, TypeOK
<1>3. /\ list \in Cache /\ list.nfreeinode \in 1 .. MaxFree
      /\ outside' = {} => outside = {} /\ Spare(list)
  <2>1. CASE sb.nfreeinode > 0
    <3>1. list = sb /\ outside' = outside
      BY <1>1, <2>1 DEF Refreshed
    <3> QED
      BY <1>2, <2>1, <3>1, InodeFacts DEF UseInv, Exclusive, Spare, Cache, Number
  <2>2. CASE ~(sb.nfreeinode > 0)
    <3>1. list = Filled(Sector) /\ Scanned(Sector)
      BY <1>1, <2>2 DEF Refreshed, Reads
    <3>2. /\ list \in Cache /\ list.nfreeinode <= MaxFree /\ list.nfreeinode # 0
          /\ Entries(list) \subseteq Found(Sector)
          /\ \A i, j \in 0 .. list.nfreeinode - 1 : list.freeinode[i] = list.freeinode[j] => i = j
      BY <1>2, <3>1, FilledLemma, ScanFinds
    <3>3. list.nfreeinode \in 1 .. MaxFree
      BY <3>2, InodeFacts DEF Cache, Number
    <3>4. ASSUME outside' = {} PROVE outside = {} /\ Spare(list)
      <4>1. outside = {} /\ Found(Sector) \cap {ino[u] : u \in Creating} = {}
        BY <3>1, <3>4 DEF Scanned
      <4>2. Found(Sector) \cap taken = {}
        BY <4>1 DEF UseInv, Found
      <4> QED
        BY <3>2, <4>1, <4>2 DEF Spare
    <3> QED
      BY <3>2, <3>3, <3>4
  <2> QED
    BY <2>1, <2>2
<1> DEFINE k == list.nfreeinode - 1
<1>4. /\ k \in 0 .. MaxFree - 1 /\ PrevCount(list) = k
      /\ n = list.freeinode[k]
      /\ sb'.nfreeinode = k /\ sb'.freeinode = list.freeinode
  <2>1. k \in 0 .. MaxFree - 1 /\ PrevCount(list) = k
    BY <1>3, InodeFacts DEF PrevCount
  <2>2. n = list.freeinode[k]
    BY <1>1, <2>1, InodeFacts DEF EntryAt
  <2>3. sb'.nfreeinode = k /\ sb'.freeinode = list.freeinode
    BY <1>1, <1>3, <2>1 DEF Cache
  <2> QED
    BY <2>1, <2>2, <2>3
<1>5. k \in 0 .. list.nfreeinode - 1 /\ \A i \in 0 .. k - 1 : i \in 0 .. list.nfreeinode - 1 /\ i # k
  BY <1>3
<1>6. sb'.nfreeinode <= MaxFree
  BY <1>4, InodeFacts
<1>7. ASSUME outside' = {}
      PROVE  /\ outside = {}
             /\ n \notin taken \cup {ino[u] : u \in Creating}
             /\ n \notin Entries(sb')
             /\ Entries(sb') \cap (taken \cup {ino[u] : u \in Creating}) = {}
             /\ \A i, j \in 0 .. sb'.nfreeinode - 1 :
                   sb'.freeinode[i] = sb'.freeinode[j] => i = j
  <2>1. outside = {} /\ Spare(list)
    BY <1>3, <1>7
  <2> HIDE DEF k
  <2>2. n \in Entries(list)
    BY <1>4, <1>5 DEF Entries
  <2>3. Entries(sb') \subseteq Entries(list)
    BY <1>4, <1>5 DEF Entries
  <2>4. n \notin Entries(sb')
    BY <1>4, <1>5, <2>1 DEF Spare, Entries
  <2>5. \A i, j \in 0 .. sb'.nfreeinode - 1 : sb'.freeinode[i] = sb'.freeinode[j] => i = j
    BY <1>4, <1>5, <2>1 DEF Spare
  <2> QED
    BY <2>1, <2>2, <2>3, <2>4, <2>5 DEF Spare
<1> QED
  BY <1>6, <1>7

LEMMA UseInit == Init => UseInv
<1> SUFFICES ASSUME Init PROVE UseInv
  OBVIOUS
<1>1. sb.nfreeinode <= MaxFree
  BY InodeFacts DEF Init
<1>2. Creating = {} /\ Written = {}
  BY DEF Init, Creating, Written
<1> QED
  BY <1>1, <1>2 DEF Init, UseInv, Exclusive

LEMMA UseAllocRefillFails ==
  ASSUME CountInv, UseInv, NEW t \in Thread, AllocRefillFails(t)
  PROVE  UseInv'
<1>1. PICK got : sb' = Filled(got) /\ Scanned(got)
  BY DEF AllocRefillFails
<1>2. /\ sb'.nfreeinode <= MaxFree
      /\ Entries(sb') \subseteq Found(got)
      /\ \A i, j \in 0 .. sb'.nfreeinode - 1 : sb'.freeinode[i] = sb'.freeinode[j] => i = j
  BY <1>1, FilledLemma DEF CountInv, TypeOK
<1>3. UNCHANGED <<allocated, pc, ino, taken>> /\ Creating' = Creating /\ Written' = Written
  BY DEF AllocRefillFails, Creating, Written
<1>4. ASSUME outside' = {}
      PROVE  outside = {} /\ Found(got) \cap {ino[u] : u \in Creating} = {}
  BY <1>1, <1>4 DEF Scanned
<1>5. outside = {} => Found(got) \cap taken = {}
  BY DEF UseInv, Found
<1> QED
  BY <1>2, <1>3, <1>4, <1>5 DEF UseInv, Exclusive

LEMMA UseAllocInode ==
  ASSUME "scan" \notin FaultAt, CountInv, UseInv,
         NEW t \in Thread, NEW n \in Number, AllocInode(t, n)
  PROVE  UseInv'
<1>1. UNCHANGED <<allocated, taken>> /\ pc[t] = "idle" /\ Pop(n)
  BY DEF AllocInode
<1>2. Creating' = Creating \cup {t} /\ t \notin Creating
  BY DEF AllocInode, Creating, CountInv, TypeOK
<1>3. ino'[t] = n /\ \A u \in Creating : ino'[u] = ino[u]
  BY <1>2 DEF AllocInode, Creating, CountInv, TypeOK
<1>4. Written' = Written
  <2>1. \A u \in Thread : (pc'[u] = "written" <=> pc[u] = "written")
                          /\ (pc[u] = "written" => ino'[u] = ino[u])
    BY DEF AllocInode, CountInv, TypeOK
  <2> QED
    BY <2>1 DEF Written
<1>5. /\ sb'.nfreeinode <= MaxFree
      /\ outside' = {} =>
           /\ outside = {}
           /\ n \notin taken \cup {ino[u] : u \in Creating}
           /\ n \notin Entries(sb')
           /\ Entries(sb') \cap (taken \cup {ino[u] : u \in Creating}) = {}
           /\ \A i, j \in 0 .. sb'.nfreeinode - 1 :
                 sb'.freeinode[i] = sb'.freeinode[j] => i = j
  BY <1>1, PopSpare
<1>6. {ino'[u] : u \in Creating'} = {ino[u] : u \in Creating} \cup {n}
  BY <1>2, <1>3
<1>7. ASSUME outside' = {}
      PROVE  /\ Entries(sb') \cap (taken' \cup {ino'[u] : u \in Creating'}) = {}
             /\ \A u \in Creating' : ino'[u] \notin taken'
             /\ \A u, v \in Creating' : ino'[u] = ino'[v] => u = v
             /\ taken' \subseteq allocated' /\ Written' \subseteq allocated'
  <2>1. /\ \A u \in Creating : ino[u] \notin taken
        /\ \A u, v \in Creating : ino[u] = ino[v] => u = v
        /\ taken \subseteq allocated /\ Written \subseteq allocated
    BY <1>5, <1>7 DEF UseInv, Exclusive
  <2>2. Entries(sb') \cap (taken' \cup {ino'[u] : u \in Creating'}) = {}
    BY <1>1, <1>5, <1>6, <1>7
  <2>3. \A u \in Creating' : ino'[u] \notin taken'
    BY <1>1, <1>2, <1>3, <1>5, <1>7, <2>1
  <2>4. \A u, v \in Creating' : ino'[u] = ino'[v] => u = v
    BY <1>2, <1>3, <1>5, <1>7, <2>1
  <2> QED
    BY <1>1, <1>4, <2>1, <2>2, <2>3, <2>4
<1> QED
  BY <1>5, <1>7 DEF UseInv, Exclusive

LEMMA UseAllocRefused ==
  ASSUME "scan" \notin FaultAt, CountInv, UseInv,
         NEW t \in Thread, NEW n \in Number, AllocRefused(t, n)
  PROVE  UseInv'
<1>1. Pop(n) /\ UNCHANGED <<allocated, pc, ino, taken>>
  BY DEF AllocRefused
<1>2. Creating' = Creating /\ Written' = Written
  BY <1>1 DEF Creating, Written
<1> QED
  BY <1>1, <1>2, PopSpare DEF UseInv, Exclusive

(* A task leaves: its inode is forgotten, or in use and then on the disk.  *)
LEMMA UseLeave ==
  ASSUME CountInv, UseInv, NEW t \in Thread, pc[t] # "idle", Leave(t), sb' = sb,
         allocated \subseteq allocated', taken' \subseteq taken \cup {ino[t]},
         outside' = {} => outside = {} /\ taken' \subseteq allocated'
  PROVE  UseInv'
<1>1. Creating' = Creating \ {t} /\ t \in Creating
      /\ \A u \in Creating' : pc'[u] = pc[u] /\ ino'[u] = ino[u]
  BY Left DEF Creating
<1>2. Written' \subseteq Written
  BY <1>1 DEF Written, Creating
<1>3. Entries(sb') = Entries(sb)
  OBVIOUS
<1>4. ASSUME outside' = {}
      PROVE  /\ Entries(sb') \cap (taken' \cup {ino'[u] : u \in Creating'}) = {}
             /\ \A u \in Creating' : ino'[u] \notin taken'
             /\ \A u, v \in Creating' : ino'[u] = ino'[v] => u = v
             /\ \A i, j \in 0 .. sb'.nfreeinode - 1 :
                   sb'.freeinode[i] = sb'.freeinode[j] => i = j
             /\ Written' \subseteq allocated'
  <2>1. /\ Entries(sb) \cap (taken \cup {ino[u] : u \in Creating}) = {}
        /\ \A u \in Creating : ino[u] \notin taken
        /\ \A u, v \in Creating : ino[u] = ino[v] => u = v
        /\ \A i, j \in 0 .. sb.nfreeinode - 1 : sb.freeinode[i] = sb.freeinode[j] => i = j
        /\ Written \subseteq allocated
    BY <1>4 DEF UseInv, Exclusive
  <2>2. {ino'[u] : u \in Creating'} \subseteq {ino[u] : u \in Creating}
        /\ ino[t] \in {ino[u] : u \in Creating}
    BY <1>1
  <2>3. \A u \in Creating' : ino'[u] \notin taken'
    BY <1>1, <2>1
  <2>4. \A u, v \in Creating' : ino'[u] = ino'[v] => u = v
    BY <1>1, <2>1
  <2> QED
    BY <1>2, <1>3, <2>1, <2>2, <2>3, <2>4
<1> QED
  BY <1>4 DEF UseInv, Exclusive

LEMMA UseGetFails ==
  ASSUME CountInv, UseInv, NEW t \in Thread, GetFails(t)
  PROVE  UseInv'
BY UseLeave DEF GetFails, UseInv

LEMMA UseAbandonDirectory ==
  ASSUME CountInv, UseInv, NEW t \in Thread, AbandonDirectory(t)
  PROVE  UseInv'
<1>1. ino[t] \in Written
  BY DEF AbandonDirectory, Written
<1> QED
  BY <1>1, UseLeave DEF AbandonDirectory, UseInv

LEMMA UseWriteInode ==
  ASSUME CountInv, UseInv, NEW t \in Thread, WriteInode(t)
  PROVE  UseInv'
<1>1. outside' = {} => outside = {} /\ ino[t] \in allocated' /\ allocated \subseteq allocated'
  BY DEF WriteInode
<1>2. allocated \subseteq allocated'
  BY DEF WriteInode
<1> QED
  BY <1>1, <1>2, UseLeave DEF WriteInode, UseInv

LEMMA UseExpandDirectory ==
  ASSUME CountInv, UseInv, NEW t \in Thread, ExpandDirectory(t)
  PROVE  UseInv'
<1>1. Creating' = Creating /\ Written' = Written \cup {ino[t]}
  <2>1. \A u \in Thread : /\ pc'[u] = "written" <=> pc[u] = "written" \/ u = t
                          /\ pc'[u] = "idle" <=> pc[u] = "idle"
                          /\ ino'[u] = ino[u]
    BY DEF ExpandDirectory, CountInv, TypeOK
  <2> QED
    BY <2>1 DEF Creating, Written
<1> QED
  BY <1>1 DEF ExpandDirectory, UseInv, Exclusive

LEMMA UseDeallocClear ==
  ASSUME CountInv, UseInv, NEW t \in Thread, DeallocClear(t)
  PROVE  UseInv'
<1>1. t \in Creating /\ UNCHANGED <<sb, ino, taken, outside>> /\ allocated' = allocated \ {ino[t]}
  BY DEF DeallocClear, Creating
<1>2. Creating' = Creating /\ \A u \in Thread : pc'[u] = "written" => pc[u] = "written" /\ u # t
  BY DEF DeallocClear, Creating, CountInv, TypeOK
<1>3. ASSUME outside = {} PROVE taken \subseteq allocated' /\ Written' \subseteq allocated'
  <2>1. /\ \A u \in Creating : ino[u] \notin taken
        /\ \A u, v \in Creating : ino[u] = ino[v] => u = v
        /\ taken \subseteq allocated /\ Written \subseteq allocated
    BY <1>3 DEF UseInv, Exclusive
  <2>2. \A u \in Thread : pc'[u] = "written" => u \in Creating /\ ino[u] \in Written /\ ino[u] # ino[t]
    BY <1>1, <1>2, <2>1 DEF Creating, Written
  <2> QED
    BY <1>1, <2>1, <2>2 DEF Written
<1> QED
  BY <1>1, <1>2, <1>3 DEF UseInv, Exclusive

LEMMA UseDeallocPush ==
  ASSUME CountInv, UseInv, NEW t \in Thread, DeallocPush(t)
  PROVE  UseInv'
<1>1. UNCHANGED <<allocated, taken, outside>> /\ sb' = Pushed(ino[t]) /\ sb \in Cache
      /\ Leave(t) /\ pc[t] # "idle"
  BY DEF DeallocPush, CountInv, TypeOK
<1>2. Creating' = Creating \ {t} /\ t \in Creating
      /\ \A u \in Creating' : pc'[u] = pc[u] /\ ino'[u] = ino[u]
  BY <1>1, Left DEF Creating
<1>3. Written' \subseteq Written
  BY <1>2 DEF Written, Creating
<1>4. sb'.nfreeinode <= MaxFree
  BY <1>1, InodeFacts DEF Pushed, UseInv, Cache, Number
<1>5. ASSUME outside = {}
      PROVE  /\ Entries(sb') \cap (taken' \cup {ino'[u] : u \in Creating'}) = {}
             /\ \A u \in Creating' : ino'[u] \notin taken'
             /\ \A u, v \in Creating' : ino'[u] = ino'[v] => u = v
             /\ \A i, j \in 0 .. sb'.nfreeinode - 1 :
                   sb'.freeinode[i] = sb'.freeinode[j] => i = j
  <2>1. /\ Entries(sb) \cap (taken \cup {ino[u] : u \in Creating}) = {}
        /\ \A u \in Creating : ino[u] \notin taken
        /\ \A u, v \in Creating : ino[u] = ino[v] => u = v
        /\ \A i, j \in 0 .. sb.nfreeinode - 1 : sb.freeinode[i] = sb.freeinode[j] => i = j
    BY <1>5 DEF UseInv, Exclusive
  <2>2. /\ Entries(sb') \subseteq Entries(sb) \cup {ino[t]}
        /\ \A i, j \in 0 .. sb'.nfreeinode - 1 : sb'.freeinode[i] = sb'.freeinode[j] => i = j
    <3>1. CASE sb.nfreeinode < MaxFree
      <4>1. sb.nfreeinode \in Nat /\ sb.nfreeinode \in Slot
        BY <3>1, <1>1, InodeFacts DEF Cache, Number, Slot
      <4>2. /\ sb'.nfreeinode = sb.nfreeinode + 1
            /\ sb'.freeinode = [sb.freeinode EXCEPT ![sb.nfreeinode] = ino[t]]
        BY <1>1, <3>1 DEF Pushed
      <4>3. \A i \in 0 .. sb'.nfreeinode - 1 :
              sb'.freeinode[i] = IF i = sb.nfreeinode THEN ino[t] ELSE sb.freeinode[i]
        BY <1>1, <4>1, <4>2, InodeFacts DEF Cache, Slot
      <4>4. \A i \in 0 .. sb'.nfreeinode - 1 : i = sb.nfreeinode \/ i \in 0 .. sb.nfreeinode - 1
        BY <4>1, <4>2
      <4>5. \A i \in 0 .. sb.nfreeinode - 1 : sb.freeinode[i] # ino[t]
        BY <1>2, <2>1 DEF Entries
      <4> QED
        BY <2>1, <4>3, <4>4, <4>5 DEF Entries
    <3>2. CASE ~(sb.nfreeinode < MaxFree)
      BY <1>1, <2>1, <3>2 DEF Pushed
    <3> QED
      BY <3>1, <3>2
  <2>3. {ino'[u] : u \in Creating'} \subseteq {ino[u] : u \in Creating}
        /\ ino[t] \notin {ino'[u] : u \in Creating'} /\ ino[t] \notin taken
    BY <1>2, <2>1
  <2>4. \A u \in Creating' : ino'[u] \notin taken'
    BY <1>1, <1>2, <2>1
  <2>5. \A u, v \in Creating' : ino'[u] = ino'[v] => u = v
    BY <1>2, <2>1
  <2> QED
    BY <1>1, <2>1, <2>2, <2>3, <2>4, <2>5
<1> QED
  BY <1>1, <1>3, <1>4, <1>5 DEF UseInv, Exclusive

LEMMA UseNext ==
  ASSUME "scan" \notin FaultAt
  PROVE  CountInv /\ UseInv /\ [Next]_vars => UseInv'
<1> SUFFICES ASSUME CountInv, UseInv, [Next]_vars PROVE UseInv'
  OBVIOUS
<1>1. CASE UNCHANGED <<allocated, sb, pc, ino, taken, outside>>
  <2>1. Creating' = Creating /\ Written' = Written
    BY <1>1 DEF Creating, Written
  <2> QED
    BY <1>1, <2>1 DEF UseInv, Exclusive
<1>2. CASE SaveSuper
  BY <1>1, <1>2 DEF SaveSuper
<1>3. ASSUME NEW t \in Thread, FileStep(t) PROVE UseInv'
  <2>1. CASE AllocExhausted(t)
    BY <1>1, <2>1 DEF AllocExhausted, vars
  <2>2. ASSUME NEW n \in Number, AllocInode(t, n) \/ AllocRefused(t, n) PROVE UseInv'
    BY <2>2, UseAllocInode, UseAllocRefused
  <2> QED
    BY <1>3, <2>1, <2>2, UseAllocRefillFails, UseGetFails, UseExpandDirectory,
       UseAbandonDirectory, UseWriteInode, UseDeallocClear, UseDeallocPush DEF FileStep
<1> QED
  BY <1>1, <1>2, <1>3 DEF Next, vars

(* While every block of the inode list can be read, no inode is handed to  *)
(* two creates, to a create and a file, or kept twice in the cache, for    *)
(* any number of tasks that take, give up and give back at the same time.  *)
THEOREM InodesExclusive == "scan" \notin FaultAt => (Spec => []Exclusive)
<1> SUFFICES ASSUME "scan" \notin FaultAt PROVE Spec => []Exclusive
  OBVIOUS
<1>1. CountInv /\ UseInv /\ [Next]_vars => CountInv' /\ UseInv'
  BY CountNext, UseNext
<1>2. Init => CountInv /\ UseInv
  BY CountInit, UseInit
<1>3. UseInv => Exclusive
  BY DEF UseInv
<1> QED
  BY <1>1, <1>2, <1>3, PTL DEF Spec

=============================================================================
