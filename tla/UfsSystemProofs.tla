-------------------------- MODULE UfsSystemProofs ---------------------------
(***************************************************************************)
(* Proofs about the system handle: what the saves of the super block keep, *)
(* and what the calls keep of the mount table, for any number of sessions, *)
(* disks and starts, whatever writes fail and whenever the machine stops.  *)
(***************************************************************************)
EXTENDS UfsSystem, FoldProofs

-----------------------------------------------------------------------------
(* Paths                                                                   *)

Place == Dir \cup {NoDir}

LEMMA EntryFacts ==
  ASSUME NEW n \in Place, NEW mounted \in [Dir -> Disk \cup {NoDisk}], NEW name
  PROVE  Entry(n, name) \in Place /\ Through(n, mounted) \in Place
<1>1. Through(n, mounted) \in Place
  <2>1. ASSUME NEW d \in Disk PROVE TopOf(d) \in Dir
    BY MountAssumption DEF TopOf
  <2> QED
    BY <2>1 DEF Through, Place
<1>2. Entry(n, name) \in Place
  <2>1. n # NoDir => Up[n] \in Dir
    BY MountAssumption DEF Place
  <2>2. ASSUME \E k \in Kids(n) : NameOf[k] = name
        PROVE  (CHOOSE k \in Kids(n) : NameOf[k] = name) \in Dir
    BY <2>2 DEF Kids
  <2> QED
    BY <2>1, <2>2 DEF Entry, Place
<1> QED
  BY <1>1, <1>2

(* A path is followed name by name.                                        *)
LEMMA FollowSteps ==
  ASSUME NEW root \in Place, NEW mounted \in [Dir -> Disk \cup {NoDisk}], NEW N,
         NEW path \in Seq(N), path # << >>
  PROVE  \E w \in [0 .. Len(path) -> Place] :
           /\ w[0] = root /\ w[Len(path)] = Follow(root, mounted, path)
           /\ \A i \in 1 .. Len(path) : w[i] = Entry(Through(w[i - 1], mounted), path[i])
<1> DEFINE n == Len(path)
           S == 1 .. n
           F == [q \in Place \X S |-> Entry(Through(q[1], mounted), path[q[2]])]
           pick == [s \in SUBSET S |-> Max(s)]
           Iter(g) == g = [s \in SUBSET S |->
                             IF s = {} THEN root
                             ELSE Entry(Through(g[s \ {Max(s)}], mounted), path[Max(s)])]
<1>1. n \in Nat /\ DOMAIN path = S /\ IsFiniteSet(S)
  BY LenProperties, FS_Interval
<1>2. PICK g : Iterates(g, S, Place, root, F, pick)
  <2>1. F \in [Place \X S -> Place]
    BY EntryFacts
  <2>2. \A s \in SUBSET S : s # {} => pick[s] \in s
    BY <1>1, MaxInside
  <2> HIDE DEF F, pick, S
  <2> QED
    BY <1>1, <2>1, <2>2, IterExists
<1>3. Iter(g)
  <2>1. ASSUME NEW s \in SUBSET S, s # {}
        PROVE  F[<<g[s \ {pick[s]}], pick[s]>>] =
                 Entry(Through(g[s \ {Max(s)}], mounted), path[Max(s)])
    <3>1. Max(s) \in S /\ pick[s] = Max(s) /\ s \ {Max(s)} \in SUBSET S
      BY <1>1, <2>1, MaxInside
    <3>2. g[s \ {Max(s)}] \in Place
      BY <1>2, <3>1 DEF Iterates
    <3> QED
      BY <3>1, <3>2
  <2> HIDE DEF F, pick
  <2>2. g = [s \in SUBSET S |-> g[s]]
    BY <1>2 DEF Iterates
  <2>3. \A s \in SUBSET S : g[s] = IF s = {} THEN root ELSE F[<<g[s \ {pick[s]}], pick[s]>>]
    BY <1>2 DEF Iterates
  <2> QED
    BY <2>1, <2>2, <2>3
<1> DEFINE iter == CHOOSE g1 : Iter(g1)
<1>4. Iter(iter)
  BY <1>3
<1>5. Follow(root, mounted, path) = iter[S]
  BY <1>1 DEF Follow, FoldLeft, MapThenFoldSet
<1>6. /\ iter[{}] = root
      /\ \A k \in 1 .. n : iter[1 .. k] = Entry(Through(iter[1 .. k - 1], mounted), path[k])
  <2>1. \A s \in SUBSET S :
          iter[s] = IF s = {} THEN root
                    ELSE Entry(Through(iter[s \ {Max(s)}], mounted), path[Max(s)])
    <3> HIDE DEF iter
    <3> QED
      BY <1>4
  <2>2. ASSUME NEW k \in 1 .. n
        PROVE  1 .. k \in SUBSET S /\ k \in Nat /\ k # 0
    BY <1>1
  <2> HIDE DEF iter, S
  <2> QED
    BY <2>1, <2>2, MaxOfInterval
<1> DEFINE w == [k \in 0 .. n |-> iter[1 .. k]]
<1>7. /\ w[0] = root /\ w[n] = Follow(root, mounted, path)
      /\ \A i \in 1 .. n : w[i] = Entry(Through(w[i - 1], mounted), path[i])
  <2>1. 1 .. 0 = {}
    OBVIOUS
  <2>2. \A i \in 1 .. n : i \in 0 .. n /\ i - 1 \in 0 .. n
    BY <1>1
  <2> HIDE DEF iter
  <2> QED
    BY <1>1, <1>5, <1>6, <2>1, <2>2
<1>8. w \in [0 .. n -> Place]
  <2> DEFINE bad == {k \in 0 .. n : w[k] \notin Place}
  <2> SUFFICES ASSUME bad # {} PROVE FALSE
    <3> HIDE DEF iter
    <3> QED
      OBVIOUS
  <2> HIDE DEF w
  <2>1. PICK k \in bad : \A m \in bad : k <= m
    <3>1. bad \in SUBSET Nat
      BY <1>1
    <3> HIDE DEF bad
    <3> QED
      BY <3>1, LeastNat
  <2>2. k \in 1 .. n /\ k - 1 \in 0 .. n /\ k - 1 \notin bad
    BY <1>1, <1>7, <2>1
  <2>3. w[k - 1] \in Place
    BY <2>2
  <2>4. Through(w[k - 1], mounted) \in Place
    BY <2>3, EntryFacts
  <2>5. w[k] \in Place
    BY <1>7, <2>2, <2>4, EntryFacts
  <2> QED
    BY <2>1, <2>5
<1> QED
  <2> HIDE DEF w
  <2> QED
    BY <1>7, <1>8

-----------------------------------------------------------------------------
(* The mount table                                                         *)

TableSet ==
  [on : [Dir -> Disk \cup {NoDisk}], at : [Disk -> Dir \cup {NoDir}], mountpoint : Seq(Dir)]

(* The three views of a table agree.                                       *)
Views(t) ==
  /\ \A d \in Disk, n \in Dir : (t.at[d] = n) <=> (t.on[n] = d)
  /\ IsInjective(t.mountpoint)
  /\ Range(t.mountpoint) = {n \in Dir : t.on[n] # NoDisk}

(* Neither the disk nor the directory has a mount.                         *)
Vacant(t, d, n) == t.at[d] = NoDir /\ t.on[n] = NoDisk /\ ~ Contains(t.mountpoint, n)

LEMMA MountedFacts ==
  ASSUME NEW t \in TableSet, NEW d \in Disk, NEW n \in Dir
  PROVE  /\ Mounted(t, d, n) \in TableSet
         /\ \A e \in Disk : Mounted(t, d, n).at[e] = IF e = d THEN n ELSE t.at[e]
         /\ \A k \in Dir : Mounted(t, d, n).on[k] = IF k = n THEN d ELSE t.on[k]
<1>1. t.mountpoint \in Seq(Dir) /\ Append(t.mountpoint, n) \in Seq(Dir)
  BY AppendProperties DEF TableSet
<1> QED
  BY <1>1 DEF Mounted, TableSet

LEMMA MountedViews ==
  ASSUME NEW t \in TableSet, NEW d \in Disk, NEW n \in Dir, Vacant(t, d, n), Views(t)
  PROVE  Views(Mounted(t, d, n))
<1> DEFINE u == Mounted(t, d, n)
           s == t.mountpoint
           L == Len(s)
<1>1. /\ t.at[d] = NoDir /\ t.on[n] = NoDisk /\ s \in Seq(Dir)
      /\ \A i \in 1 .. L : s[i] # n
  BY DEF Vacant, Contains, TableSet
<1>2. \A e \in Disk, k \in Dir : (u.at[e] = k) <=> (u.on[k] = e)
  <2> TAKE e \in Disk, k \in Dir
  <2>1. /\ u.at[e] = IF e = d THEN n ELSE t.at[e]
        /\ u.on[k] = IF k = n THEN d ELSE t.on[k]
    BY MountedFacts
  <2> HIDE DEF u
  <2> QED
    BY <1>1, <2>1, MountAssumption DEF Views
<1>3. /\ L \in Nat /\ DOMAIN s = 1 .. L /\ DOMAIN u.mountpoint = 1 .. L + 1
      /\ \A i \in 1 .. L : u.mountpoint[i] = s[i]
      /\ u.mountpoint[L + 1] = n
  <2>1. u.mountpoint = Append(s, n)
    BY DEF Mounted
  <2>2. Append(s, n) \in Seq(Dir) /\ Len(Append(s, n)) = L + 1
    BY <1>1, AppendProperties
  <2>3. DOMAIN Append(s, n) = 1 .. L + 1
    BY <2>2, LenProperties
  <2> QED
    BY <1>1, <2>1, <2>3, AppendProperties, LenProperties
<1>4. 1 .. L + 1 = (1 .. L) \cup {L + 1}
  BY <1>3
<1>5. IsInjective(u.mountpoint)
  <2>1. \A i, j \in 1 .. L : s[i] = s[j] => i = j
    BY <1>3 DEF Views, IsInjective
  <2> HIDE DEF u
  <2> SUFFICES ASSUME NEW i \in 1 .. L + 1, NEW j \in 1 .. L + 1,
                      u.mountpoint[i] = u.mountpoint[j]
               PROVE  i = j
    BY <1>3 DEF IsInjective
  <2> QED
    BY <1>1, <1>3, <1>4, <2>1
<1>6. Range(u.mountpoint) = Range(s) \cup {n}
  <2> HIDE DEF u
  <2> QED
    BY <1>3, <1>4 DEF Range
<1>7. {k \in Dir : u.on[k] # NoDisk} = {k \in Dir : t.on[k] # NoDisk} \cup {n}
  <2>1. \A k \in Dir : u.on[k] = IF k = n THEN d ELSE t.on[k]
    BY MountedFacts
  <2> HIDE DEF u
  <2> QED
    BY <2>1, MountAssumption
<1> QED
  BY <1>2, <1>5, <1>6, <1>7 DEF Views

LEMMA RemoveAtFacts ==
  ASSUME NEW T, NEW s \in Seq(T), NEW i \in 1 .. Len(s)
  PROVE  /\ RemoveAt(s, i) \in Seq(T) /\ DOMAIN RemoveAt(s, i) = 1 .. Len(s) - 1
         /\ \A j \in 1 .. Len(s) - 1 : RemoveAt(s, i)[j] = s[IF j < i THEN j ELSE j + 1]
<1> DEFINE L == Len(s)
           s1 == SubSeq(s, 1, i - 1)
           s2 == SubSeq(s, i + 1, L)
<1>1. L \in Nat /\ i \in Int /\ i - 1 \in Int /\ i + 1 \in Int /\ \A j \in 1 .. L : s[j] \in T
  BY LenProperties
<1>2. /\ s1 \in Seq(T) /\ Len(s1) = i - 1
      /\ \A j \in 1 .. i - 1 : s1[j] = s[j]
  <2>1. \A j \in 1 .. i - 1 : s[j] \in T
    BY <1>1
  <2> QED
    BY <1>1, <2>1, SubSeqProperties
<1>3. /\ s2 \in Seq(T) /\ Len(s2) = L - i
      /\ \A j \in 1 .. L - i : s2[j] = s[j + i]
  <2>1. \A j \in i + 1 .. L : s[j] \in T
    BY <1>1
  <2>2. /\ s2 \in Seq(T) /\ Len(s2) = IF i + 1 <= L THEN L - (i + 1) + 1 ELSE 0
        /\ \A j \in 1 .. L - (i + 1) + 1 : s2[j] = s[i + 1 + j - 1]
    <3> HIDE DEF L
    <3> QED
      BY <1>1, <2>1, SubSeqProperties
  <2> QED
    BY <1>1, <2>2
<1>4. /\ s1 \o s2 \in Seq(T) /\ Len(s1 \o s2) = L - 1
      /\ \A j \in 1 .. L - 1 : (s1 \o s2)[j] = IF j <= i - 1 THEN s1[j] ELSE s2[j - (i - 1)]
  <2> HIDE DEF s1, s2
  <2>1. /\ s1 \o s2 \in Seq(T) /\ Len(s1 \o s2) = Len(s1) + Len(s2)
        /\ \A j \in 1 .. Len(s1) + Len(s2) :
             (s1 \o s2)[j] = IF j <= Len(s1) THEN s1[j] ELSE s2[j - Len(s1)]
    BY <1>2, <1>3, ConcatProperties
  <2>2. Len(s1) + Len(s2) = L - 1
    BY <1>1, <1>2, <1>3
  <2> QED
    BY <1>2, <2>1, <2>2
<1>5. RemoveAt(s, i) = s1 \o s2
  BY DEF RemoveAt
<1>6. ASSUME NEW j \in 1 .. L - 1
      PROVE  (s1 \o s2)[j] = s[IF j < i THEN j ELSE j + 1]
  <2> HIDE DEF s1, s2, L
  <2>1. CASE j < i
    BY <1>1, <1>2, <1>4, <2>1
  <2>2. CASE ~(j < i)
    <3>1. j - (i - 1) \in 1 .. L - i /\ j - (i - 1) + i = j + 1
      BY <1>1, <2>2
    <3> QED
      BY <1>1, <1>3, <1>4, <2>2, <3>1
  <2> QED
    BY <2>1, <2>2
<1>7. DOMAIN (s1 \o s2) = 1 .. L - 1
  <2> HIDE DEF s1, s2, L
  <2> QED
    BY <1>4, LenProperties
<1> QED
  BY <1>4, <1>5, <1>6, <1>7

LEMMA LastAtFacts ==
  ASSUME NEW s \in Seq(Dir), NEW n, Contains(s, n)
  PROVE  LastAt(s, n) \in 1 .. Len(s) /\ s[LastAt(s, n)] = n
<1> DEFINE places == {i \in DOMAIN s : s[i] = n}
<1>1. Len(s) \in Nat /\ DOMAIN s = 1 .. Len(s)
  BY LenProperties
<1>2. places \in SUBSET (1 .. Len(s)) /\ places # {}
  BY <1>1 DEF Contains
<1>3. Max(places) \in places
  <2> HIDE DEF places
  <2> QED
    BY <1>1, <1>2, MaxInside
<1> QED
  BY <1>1, <1>3 DEF LastAt

LEMMA UnmountedFacts ==
  ASSUME NEW t \in TableSet, NEW n \in Dir, NEW d \in Disk
  PROVE  /\ Unmounted(t, n, d) \in TableSet
         /\ \A e \in Disk : Unmounted(t, n, d).at[e] = IF e = d THEN NoDir ELSE t.at[e]
         /\ \A k \in Dir : Unmounted(t, n, d).on[k] = IF k = n THEN NoDisk ELSE t.on[k]
<1>1. t.mountpoint \in Seq(Dir)
  BY DEF TableSet
<1>2. Unmounted(t, n, d).mountpoint \in Seq(Dir)
  <2>1. CASE Contains(t.mountpoint, n)
    BY <1>1, <2>1, LastAtFacts, RemoveAtFacts DEF Unmounted
  <2>2. CASE ~ Contains(t.mountpoint, n)
    BY <1>1, <2>2 DEF Unmounted
  <2> QED
    BY <2>1, <2>2
<1>3. /\ Unmounted(t, n, d).at = [t.at EXCEPT ![d] = NoDir]
      /\ Unmounted(t, n, d).on = [t.on EXCEPT ![n] = NoDisk]
      /\ Unmounted(t, n, d) = [on |-> Unmounted(t, n, d).on, at |-> Unmounted(t, n, d).at,
                               mountpoint |-> Unmounted(t, n, d).mountpoint]
  BY DEF Unmounted
<1> QED
  BY <1>2, <1>3 DEF TableSet

LEMMA UnmountedViews ==
  ASSUME NEW t \in TableSet, NEW n \in Dir, NEW d \in Disk, t.on[n] = d, Views(t)
  PROVE  Views(Unmounted(t, n, d))
<1> DEFINE u == Unmounted(t, n, d)
           s == t.mountpoint
           L == Len(s)
           k == LastAt(s, n)
<1>1. t.at[d] = n /\ s \in Seq(Dir) /\ L \in Nat /\ DOMAIN s = 1 .. L
  BY LenProperties DEF TableSet, Views
<1>2. \A e \in Disk, m \in Dir : (u.at[e] = m) <=> (u.on[m] = e)
  <2> TAKE e \in Disk, m \in Dir
  <2>1. /\ u.at[e] = IF e = d THEN NoDir ELSE t.at[e]
        /\ u.on[m] = IF m = n THEN NoDisk ELSE t.on[m]
        /\ NoDisk \notin Disk /\ NoDir \notin Dir
    BY UnmountedFacts, MountAssumption
  <2> HIDE DEF u
  <2> QED
    BY <1>1, <2>1 DEF Views
<1>3. Contains(s, n)
  <2>1. n \in Range(s)
    BY MountAssumption DEF Views
  <2> QED
    BY <1>1, <2>1 DEF Range, Contains
<1>4. /\ k \in 1 .. L /\ s[k] = n
      /\ DOMAIN u.mountpoint = 1 .. L - 1
      /\ \A j \in 1 .. L - 1 : u.mountpoint[j] = s[IF j < k THEN j ELSE j + 1]
  <2>1. u.mountpoint = RemoveAt(s, k)
    BY <1>3 DEF Unmounted
  <2>2. k \in 1 .. L /\ s[k] = n
    BY <1>1, <1>3, LastAtFacts
  <2> HIDE DEF u, s, k
  <2> QED
    BY <1>1, <2>1, <2>2, RemoveAtFacts
<1>5. \A i, j \in 1 .. L : s[i] = s[j] => i = j
  BY <1>1 DEF Views, IsInjective
<1>6. IsInjective(u.mountpoint)
  <2> HIDE DEF u, s, k, L
  <2> SUFFICES ASSUME NEW i \in 1 .. L - 1, NEW j \in 1 .. L - 1,
                      u.mountpoint[i] = u.mountpoint[j]
               PROVE  i = j
    BY <1>4 DEF IsInjective
  <2> DEFINE up(x) == IF x < k THEN x ELSE x + 1
  <2>1. up(i) \in 1 .. L /\ up(j) \in 1 .. L
    BY <1>1
  <2>2. s[up(i)] = s[up(j)]
    BY <1>4
  <2>3. up(i) = up(j)
    <3> HIDE DEF up
    <3> QED
      BY <1>5, <2>1, <2>2
  <2> QED
    BY <1>1, <1>4, <2>3
<1>7. Range(u.mountpoint) = Range(s) \ {n}
  <2> HIDE DEF u, s, k, L
  <2>1. ASSUME NEW j \in 1 .. L - 1 PROVE u.mountpoint[j] \in Range(s) \ {n}
    <3> DEFINE x == IF j < k THEN j ELSE j + 1
    <3>1. x \in 1 .. L /\ x # k
      BY <1>1, <1>4
    <3>2. u.mountpoint[j] = s[x]
      BY <1>4
    <3> HIDE DEF x
    <3> QED
      BY <1>1, <1>4, <1>5, <3>1, <3>2 DEF Range
  <2>2. ASSUME NEW i \in 1 .. L, s[i] # n PROVE s[i] \in Range(u.mountpoint)
    <3>1. i # k /\ i \in Nat /\ k \in Nat
      BY <1>1, <1>4, <2>2
    <3>2. CASE i < k
      <4>1. i \in 1 .. L - 1 /\ u.mountpoint[i] = s[i]
        BY <1>1, <1>4, <3>1, <3>2
      <4> QED
        BY <1>4, <4>1 DEF Range
    <3>3. CASE i > k
      <4>1. i - 1 \in 1 .. L - 1 /\ u.mountpoint[i - 1] = s[i]
        BY <1>1, <1>4, <3>1, <3>3
      <4> QED
        BY <1>4, <4>1 DEF Range
    <3> QED
      BY <3>1, <3>2, <3>3
  <2>3. Range(u.mountpoint) \subseteq Range(s) \ {n}
    BY <1>4, <2>1 DEF Range
  <2>4. Range(s) \ {n} \subseteq Range(u.mountpoint)
    <3>1. \A m \in Range(s) : \E i \in 1 .. L : m = s[i]
      BY <1>1 DEF Range
    <3> QED
      BY <2>2, <3>1
  <2> QED
    BY <2>3, <2>4
<1>8. {m \in Dir : u.on[m] # NoDisk} = {m \in Dir : t.on[m] # NoDisk} \ {n}
  <2>1. \A m \in Dir : u.on[m] = IF m = n THEN NoDisk ELSE t.on[m]
    BY UnmountedFacts
  <2> HIDE DEF u
  <2> QED
    BY <2>1
<1> QED
  BY <1>2, <1>6, <1>7, <1>8 DEF Views

(* ufs_unmount_all keeps the views.                                        *)
LEMMA AllUnmountedViews ==
  ASSUME NEW t \in TableSet
  PROVE  AllUnmounted(t) \in TableSet /\ (Views(t) => Views(AllUnmounted(t)))
<1> DEFINE s == t.mountpoint
           S == 1 .. Len(s)
           T == {u \in TableSet : Views(t) => Views(u)}
           step(n, u) == IF CanUnmount(u, n) THEN Unmounted(u, n, u.on[n]) ELSE u
           F == [q \in T \X S |-> step(s[q[2]], q[1])]
           pick == [z \in SUBSET S |-> Min(z)]
           Iter(g) == g = [z \in SUBSET S |->
                             IF z = {} THEN t ELSE step(s[Min(z)], g[z \ {Min(z)}])]
<1>1. s \in Seq(Dir) /\ Len(s) \in Nat /\ DOMAIN s = S /\ IsFiniteSet(S)
  BY LenProperties, FS_Interval DEF TableSet
<1>2. \A z \in SUBSET S : z # {} => pick[z] \in z /\ pick[z] = Min(z)
  BY <1>1, MinInside
<1>3. ASSUME NEW u \in T, NEW n \in Dir PROVE step(n, u) \in T
  <2>1. CASE CanUnmount(u, n)
    <3>1. u.on[n] \in Disk
      BY <2>1 DEF CanUnmount, TableSet
    <3> QED
      BY <2>1, <3>1, UnmountedFacts, UnmountedViews
  <2>2. CASE ~ CanUnmount(u, n)
    BY <2>2
  <2> QED
    BY <2>1, <2>2
<1>4. t \in T /\ F \in [T \X S -> T]
  <2>1. \A i \in S : s[i] \in Dir
    BY <1>1
  <2> HIDE DEF T, S, step
  <2>2. F \in [T \X S -> T]
    BY <1>3, <2>1
  <2> QED
    BY <2>2 DEF T
<1>5. PICK g : Iterates(g, S, T, t, F, pick)
  <2> HIDE DEF S, T, F, pick
  <2> QED
    BY <1>1, <1>2, <1>4, IterExists
<1>6. Iter(g)
  <2>1. ASSUME NEW z \in SUBSET S, z # {}
        PROVE  F[<<g[z \ {pick[z]}], pick[z]>>] = step(s[Min(z)], g[z \ {Min(z)}])
    <3>1. pick[z] = Min(z) /\ Min(z) \in S /\ z \ {Min(z)} \in SUBSET S
      BY <1>2, <2>1
    <3>2. g[z \ {Min(z)}] \in T
      BY <1>5, <3>1 DEF Iterates
    <3> HIDE DEF step, T, S, pick
    <3> QED
      BY <3>1, <3>2
  <2> HIDE DEF F, pick, T, step
  <2>2. g = [z \in SUBSET S |-> g[z]]
    BY <1>5 DEF Iterates
  <2>3. \A z \in SUBSET S : g[z] = IF z = {} THEN t ELSE F[<<g[z \ {pick[z]}], pick[z]>>]
    BY <1>5 DEF Iterates
  <2> QED
    BY <2>1, <2>2, <2>3
<1> DEFINE iter == CHOOSE g1 : Iter(g1)
<1>7. Iter(iter)
  BY <1>6
<1>8. AllUnmounted(t) = iter[S]
  BY <1>1 DEF AllUnmounted, FoldRight, MapThenFoldSet
<1>9. \A z \in SUBSET S : iter[z] \in T
  <2>1. \A z \in SUBSET S : iter[z] = IF z = {} THEN t ELSE step(s[Min(z)], iter[z \ {Min(z)}])
    <3> HIDE DEF iter, step
    <3> QED
      BY <1>7
  <2>2. \A z \in SUBSET S : z # {} /\ iter[z \ {pick[z]}] \in T => iter[z] \in T
    <3> SUFFICES ASSUME NEW z \in SUBSET S, z # {}, iter[z \ {pick[z]}] \in T
                 PROVE  iter[z] \in T
      OBVIOUS
    <3>1. pick[z] = Min(z) /\ Min(z) \in S
      BY <1>2
    <3>2. s[Min(z)] \in Dir
      BY <1>1, <3>1
    <3> HIDE DEF iter, step, T, pick
    <3> QED
      BY <1>3, <2>1, <3>1, <3>2
  <2>3. iter[{}] \in T
    <3> HIDE DEF iter, step, T, S
    <3> QED
      BY <1>4, <2>1
  <2> HIDE DEF iter, T, S, pick
  <2> QED
    BY <1>1, <1>2, <2>2, <2>3, IterStays
<1> QED
  <2> HIDE DEF iter
  <2> QED
    BY <1>8, <1>9

-----------------------------------------------------------------------------
(* The tree of disks                                                       *)

Guests(t, root) == {d \in Disk : t.at[d] \notin {NoDir, root}}
Below(t, d) == DiskOf[t.at[d]]

(* The root disk is mounted on itself.  Each other disk that is mounted    *)
(* stands on a mounted disk, and no disks stand on each other in a ring.   *)
Tree(t, root) ==
  /\ root # NoDir => Up[root] = root /\ t.at[DiskOf[root]] = root
  /\ \A d \in Guests(t, root) : t.at[Below(t, d)] # NoDir
  /\ \A ring \in SUBSET Guests(t, root) :
       ring # {} => \E d \in ring : Below(t, d) \notin ring

(* The directories below the disks were not deleted.                       *)
Kept(t, root) == \A d \in Guests(t, root) : t.at[d] \notin removed

(* Every directory on the way to the root directory of its disk has its    *)
(* entry.                                                                  *)
Live(n) == \E way \in SUBSET (Dir \ nameless) : n \in way /\ \A m \in way : Up[m] \in way

(* A root directory has no entry to lose.                                  *)
NameInv == nameless \subseteq {n \in Dir : Up[n] # n}

LEMMA DirFacts ==
  ASSUME NEW n \in Dir
  PROVE  DiskOf[n] \in Disk /\ Up[n] \in Dir /\ DiskOf[Up[n]] = DiskOf[n] /\ n # NoDir
BY MountAssumption

LEMMA TopFacts ==
  ASSUME NEW d \in Disk
  PROVE  TopOf(d) \in Dir /\ DiskOf[TopOf(d)] = d /\ Up[TopOf(d)] = TopOf(d)
BY MountAssumption DEF TopOf

(* A directory that is found has its entry, and what it is in has one.     *)
LEMMA EntryLive ==
  ASSUME NameInv, NEW n \in Dir, Up[n] = n \/ Live(n), NEW name, Entry(n, name) # NoDir
  PROVE  LET k == Entry(n, name) IN k \in Dir /\ DiskOf[k] = DiskOf[n] /\ Live(k)
<1>1. PICK way \in SUBSET (Dir \ nameless) : n \in way /\ \A m \in way : Up[m] \in way
  <2>1. CASE Up[n] = n
    <3>1. {n} \in SUBSET (Dir \ nameless) /\ n \in {n} /\ \A m \in {n} : Up[m] \in {n}
      BY <2>1 DEF NameInv
    <3> QED
      BY <3>1
  <2>2. CASE Live(n)
    BY <2>2 DEF Live
  <2> QED
    BY <2>1, <2>2
<1>2. Live(n) /\ Live(Up[n])
  BY <1>1 DEF Live
<1>3. ASSUME NEW k \in Kids(n) PROVE k \in Dir /\ DiskOf[k] = DiskOf[n] /\ Live(k)
  <2>1. k \in Dir \ nameless /\ Up[k] = n
    BY DEF Kids
  <2>2. /\ way \cup {k} \in SUBSET (Dir \ nameless) /\ k \in way \cup {k}
        /\ \A m \in way \cup {k} : Up[m] \in way \cup {k}
    BY <1>1, <2>1
  <2>3. Live(k)
    BY <2>2 DEF Live
  <2> QED
    BY <2>1, <2>3, DirFacts
<1>4. \/ Entry(n, name) = n \/ Entry(n, name) = Up[n]
      \/ Entry(n, name) \in Kids(n)
  <2>1. ASSUME \E k \in Kids(n) : NameOf[k] = name
        PROVE  (CHOOSE k \in Kids(n) : NameOf[k] = name) \in Kids(n)
    BY <2>1
  <2> QED
    BY <2>1 DEF Entry
<1> QED
  BY <1>2, <1>3, <1>4, DirFacts

(* A path ends on a disk that is mounted, in a directory with an entry.    *)
LEMMA FollowLands ==
  ASSUME NameInv, NEW t \in TableSet, NEW root \in Place, Views(t),
         root # NoDir => Up[root] = root /\ t.at[DiskOf[root]] = root,
         NEW N, NEW path \in Seq(N), NEW n, n = Follow(root, t.on, path), n # NoDir
  PROVE  n \in Dir /\ n \notin nameless /\ t.at[DiskOf[n]] # NoDir
<1> DEFINE Stood(k) == k \in Dir /\ t.at[DiskOf[k]] # NoDir
           Reached(k) == k = NoDir \/ (Stood(k) /\ (Up[k] = k \/ Live(k)))
<1>1. path # << >>
  BY DEF Follow
<1>2. t.on \in [Dir -> Disk \cup {NoDisk}]
  BY DEF TableSet
<1>3. PICK w \in [0 .. Len(path) -> Place] :
        /\ w[0] = root /\ w[Len(path)] = n
        /\ \A i \in 1 .. Len(path) : w[i] = Entry(Through(w[i - 1], t.on), path[i])
  BY <1>1, <1>2, FollowSteps
<1>4. ASSUME NEW k, Reached(k), NEW name, Entry(Through(k, t.on), name) # NoDir
      PROVE  LET e == Entry(Through(k, t.on), name) IN Stood(e) /\ Live(e)
  <2> DEFINE m == Through(k, t.on)
  <2>1. k # NoDir
    BY <1>4 DEF Entry, Through
  <2>2. m \in Dir /\ t.at[DiskOf[m]] # NoDir /\ (Up[m] = m \/ Live(m))
    <3>1. CASE t.on[k] = NoDisk
      BY <1>4, <2>1, <3>1 DEF Through
    <3>2. CASE t.on[k] # NoDisk
      <4>1. t.on[k] \in Disk /\ k \in Dir
        BY <1>2, <1>4, <2>1, <3>2
      <4>2. t.at[t.on[k]] = k /\ m = TopOf(t.on[k])
        BY <2>1, <3>2, <4>1 DEF Views, Through
      <4> QED
        BY <2>1, <4>1, <4>2, TopFacts
    <3> QED
      BY <3>1, <3>2
  <2> HIDE DEF m
  <2> QED
    BY <1>4, <2>2, EntryLive DEF m
<1>5. \A i \in 0 .. Len(path) : Reached(w[i])
  <2> DEFINE bad == {i \in 0 .. Len(path) : ~ Reached(w[i])}
  <2> SUFFICES ASSUME bad # {} PROVE FALSE
    OBVIOUS
  <2>0. Len(path) \in Nat
    BY LenProperties
  <2>1. PICK i \in bad : \A j \in bad : i <= j
    <3>1. bad \in SUBSET Nat
      BY <2>0
    <3> HIDE DEF bad
    <3> QED
      BY <3>1, LeastNat
  <2>2. Reached(w[0])
    <3>1. w[0] = root /\ (root = NoDir \/ root \in Dir)
      BY <1>3 DEF Place
    <3>2. CASE root = NoDir
      BY <3>1, <3>2
    <3>3. CASE root \in Dir
      <4>1. root # NoDir
        BY <3>3, DirFacts
      <4> QED
        BY <3>1, <3>3, <4>1
    <3> QED
      BY <3>1, <3>2, <3>3
  <2>3. i \in 1 .. Len(path) /\ i - 1 \in 0 .. Len(path) /\ i - 1 \notin bad
    <3>1. i \in 0 .. Len(path) /\ i # 0
      BY <2>1, <2>2
    <3>2. i \in 1 .. Len(path) /\ i - 1 \in 0 .. Len(path) /\ ~ (i <= i - 1)
      BY <2>0, <3>1
    <3> QED
      BY <2>1, <3>2
  <2>4. Reached(w[i - 1]) /\ w[i] = Entry(Through(w[i - 1], t.on), path[i])
    BY <1>3, <2>3
  <2>5. Reached(w[i])
    <3> HIDE DEF bad
    <3>1. CASE w[i] = NoDir
      BY <3>1
    <3>2. CASE w[i] # NoDir
      <4> DEFINE k == w[i - 1]
      <4>1. Reached(k) /\ Entry(Through(k, t.on), path[i]) # NoDir
        BY <2>4, <3>2
      <4> HIDE DEF k, Reached, Stood
      <4>2. LET e == Entry(Through(k, t.on), path[i]) IN Stood(e) /\ Live(e)
        BY <1>4, <4>1
      <4>3. Stood(w[i]) /\ Live(w[i])
        BY <2>4, <4>2 DEF k
      <4> QED
        BY <4>3 DEF Reached
    <3> QED
      BY <3>1, <3>2
  <2> QED
    BY <2>1, <2>5
<1>6. Len(path) \in 1 .. Len(path) /\ Len(path) - 1 \in 0 .. Len(path)
  BY <1>1, EmptySeq, LenProperties
<1>7. Reached(w[Len(path) - 1]) /\ n = Entry(Through(w[Len(path) - 1], t.on), path[Len(path)])
  BY <1>3, <1>5, <1>6
<1>8. Stood(n) /\ Live(n)
  <2> HIDE DEF Stood, Reached
  <2> QED
    BY <1>4, <1>7
<1> QED
  BY <1>8 DEF Live

(* A disk that is not mounted becomes a leaf of the tree.                  *)
LEMMA MountedTree ==
  ASSUME NEW t \in TableSet, NEW root \in Place, Views(t), Tree(t, root),
         NEW d \in Disk, NEW n \in Dir, Vacant(t, d, n), t.at[DiskOf[n]] # NoDir
  PROVE  /\ Tree(Mounted(t, d, n), root)
         /\ Guests(Mounted(t, d, n), root) = Guests(t, root) \cup {d}
<1> DEFINE u == Mounted(t, d, n)
<1>0. /\ t.at[d] = NoDir /\ t.on[n] = NoDisk /\ NoDisk \notin Disk /\ NoDir \notin Dir
      /\ \A e \in Disk : u.at[e] = IF e = d THEN n ELSE t.at[e]
      /\ \A e \in Disk, k \in Dir : (t.at[e] = k) <=> (t.on[k] = e)
      /\ DiskOf[n] \in Disk
      /\ \A e \in Disk : t.at[e] # NoDir => t.at[e] \in Dir /\ DiskOf[t.at[e]] \in Disk
  <2>1. /\ t.at[d] = NoDir /\ t.on[n] = NoDisk
        /\ \A e \in Disk, k \in Dir : (t.at[e] = k) <=> (t.on[k] = e)
    BY DEF Vacant, Views
  <2>2. \A e \in Disk : u.at[e] = IF e = d THEN n ELSE t.at[e]
    BY MountedFacts
  <2>3. DiskOf[n] \in Disk /\ \A e \in Disk : t.at[e] # NoDir => t.at[e] \in Dir /\ DiskOf[t.at[e]] \in Disk
    BY DirFacts DEF TableSet
  <2> HIDE DEF u
  <2> QED
    BY <2>1, <2>2, <2>3, MountAssumption
<1> HIDE DEF u
<1>1. n # root /\ n # NoDir
  <2>1. root # NoDir => root \in Dir /\ DiskOf[root] \in Disk
    BY DirFacts DEF Place
  <2> QED
    BY <1>0, <2>1 DEF Tree
<1>2. Guests(u, root) = Guests(t, root) \cup {d}
  BY <1>0, <1>1 DEF Guests
<1>3. /\ \A e \in Guests(t, root) : /\ e # d /\ u.at[e] = t.at[e] /\ Below(u, e) = Below(t, e)
                                    /\ Below(t, e) # d /\ u.at[Below(t, e)] # NoDir
      /\ Below(u, d) = DiskOf[n] /\ DiskOf[n] # d /\ u.at[DiskOf[n]] # NoDir
  <2>1. ASSUME NEW e \in Guests(t, root)
        PROVE  /\ e # d /\ u.at[e] = t.at[e] /\ Below(u, e) = Below(t, e)
               /\ Below(t, e) # d /\ u.at[Below(t, e)] # NoDir
    <3>1. e \in Disk /\ e # d /\ u.at[e] = t.at[e] /\ Below(u, e) = Below(t, e)
      BY <1>0 DEF Guests, Below
    <3>2. t.at[Below(t, e)] # NoDir /\ Below(t, e) \in Disk
      BY <1>0 DEF Tree, Guests, Below
    <3> QED
      BY <1>0, <3>1, <3>2
  <2>2. Below(u, d) = DiskOf[n] /\ DiskOf[n] # d /\ u.at[DiskOf[n]] # NoDir
    BY <1>0 DEF Below
  <2> QED
    BY <2>1, <2>2
<1>4. root # NoDir => Up[root] = root /\ u.at[DiskOf[root]] = root
  <2>1. root # NoDir => DiskOf[root] \in Disk
    BY DirFacts DEF Place
  <2> QED
    BY <1>0, <2>1 DEF Tree
<1>5. \A e \in Guests(u, root) : u.at[Below(u, e)] # NoDir
  BY <1>2, <1>3
<1>6. ASSUME NEW ring \in SUBSET Guests(u, root), ring # {}
      PROVE  \E e \in ring : Below(u, e) \notin ring
  <2>1. CASE ring \ {d} = {}
    BY <1>2, <1>3, <1>6, <2>1
  <2>2. CASE ring \ {d} # {}
    <3>1. PICK e \in ring \ {d} : Below(t, e) \notin ring \ {d}
      BY <1>2, <2>2 DEF Tree
    <3> QED
      BY <1>2, <1>3, <3>1
  <2> QED
    BY <2>1, <2>2
<1> QED
  BY <1>2, <1>4, <1>5, <1>6 DEF Tree, u

(* A disk that no other disk stands on can go.                             *)
LEMMA UnmountedTree ==
  ASSUME NEW t \in TableSet, NEW root \in Place, Views(t), Tree(t, root),
         NEW d \in Disk, NEW n \in Dir, t.on[n] = d, n # root,
         \A e \in Disk \ {d} : t.at[e] # NoDir => DiskOf[t.at[e]] # d
  PROVE  /\ Tree(Unmounted(t, n, d), root)
         /\ Guests(Unmounted(t, n, d), root) = Guests(t, root) \ {d}
<1> DEFINE u == Unmounted(t, n, d)
<1>0. /\ t.at[d] = n
      /\ \A e \in Disk : u.at[e] = IF e = d THEN NoDir ELSE t.at[e]
      /\ \A e \in Disk : t.at[e] # NoDir => t.at[e] \in Dir /\ DiskOf[t.at[e]] \in Disk
  BY UnmountedFacts, DirFacts DEF Views, TableSet
<1> HIDE DEF u
<1>2. Guests(u, root) = Guests(t, root) \ {d}
  BY <1>0 DEF Guests
<1>3. ASSUME NEW e \in Guests(u, root)
      PROVE  /\ u.at[e] = t.at[e] /\ Below(u, e) = Below(t, e) /\ u.at[Below(t, e)] # NoDir
  <2>1. e \in Disk /\ e # d /\ u.at[e] = t.at[e] /\ Below(u, e) = Below(t, e)
    BY <1>0 DEF Guests, Below
  <2>2. t.at[Below(t, e)] # NoDir /\ Below(t, e) \in Disk
    BY <1>0, <1>2, <2>1 DEF Tree, Guests, Below
  <2>3. Below(t, e) # d
    BY <1>2, <2>1 DEF Below, Guests
  <2> QED
    BY <1>0, <2>1, <2>2, <2>3
<1>4. root # NoDir => Up[root] = root /\ u.at[DiskOf[root]] = root
  <2>1. root # NoDir => DiskOf[root] \in Disk
    BY DirFacts DEF Place
  <2> QED
    BY <1>0, <2>1 DEF Tree
<1>5. \A e \in Guests(u, root) : u.at[Below(u, e)] # NoDir
  BY <1>3
<1>6. ASSUME NEW ring \in SUBSET Guests(u, root), ring # {}
      PROVE  \E e \in ring : Below(u, e) \notin ring
  BY <1>2, <1>3, <1>6 DEF Tree
<1> QED
  BY <1>2, <1>4, <1>5, <1>6 DEF Tree, u

LEMMA CanMountFacts ==
  ASSUME NEW t, NEW d, NEW n, CanMount(t, d, n)
  PROVE  n \in Dir /\ n # NoDir /\ Vacant(t, d, n)
BY MountAssumption DEF CanMount, Vacant

-----------------------------------------------------------------------------
(* The start                                                               *)

LEMMA EmptyFacts ==
  Empty \in TableSet /\ Views(Empty) /\ Tree(Empty, NoDir) /\ Guests(Empty, NoDir) = {}
<1>1. Empty \in TableSet /\ Empty.mountpoint = << >> /\ DOMAIN << >> = {}
  BY EmptySeq DEF Empty, TableSet
<1>2. Views(Empty)
  BY <1>1, MountAssumption DEF Empty, Views, IsInjective, Range
<1>3. Guests(Empty, NoDir) = {}
  BY DEF Guests, Empty
<1> QED
  BY <1>1, <1>2, <1>3 DEF Tree

(* The root disk alone.                                                    *)
LEMMA FirstMount ==
  ASSUME NEW d \in Disk
  PROVE  LET t == Mounted(Empty, d, TopOf(d))
         IN  t \in TableSet /\ Views(t) /\ Tree(t, TopOf(d))
<1> DEFINE root == TopOf(d)
           t == Mounted(Empty, d, root)
<1>1. root \in Dir /\ DiskOf[root] = d /\ Up[root] = root
  BY TopFacts
<1>2. Empty \in TableSet /\ Empty.mountpoint = << >>
  BY EmptyFacts DEF Empty
<1>3. Views(Empty)
  BY EmptyFacts
<1>4. Vacant(Empty, d, root)
  BY <1>1, <1>2, EmptySeq DEF Vacant, Empty, Contains
<1>5. t \in TableSet /\ Views(t)
  <2> HIDE DEF root
  <2> QED
    BY <1>1, <1>2, <1>3, <1>4, MountedFacts, MountedViews
<1>6. \A e \in Disk : t.at[e] = IF e = d THEN root ELSE NoDir
  <2> HIDE DEF root
  <2>1. \A e \in Disk : Empty.at[e] = NoDir
    BY DEF Empty
  <2> QED
    BY <1>1, <1>2, <2>1, MountedFacts
<1>7. Guests(t, root) = {}
  <2> HIDE DEF root, t
  <2> QED
    BY <1>6 DEF Guests
<1>8. Tree(t, root)
  <2> HIDE DEF root, t
  <2> QED
    BY <1>1, <1>6, <1>7 DEF Tree
<1> QED
  BY <1>5, <1>8

(* A line of /etc/fstab.                                                   *)
LEMMA FstabLineStays ==
  ASSUME NameInv, NEW opened \in Seq(Disk), opened # << >>, NEW root \in Dir,
         NEW t \in TableSet, Views(t), Tree(t, root),
         NEW line, NEW N, line.path \in Seq(N)
  PROVE  LET u == FstabLine(opened, root, t, line)
         IN  u \in TableSet /\ Views(u) /\ Tree(u, root)
<1> DEFINE n == Follow(root, t.on, line.path)
           d == line.disk
<1>1. CASE d \in Range(Tail(opened)) /\ HasRoot(d) /\ CanMount(t, d, n)
  <2>1. FstabLine(opened, root, t, line) = Mounted(t, d, n)
    BY <1>1 DEF FstabLine
  <2>2. d \in Disk
    <3>1. Tail(opened) \in Seq(Disk)
      BY HeadTailProperties
    <3> QED
      BY <1>1, <3>1, RangeOfSeq
  <2>3. n \in Dir /\ n # NoDir /\ Vacant(t, d, n)
    BY <1>1, CanMountFacts
  <2>4. root \in Place /\ (root # NoDir => Up[root] = root /\ t.at[DiskOf[root]] = root)
    BY DEF Place, Tree
  <2> HIDE DEF n, d
  <2>5. t.at[DiskOf[n]] # NoDir
    BY <2>3, <2>4, FollowLands DEF n
  <2>6. Mounted(t, d, n) \in TableSet /\ Views(Mounted(t, d, n))
    BY <2>2, <2>3, MountedFacts, MountedViews
  <2>7. Tree(Mounted(t, d, n), root)
    BY <2>2, <2>3, <2>4, <2>5, MountedTree
  <2> QED
    BY <2>1, <2>6, <2>7
<1>2. CASE ~ (d \in Range(Tail(opened)) /\ HasRoot(d) /\ CanMount(t, d, n))
  <2>1. FstabLine(opened, root, t, line) = t
    BY <1>2 DEF FstabLine
  <2> QED
    BY <2>1
<1> QED
  BY <1>1, <1>2

(* All lines.                                                              *)
LEMMA FstabStays ==
  ASSUME NameInv, NEW opened \in Seq(Disk), opened # << >>, NEW root \in Dir,
         NEW first \in TableSet, Views(first), Tree(first, root),
         NEW N, NEW lines \in Seq(N), \A line \in N : line.path \in Seq(Range(line.path))
  PROVE  LET u == FoldLeft(LAMBDA t, line : FstabLine(opened, root, t, line), first, lines)
         IN  u \in TableSet /\ Views(u) /\ Tree(u, root)
<1> DEFINE S == 1 .. Len(lines)
           T == {u \in TableSet : Views(u) /\ Tree(u, root)}
           F == [q \in T \X S |-> FstabLine(opened, root, q[1], lines[q[2]])]
           pick == [z \in SUBSET S |-> Max(z)]
           Iter(g) == g = [z \in SUBSET S |->
                             IF z = {} THEN first
                             ELSE FstabLine(opened, root, g[z \ {Max(z)}], lines[Max(z)])]
<1>1. Len(lines) \in Nat /\ DOMAIN lines = S /\ IsFiniteSet(S)
  BY LenProperties, FS_Interval
<1>2. \A z \in SUBSET S : z # {} => pick[z] \in z /\ pick[z] = Max(z)
  BY <1>1, MaxInside
<1>3. ASSUME NEW u \in T, NEW i \in S PROVE FstabLine(opened, root, u, lines[i]) \in T
  <2>1. lines[i].path \in Seq(Range(lines[i].path))
    BY <1>1
  <2> QED
    BY <2>1, FstabLineStays
<1>4. first \in T /\ F \in [T \X S -> T]
  <2> HIDE DEF T, S
  <2>1. F \in [T \X S -> T]
    BY <1>3
  <2> QED
    BY <2>1 DEF T
<1>5. PICK g : Iterates(g, S, T, first, F, pick)
  <2> HIDE DEF S, T, F, pick
  <2> QED
    BY <1>1, <1>2, <1>4, IterExists
<1>6. Iter(g)
  <2>1. ASSUME NEW z \in SUBSET S, z # {}
        PROVE  F[<<g[z \ {pick[z]}], pick[z]>>] =
                 FstabLine(opened, root, g[z \ {Max(z)}], lines[Max(z)])
    <3>1. pick[z] = Max(z) /\ Max(z) \in S /\ z \ {Max(z)} \in SUBSET S
      BY <1>2, <2>1
    <3>2. g[z \ {Max(z)}] \in T
      BY <1>5, <3>1 DEF Iterates
    <3> HIDE DEF T, S, pick
    <3> QED
      BY <3>1, <3>2
  <2> HIDE DEF F, pick, T
  <2>2. g = [z \in SUBSET S |-> g[z]]
    BY <1>5 DEF Iterates
  <2>3. \A z \in SUBSET S : g[z] = IF z = {} THEN first ELSE F[<<g[z \ {pick[z]}], pick[z]>>]
    BY <1>5 DEF Iterates
  <2> QED
    BY <2>1, <2>2, <2>3
<1> DEFINE iter == CHOOSE g1 : Iter(g1)
<1>7. Iter(iter)
  BY <1>6
<1>8. FoldLeft(LAMBDA t, line : FstabLine(opened, root, t, line), first, lines) = iter[S]
  BY <1>1 DEF FoldLeft, MapThenFoldSet
<1>9. \A z \in SUBSET S : iter[z] \in T
  <2>1. \A z \in SUBSET S :
          iter[z] = IF z = {} THEN first
                    ELSE FstabLine(opened, root, iter[z \ {Max(z)}], lines[Max(z)])
    <3> HIDE DEF iter
    <3> QED
      BY <1>7
  <2>2. \A z \in SUBSET S : z # {} /\ iter[z \ {pick[z]}] \in T => iter[z] \in T
    <3> SUFFICES ASSUME NEW z \in SUBSET S, z # {}, iter[z \ {pick[z]}] \in T
                 PROVE  iter[z] \in T
      OBVIOUS
    <3>1. pick[z] = Max(z) /\ Max(z) \in S
      BY <1>2
    <3> HIDE DEF iter, T, pick
    <3> QED
      BY <1>3, <2>1, <3>1
  <2>3. iter[{}] \in T
    <3> HIDE DEF iter, T, S
    <3> QED
      BY <1>4, <2>1
  <2> HIDE DEF iter, T, S, pick
  <2> QED
    BY <1>1, <1>2, <2>2, <2>3, IterStays
<1> QED
  <2> HIDE DEF iter
  <2> QED
    BY <1>8, <1>9

-----------------------------------------------------------------------------
(* The invariant                                                           *)

Call ==
  [op : {"none", "sync"}] \cup [op : {"mount"}, disk : Disk, dir : Place]
    \cup [op : {"unmount", "rmdir"}, disk : Disk, dir : Dir]
    \cup [op : {"clear", "entry"}, disk : Disk, dir : Dir, top : Dir]

RmdirOps == {"rmdir", "clear", "entry"}

(* The table is as promised, but for the races and the calls that odd      *)
(* names.                                                                  *)
TableInv ==
  /\ Table \in TableSet
  /\ "raced" \notin odd => Views(Table)
  /\ odd = {} => Tree(Table, fsroot) /\ Kept(Table, fsroot)

(* What a call c found is still so: the directory to mount on has its      *)
(* entry and its disk is mounted, none is mounted on one to be deleted.    *)
CallOk(t, lost, c) ==
  /\ c.op = "mount" /\ c.dir # NoDir => t.at[DiskOf[c.dir]] # NoDir /\ c.dir \notin lost
  /\ c.op \in RmdirOps => t.on[c.dir] = NoDisk
  /\ c.op = "clear" => c.top = c.dir

(* The lock is held between the two parts of ufs_mount; a root directory   *)
(* is never deleted by its name.                                           *)
CallInv ==
  /\ call \in [Session -> Call]
  /\ \A s \in Session : call[s].op \in {"mount", "sync"} => holder = s
  /\ \A s \in Session : call[s].op \in RmdirOps => Up[call[s].dir] # call[s].dir
  /\ odd = {} => \A s \in Session : CallOk(Table, nameless, call[s])

MountInv == vdisks \in Seq(Disk) /\ fsroot \in Place /\ NameInv /\ TableInv /\ CallInv

LEMMA CallFacts ==
  ASSUME NEW c \in Call
  PROVE  /\ c.op = "mount" => c.disk \in Disk /\ c.dir \in Place
         /\ c.op \in {"unmount", "rmdir", "clear", "entry"} => c.disk \in Disk /\ c.dir \in Dir
         /\ c.op \in {"clear", "entry"} => c.top \in Dir
BY DEF Call

LEMMA CallKinds ==
  /\ Idle \in Call /\ Idle.op = "none"
  /\ [op |-> "sync"] \in Call
  /\ \A d \in Disk, n \in Place : [op |-> "mount", disk |-> d, dir |-> n] \in Call
  /\ \A d \in Disk, n \in Dir : /\ [op |-> "unmount", disk |-> d, dir |-> n] \in Call
                                /\ [op |-> "rmdir", disk |-> d, dir |-> n] \in Call
  /\ \A d \in Disk, n, top \in Dir :
       [op |-> "clear", disk |-> d, dir |-> n, top |-> top] \in Call
  /\ \A c \in Call : c.op = "clear" => [c EXCEPT !.op = "entry"] \in Call
BY DEF Call, Idle

LEMMA TableFacts ==
  /\ Table.on = on /\ Table.at = at /\ Table.mountpoint = mountpoint
  /\ \A t \in TableSet : SetTable(t) => Table' = t
  /\ UNCHANGED table => Table' = Table
BY DEF Table, SetTable, TableSet, table

LEMMA FreeFacts ==
  ASSUME CallInv, Free, NEW s \in Session
  PROVE  call[s].op \notin {"mount", "sync"}
BY MountAssumption DEF CallInv, Free

(* The result of a path that a call uses.                                  *)
LEMMA FollowFacts ==
  ASSUME MountInv, NEW path \in Paths
  PROVE  LET n == Follow(fsroot, on, path)
         IN  /\ n \in Place
             /\ odd = {} /\ n # NoDir => at[DiskOf[n]] # NoDir /\ n \notin nameless
             /\ path # << >> /\ Last(path) \notin {".", ".."} /\ n # NoDir => Up[n] # n
<1> DEFINE n == Follow(fsroot, on, path)
<1>1. path \in Seq(Range(path))
  BY MountAssumption
<1>2. Table \in TableSet /\ fsroot \in Place /\ on \in [Dir -> Disk \cup {NoDisk}]
  BY TableFacts DEF MountInv, TableInv, TableSet
<1>3. /\ n \in Place
      /\ path # << >> /\ Last(path) \notin {".", ".."} /\ n # NoDir => Up[n] # n
  <2>1. CASE path = << >>
    BY <2>1 DEF Follow, Place
  <2>2. CASE path # << >>
    <3>1. PICK w \in [0 .. Len(path) -> Place] :
            /\ w[Len(path)] = n
            /\ \A i \in 1 .. Len(path) : w[i] = Entry(Through(w[i - 1], on), path[i])
      BY <1>1, <1>2, <2>2, FollowSteps
    <3>2. Len(path) \in 0 .. Len(path) /\ Len(path) \in 1 .. Len(path)
      BY <1>1, <2>2, EmptySeq, LenProperties
    <3>3. n \in Place /\ n = Entry(Through(w[Len(path) - 1], on), path[Len(path)])
      BY <3>1, <3>2
    <3>4. ASSUME NEW m, NEW name, name \notin {".", ".."}, Entry(m, name) # NoDir
          PROVE  Up[Entry(m, name)] # Entry(m, name)
      <4>1. PICK k \in Kids(m) : k = Entry(m, name)
        BY <3>4 DEF Entry
      <4> QED
        BY <4>1 DEF Kids
    <3>5. Last(path) = path[Len(path)]
      BY DEF Last
    <3> HIDE DEF n
    <3> QED
      BY <3>3, <3>4, <3>5
  <2> QED
    BY <2>1, <2>2
<1>4. ASSUME odd = {}, n # NoDir PROVE at[DiskOf[n]] # NoDir /\ n \notin nameless
  <2>1. Views(Table) /\ Tree(Table, fsroot) /\ NameInv
    BY <1>4 DEF MountInv, TableInv
  <2> HIDE DEF n
  <2>2. n = Follow(fsroot, Table.on, path)
    BY TableFacts DEF n
  <2> QED
    BY <1>1, <1>2, <1>4, <2>1, <2>2, FollowLands, TableFacts DEF Tree
<1> QED
  BY <1>3, <1>4

-----------------------------------------------------------------------------
(* The steps of the calls                                                  *)

(* A session goes on to c, the others stay where they are.                 *)
LEMMA CallMoves ==
  ASSUME MountInv, NEW s \in Session, NEW c \in Call,
         call' = [call EXCEPT ![s] = c],
         UNCHANGED <<vdisks, fsroot>>, NameInv', TableInv',
         \/ c.op \notin {"mount", "sync"} /\ (holder' = holder \/ call[s].op \in {"mount", "sync"})
         \/ Free /\ holder' = s,
         c.op \in RmdirOps => Up[c.dir] # c.dir,
         odd' = {} =>
           /\ odd = {} /\ CallOk(Table', nameless', c)
           /\ \A r \in Session \ {s} :
                CallOk(Table, nameless, call[r]) => CallOk(Table', nameless', call[r])
  PROVE  MountInv'
<1>1. /\ call' \in [Session -> Call]
      /\ \A r \in Session : call'[r] = IF r = s THEN c ELSE call[r]
  BY DEF MountInv, CallInv
<1>2. \A r \in Session : call'[r].op \in {"mount", "sync"} => holder' = r
  BY <1>1, FreeFacts DEF MountInv, CallInv
<1>3. \A r \in Session : call'[r].op \in RmdirOps => Up[call'[r].dir] # call'[r].dir
  BY <1>1 DEF MountInv, CallInv
<1>4. odd' = {} => \A r \in Session : CallOk(Table', nameless', call'[r])
  BY <1>1 DEF MountInv, CallInv
<1> QED
  BY <1>1, <1>2, <1>3, <1>4 DEF MountInv, CallInv

(* The first part of a call, which changes nothing but the calls.          *)
LEMMA BeginCall ==
  ASSUME MountInv, NEW s \in Session, NEW c \in Call,
         call' = [call EXCEPT ![s] = c],
         UNCHANGED <<vdisks, fsroot, table, gone, odd>>,
         \/ c.op \notin {"mount", "sync"} /\ (holder' = holder \/ call[s].op \in {"mount", "sync"})
         \/ Free /\ holder' = s,
         c.op \in RmdirOps => Up[c.dir] # c.dir,
         odd = {} => CallOk(Table, nameless, c)
  PROVE  MountInv'
<1>1. TableInv' /\ NameInv' /\ Table' = Table
  BY TableFacts DEF MountInv, TableInv, NameInv, Kept, Tree, Guests, gone
<1> QED
  BY <1>1, CallMoves DEF gone

LEMMA BeginMountInv ==
  ASSUME MountInv, NEW s \in Session, NEW d \in Disk, NEW path \in Paths, BeginMount(s, d, path)
  PROVE  MountInv'
<1> DEFINE c == [op |-> "mount", disk |-> d, dir |-> Follow(fsroot, on, path)]
<1>1. c \in Call /\ c.op = "mount" /\ c.dir = Follow(fsroot, on, path)
  BY CallKinds, FollowFacts
<1>2. /\ Free /\ holder' = s /\ call' = [call EXCEPT ![s] = c]
      /\ UNCHANGED <<vdisks, fsroot, table, gone, odd>>
  BY DEF BeginMount
<1> HIDE DEF c
<1>3. odd = {} => CallOk(Table, nameless, c)
  BY <1>1, FollowFacts, TableFacts DEF CallOk, RmdirOps
<1> QED
  BY <1>1, <1>2, <1>3, BeginCall DEF RmdirOps

LEMMA BeginUnmountInv ==
  ASSUME MountInv, NEW s \in Session, NEW n \in Place, BeginUnmount(s, n)
  PROVE  MountInv'
<1> DEFINE c == [op |-> "unmount", disk |-> on[n], dir |-> n]
<1>1. n \in Dir /\ on[n] \in Disk
  BY TableFacts DEF BeginUnmount, CanUnmount, Place, MountInv, TableInv, TableSet
<1>2. c \in Call /\ c.op = "unmount"
  BY <1>1, CallKinds
<1>3. /\ holder' = holder /\ call' = [call EXCEPT ![s] = c]
      /\ UNCHANGED <<vdisks, fsroot, table, gone, odd>>
  BY DEF BeginUnmount
<1> HIDE DEF c
<1> QED
  BY <1>2, <1>3, BeginCall DEF CallOk, RmdirOps

LEMMA BeginRmdirInv ==
  ASSUME MountInv, NEW s \in Session, NEW path \in Paths, BeginRmdir(s, path)
  PROVE  MountInv'
<1> DEFINE n == Follow(fsroot, on, path)
           c == [op |-> "rmdir", disk |-> DiskOf[n], dir |-> n]
<1>1. n \in Dir /\ DiskOf[n] \in Disk /\ Up[n] # n /\ on[n] = NoDisk
  BY FollowFacts, DirFacts DEF BeginRmdir, Place
<1>2. c \in Call /\ c.op = "rmdir" /\ c.dir = n
  BY <1>1, CallKinds
<1>3. /\ holder' = holder /\ call' = [call EXCEPT ![s] = c]
      /\ UNCHANGED <<vdisks, fsroot, table, gone, odd>>
  BY DEF BeginRmdir
<1> HIDE DEF c, n
<1>4. CallOk(Table, nameless, c)
  BY <1>1, <1>2, TableFacts DEF CallOk
<1> QED
  BY <1>1, <1>2, <1>3, <1>4, BeginCall

(* The last part of a call leaves the session idle.                        *)
LEMMA EndCall ==
  ASSUME MountInv, NEW s \in Session, call' = [call EXCEPT ![s] = Idle],
         UNCHANGED <<vdisks, fsroot, nameless>>, TableInv',
         holder' = holder \/ call[s].op \in {"mount", "sync"},
         odd' = {} =>
           /\ odd = {}
           /\ \A r \in Session \ {s} :
                CallOk(Table, nameless, call[r]) => CallOk(Table', nameless, call[r])
  PROVE  MountInv'
<1>1. Idle \in Call /\ Idle.op \notin {"mount", "sync"} /\ Idle.op \notin RmdirOps
      /\ CallOk(Table', nameless', Idle) /\ NameInv'
  BY CallKinds DEF RmdirOps, CallOk, MountInv, NameInv
<1> HIDE DEF Idle
<1> QED
  BY <1>1, CallMoves

LEMMA FinishMountInv ==
  ASSUME MountInv, NEW s \in Session, FinishMount(s)
  PROVE  MountInv'
<1> DEFINE d == call[s].disk
           n == call[s].dir
<1>1. /\ call[s].op = "mount" /\ call[s] \in Call /\ d \in Disk /\ n \in Place
      /\ UNCHANGED <<vdisks, fsroot, gone>> /\ call' = [call EXCEPT ![s] = Idle]
      /\ Table \in TableSet /\ fsroot \in Place
  BY CallFacts DEF FinishMount, MountInv, CallInv, TableInv
<1>2. CASE CanMount(Table, d, n)
  <2>1. n \in Dir /\ n # NoDir /\ Vacant(Table, d, n)
    BY <1>2, CanMountFacts
  <2>2. /\ SetTable(Mounted(Table, d, n))
        /\ odd' = odd \cup (IF Removing(n) # {} THEN {"rmdir"} ELSE {})
                      \cup (IF n \in removed \ nameless THEN {"removed"} ELSE {})
    BY <1>2 DEF FinishMount
  <2>3. odd' = {} => odd = {} /\ Removing(n) = {} /\ n \notin removed \ nameless
    BY <2>2
  <2> HIDE DEF d, n
  <2>4. /\ Table' = Mounted(Table, d, n) /\ Table' \in TableSet
        /\ \A e \in Disk : Table'.at[e] = IF e = d THEN n ELSE Table.at[e]
        /\ \A k \in Dir : Table'.on[k] = IF k = n THEN d ELSE Table.on[k]
    BY <1>1, <2>1, <2>2, MountedFacts, TableFacts
  <2>5. ASSUME "raced" \notin odd' PROVE Views(Table')
    BY <1>1, <2>1, <2>2, <2>4, <2>5, MountedViews DEF MountInv, TableInv
  <2>6. ASSUME odd' = {} PROVE Tree(Table, fsroot)' /\ Kept(Table, fsroot)'
    <3>1. odd = {} /\ n \notin removed /\ Table.at[DiskOf[n]] # NoDir
      BY <1>1, <2>1, <2>3, <2>6 DEF MountInv, CallInv, CallOk, n
    <3>2. Views(Table) /\ Tree(Table, fsroot) /\ Kept(Table, fsroot)
      BY <3>1 DEF MountInv, TableInv
    <3>3. /\ Tree(Table', fsroot)
          /\ Guests(Table', fsroot) = Guests(Table, fsroot) \cup {d}
      BY <1>1, <2>1, <2>4, <3>1, <3>2, MountedTree
    <3> QED
      BY <1>1, <2>4, <3>1, <3>2, <3>3 DEF Kept, Tree, Guests, gone
  <2>7. TableInv'
    BY <2>4, <2>5, <2>6 DEF TableInv
  <2>8. ASSUME odd' = {}, NEW r \in Session \ {s}, CallOk(Table, nameless, call[r])
        PROVE  CallOk(Table', nameless, call[r])
    <3>1. call[r] \in Call /\ call[r].op # "mount"
      BY <1>1 DEF MountInv, CallInv
    <3>2. call[r].op \in RmdirOps => call[r].dir \in Dir /\ call[r].dir # n
      BY <2>3, <2>8, <3>1, CallFacts DEF Removing, RmdirOps
    <3> QED
      BY <2>4, <2>8, <3>1, <3>2 DEF CallOk
  <2> QED
    BY <1>1, <2>3, <2>7, <2>8, EndCall DEF gone
<1>3. CASE ~ CanMount(Table, d, n)
  <2>1. UNCHANGED <<table, odd>>
    BY <1>3 DEF FinishMount
  <2>2. Table' = Table
    BY <2>1, TableFacts
  <2>3. TableInv'
    BY <1>1, <2>1, <2>2 DEF MountInv, TableInv, Kept, Tree, Guests, gone
  <2> QED
    BY <1>1, <2>1, <2>2, <2>3, EndCall DEF gone
<1> QED
  BY <1>2, <1>3

(* Unmounting what is unmounted changes nothing.                           *)
LEMMA UnmountedAlready ==
  ASSUME NEW t \in TableSet, NEW n \in Dir, NEW d \in Disk, Views(t),
         t.on[n] = NoDisk, t.at[d] = NoDir
  PROVE  Unmounted(t, n, d) = t
<1>1. [t.on EXCEPT ![n] = NoDisk] = t.on /\ [t.at EXCEPT ![d] = NoDir] = t.at
  BY DEF TableSet
<1>2. ~ Contains(t.mountpoint, n)
  <2>1. n \notin Range(t.mountpoint) /\ DOMAIN t.mountpoint = 1 .. Len(t.mountpoint)
    BY LenProperties DEF Views, TableSet
  <2> QED
    BY <2>1 DEF Range, Contains
<1>3. t = [on |-> t.on, at |-> t.at, mountpoint |-> t.mountpoint]
  BY DEF TableSet
<1> QED
  BY <1>1, <1>2, <1>3 DEF Unmounted

(* An unmount, by whatever call.                                           *)
LEMMA UnmountTable ==
  ASSUME MountInv, NEW n \in Dir, NEW d \in Disk,
         SetTable(Unmounted(Table, n, d)), odd' = odd \cup UnmountOdd(Table, n, d),
         UNCHANGED <<fsroot, removed>>
  PROVE  TableInv' /\ \A k \in Dir : Table.on[k] = NoDisk => Table'.on[k] = NoDisk
<1>1. Table \in TableSet /\ fsroot \in Place
  BY DEF MountInv, TableInv
<1>2. /\ Table' = Unmounted(Table, n, d) /\ Table' \in TableSet
      /\ \A e \in Disk : Table'.at[e] = IF e = d THEN NoDir ELSE Table.at[e]
      /\ \A k \in Dir : Table'.on[k] = IF k = n THEN NoDisk ELSE Table.on[k]
  BY <1>1, UnmountedFacts, TableFacts
<1>3. ASSUME "raced" \notin odd'
      PROVE  Views(Table) /\ Views(Table') /\ (Table.on[n] = d \/ Table' = Table)
  <2>1. /\ "raced" \notin odd /\ Table.on[n] \in {d, NoDisk} /\ Table.at[d] \in {n, NoDir}
        /\ Views(Table)
    BY <1>3 DEF UnmountOdd, MountInv, TableInv
  <2>2. CASE Table.on[n] = d
    BY <1>1, <1>2, <2>1, <2>2, UnmountedViews
  <2>3. CASE Table.on[n] = NoDisk
    <3>1. Table.at[d] = NoDir
      BY <2>1, <2>3, MountAssumption DEF Views
    <3> QED
      BY <1>1, <1>2, <2>1, <2>3, <3>1, UnmountedAlready
  <2> QED
    BY <2>1, <2>2, <2>3
<1>4. ASSUME odd' = {} PROVE Tree(Table, fsroot)' /\ Kept(Table, fsroot)'
  <2>1. /\ odd = {} /\ n # fsroot
        /\ \A e \in Disk \ {d} : Table.at[e] # NoDir => DiskOf[Table.at[e]] # d
    BY <1>4 DEF UnmountOdd
  <2>2. Views(Table) /\ (Table.on[n] = d \/ Table' = Table)
    BY <1>3, <1>4
  <2>3. Tree(Table, fsroot) /\ Kept(Table, fsroot)
    BY <2>1 DEF MountInv, TableInv
  <2>4. CASE Table' = Table
    BY <2>3, <2>4 DEF Kept, Tree, Guests
  <2>5. CASE Table.on[n] = d
    <3>1. /\ Tree(Table', fsroot)
          /\ Guests(Table', fsroot) = Guests(Table, fsroot) \ {d}
      BY <1>1, <1>2, <2>1, <2>2, <2>3, <2>5, UnmountedTree
    <3> QED
      BY <1>2, <2>3, <3>1 DEF Kept, Tree, Guests
  <2> QED
    BY <2>2, <2>4, <2>5
<1> QED
  BY <1>2, <1>3, <1>4 DEF TableInv

(* Where nobody mounts, an unmount disturbs no call.                       *)
LEMMA UnmountCalls ==
  ASSUME MountInv, Free, \A k \in Dir : Table.on[k] = NoDisk => Table'.on[k] = NoDisk,
         NEW r \in Session, CallOk(Table, nameless, call[r])
  PROVE  CallOk(Table', nameless, call[r])
<1>1. call[r] \in Call /\ call[r].op # "mount"
  BY FreeFacts DEF MountInv, CallInv
<1>2. call[r].op \in RmdirOps => call[r].dir \in Dir
  BY <1>1, CallFacts DEF RmdirOps
<1> QED
  BY <1>1, <1>2 DEF CallOk

LEMMA FinishUnmountInv ==
  ASSUME MountInv, NEW s \in Session, FinishUnmount(s)
  PROVE  MountInv'
<1> DEFINE c == call[s]
<1>1. c.dir \in Dir /\ c.disk \in Disk
  BY CallFacts DEF FinishUnmount, MountInv, CallInv
<1>2. TableInv' /\ \A k \in Dir : Table.on[k] = NoDisk => Table'.on[k] = NoDisk
  BY <1>1, UnmountTable DEF FinishUnmount, gone
<1>3. /\ Free /\ call' = [call EXCEPT ![s] = Idle]
      /\ UNCHANGED <<vdisks, fsroot, nameless, holder>>
      /\ odd' = {} => odd = {}
  BY DEF FinishUnmount, gone
<1> QED
  BY <1>2, <1>3, UnmountCalls, EndCall

(* The calls that keep the lock over both parts.                           *)
LEMMA WholeCall ==
  ASSUME MountInv, Free, TableInv',
         odd' = {} => /\ odd = {}
                      /\ \A k \in Dir : Table.on[k] = NoDisk => Table'.on[k] = NoDisk,
         UNCHANGED <<vdisks, fsroot, gone, holder, call>>
  PROVE  MountInv'
<1>1. ASSUME odd' = {}, NEW r \in Session PROVE CallOk(Table', nameless, call[r])
  BY <1>1, UnmountCalls DEF MountInv, CallInv
<1> QED
  BY <1>1 DEF MountInv, CallInv, NameInv, gone

LEMMA UnmountDdnameInv ==
  ASSUME MountInv, NEW s \in Session, NEW d \in Disk, UnmountDdname(s, d)
  PROVE  MountInv'
<1>1. at[d] \in Dir /\ on[at[d]] \in Disk
  BY TableFacts DEF UnmountDdname, CanUnmount, MountInv, TableInv, TableSet
<1>2. TableInv' /\ \A k \in Dir : Table.on[k] = NoDisk => Table'.on[k] = NoDisk
  BY <1>1, UnmountTable DEF UnmountDdname, gone
<1>3. odd' = {} => odd = {}
  BY DEF UnmountDdname
<1> QED
  BY <1>2, <1>3, WholeCall DEF UnmountDdname

LEMMA UnmountAllInv ==
  ASSUME MountInv, NEW s \in Session, UnmountAll(s)
  PROVE  MountInv'
<1>1. Table \in TableSet /\ odd' = odd \cup {"root"}
  BY DEF UnmountAll, MountInv, TableInv
<1>2. /\ AllUnmounted(Table) \in TableSet /\ Table' = AllUnmounted(Table)
      /\ Views(Table) => Views(Table')
  BY <1>1, AllUnmountedViews, TableFacts DEF UnmountAll
<1>3. TableInv'
  BY <1>1, <1>2 DEF MountInv, TableInv
<1> QED
  BY <1>1, <1>3, WholeCall DEF UnmountAll

(* The parts of ufs_file_deallocate change the table nowhere.              *)
LEMMA FindRmdirInv ==
  ASSUME MountInv, NEW s \in Session, FindRmdir(s)
  PROVE  MountInv'
<1> DEFINE n == call[s].dir
           c == [op |-> "clear", disk |-> DiskOf[n], dir |-> n, top |-> Through(n, on)]
<1>1. /\ n \in Dir /\ Up[n] # n /\ DiskOf[n] \in Disk /\ on \in [Dir -> Disk \cup {NoDisk}]
      /\ odd = {} => on[n] = NoDisk
      /\ call[s].op \in RmdirOps
  BY CallFacts, DirFacts, TableFacts
     DEF FindRmdir, MountInv, CallInv, CallOk, RmdirOps, TableInv, TableSet
<1>2. Through(n, on) \in Dir
  <2>1. on[n] # NoDisk => on[n] \in Disk
    BY <1>1
  <2> QED
    BY <1>1, <2>1, TopFacts DEF Through
<1>3. /\ holder' = holder /\ call' = [call EXCEPT ![s] = IF n \in nameless THEN Idle ELSE c]
      /\ UNCHANGED <<vdisks, fsroot, table, gone, odd>>
  BY DEF FindRmdir
<1>4. CASE n \in nameless
  <2>1. call' = [call EXCEPT ![s] = Idle]
    BY <1>3, <1>4
  <2> HIDE DEF n, c
  <2> QED
    BY <1>3, <2>1, CallKinds, BeginCall DEF CallOk, RmdirOps
<1>5. CASE n \notin nameless
  <2>1. call' = [call EXCEPT ![s] = c]
    BY <1>3, <1>5
  <2>2. c \in Call /\ c.op = "clear" /\ c.dir = n /\ c.top = Through(n, on)
    BY <1>1, <1>2, CallKinds
  <2> HIDE DEF n, c
  <2>3. odd = {} => CallOk(Table, nameless, c)
    BY <1>1, <2>2, TableFacts DEF CallOk, Through
  <2> QED
    BY <1>1, <1>3, <2>1, <2>2, <2>3, BeginCall
<1> QED
  BY <1>4, <1>5

(* A directory that nothing is mounted on can lose its contents.           *)
LEMMA ClearRmdirInv ==
  ASSUME MountInv, NEW s \in Session, ClearRmdir(s)
  PROVE  MountInv'
<1> DEFINE top == call[s].top
           c == [call[s] EXCEPT !.op = "entry"]
<1>0. /\ call[s] \in Call /\ call[s].op = "clear" /\ call[s].dir \in Dir /\ top \in Dir
      /\ Up[call[s].dir] # call[s].dir
      /\ UNCHANGED <<vdisks, fsroot, table, nameless, holder, odd>> /\ Table' = Table
      /\ odd = {} => top = call[s].dir /\ on[top] = NoDisk
  BY CallFacts, TableFacts DEF ClearRmdir, MountInv, CallInv, CallOk, RmdirOps
<1>1. CASE Kids(top) # {}
  <2>1. call' = [call EXCEPT ![s] = Idle] /\ removed' = removed
    BY <1>1 DEF ClearRmdir
  <2> QED
    BY <1>0, <2>1, CallKinds, BeginCall DEF CallOk, RmdirOps, gone
<1>2. CASE Kids(top) = {}
  <2>1. call' = [call EXCEPT ![s].op = "entry"] /\ removed' = removed \cup {top}
    BY <1>2 DEF ClearRmdir
  <2>2. call' = [call EXCEPT ![s] = c]
    BY <2>1
  <2>3. c \in Call /\ c.op = "entry" /\ c.dir = call[s].dir
    BY <1>0, CallKinds DEF Call
  <2>4. TableInv'
    <3>1. ASSUME odd = {} PROVE Kept(Table, fsroot)'
      <4>1. Kept(Table, fsroot) /\ Views(Table) /\ on[top] = NoDisk /\ NoDisk \notin Disk
        BY <1>0, <3>1, MountAssumption DEF MountInv, TableInv
      <4>2. \A d \in Guests(Table, fsroot) : Table.at[d] # top
        BY <1>0, <4>1, TableFacts DEF Guests, Views
      <4> HIDE DEF top
      <4> QED
        BY <1>0, <2>1, <4>1, <4>2 DEF Kept, Guests
    <3> QED
      BY <1>0, <3>1 DEF MountInv, TableInv, Tree, Guests
  <2> HIDE DEF c, top
  <2>5. odd = {} => CallOk(Table, nameless, c)
    BY <1>0, <2>3, TableFacts DEF CallOk
  <2> QED
    BY <1>0, <2>2, <2>3, <2>4, <2>5, CallMoves DEF MountInv, NameInv
<1> QED
  BY <1>1, <1>2

LEMMA EntryRmdirInv ==
  ASSUME MountInv, NEW s \in Session, EntryRmdir(s)
  PROVE  MountInv'
<1> DEFINE n == call[s].dir
<1>1. /\ n \in Dir /\ Up[n] # n /\ call' = [call EXCEPT ![s] = Idle]
      /\ nameless' \in {nameless, nameless \cup {n}}
      /\ UNCHANGED <<vdisks, fsroot, table, removed, holder>> /\ Table' = Table
  BY CallFacts, TableFacts DEF EntryRmdir, MountInv, CallInv, RmdirOps
<1>2. /\ "raced" \in odd' <=> "raced" \in odd
      /\ odd' = {} => odd = {} /\ \A r \in Session : call[r].op = "mount" => call[r].dir # n
  <2>1. odd' = odd \cup IF \E r \in Session : call[r].op = "mount" /\ call[r].dir = n
                        THEN {"rmdir"} ELSE {}
    BY DEF EntryRmdir
  <2> HIDE DEF n
  <2> QED
    BY <2>1
<1> HIDE DEF n
<1>3. NameInv' /\ TableInv'
  BY <1>1, <1>2 DEF MountInv, NameInv, TableInv, Kept, Tree, Guests
<1>4. ASSUME odd' = {}, NEW r \in Session, CallOk(Table, nameless, call[r])
      PROVE  CallOk(Table', nameless', call[r])
  BY <1>1, <1>2, <1>4 DEF CallOk
<1>5. Idle \in Call /\ Idle.op \notin RmdirOps /\ Idle.op \notin {"mount", "sync"}
      /\ CallOk(Table', nameless', Idle)
  BY CallKinds DEF RmdirOps, CallOk
<1> HIDE DEF Idle
<1> QED
  BY <1>1, <1>2, <1>3, <1>4, <1>5, CallMoves

LEMMA MountStepInv == ASSUME MountInv, NEW s \in Session, MountStep(s) PROVE MountInv'
<1>1. ASSUME NEW path \in Paths, UnmountPath(s, path) PROVE MountInv'
  <2>1. (IF path = << >> THEN fsroot ELSE Follow(fsroot, on, path)) \in Place
    BY FollowFacts DEF MountInv
  <2> QED
    BY <1>1, <2>1, BeginUnmountInv DEF UnmountPath
<1>2. ASSUME NEW d \in Disk, UnmountVdisk(s, d) PROVE MountInv'
  <2>1. at[d] \in Place
    BY TableFacts DEF MountInv, TableInv, TableSet, Place
  <2> QED
    BY <1>2, <2>1, BeginUnmountInv DEF UnmountVdisk
<1> QED
  BY <1>1, <1>2, BeginMountInv, UnmountDdnameInv, BeginRmdirInv, FinishMountInv, FinishUnmountInv,
     UnmountAllInv, FindRmdirInv, ClearRmdirInv, EntryRmdirInv DEF MountStep

-----------------------------------------------------------------------------
(* Start and stop                                                          *)

LEMMA MountInitInv == MountInit => MountInv
<1> SUFFICES ASSUME MountInit PROVE MountInv
  OBVIOUS
<1>1. /\ Table = Empty /\ fsroot = NoDir /\ vdisks = << >> /\ nameless = {}
      /\ call = [s \in Session |-> Idle] /\ odd = {}
  BY DEF MountInit, Table, Empty
<1>2. TableInv
  BY <1>1, EmptyFacts DEF TableInv, Kept
<1>3. CallInv
  BY <1>1, CallKinds DEF CallInv, CallOk, RmdirOps
<1> QED
  BY <1>1, <1>2, <1>3, EmptySeq DEF MountInv, NameInv, Place

LEMMA MountDownInv == NameInv /\ MountDown => MountInv'
<1> SUFFICES ASSUME NameInv, MountDown PROVE MountInv'
  OBVIOUS
<1>1. /\ Table' = Empty /\ fsroot' = NoDir /\ vdisks' = << >> /\ nameless' = nameless
      /\ call' = [s \in Session |-> Idle] /\ odd' = {}
  BY EmptyFacts, TableFacts DEF MountDown, gone
<1>2. TableInv'
  BY <1>1, EmptyFacts DEF TableInv, Kept, Tree, Guests
<1>3. CallInv'
  BY <1>1, CallKinds DEF CallInv, CallOk, RmdirOps
<1> QED
  BY <1>1, <1>2, <1>3, EmptySeq DEF MountInv, NameInv, Place

LEMMA MountUpInv ==
  ASSUME NameInv, NEW opened \in Seq(Disk), opened # << >>, MountUp(opened),
         call = [s \in Session |-> Idle]
  PROVE  MountInv'
<1> DEFINE h == Head(opened)
           root == TopOf(h)
           first == Mounted(Empty, h, root)
           lines == IF Len(opened) > 1 THEN Fstab[h] ELSE << >>
           u == FoldLeft(LAMBDA t, line : FstabLine(opened, root, t, line), first, lines)
<1>1. /\ vdisks' = opened /\ fsroot' = root /\ SetTable(u)
      /\ odd' = IF \E d \in Disk : at'[d] \in removed \ {root} THEN {"removed"} ELSE {}
      /\ UNCHANGED gone /\ call' = call
  BY DEF MountUp
<1>2. h \in Disk
  BY HeadTailProperties
<1>3. root \in Dir /\ first \in TableSet /\ Views(first) /\ Tree(first, root)
  <2> HIDE DEF h
  <2> QED
    BY <1>2, FirstMount, TopFacts
<1> DEFINE N == Range(Fstab[h])
<1>4. lines \in Seq(N) /\ \A line \in N : line.path \in Seq(Range(line.path))
  <2> HIDE DEF h
  <2>1. Fstab[h] \in Seq(N) /\ \A line \in N : line.path \in Seq(Range(line.path))
    BY <1>2, MountAssumption
  <2> HIDE DEF N
  <2> QED
    BY <2>1, EmptySeq
<1>5. u \in TableSet /\ Views(u) /\ Tree(u, root)
  <2> HIDE DEF root, first, lines, N
  <2> QED
    BY <1>3, <1>4, FstabStays
<1> HIDE DEF u, root
<1>6. Table' = u /\ at' = u.at
  <2>1. SetTable(u)
    BY <1>1
  <2>2. at' = u.at
    BY <2>1 DEF SetTable
  <2>3. Table' = u
    BY <1>5, <2>1, TableFacts
  <2> QED
    BY <2>2, <2>3
<1>7. odd' = {} => Kept(Table, fsroot)'
  BY <1>1, <1>6 DEF Kept, Guests, gone
<1>8. TableInv'
  BY <1>1, <1>5, <1>6, <1>7 DEF TableInv, Tree, Guests
<1>9. CallInv'
  BY <1>1, CallKinds DEF CallInv, CallOk, RmdirOps
<1> QED
  BY <1>1, <1>3, <1>8, <1>9 DEF MountInv, NameInv, Place, gone

-----------------------------------------------------------------------------
(* What is promised of the table                                           *)

LEMMA MountInvImplies == MountInv => MountViews /\ Rooted
<1> SUFFICES ASSUME MountInv PROVE MountViews /\ Rooted
  OBVIOUS
<1>1. MountViews
  BY TableFacts DEF MountInv, TableInv, MountViews, Views
<1>2. ASSUME odd = {}
      PROVE  LET guests   == {d \in Opened : at[d] \notin {NoDir, fsroot}}
                 below(d) == DiskOf[at[d]]
             IN  /\ \A d \in guests : at[d] \notin removed /\ at[below(d)] # NoDir
                 /\ \A ring \in (SUBSET guests) \ {{}} : \E d \in ring : below(d) \notin ring
  <2>1. Tree(Table, fsroot) /\ Kept(Table, fsroot)
    BY <1>2 DEF MountInv, TableInv
  <2>2. Opened \subseteq Disk
    BY RangeOfSeq DEF MountInv, Opened
  <2>3. {d \in Opened : at[d] \notin {NoDir, fsroot}} \subseteq Guests(Table, fsroot)
    BY <2>2, TableFacts DEF Guests
  <2> QED
    BY <2>1, <2>3, TableFacts DEF Tree, Kept, Below
<1> QED
  BY <1>1, <1>2 DEF Rooted


-----------------------------------------------------------------------------
(* The steps of the disks                                                  *)

SyncNext ==
  \/ \E job \in Allocated : Sync!OpenDisks(job.disks, job.pagers)
  \/ \E d \in Disk : Sync!Change(d) \/ Sync!Spill(d) \/ Sync!ScanSave(d)
  \/ Sync!SyncAll \/ Sync!SaveStep \/ Sync!BeginStop \/ Sync!Stopped \/ Sync!Crash

LEMMA SyncPart == [Next]_vars => [SyncNext]_syncVars
<1>1. Sync!syncVars = syncVars
  BY DEF Sync!syncVars, syncVars
<1>2. ASSUME NEW s \in Session, Mounts(s) PROVE UNCHANGED syncVars
  BY <1>2 DEF Mounts
<1>3. ASSUME NEW s \in Session, EndSync(s) PROVE UNCHANGED syncVars
  BY <1>3 DEF EndSync
<1> QED
  BY <1>2, <1>3 DEF Next, vars, SyncNext, Start, SaveStep, Stop, Off, Crash, BeginSync, Update

(* The last disk of a list goes.                                           *)
LEMMA FrontFacts ==
  ASSUME NEW T, NEW s \in Seq(T), s # << >>
  PROVE  /\ Sync!Front(s) \in Seq(T) /\ Sync!Last(s) \in T
         /\ Len(Sync!Front(s)) = Len(s) - 1 /\ Sync!Last(s) = s[Len(s)]
         /\ \A i \in 1 .. Len(s) - 1 : Sync!Front(s)[i] = s[i]
         /\ Sync!ToSet(s) = Sync!ToSet(Sync!Front(s)) \cup {Sync!Last(s)}
<1>1. Len(s) \in Nat /\ Len(s) # 0 /\ \A i \in 1 .. Len(s) : s[i] \in T
  BY EmptySeq, LenProperties
<1> DEFINE k == Len(s) - 1
<1>2. k \in Nat /\ \A i \in 1 .. k : s[i] \in T
  BY <1>1
<1> HIDE DEF k
<1>3. /\ SubSeq(s, 1, k) \in Seq(T) /\ Len(SubSeq(s, 1, k)) = k
      /\ \A i \in 1 .. k : SubSeq(s, 1, k)[i] = s[i]
  BY <1>2, SubSeqProperties
<1>4. Sync!Front(s) = SubSeq(s, 1, k) /\ Sync!Last(s) = s[Len(s)]
  BY DEF Sync!Front, Sync!Last, k
<1>5. Sync!ToSet(s) = {s[i] : i \in 1 .. Len(s)} /\ Sync!ToSet(Sync!Front(s)) = {s[i] : i \in 1 .. k}
  <2>1. DOMAIN s = 1 .. Len(s)
    OBVIOUS
  <2>2. DOMAIN Sync!Front(s) = 1 .. k
    BY <1>3, <1>4
  <2>3. \A i \in 1 .. k : Sync!Front(s)[i] = s[i]
    BY <1>3, <1>4
  <2> QED
    BY <2>1, <2>2, <2>3 DEF Sync!ToSet
<1>6. 1 .. Len(s) = (1 .. k) \cup {Len(s)}
  BY <1>1 DEF k
<1> QED
  BY <1>1, <1>3, <1>4, <1>5, <1>6 DEF k

-----------------------------------------------------------------------------
(* The invariant                                                           *)

Mark  == {"time", "zero"}
SuperBlock == [rev : Nat, link : Nat, made : Mark]
BootBlock  == [version : Nat, made : Mark]
Image == [sb : SuperBlock, boot : BootBlock, block : Nat]
Saver == [by : {"none", "scan", "sync", "close"}, next : {"none", "super", "boot", "flush", "close"}]

SyncTypes ==
  /\ data \in [Disk -> Image] /\ mem \in [Disk -> Image]
  /\ modified \in [Disk -> BOOLEAN]
  /\ open \in Seq(Disk) /\ paged \in Seq(Disk)
  /\ saving \in [Disk -> Saver]
  /\ phase \in {"down", "up", "flush", "close"}
  /\ failed \in [Disk -> SUBSET {"super", "boot", "block"}]

(* Nothing is kept in storage while the system is down.                    *)
DownInv ==
  phase = "down" => /\ mem = data
                    /\ saving = [d \in Disk |-> Sync!NoSave]
                    /\ failed = [d \in Disk |-> {}]

(* Storage has the newer list block and the newer link to it; without a    *)
(* pager the dataset has the same block.                                   *)
LinkInv(d) ==
  d \notin broken =>
    /\ data[d].sb.link <= mem[d].sb.link /\ data[d].sb.link <= data[d].sb.rev
    /\ mem[d].sb.link <= mem[d].block /\ mem[d].sb.link <= mem[d].sb.rev
    /\ d \notin Sync!Paged => data[d].block = mem[d].block

(* What the dataset lacks is marked, being written, or could not be        *)
(* written; a disk that is past its super block has nothing marked.        *)
SaveInv(d) ==
  /\ data[d].sb = mem[d].sb \/ modified[d] \/ saving[d].next = "super"
  /\ data[d].boot = mem[d].boot \/ modified[d] \/ "boot" \in failed[d]
       \/ saving[d].next \in {"super", "boot"}
  /\ data[d].block = mem[d].block \/ d \in Sync!Paged \/ (phase # "up" /\ "block" \in failed[d])
  /\ "super" \in failed[d] => modified[d] \/ saving[d].next = "super"
  /\ saving[d].next = "super" /\ saving[d].by # "scan" => modified[d]
  /\ saving[d].next = "boot" => ~modified[d]
  /\ saving[d].next \in {"flush", "close"} => ~modified[d] \/ "super" \in failed[d]
  /\ phase = "close" => paged = << >>

SyncInv ==
  SyncTypes /\ DownInv /\ \A d \in Disk : LinkInv(d) /\ SaveInv(d)

-----------------------------------------------------------------------------
(* What the steps do to the image of a disk                                *)

LEMMA ImageFacts ==
  ASSUME NEW i \in Image, NEW j \in Image
  PROVE  /\ i.sb \in SuperBlock /\ i.boot \in BootBlock /\ i.block \in Nat
         /\ i.sb.rev \in Nat /\ i.sb.link \in Nat /\ i.sb.made \in Mark
         /\ i.boot.version \in Nat /\ i.boot.made \in Mark
         /\ i.sb = j.sb /\ i.boot = j.boot /\ i.block = j.block => i = j
BY DEF Image, SuperBlock, BootBlock

LEMMA ImageChange ==
  ASSUME NEW i \in Image, NEW j, j = [i EXCEPT !.sb.rev = @ + 1]
  PROVE  /\ j \in Image
         /\ j.sb.rev = i.sb.rev + 1 /\ j.sb.link = i.sb.link /\ j.sb.made = i.sb.made
         /\ j.boot = i.boot /\ j.block = i.block
BY DEF Image, SuperBlock, BootBlock

LEMMA ImageParts ==
  ASSUME NEW i \in Image, NEW sb \in SuperBlock, NEW boot \in BootBlock, NEW block \in Nat
  PROVE  /\ [i EXCEPT !.sb = sb] \in Image /\ [i EXCEPT !.boot = boot] \in Image
         /\ [i EXCEPT !.block = block] \in Image
         /\ LET j == [i EXCEPT !.sb = sb] IN j.sb = sb /\ j.boot = i.boot /\ j.block = i.block
         /\ LET j == [i EXCEPT !.boot = boot] IN j.sb = i.sb /\ j.boot = boot /\ j.block = i.block
         /\ LET j == [i EXCEPT !.block = block] IN j.sb = i.sb /\ j.boot = i.boot /\ j.block = block
BY DEF Image

LEMMA ImageOpened ==
  ASSUME NEW i \in Image
  PROVE  LET j == Sync!Opened(i)
         IN  /\ j \in Image
             /\ j.sb.rev = i.sb.rev /\ j.sb.link = i.sb.link /\ j.block = i.block
             /\ i.boot.version # 0 => j = i
<1>1. CASE i.boot.version > 0
  <2>1. Sync!Opened(i) = i
    BY <1>1 DEF Sync!Opened
  <2> QED
    BY <1>1, <2>1, ImageFacts
<1>2. CASE ~(i.boot.version > 0)
  <2> DEFINE boot == [version |-> 1, made |-> i.sb.made]
             sb   == [i.sb EXCEPT !.made = "zero"]
             j    == [i EXCEPT !.boot = boot, !.sb = sb]
  <2>1. Sync!Opened(i) = j
    BY <1>2 DEF Sync!Opened
  <2>2. i.boot.version = 0
    BY <1>2, ImageFacts
  <2>3. /\ boot \in BootBlock /\ boot.version = 1 /\ boot.made = i.sb.made
        /\ sb \in SuperBlock /\ sb.rev = i.sb.rev /\ sb.link = i.sb.link
    BY ImageFacts DEF SuperBlock, BootBlock, Mark
  <2> HIDE DEF boot, sb
  <2>4. j \in Image /\ j.sb = sb /\ j.boot = boot /\ j.block = i.block
    BY <2>3 DEF Image
  <2> QED
    BY <2>1, <2>2, <2>3, <2>4
<1> QED
  BY <1>1, <1>2

LEMMA SyncChangeInv ==
  ASSUME SyncInv, NEW e \in Disk, Sync!Change(e)
  PROVE  SyncInv'
<1> USE DEF Sync!Change, Sync!Changing, Sync!Unlocked, Sync!NoSave
<1>0. /\ data \in [Disk -> Image] /\ mem \in [Disk -> Image] /\ modified \in [Disk -> BOOLEAN]
      /\ UNCHANGED <<data, open, paged, saving, phase, failed, broken>> /\ phase = "up"
      /\ e \in Sync!ToSet(open)
  BY DEF SyncInv, SyncTypes
<1>1. \A d \in Disk : mem'[d] = IF d = e THEN [mem[d] EXCEPT !.sb.rev = @ + 1] ELSE mem[d]
  BY <1>0
<1>2. /\ mem' \in [Disk -> Image]
      /\ \A d \in Disk : /\ mem'[d].sb.rev >= mem[d].sb.rev /\ mem'[d].sb.link = mem[d].sb.link
                         /\ mem'[d].sb.made = mem[d].sb.made
                         /\ mem'[d].boot = mem[d].boot /\ mem'[d].block = mem[d].block
                         /\ d # e => mem'[d] = mem[d]
  <2>1. ASSUME NEW d \in Disk
        PROVE  /\ mem'[d] \in Image
               /\ mem'[d].sb.rev >= mem[d].sb.rev /\ mem'[d].sb.link = mem[d].sb.link
               /\ mem'[d].sb.made = mem[d].sb.made
               /\ mem'[d].boot = mem[d].boot /\ mem'[d].block = mem[d].block
               /\ d # e => mem'[d] = mem[d]
    <3>1. mem[d] \in Image /\ mem[d].sb.rev \in Nat
      BY <1>0, ImageFacts
    <3> QED
      BY <1>1, <3>1, ImageChange
  <2>2. mem' \in [Disk -> Image]
    BY <1>0, <2>1
  <2> QED
    BY <2>1, <2>2
<1>3. modified' \in [Disk -> BOOLEAN] /\ \A d \in Disk : modified'[d] = (modified[d] \/ d = e)
  BY <1>0, Zenon
<1>4. SyncTypes'
  BY <1>0, <1>2, <1>3 DEF SyncInv, SyncTypes
<1>5. DownInv'
  BY <1>0 DEF DownInv
<1>6. ASSUME NEW d \in Disk PROVE LinkInv(d)'
  <2>1. LinkInv(d) /\ mem[d].sb.rev \in Nat /\ mem'[d].sb.rev \in Nat /\ mem[d].sb.link \in Nat
    BY <1>0, <1>2, ImageFacts DEF SyncInv
  <2> QED
    BY <1>0, <1>2, <2>1 DEF LinkInv, Sync!Paged
<1>7. ASSUME NEW d \in Disk PROVE SaveInv(d)'
  <2>1. SaveInv(d)
    BY DEF SyncInv
  <2> QED
    BY <1>0, <1>2, <1>3, <2>1 DEF SaveInv, Sync!Paged
<1> QED
  BY <1>4, <1>5, <1>6, <1>7 DEF SyncInv

LEMMA SyncSpillInv ==
  ASSUME SyncInv, NEW e \in Disk, Sync!Spill(e)
  PROVE  SyncInv'
<1> USE DEF Sync!Changing, Sync!Unlocked, Sync!NoSave
<1> DEFINE rev == mem[e].sb.rev + 1
<1>0. /\ data \in [Disk -> Image] /\ mem \in [Disk -> Image] /\ modified \in [Disk -> BOOLEAN]
      /\ UNCHANGED <<open, paged, saving, phase, failed, broken>> /\ phase = "up"
      /\ e \in Sync!ToSet(open)
  BY DEF SyncInv, SyncTypes, Sync!Spill
<1>1. /\ mem[e] \in Image /\ data[e] \in Image /\ rev \in Nat
      /\ mem' = [mem EXCEPT ![e].sb.rev = rev, ![e].sb.link = rev, ![e].block = rev]
      /\ \/ data' = data /\ e \in Sync!Paged
         \/ data' = [data EXCEPT ![e].block = rev]
  BY <1>0, ImageFacts DEF Sync!Spill
<1> HIDE DEF rev
<1>2. /\ mem' \in [Disk -> Image] /\ \A d \in Disk \ {e} : mem'[d] = mem[d]
      /\ mem'[e].sb.rev = rev /\ mem'[e].sb.link = rev /\ mem'[e].block = rev
      /\ mem'[e].sb.made = mem[e].sb.made /\ mem'[e].boot = mem[e].boot
  <2> DEFINE sb == [[mem[e].sb EXCEPT !.rev = rev] EXCEPT !.link = rev]
             j  == [[mem[e] EXCEPT !.sb = sb] EXCEPT !.block = rev]
  <2>1. mem' = [mem EXCEPT ![e] = j]
    BY <1>0, <1>1 DEF Image, SuperBlock
  <2>2. sb \in SuperBlock /\ sb.rev = rev /\ sb.link = rev /\ sb.made = mem[e].sb.made
    BY <1>1, ImageFacts DEF SuperBlock
  <2> HIDE DEF sb
  <2>3. j \in Image /\ j.sb = sb /\ j.boot = mem[e].boot /\ j.block = rev
    BY <1>1, <2>2 DEF Image
  <2> HIDE DEF j
  <2> QED
    BY <1>0, <2>1, <2>2, <2>3
<1>3. /\ data' \in [Disk -> Image] /\ \A d \in Disk \ {e} : data'[d] = data[d]
      /\ data'[e].sb = data[e].sb /\ data'[e].boot = data[e].boot
      /\ (e \in Sync!Paged /\ data'[e].block = data[e].block) \/ data'[e].block = rev
  BY <1>0, <1>1 DEF Image
<1>4. modified' \in [Disk -> BOOLEAN] /\ \A d \in Disk : modified'[d] = (modified[d] \/ d = e)
  <2>1. modified' = [modified EXCEPT ![e] = TRUE]
    BY DEF Sync!Spill
  <2> QED
    BY <1>0, <2>1, Zenon
<1>5. SyncTypes'
  BY <1>0, <1>2, <1>3, <1>4 DEF SyncInv, SyncTypes
<1>6. DownInv'
  BY <1>0 DEF DownInv
<1>7. ASSUME NEW d \in Disk PROVE LinkInv(d)'
  <2>1. LinkInv(d) /\ data[d].sb.link \in Nat /\ mem[d].sb.link \in Nat
    BY <1>0, ImageFacts DEF SyncInv
  <2>2. rev = mem[e].sb.rev + 1 /\ mem[e].sb.rev \in Nat
    BY <1>1, ImageFacts DEF rev
  <2>3. CASE d = e
    BY <1>0, <1>2, <1>3, <2>1, <2>2, <2>3 DEF LinkInv, Sync!Paged
  <2>4. CASE d # e
    BY <1>0, <1>2, <1>3, <2>1, <2>4 DEF LinkInv, Sync!Paged
  <2> QED
    BY <2>3, <2>4
<1>8. ASSUME NEW d \in Disk PROVE SaveInv(d)'
  <2>1. SaveInv(d) /\ saving[e].next = "none"
    BY DEF SyncInv, Sync!Spill
  <2> QED
    BY <1>0, <1>2, <1>3, <1>4, <2>1 DEF SaveInv, Sync!Paged
<1> QED
  BY <1>5, <1>6, <1>7, <1>8 DEF SyncInv

(* Only the flag and the control of the saves change.                      *)
LEMMA SyncScanSaveInv ==
  ASSUME SyncInv, NEW e \in Disk, Sync!ScanSave(e)
  PROVE  SyncInv'
<1>0. /\ modified \in [Disk -> BOOLEAN] /\ saving \in [Disk -> Saver] /\ phase = "up"
      /\ UNCHANGED <<data, mem, open, paged, phase, failed, broken>> /\ saving[e].next = "none"
      /\ modified' = [modified EXCEPT ![e] = FALSE]
      /\ saving' = [saving EXCEPT ![e] = [by |-> "scan", next |-> "super"]]
  BY DEF SyncInv, SyncTypes, Sync!ScanSave, Sync!Changing, Sync!Unlocked, Sync!NoSave, Sync!Save
<1>1. modified' \in [Disk -> BOOLEAN] /\ \A d \in Disk : modified'[d] = (modified[d] /\ d # e)
  BY <1>0, Zenon
<1>2. /\ saving' \in [Disk -> Saver]
      /\ \A d \in Disk : IF d = e THEN saving'[d].next = "super" /\ saving'[d].by = "scan"
                         ELSE saving'[d] = saving[d]
  BY <1>0 DEF Saver
<1>3. SyncTypes'
  BY <1>0, <1>1, <1>2 DEF SyncInv, SyncTypes
<1>4. DownInv'
  BY <1>0 DEF DownInv
<1>5. ASSUME NEW d \in Disk PROVE LinkInv(d)'
  BY <1>0 DEF SyncInv, LinkInv, Sync!Paged
<1>6. ASSUME NEW d \in Disk PROVE SaveInv(d)'
  BY <1>0, <1>1, <1>2 DEF SyncInv, SaveInv, Sync!Paged
<1> QED
  BY <1>3, <1>4, <1>5, <1>6 DEF SyncInv

LEMMA SyncLockInv ==
  ASSUME SyncInv, NEW e, Sync!Unlocked(e),
         NEW next \in {"super", "flush", "close"},
         NEW by \in {"sync", "close"}, Sync!Save(e, by, next),
         next = "super" <=> modified[e], phase # "down",
         UNCHANGED <<data, mem, modified, open, paged, phase, failed, broken>>
  PROVE  SyncInv'
<1>0. /\ saving \in [Disk -> Saver] /\ saving[e].next = "none"
      /\ saving' = [saving EXCEPT ![e] = [by |-> by, next |-> next]]
  BY DEF SyncInv, SyncTypes, Sync!Unlocked, Sync!NoSave, Sync!Save
<1>1. /\ saving' \in [Disk -> Saver]
      /\ \A d \in Disk : IF d = e THEN saving'[d].next = next ELSE saving'[d] = saving[d]
  BY <1>0 DEF Saver
<1>2. SyncTypes'
  BY <1>1 DEF SyncInv, SyncTypes
<1>3. DownInv'
  BY DEF DownInv
<1>4. ASSUME NEW d \in Disk PROVE LinkInv(d)'
  BY DEF SyncInv, LinkInv, Sync!Paged
<1>5. ASSUME NEW d \in Disk PROVE SaveInv(d)'
  BY <1>0, <1>1 DEF SyncInv, SaveInv, Sync!Paged
<1> QED
  BY <1>2, <1>3, <1>4, <1>5 DEF SyncInv

BlockStep(e) ==
  \/ /\ data' = [data EXCEPT ![e].block = mem[e].block]
     /\ failed' = [failed EXCEPT ![e] = @ \ {"block"}]
  \/ /\ data' = data
     /\ failed' = [failed EXCEPT ![e] = @ \cup {"block"}]

LEMMA BlockStepFacts ==
  ASSUME SyncInv, NEW e, BlockStep(e)
  PROVE  /\ data' \in [Disk -> Image] /\ failed' \in [Disk -> SUBSET {"super", "boot", "block"}]
         /\ \A d \in Disk :
              /\ data'[d].sb = data[d].sb /\ data'[d].boot = data[d].boot
              /\ d # e => data'[d] = data[d] /\ failed'[d] = failed[d]
              /\ d = e => \/ data'[d].block = mem[d].block
                          \/ data'[d].block = data[d].block /\ "block" \in failed'[d]
              /\ "super" \in failed'[d] <=> "super" \in failed[d]
              /\ "boot" \in failed'[d] <=> "boot" \in failed[d]
<1>0. /\ data \in [Disk -> Image] /\ mem \in [Disk -> Image]
      /\ failed \in [Disk -> SUBSET {"super", "boot", "block"}]
  BY DEF SyncInv, SyncTypes
<1>1. CASE /\ data' = [data EXCEPT ![e].block = mem[e].block]
           /\ failed' = [failed EXCEPT ![e] = @ \ {"block"}]
  <2>1. ASSUME NEW d \in Disk
        PROVE  LET j == [data[d] EXCEPT !.block = mem[d].block]
               IN j \in Image /\ j.sb = data[d].sb /\ j.boot = data[d].boot /\ j.block = mem[d].block
    <3>1. data[d] \in Image /\ mem[d].block \in Nat
      BY <1>0, ImageFacts
    <3> QED
      BY <3>1 DEF Image
  <2>2. \A d \in Disk : data'[d] = IF d = e THEN [data[d] EXCEPT !.block = mem[d].block] ELSE data[d]
    BY <1>0, <1>1
  <2>3. data' \in [Disk -> Image]
    BY <1>0, <1>1, <2>1, <2>2
  <2>4. /\ failed' \in [Disk -> SUBSET {"super", "boot", "block"}]
        /\ \A d \in Disk : failed'[d] = IF d = e THEN failed[d] \ {"block"} ELSE failed[d]
    BY <1>0, <1>1
  <2> QED
    BY <2>1, <2>2, <2>3, <2>4
<1>2. CASE /\ data' = data
           /\ failed' = [failed EXCEPT ![e] = @ \cup {"block"}]
  BY <1>0, <1>2
<1> QED
  BY <1>1, <1>2 DEF BlockStep

(* The list block of a disk reaches the dataset, or the write of it fails; *)
(* in either case its pager may be gone then, and the save may be done.    *)
BlockFrame(e) ==
  /\ paged' \in Seq(Disk)
  /\ \A d \in Disk : d \in Sync!Paged' => d \in Sync!Paged
  /\ \A d \in Disk \ {e} : d \in Sync!Paged => d \in Sync!Paged'
  /\ phase = "close" => paged' = << >>
  /\ phase = "up" => paged' = paged
  /\ broken \subseteq broken'
  /\ e \in Disk /\ "block" \in failed'[e] /\ e \notin Sync!Paged' => e \in broken'
  /\ saving' \in [Disk -> Saver]
  /\ \A d \in Disk : \/ saving'[d] = saving[d]
                     \/ saving[d].next = "flush" /\ saving'[d].next = "none"
  /\ phase # "down" /\ UNCHANGED <<mem, modified, open, phase>>

LEMMA SyncBlockInv ==
  ASSUME SyncInv, NEW e, BlockStep(e), BlockFrame(e)
  PROVE  SyncInv'
<1> USE DEF BlockFrame
<1>1. data' \in [Disk -> Image] /\ failed' \in [Disk -> SUBSET {"super", "boot", "block"}]
  BY BlockStepFacts
<1>2. \A d \in Disk :
        /\ data'[d].sb = data[d].sb /\ data'[d].boot = data[d].boot
        /\ d # e => data'[d] = data[d] /\ failed'[d] = failed[d]
        /\ d = e => \/ data'[d].block = mem[d].block
                    \/ data'[d].block = data[d].block /\ "block" \in failed'[d]
        /\ "super" \in failed'[d] <=> "super" \in failed[d]
        /\ "boot" \in failed'[d] <=> "boot" \in failed[d]
  BY BlockStepFacts
<1>3. SyncTypes'
  BY <1>1 DEF SyncInv, SyncTypes
<1>4. DownInv'
  BY DEF DownInv
<1>5. ASSUME NEW d \in Disk PROVE LinkInv(d)'
  <2>1. LinkInv(d)
    BY DEF SyncInv
  <2> QED
    BY <1>2, <2>1 DEF LinkInv
<1>6. ASSUME NEW d \in Disk PROVE SaveInv(d)'
  <2>1. SaveInv(d)
    BY DEF SyncInv
  <2>2. \/ saving'[d] = saving[d]
        \/ saving[d].next = "flush" /\ saving'[d].next = "none"
    OBVIOUS
  <2>3. /\ data'[d].sb = data[d].sb /\ data'[d].boot = data[d].boot
        /\ "super" \in failed'[d] <=> "super" \in failed[d]
        /\ "boot" \in failed'[d] <=> "boot" \in failed[d]
    BY <1>2
  <2>4. data'[d].block = mem[d].block \/ d \in Sync!Paged' \/ (phase # "up" /\ "block" \in failed'[d])
    <3>1. CASE d # e
      BY <1>2, <2>1, <3>1 DEF SaveInv
    <3>2. CASE d = e /\ data'[d].block = mem[d].block
      BY <3>2
    <3>3. CASE d = e /\ data'[d].block = data[d].block /\ "block" \in failed'[d] /\ phase # "up"
      BY <3>3
    <3>4. CASE d = e /\ data'[d].block = data[d].block /\ phase = "up"
      <4>1. Sync!Paged' = Sync!Paged
        BY <3>4 DEF Sync!Paged
      <4> QED
        BY <2>1, <3>4, <4>1 DEF SaveInv
    <3> QED
      BY <1>2, <3>1, <3>2, <3>3, <3>4
  <2> QED
    BY <2>1, <2>2, <2>3, <2>4 DEF SaveInv
<1> QED
  BY <1>3, <1>4, <1>5, <1>6 DEF SyncInv

LEMMA SyncEvictInv ==
  ASSUME SyncInv, NEW e \in Disk, Sync!Evict(e)
  PROVE  SyncInv'
<1>1. /\ data' = [data EXCEPT ![e].block = mem[e].block]
      /\ failed' = [failed EXCEPT ![e] = @ \ {"block"}]
      /\ phase = "up" /\ UNCHANGED <<mem, modified, open, paged, saving, phase, broken>>
  BY DEF Sync!Evict
<1>2. "block" \notin failed'[e]
  BY <1>1 DEF SyncInv, SyncTypes
<1>3. Sync!Paged' = Sync!Paged /\ paged' \in Seq(Disk) /\ saving' \in [Disk -> Saver]
  BY <1>1 DEF Sync!Paged, SyncInv, SyncTypes
<1>4. BlockFrame(e)
  BY <1>1, <1>2, <1>3 DEF BlockFrame
<1> QED
  BY <1>1, <1>4, SyncBlockInv DEF BlockStep

(* The pager is flushed, which may fail while it has the list block.       *)
LEMMA FlushBlockFacts ==
  ASSUME NEW e, Sync!FlushBlock(e)
  PROVE  /\ BlockStep(e)
         /\ "block" \in failed'[e] /\ e \in Disk /\ SyncTypes => data[e].block # mem[e].block
BY DEF Sync!FlushBlock, BlockStep, SyncTypes

LEMMA SyncStopFlushInv ==
  ASSUME SyncInv, Sync!StopFlush
  PROVE  SyncInv'
<1> DEFINE e == Sync!Last(paged)
<1>1. /\ paged # << >> /\ phase = "flush" /\ paged \in Seq(Disk) /\ paged' = Sync!Front(paged)
      /\ saving' \in [Disk -> Saver]
      /\ UNCHANGED <<mem, modified, open, saving, phase>>
      /\ broken' = broken \cup IF "block" \in failed'[e] THEN {e} ELSE {}
      /\ Sync!FlushBlock(e)
  BY DEF Sync!StopFlush, SyncInv, SyncTypes
<1>2. paged' \in Seq(Disk) /\ Sync!ToSet(paged) = Sync!ToSet(paged') \cup {e}
  BY <1>1, FrontFacts
<1> HIDE DEF e
<1>3. /\ \A d \in Disk \ {e} : d \in Sync!Paged <=> d \in Sync!Paged'
      /\ e \in Sync!Paged' => e \in Sync!Paged
  BY <1>2 DEF Sync!Paged
<1>4. /\ broken \subseteq broken'
      /\ "block" \in failed'[e] /\ e \notin Sync!Paged' => e \in broken'
  BY <1>1
<1>5. BlockFrame(e)
  BY <1>1, <1>2, <1>3, <1>4 DEF BlockFrame
<1> QED
  BY <1>1, <1>5, FlushBlockFacts, SyncBlockInv

LEMMA SyncFlushInv ==
  ASSUME SyncInv, Sync!SyncFlush
  PROVE  SyncInv'
<1> DEFINE e == Head(todo)
<1>1. /\ phase = "up" /\ saving \in [Disk -> Saver]
      /\ saving[e].next = "flush"
      /\ saving' = [saving EXCEPT ![e] = Sync!NoSave]
      /\ Sync!FlushBlock(e)
      /\ UNCHANGED <<mem, modified, open, paged, phase, broken>>
  BY DEF Sync!SyncFlush, SyncInv, SyncTypes
<1> HIDE DEF e
<1>2. /\ saving' \in [Disk -> Saver]
      /\ \A d \in Disk : \/ saving'[d] = saving[d]
                         \/ saving[d].next = "flush" /\ saving'[d].next = "none"
  <2>1. Sync!NoSave \in Saver /\ Sync!NoSave.next = "none"
    BY DEF Saver, Sync!NoSave
  <2> QED
    BY <1>1, <2>1
<1>3. Sync!Paged' = Sync!Paged /\ paged' \in Seq(Disk)
  BY <1>1 DEF Sync!Paged, SyncInv, SyncTypes
<1>4. e \in Disk /\ "block" \in failed'[e] /\ e \notin Sync!Paged' => e \in broken'
  BY <1>1, <1>3, FlushBlockFacts DEF SyncInv, LinkInv
<1>5. BlockFrame(e)
  BY <1>1, <1>2, <1>3, <1>4 DEF BlockFrame
<1> QED
  BY <1>1, <1>5, FlushBlockFacts, SyncBlockInv

LEMMA SyncCloseDoneInv ==
  ASSUME SyncInv, Sync!CloseDone
  PROVE  SyncInv'
<1>0. /\ saving \in [Disk -> Saver] /\ phase = "close" /\ open' \in Seq(Disk)
      /\ saving[Sync!Last(open)].next = "close"
      /\ saving' = [saving EXCEPT ![Sync!Last(open)] = Sync!NoSave]
      /\ UNCHANGED <<data, mem, modified, paged, phase, failed, broken>>
  BY FrontFacts DEF Sync!CloseDone, SyncInv, SyncTypes
<1>1. saving' \in [Disk -> Saver]
      /\ \A d \in Disk : saving'[d] = saving[d] \/ (saving[d].next = "close" /\ saving'[d].next = "none")
  BY <1>0 DEF Saver, Sync!NoSave
<1>2. SyncTypes'
  BY <1>0, <1>1 DEF SyncInv, SyncTypes
<1>3. DownInv'
  BY <1>0 DEF DownInv
<1>4. ASSUME NEW d \in Disk PROVE LinkInv(d)'
  BY <1>0 DEF SyncInv, LinkInv, Sync!Paged
<1>5. ASSUME NEW d \in Disk PROVE SaveInv(d)'
  BY <1>0, <1>1 DEF SyncInv, SaveInv, Sync!Paged
<1> QED
  BY <1>2, <1>3, <1>4, <1>5 DEF SyncInv

(* Where a save goes on when a write of it is done, or has failed.         *)
LEMMA SaveDoneFacts ==
  ASSUME SyncInv, NEW e \in Disk, Sync!SaveDone(e)
  PROVE  /\ saving' \in [Disk -> Saver]
         /\ \A d \in Disk \ {e} : saving'[d] = saving[d]
         /\ saving'[e].next \in {"none", "flush", "close"}
         /\ saving[e].by = "scan" => saving'[e].next = "none"
<1>1. saving \in [Disk -> Saver]
  BY DEF SyncInv, SyncTypes
<1>2. PICK x \in Saver :
        /\ x.next \in {"none", "flush", "close"} /\ saving' = [saving EXCEPT ![e] = x]
        /\ saving[e].by = "scan" => x.next = "none"
  <2>1. /\ Sync!NoSave \in Saver /\ Sync!NoSave.next = "none"
        /\ [by |-> "sync", next |-> "flush"] \in Saver /\ [by |-> "close", next |-> "close"] \in Saver
    BY DEF Saver, Sync!NoSave
  <2> QED
    BY <2>1 DEF Sync!SaveDone, Sync!Save
<1> QED
  BY <1>1, <1>2

LEMMA SyncWriteSuperInv ==
  ASSUME SyncInv, NEW e \in Disk, Sync!WriteSuper(e)
  PROVE  SyncInv'
<1>0. /\ data \in [Disk -> Image] /\ mem \in [Disk -> Image] /\ modified \in [Disk -> BOOLEAN]
      /\ saving \in [Disk -> Saver] /\ failed \in [Disk -> SUBSET {"super", "boot", "block"}]
      /\ saving[e].next = "super" /\ saving[e] # Sync!NoSave
      /\ UNCHANGED <<mem, open, paged, phase, todo, broken>>
      /\ mem[e] \in Image /\ data[e] \in Image
  BY DEF SyncInv, SyncTypes, Saver, Sync!WriteSuper, Sync!NoSave
<1>1. DownInv'
  BY <1>0 DEF DownInv, SyncInv, Sync!WriteSuper
<1>2. CASE /\ data' = [data EXCEPT ![e].sb = mem[e].sb]
           /\ modified' = [modified EXCEPT ![e] = FALSE]
           /\ failed' = [failed EXCEPT ![e] = @ \ {"super"}]
           /\ Sync!Save(e, saving[e].by, "boot")
  <2>1. /\ data' \in [Disk -> Image] /\ \A d \in Disk \ {e} : data'[d] = data[d]
        /\ data'[e].sb = mem[e].sb /\ data'[e].boot = data[e].boot /\ data'[e].block = data[e].block
    BY <1>0, <1>2 DEF Image
  <2>2. /\ saving' \in [Disk -> Saver] /\ \A d \in Disk \ {e} : saving'[d] = saving[d]
        /\ saving'[e].next = "boot"
    BY <1>0, <1>2 DEF Saver, Sync!Save
  <2>3. modified' \in [Disk -> BOOLEAN] /\ \A d \in Disk : modified'[d] = (modified[d] /\ d # e)
    BY <1>0, <1>2, Zenon
  <2>4. /\ failed' \in [Disk -> SUBSET {"super", "boot", "block"}]
        /\ \A d \in Disk \ {e} : failed'[d] = failed[d]
        /\ failed'[e] = failed[e] \ {"super"}
    BY <1>0, <1>2
  <2>5. SyncTypes'
    BY <1>0, <2>1, <2>2, <2>3, <2>4 DEF SyncInv, SyncTypes
  <2>6. ASSUME NEW d \in Disk PROVE LinkInv(d)'
    <3>1. LinkInv(d) /\ mem[e].sb.link \in Nat
      BY <1>0, ImageFacts DEF SyncInv
    <3> QED
      BY <1>0, <2>1, <3>1 DEF LinkInv, Sync!Paged
  <2>7. ASSUME NEW d \in Disk PROVE SaveInv(d)'
    <3>1. SaveInv(d)
      BY DEF SyncInv
    <3> QED
      BY <1>0, <2>1, <2>2, <2>3, <2>4, <3>1 DEF SaveInv, Sync!Paged
  <2> QED
    BY <1>1, <2>5, <2>6, <2>7 DEF SyncInv
<1>3. CASE Sync!SaveFails(e, "super") /\ UNCHANGED data
  <2>1. /\ failed' \in [Disk -> SUBSET {"super", "boot", "block"}]
        /\ \A d \in Disk \ {e} : failed'[d] = failed[d]
        /\ failed'[e] = failed[e] \cup {"super"}
    BY <1>0, <1>3 DEF Sync!SaveFails
  <2>2. modified' \in [Disk -> BOOLEAN] /\ modified'[e]
    <3>1. modified' = [modified EXCEPT ![e] = @ \/ saving[e].by = "scan"]
      BY <1>3 DEF Sync!SaveFails
    <3>2. modified[e] \/ saving[e].by = "scan"
      BY <1>0 DEF SyncInv, SaveInv
    <3> QED
      BY <1>0, <3>1, <3>2, Zenon
  <2>3. \A d \in Disk \ {e} : modified'[d] = modified[d]
    BY <1>0, <1>3 DEF Sync!SaveFails
  <2>4. /\ saving' \in [Disk -> Saver] /\ \A d \in Disk \ {e} : saving'[d] = saving[d]
        /\ saving'[e].next \in {"none", "flush", "close"}
    BY <1>3, SaveDoneFacts DEF Sync!SaveFails
  <2>5. SyncTypes'
    BY <1>0, <1>3, <2>1, <2>2, <2>4 DEF SyncInv, SyncTypes
  <2>6. ASSUME NEW d \in Disk PROVE LinkInv(d)'
    BY <1>0, <1>3 DEF SyncInv, LinkInv, Sync!Paged
  <2>7. ASSUME NEW d \in Disk PROVE SaveInv(d)'
    <3>1. SaveInv(d)
      BY DEF SyncInv
    <3> QED
      BY <1>0, <1>3, <2>1, <2>2, <2>3, <2>4, <3>1 DEF SaveInv, Sync!Paged
  <2> QED
    BY <1>1, <2>5, <2>6, <2>7 DEF SyncInv
<1> QED
  BY <1>2, <1>3 DEF Sync!WriteSuper

LEMMA SyncWriteBootInv ==
  ASSUME SyncInv, NEW e \in Disk, Sync!WriteBoot(e)
  PROVE  SyncInv'
<1>0. /\ data \in [Disk -> Image] /\ mem \in [Disk -> Image] /\ modified \in [Disk -> BOOLEAN]
      /\ saving \in [Disk -> Saver] /\ failed \in [Disk -> SUBSET {"super", "boot", "block"}]
      /\ saving[e].next = "boot" /\ saving[e] # Sync!NoSave
      /\ UNCHANGED <<mem, open, paged, phase, todo, broken>>
      /\ mem[e] \in Image /\ data[e] \in Image
  BY DEF SyncInv, SyncTypes, Saver, Sync!WriteBoot, Sync!NoSave
<1>1. DownInv'
  BY <1>0 DEF DownInv, SyncInv, Sync!WriteBoot
<1>2. CASE /\ data' = [data EXCEPT ![e].boot = mem[e].boot]
           /\ failed' = [failed EXCEPT ![e] = @ \ {"boot"}]
           /\ Sync!SaveDone(e) /\ UNCHANGED modified
  <2>1. /\ data' \in [Disk -> Image] /\ \A d \in Disk \ {e} : data'[d] = data[d]
        /\ data'[e].sb = data[e].sb /\ data'[e].boot = mem[e].boot /\ data'[e].block = data[e].block
    BY <1>0, <1>2 DEF Image
  <2>2. /\ saving' \in [Disk -> Saver] /\ \A d \in Disk \ {e} : saving'[d] = saving[d]
        /\ saving'[e].next \in {"none", "flush", "close"}
    BY <1>2, SaveDoneFacts
  <2>3. /\ failed' \in [Disk -> SUBSET {"super", "boot", "block"}]
        /\ \A d \in Disk \ {e} : failed'[d] = failed[d]
        /\ failed'[e] = failed[e] \ {"boot"}
    BY <1>0, <1>2
  <2>4. SyncTypes'
    BY <1>0, <1>2, <2>1, <2>2, <2>3 DEF SyncInv, SyncTypes
  <2>5. ASSUME NEW d \in Disk PROVE LinkInv(d)'
    <3>1. LinkInv(d)
      BY DEF SyncInv
    <3> QED
      BY <1>0, <2>1, <3>1 DEF LinkInv, Sync!Paged
  <2>6. ASSUME NEW d \in Disk PROVE SaveInv(d)'
    <3>1. SaveInv(d)
      BY DEF SyncInv
    <3> QED
      BY <1>0, <1>2, <2>1, <2>2, <2>3, <3>1 DEF SaveInv, Sync!Paged
  <2> QED
    BY <1>1, <2>4, <2>5, <2>6 DEF SyncInv
<1>3. CASE Sync!SaveFails(e, "boot") /\ UNCHANGED data
  <2>1. /\ failed' \in [Disk -> SUBSET {"super", "boot", "block"}]
        /\ \A d \in Disk \ {e} : failed'[d] = failed[d]
        /\ failed'[e] = failed[e] \cup {"boot"}
    BY <1>0, <1>3 DEF Sync!SaveFails
  <2>2. modified' \in [Disk -> BOOLEAN] /\ (modified'[e] => saving[e].by = "scan")
    <3>1. modified' = [modified EXCEPT ![e] = @ \/ saving[e].by = "scan"]
      BY <1>3 DEF Sync!SaveFails
    <3>2. ~modified[e]
      BY <1>0 DEF SyncInv, SaveInv
    <3> QED
      BY <1>0, <3>1, <3>2, Zenon
  <2>3. \A d \in Disk \ {e} : modified'[d] = modified[d]
    BY <1>0, <1>3 DEF Sync!SaveFails
  <2>4. /\ saving' \in [Disk -> Saver] /\ \A d \in Disk \ {e} : saving'[d] = saving[d]
        /\ saving'[e].next \in {"none", "flush", "close"}
        /\ saving[e].by = "scan" => saving'[e].next = "none"
    BY <1>3, SaveDoneFacts DEF Sync!SaveFails
  <2>5. SyncTypes'
    BY <1>0, <1>3, <2>1, <2>2, <2>4 DEF SyncInv, SyncTypes
  <2>6. ASSUME NEW d \in Disk PROVE LinkInv(d)'
    BY <1>0, <1>3 DEF SyncInv, LinkInv, Sync!Paged
  <2>7. ASSUME NEW d \in Disk PROVE SaveInv(d)'
    <3>1. SaveInv(d)
      BY DEF SyncInv
    <3> QED
      BY <1>0, <1>3, <2>1, <2>2, <2>3, <2>4, <3>1 DEF SaveInv, Sync!Paged
  <2> QED
    BY <1>1, <2>5, <2>6, <2>7 DEF SyncInv
<1> QED
  BY <1>2, <1>3 DEF Sync!WriteBoot

LEMMA SyncLoopInv ==
  ASSUME SyncInv, Sync!SyncDisk \/ Sync!CloseDisk
  PROVE  SyncInv'
<1>1. CASE Sync!SyncDisk
  <2>1. /\ Sync!Unlocked(Head(todo)) /\ phase # "down"
        /\ Sync!Save(Head(todo), "sync", IF modified[Head(todo)] THEN "super" ELSE "flush")
        /\ UNCHANGED <<data, mem, modified, open, paged, phase, failed, broken>>
    BY <1>1 DEF Sync!SyncDisk
  <2> QED
    BY <2>1, SyncLockInv
<1>2. CASE Sync!CloseDisk
  <2>1. /\ Sync!Unlocked(Sync!Last(open)) /\ phase # "down"
        /\ Sync!Save(Sync!Last(open), "close", IF modified[Sync!Last(open)] THEN "super" ELSE "close")
        /\ UNCHANGED <<data, mem, modified, open, paged, phase, failed, broken>>
    BY <1>2 DEF Sync!CloseDisk
  <2> QED
    BY <2>1, SyncLockInv
<1> QED
  BY <1>1, <1>2

(* Storage is gone: what is left is the dataset.                           *)
LEMMA SyncStorageGoneInv ==
  ASSUME SyncInv, Sync!StorageGone
  PROVE  SyncInv'
<1>1. /\ data' = data /\ mem' = data /\ data \in [Disk -> Image]
      /\ modified' = [d \in Disk |-> FALSE]
      /\ open' = << >> /\ paged' = << >> /\ phase' = "down"
      /\ saving' = [d \in Disk |-> Sync!NoSave] /\ failed' = [d \in Disk |-> {}]
      /\ \A d \in Disk : /\ Sync!MayDangle(d) => d \in broken'
                         /\ d \in broken => d \in broken'
  BY DEF Sync!StorageGone, SyncInv, SyncTypes
<1>2. SyncTypes'
  <2>1. Sync!NoSave \in Saver
    BY DEF Saver, Sync!NoSave
  <2> QED
    BY <1>1, <2>1, EmptySeq DEF SyncTypes
<1>3. DownInv'
  BY <1>1 DEF DownInv
<1>4. ASSUME NEW d \in Disk PROVE LinkInv(d)'
  <2>1. /\ LinkInv(d)
        /\ data[d].sb.link \in Nat /\ data[d].sb.rev \in Nat /\ data[d].block \in Nat
        /\ mem[d].sb.link \in Nat /\ mem[d].block \in Nat
    BY <1>1, ImageFacts DEF SyncInv, SyncTypes
  <2>2. ASSUME d \notin broken' PROVE data[d].sb.link <= data[d].block
    <3>1. /\ ~Sync!MayDangle(d) /\ data[d].sb.link <= mem[d].block
          /\ d \notin Sync!Paged => data[d].block = mem[d].block
      <4>1. d \notin broken /\ ~Sync!MayDangle(d)
        BY <1>1, <2>2, Zenon
      <4>2. data[d].sb.link <= mem[d].sb.link /\ mem[d].sb.link <= mem[d].block
        BY <2>1, <4>1 DEF LinkInv
      <4>3. d \notin Sync!Paged => data[d].block = mem[d].block
        BY <2>1, <4>1, Zenon DEF LinkInv
      <4> QED
        BY <2>1, <4>1, <4>2, <4>3
    <3>2. ASSUME data[d].sb.link > data[d].block PROVE FALSE
      <4>1. d \in Sync!Paged
        BY <2>1, <3>1, <3>2
      <4>2. mem[d].block > data[d].block
        BY <2>1, <3>1, <3>2
      <4> QED
        BY <3>1, <3>2, <4>1, <4>2 DEF Sync!MayDangle, Sync!Dangling
    <3> QED
      BY <2>1, <3>2
  <2>3. d \notin broken' => data[d].sb.link <= data[d].sb.rev
    <3>1. d \notin broken' => d \notin broken
      BY <1>1, Zenon
    <3> QED
      BY <2>1, <3>1 DEF LinkInv
  <2> QED
    BY <1>1, <2>1, <2>2, <2>3 DEF LinkInv
<1>5. ASSUME NEW d \in Disk PROVE SaveInv(d)'
  BY <1>1 DEF SaveInv, Sync!NoSave
<1> QED
  BY <1>2, <1>3, <1>4, <1>5 DEF SyncInv

LEMMA SyncOpenDisksInv ==
  ASSUME SyncInv, NEW job \in Allocated, Sync!OpenDisks(job.disks, job.pagers)
  PROVE  SyncInv'
<1>0. /\ job.disks \in Seq(Disk) /\ job.pagers \in Seq(Disk)
  <2>1. job.disks \in Seq(Disk) /\ job.pagers \in Seq(Range(job.disks))
    BY JobAssumption
  <2>2. Range(job.disks) \in SUBSET Disk
    BY <2>1, RangeOfSeq
  <2> QED
    BY <2>1, <2>2, SeqMonotonic
<1>1. /\ data' = data /\ data \in [Disk -> Image] /\ phase = "down" /\ phase' = "up"
      /\ open' = job.disks /\ paged' = job.pagers
      /\ UNCHANGED <<saving, broken>> /\ failed' = [d \in Disk |-> {}]
      /\ saving = [d \in Disk |-> Sync!NoSave] /\ failed = [d \in Disk |-> {}] /\ mem = data
      /\ saving \in [Disk -> Saver]
  BY DEF Sync!OpenDisks, SyncInv, SyncTypes, DownInv
<1>2. /\ mem' \in [Disk -> Image]
      /\ \A d \in Disk : mem'[d] = IF d \in Sync!ToSet(open') THEN Sync!Opened(data[d]) ELSE data[d]
  <2>1. mem' = [d \in Disk |-> IF d \in Sync!ToSet(job.disks) THEN Sync!Opened(data[d]) ELSE data[d]]
    BY DEF Sync!OpenDisks
  <2>2. \A d \in Disk : data[d] \in Image /\ Sync!Opened(data[d]) \in Image
    BY <1>1, ImageOpened
  <2> QED
    BY <1>1, <2>1, <2>2
<1>3. /\ modified' \in [Disk -> BOOLEAN]
      /\ \A d \in Disk : modified'[d] = (d \in Sync!ToSet(open') /\ data[d].boot.version = 0)
  <2>1. modified' = [d \in Disk |-> d \in Sync!ToSet(job.disks) /\ data[d].boot.version = 0]
    BY DEF Sync!OpenDisks
  <2> QED
    BY <1>1, <2>1, Zenon
<1>4. SyncTypes'
  BY <1>0, <1>1, <1>2, <1>3 DEF SyncTypes
<1>5. DownInv'
  BY <1>1 DEF DownInv
<1>6. ASSUME NEW d \in Disk
      PROVE  /\ mem'[d].sb.rev = data[d].sb.rev /\ mem'[d].sb.link = data[d].sb.link
             /\ mem'[d].block = data[d].block
             /\ mem'[d] = data[d] \/ modified'[d]
             /\ data[d].sb.link \in Nat /\ data[d].sb.rev \in Nat
  <2>1. data[d] \in Image
    BY <1>1
  <2>2. CASE d \in Sync!ToSet(open')
    BY <1>2, <1>3, <2>1, <2>2, ImageOpened, ImageFacts
  <2>3. CASE d \notin Sync!ToSet(open')
    BY <1>2, <2>1, <2>3, ImageFacts
  <2> QED
    BY <2>2, <2>3
<1>7. ASSUME NEW d \in Disk PROVE LinkInv(d)'
  <2>1. LinkInv(d)
    BY DEF SyncInv
  <2> QED
    BY <1>1, <1>6, <2>1 DEF LinkInv
<1>8. ASSUME NEW d \in Disk PROVE SaveInv(d)'
  <2>1. saving'[d].next = "none"
    BY <1>1 DEF Sync!NoSave
  <2> QED
    BY <1>1, <1>6, <2>1 DEF SaveInv
<1> QED
  BY <1>4, <1>5, <1>7, <1>8 DEF SyncInv

(* Steps that only move the control of the handle.                         *)
LEMMA SyncControlInv ==
  ASSUME SyncInv, phase' \in {"down", "up", "flush", "close"},
         phase' = "down" => phase = "down", phase' = "up" => phase = "up",
         phase' = "close" => paged = << >>,
         UNCHANGED <<data, mem, modified, open, paged, saving, failed, broken>>
  PROVE  SyncInv'
<1>1. SyncTypes' /\ DownInv'
  BY DEF SyncInv, SyncTypes, DownInv
<1>2. ASSUME NEW d \in Disk PROVE LinkInv(d)' /\ SaveInv(d)'
  BY DEF SyncInv, LinkInv, SaveInv, Sync!Paged
<1> QED
  BY <1>1, <1>2 DEF SyncInv

LEMMA SyncNextInv == SyncInv /\ [SyncNext]_syncVars => SyncInv'
<1> SUFFICES ASSUME SyncInv, [SyncNext]_syncVars PROVE SyncInv'
  OBVIOUS
<1>1. CASE UNCHANGED syncVars
  BY <1>1, SyncControlInv DEF syncVars, SyncInv, SyncTypes, SaveInv
<1>2. CASE Sync!SyncAll \/ Sync!BeginStop \/ Sync!StopFlushed
  BY <1>2, SyncControlInv DEF Sync!SyncAll, Sync!BeginStop, Sync!StopFlushed, SyncInv, SyncTypes
<1>3. CASE Sync!Stopped \/ Sync!Crash
  BY <1>3, SyncStorageGoneInv DEF Sync!Stopped, Sync!Crash
<1>4. CASE Sync!SaveStep
  BY <1>2, <1>4, SyncWriteSuperInv, SyncWriteBootInv, SyncEvictInv, SyncLoopInv, SyncFlushInv,
     SyncStopFlushInv, SyncCloseDoneInv DEF Sync!SaveStep
<1> QED
  BY <1>1, <1>2, <1>3, <1>4, SyncOpenDisksInv, SyncChangeInv, SyncSpillInv, SyncScanSaveInv DEF SyncNext

LEMMA SyncInitInv == Init => SyncInv
<1> SUFFICES ASSUME Init PROVE SyncInv
  OBVIOUS
<1>1. /\ data = [d \in Disk |-> Sync!Dataset(d)] /\ mem = data
      /\ modified = [d \in Disk |-> FALSE] /\ open = << >> /\ paged = << >>
      /\ saving = [d \in Disk |-> Sync!NoSave] /\ phase = "down"
      /\ failed = [d \in Disk |-> {}]
  BY DEF Init, Sync!SyncInit, Sync!Closed
<1>2. ASSUME NEW d \in Disk
      PROVE  /\ data[d] \in Image
             /\ data[d].sb.link = 0 /\ data[d].sb.rev = 0 /\ data[d].block = 0
  BY <1>1 DEF Sync!Dataset, Image, SuperBlock, BootBlock, Mark
<1>3. SyncTypes
  <2>1. Sync!NoSave \in Saver
    BY DEF Saver, Sync!NoSave
  <2> QED
    BY <1>1, <1>2, <2>1, EmptySeq DEF SyncTypes
<1>4. DownInv
  BY <1>1 DEF DownInv
<1>5. ASSUME NEW d \in Disk PROVE LinkInv(d) /\ SaveInv(d)
  <2>1. saving[d].next = "none" /\ failed[d] = {}
    BY <1>1 DEF Sync!NoSave
  <2>2. LinkInv(d)
    BY <1>1, <1>2 DEF LinkInv
  <2>3. SaveInv(d)
    BY <1>1, <2>1 DEF SaveInv
  <2> QED
    BY <2>2, <2>3
<1> QED
  BY <1>3, <1>4, <1>5 DEF SyncInv

LEMMA SyncAlways == Spec => []SyncInv
<1>1. SyncInv /\ [Next]_vars => SyncInv'
  BY SyncPart, SyncNextInv
<1> QED
  BY <1>1, SyncInitInv, PTL DEF Spec

-----------------------------------------------------------------------------
(* What is promised of the dataset                                         *)

LEMMA SavedEqual ==
  ASSUME SyncInv, NEW d \in Disk, saving[d].next \in {"flush", "close"}, "super" \notin failed[d]
  PROVE  /\ data[d].sb = mem[d].sb
         /\ "boot" \notin failed[d] => data[d].boot = mem[d].boot
<1>1. SaveInv(d)
  BY DEF SyncInv
<1>2. ~modified[d]
  BY <1>1 DEF SaveInv
<1> QED
  BY <1>1, <1>2 DEF SaveInv

(* Only the flush in ufs_sync and the end of a close release a disk that   *)
(* is past its super block and boot block; storage that is lost releases   *)
(* all.                                                                    *)
LEMMA ReleasedBy ==
  ASSUME SyncInv, [SyncNext]_syncVars, NEW d \in Disk,
         saving[d].next \in {"flush", "close"}, saving'[d] = Sync!NoSave, phase' # "down"
  PROVE  \/ Sync!SyncFlush /\ d = Head(todo)
         \/ Sync!CloseDone /\ d = Sync!Last(open)
<1> USE DEF Sync!NoSave
<1>0. saving \in [Disk -> Saver] /\ saving'[d] # saving[d]
  BY DEF SyncInv, SyncTypes
<1>1. CASE \/ UNCHANGED saving
           \/ \E job \in Allocated : Sync!OpenDisks(job.disks, job.pagers)
           \/ \E e \in Disk : Sync!Change(e) \/ Sync!Spill(e) \/ Sync!Evict(e)
           \/ Sync!SyncAll \/ Sync!BeginStop \/ Sync!StopFlush \/ Sync!StopFlushed
  BY <1>0, <1>1 DEF Sync!OpenDisks, Sync!Change, Sync!Spill, Sync!Evict, Sync!SyncAll,
     Sync!BeginStop, Sync!StopFlush, Sync!StopFlushed
<1>2. ASSUME NEW e, NEW by, by # "none", NEW next, Sync!Save(e, by, next) PROVE FALSE
  BY <1>0, <1>2 DEF Sync!Save
<1>3. CASE (\E e \in Disk : Sync!ScanSave(e)) \/ Sync!SyncDisk \/ Sync!CloseDisk
  BY <1>2, <1>3 DEF Sync!ScanSave, Sync!SyncDisk, Sync!CloseDisk
<1>4. ASSUME NEW e \in Disk, Sync!WriteSuper(e) \/ Sync!WriteBoot(e) PROVE FALSE
  <2>1. saving[e].next \in {"super", "boot"}
    BY <1>4 DEF Sync!WriteSuper, Sync!WriteBoot
  <2>2. \E save : saving' = [saving EXCEPT ![e] = save]
    BY <1>4 DEF Sync!WriteSuper, Sync!WriteBoot, Sync!SaveFails, Sync!SaveDone, Sync!Save
  <2> QED
    BY <1>0, <2>1, <2>2
<1>5. CASE Sync!Stopped \/ Sync!Crash
  BY <1>5 DEF Sync!Stopped, Sync!Crash, Sync!StorageGone
<1>6. CASE Sync!SyncFlush
  BY <1>0, <1>6 DEF Sync!SyncFlush
<1>7. CASE Sync!CloseDone
  BY <1>0, <1>7 DEF Sync!CloseDone
<1> QED
  BY <1>1, <1>3, <1>4, <1>5, <1>6, <1>7 DEF SyncNext, Sync!SaveStep, syncVars

(* What a released disk has on its dataset.                                *)
Released(d) ==
  /\ "super" \notin failed[d] => data[d].sb = mem[d].sb
  /\ {"super", "boot"} \cap failed[d] = {} => data[d].boot = mem[d].boot
  /\ "block" \notin failed[d] => data[d].block = mem[d].block

LEMMA SavedStep ==
  ASSUME SyncInv, [SyncNext]_syncVars, NEW d \in Disk,
         saving[d].next \in {"flush", "close"}, saving'[d] = Sync!NoSave,
         phase' \in {"up", "close"}
  PROVE  Released(d)'
<1>0. /\ data \in [Disk -> Image] /\ mem \in [Disk -> Image]
      /\ failed \in [Disk -> SUBSET {"super", "boot", "block"}] /\ SaveInv(d)
  BY DEF SyncInv, SyncTypes
<1>1. CASE Sync!SyncFlush /\ d = Head(todo)
  <2>1. mem' = mem /\ BlockStep(d)
    BY <1>1, FlushBlockFacts DEF Sync!SyncFlush
  <2>2. /\ data'[d].sb = data[d].sb /\ data'[d].boot = data[d].boot
        /\ data'[d].block = mem[d].block \/ "block" \in failed'[d]
        /\ "super" \in failed'[d] <=> "super" \in failed[d]
        /\ "boot" \in failed'[d] <=> "boot" \in failed[d]
    BY <2>1, BlockStepFacts
  <2> QED
    BY <2>1, <2>2, SavedEqual DEF Released
<1>2. CASE Sync!CloseDone /\ d = Sync!Last(open)
  <2>1. data' = data /\ mem' = mem /\ failed' = failed /\ phase = "close"
    BY <1>2 DEF Sync!CloseDone
  <2>2. paged = << >>
    BY <1>0, <2>1 DEF SaveInv
  <2>3. d \notin Sync!Paged
    BY <2>2 DEF Sync!Paged, Sync!ToSet
  <2>4. "block" \notin failed[d] => data[d].block = mem[d].block
    BY <1>0, <2>3 DEF SaveInv
  <2> QED
    BY <2>1, <2>4, SavedEqual DEF Released
<1> QED
  BY <1>1, <1>2, ReleasedBy

(* When ufs_sync goes on to the next disk, or ufs_disk_close ends, the     *)
(* dataset has the super block, the boot block and the list block that     *)
(* storage has, each unless a write of it failed and was not repeated.     *)
THEOREM ReleasedDisksSaved == Spec => Saved
<1>1. SyncInv /\ [Next]_vars =>
        [\A d \in Disk :
           /\ saving[d].next \in {"flush", "close"} /\ saving'[d] = Sync!NoSave
           /\ phase' \in {"up", "close"}
           => /\ "super" \notin failed'[d] => data'[d].sb = mem'[d].sb
              /\ {"super", "boot"} \cap failed'[d] = {} => data'[d].boot = mem'[d].boot
              /\ "block" \notin failed'[d] => data'[d].block = mem'[d].block]_(Sync!syncVars)
  <2>1. syncVars = Sync!syncVars
    BY DEF syncVars, Sync!syncVars
  <2> QED
    BY <2>1, SyncPart, SavedStep DEF Released
<1> QED
  BY <1>1, SyncAlways, PTL DEF Spec, Saved, Sync!Saved

(* While a disk is open and nobody saves it, what storage has and the      *)
(* dataset has not is marked or with the pager; only an error of the boot  *)
(* block can be forgotten.                                                 *)
THEOREM ChangesAlwaysMarked == Spec => []UnsavedMarked
<1>1. SyncInv => UnsavedMarked
  <2> SUFFICES ASSUME SyncInv, phase = "up", NEW d \in Sync!ToSet(open), Sync!Unlocked(d)
               PROVE  /\ data[d].sb # mem[d].sb => modified[d]
                      /\ data[d].boot # mem[d].boot => modified[d] \/ "boot" \in failed[d]
                      /\ data[d].block # mem[d].block => d \in Sync!Paged
    BY DEF UnsavedMarked, Sync!UnsavedMarked
  <2>1. d \in Disk
    <3>1. open \in Seq(Disk) /\ DOMAIN open = 1 .. Len(open)
      BY LenProperties DEF SyncInv, SyncTypes
    <3> QED
      BY <3>1 DEF Sync!ToSet
  <2>2. saving[d].next = "none"
    BY DEF Sync!Unlocked, Sync!NoSave
  <2> QED
    BY <2>1, <2>2 DEF SyncInv, SaveInv
<1> QED
  BY <1>1, SyncAlways, PTL

(* ufs_disk_write_super never leaves a dataset whose super block links to  *)
(* a list block that neither the dataset nor a pager has, unless the       *)
(* machine stopped, or a flush at the stop failed, before it was written.  *)
THEOREM LinksAlwaysSaved == Spec => []LinkedSaved
<1>1. SyncInv => LinkedSaved
  <2> SUFFICES ASSUME SyncInv, NEW d \in Disk, Sync!Dangling(data[d]), d \notin broken
               PROVE  Sync!MayDangle(d)
    BY DEF LinkedSaved, Sync!LinkedSaved
  <2>1. /\ LinkInv(d)
        /\ data[d].sb.link \in Nat /\ data[d].block \in Nat
        /\ mem[d].sb.link \in Nat /\ mem[d].block \in Nat
    BY ImageFacts DEF SyncInv, SyncTypes
  <2>2. mem[d].block > data[d].block
    BY <2>1 DEF LinkInv, Sync!Dangling
  <2>3. d \in Sync!Paged
    <3>1. mem[d].block # data[d].block
      BY <2>1, <2>2
    <3> QED
      BY <2>1, <3>1 DEF LinkInv
  <2> QED
    BY <2>2, <2>3 DEF Sync!MayDangle
<1> QED
  BY <1>1, SyncAlways, PTL

-----------------------------------------------------------------------------
(* The mount table                                                         *)

(* Nobody is inside a call while the system is not up.                     *)
HandleInv == MountInv /\ (phase # "up" => call = [s \in Session |-> Idle])

LEMMA MountSame ==
  ASSUME MountInv, UNCHANGED <<vdisks, fsroot, table, gone, holder, call, odd>>
  PROVE  MountInv'
<1>1. Table' = Table
  BY TableFacts
<1> QED
  BY <1>1 DEF MountInv, NameInv, TableInv, CallInv, Kept, Tree, Guests, gone

LEMMA SaveStepPhase == ASSUME Sync!SaveStep PROVE phase' = phase \/ phase = "flush"
BY DEF Sync!SaveStep, Sync!WriteSuper, Sync!WriteBoot, Sync!Evict, Sync!SyncDisk, Sync!SyncFlush,
   Sync!StopFlush, Sync!StopFlushed, Sync!CloseDisk, Sync!CloseDone

LEMMA SyncCallInv ==
  ASSUME HandleInv, NEW s \in Session, BeginSync(s) \/ EndSync(s)
  PROVE  HandleInv'
<1>1. CASE BeginSync(s)
  <2>1. /\ Free /\ holder' = s /\ phase = "up" /\ phase' = "up"
        /\ call' = [call EXCEPT ![s] = [op |-> "sync"]]
        /\ UNCHANGED <<vdisks, fsroot, table, gone, odd>>
    BY <1>1 DEF BeginSync, Starts, Sync!SyncAll
  <2>2. MountInv'
    BY <2>1, CallKinds, BeginCall DEF HandleInv, CallOk, RmdirOps
  <2> QED
    BY <2>1, <2>2 DEF HandleInv
<1>2. CASE EndSync(s)
  <2>1. /\ call[s].op = "sync" /\ call' = [call EXCEPT ![s] = Idle] /\ phase' = phase
        /\ UNCHANGED <<vdisks, fsroot, table, gone, odd>>
    BY <1>2 DEF EndSync, syncVars
  <2>2. phase = "up"
    BY <2>1 DEF HandleInv, Idle
  <2>3. MountInv'
    BY <2>1, CallKinds, BeginCall DEF HandleInv, CallOk, RmdirOps
  <2> QED
    BY <2>1, <2>2, <2>3 DEF HandleInv
<1> QED
  BY <1>1, <1>2

LEMMA HandleNextInv == HandleInv /\ [Next]_vars => HandleInv'
<1> SUFFICES ASSUME HandleInv, [Next]_vars PROVE HandleInv'
  OBVIOUS
<1>1. CASE UNCHANGED vars
  BY <1>1, MountSame DEF vars, mountVars, syncVars, HandleInv
<1>2. CASE Start
  <2>1. PICK job \in Allocated : MountUp(job.disks) /\ Sync!OpenDisks(job.disks, job.pagers)
    BY <1>2 DEF Start
  <2>2. phase = "down" /\ phase' = "up"
    BY <2>1 DEF Sync!OpenDisks
  <2>3. job.disks \in Seq(Disk) /\ job.disks # << >>
    BY JobAssumption
  <2>4. MountInv'
    BY <2>1, <2>2, <2>3, MountUpInv DEF HandleInv, MountInv
  <2> QED
    BY <2>2, <2>4 DEF HandleInv
<1>3. CASE SaveStep
  BY <1>3, SaveStepPhase, MountSame DEF SaveStep, mountVars, HandleInv
<1>4. CASE Stop \/ Crash
  <2>1. MountDown
    BY <1>4 DEF Stop, Crash
  <2>2. call' = [s \in Session |-> Idle]
    BY <2>1 DEF MountDown
  <2> QED
    BY <2>1, <2>2, MountDownInv DEF HandleInv, MountInv
<1>5. CASE Off
  <2>1. phase = "close" /\ UNCHANGED mountVars
    BY <1>5 DEF Off, Sync!Stopped
  <2> QED
    BY <2>1, MountSame DEF mountVars, HandleInv
<1>6. ASSUME NEW s \in Session, Mounts(s) PROVE HandleInv'
  BY <1>6, MountStepInv DEF Mounts, HandleInv, syncVars
<1>7. ASSUME NEW s \in Session, NEW d \in Disk, Update(s, d) PROVE HandleInv'
  <2>1. phase = "up" /\ phase' = "up"
    BY <1>7 DEF Update, Sync!Change, Sync!Spill, Sync!ScanSave, Sync!Changing
  <2> QED
    BY <1>7, <2>1, MountSame DEF Update, HandleInv
<1> QED
  BY <1>1, <1>2, <1>3, <1>4, <1>5, <1>6, <1>7, SyncCallInv DEF Next

LEMMA HandleAlways == Spec => []HandleInv
<1>1. Init => HandleInv
  BY MountInitInv DEF Init, HandleInv, MountInit
<1> QED
  BY <1>1, HandleNextInv, PTL DEF Spec

(* The minode, the vdisk and sys->mountpoint agree about every mount,      *)
(* unless ufs_unmount_inode unmounted what it had not read under the lock. *)
THEOREM ViewsAlwaysAgree == Spec => []MountViews
BY HandleAlways, MountInvImplies, PTL DEF HandleInv

(* Every disk stands, directly or not, on the root disk, and on a          *)
(* directory that is there, as long as nobody unmounts the root or a disk  *)
(* with other disks inside, or deletes a directory that is being mounted   *)
(* on.                                                                     *)
THEOREM DisksAlwaysRooted == Spec => []Rooted
BY HandleAlways, MountInvImplies, PTL DEF HandleInv

=============================================================================
