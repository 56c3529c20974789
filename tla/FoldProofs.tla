----------------------------- MODULE FoldProofs -----------------------------
(***************************************************************************)
(* Facts about the least number of a set and about folds over sequences,   *)
(* which the library states as definitions only: a fold exists, has the    *)
(* value that its definition gives it step by step, and stays in a set     *)
(* that each step stays in.  Also that a function on 0 .. n exists that is *)
(* defined by its value at 0 and a step, as a walk along a path is.        *)
(***************************************************************************)
EXTENDS SequencesExt, FiniteSetTheorems, SequenceTheorems, TLAPS

(* The least number of a set, for the inductions below.                    *)
LEMMA LeastNat ==
  ASSUME NEW S \in SUBSET Nat, S # {}
  PROVE  \E n \in S : \A m \in S : n <= m
<1>0. \A n \in S : n \in Nat
  OBVIOUS
<1> DEFINE family == {1 .. n : n \in S}
<1>1. family \subseteq FiniteSubsetsOf(Nat) /\ family # {}
  <2>1. ASSUME NEW n \in S PROVE 1 .. n \in FiniteSubsetsOf(Nat)
    <3>1. IsFiniteSet(1 .. n)
      BY <1>0, FS_Interval
    <3>2. 1 .. n \subseteq Nat
      BY <1>0
    <3> QED
      BY <3>1, <3>2 DEF FiniteSubsetsOf
  <2> QED
    BY <2>1
<1>2. PICK least \in family : \A t \in family : ~ (<<t, least>> \in StrictSubsetOrdering(Nat))
  <2> HIDE DEF family
  <2> QED
    BY <1>1, FS_StrictSubsetOrderingWellFounded, WFMin
<1>3. PICK n \in S : least = 1 .. n
  OBVIOUS
<1>4. ASSUME NEW m \in S, m < n PROVE FALSE
  <2>1. 1 .. m \in SUBSET Nat /\ 1 .. n \in SUBSET Nat
    BY <1>0
  <2>2. 1 .. m \subseteq 1 .. n /\ n \in 1 .. n /\ n \notin 1 .. m
    BY <1>0, <1>4
  <2>3. <<1 .. m, 1 .. n>> \in StrictSubsetOrdering(Nat)
    BY <2>1, <2>2 DEF StrictSubsetOrdering
  <2> QED
    BY <1>2, <1>3, <2>3
<1> QED
  BY <1>0, <1>4

(* A function that folds: F takes the result so far and the element that   *)
(* pick takes next.                                                        *)
Iterates(g, S, T, base, F, pick) ==
  /\ g \in [SUBSET S -> T]
  /\ \A s \in SUBSET S :
       g[s] = IF s = {} THEN base ELSE F[<<g[s \ {pick[s]}], pick[s]>>]

LEMMA IterExists ==
  ASSUME NEW S, IsFiniteSet(S), NEW T, NEW base \in T, NEW F \in [T \X S -> T],
         NEW pick, \A s \in SUBSET S : s # {} => pick[s] \in s
  PROVE  \E g : Iterates(g, S, T, base, F, pick)
<1> DEFINE Small(k) == {s \in SUBSET S : Cardinality(s) <= k}
           Folds(k, g) == /\ g \in [Small(k) -> T]
                          /\ \A s \in Small(k) :
                               g[s] = IF s = {} THEN base ELSE F[<<g[s \ {pick[s]}], pick[s]>>]
           N == Cardinality(S)
           missing == {k \in Nat : ~ \E g : Folds(k, g)}
<1>0. \A s \in SUBSET S : IsFiniteSet(s) /\ Cardinality(s) \in Nat /\ Cardinality(s) <= N
  BY FS_Subset, FS_CardinalityType
<1>1. ASSUME NEW s \in SUBSET S, s # {}
      PROVE  s \ {pick[s]} \in SUBSET S /\ Cardinality(s \ {pick[s]}) = Cardinality(s) - 1
  BY <1>0, <1>1, FS_RemoveElement
<1>2. missing = {}
  <2> SUFFICES ASSUME missing # {} PROVE FALSE
    OBVIOUS
  <2>1. PICK k \in missing : \A m \in missing : k <= m
    <3>1. missing \in SUBSET Nat
      OBVIOUS
    <3> HIDE DEF missing
    <3> QED
      BY <3>1, LeastNat
  <2>2. k # 0
    <3> SUFFICES ASSUME k = 0 PROVE FALSE
      OBVIOUS
    <3>1. Small(0) = {{}}
      BY <1>0, FS_EmptySet
    <3>2. Folds(0, [s \in {{}} |-> base])
      BY <3>1
    <3> QED
      BY <3>2
  <2>3. k \in Nat /\ k - 1 \in Nat /\ k - 1 \notin missing
    <3>1. k \in Nat
      BY <2>1
    <3>2. k - 1 \in Nat /\ ~ (k <= k - 1)
      BY <2>2, <3>1
    <3> QED
      BY <2>1, <3>1, <3>2
  <2>4. PICK g : Folds(k - 1, g)
    BY <2>3
  <2> DEFINE h == [s \in Small(k) |-> IF s \in Small(k - 1) THEN g[s]
                                      ELSE F[<<g[s \ {pick[s]}], pick[s]>>]]
  <2>5. ASSUME NEW s \in Small(k), s # {}
        PROVE  s \ {pick[s]} \in Small(k - 1) /\ s \ {pick[s]} \in Small(k) /\ pick[s] \in S
    BY <1>0, <1>1, <2>1, <2>5
  <2>6. ASSUME NEW s \in Small(k)
        PROVE  h[s] \in T /\ h[s] = IF s = {} THEN base ELSE F[<<h[s \ {pick[s]}], pick[s]>>]
    <3>1. s = {} => s \in Small(k - 1)
      BY <2>3, FS_EmptySet
    <3>2. CASE s \in Small(k - 1)
      BY <2>4, <2>5, <3>2
    <3>3. CASE s \notin Small(k - 1)
      <4>1. g[s \ {pick[s]}] \in T
        BY <2>4, <2>5, <3>1, <3>3
      <4>2. h[s \ {pick[s]}] = g[s \ {pick[s]}]
        BY <2>5, <3>1, <3>3
      <4> QED
        BY <2>5, <3>1, <3>3, <4>1, <4>2
    <3> QED
      BY <3>2, <3>3
  <2>7. Folds(k, h)
    <3> HIDE DEF Small
    <3>1. h \in [Small(k) -> T]
      BY <2>6
    <3> HIDE DEF h
    <3> QED
      BY <2>6, <3>1
  <2> QED
    BY <2>1, <2>7
<1>3. N \in Nat /\ Small(N) = SUBSET S
  BY <1>0, FS_CardinalityType
<1>4. PICK g : Folds(N, g)
  BY <1>2, <1>3
<1> QED
  BY <1>3, <1>4 DEF Iterates

(* The subsets of a sequence's domain that a fold from the left visits.    *)
LEMMA MaxOfInterval ==
  ASSUME NEW k \in Nat, k # 0
  PROVE  Max(1 .. k) = k /\ (1 .. k) \ {k} = 1 .. k - 1 /\ 1 .. k # {}
<1>1. k \in 1 .. k /\ \A y \in 1 .. k : k >= y
  OBVIOUS
<1>2. ASSUME NEW x \in 1 .. k, \A y \in 1 .. k : x >= y PROVE x = k
  BY <1>1, <1>2
<1> QED
  BY <1>1, <1>2 DEF Max

LEMMA MaxInside ==
  ASSUME NEW n \in Nat, NEW s \in SUBSET (1 .. n), s # {}
  PROVE  Max(s) \in s /\ \A y \in s : Max(s) >= y
<1> DEFINE gaps == {n - x : x \in s}
<1>1. gaps \in SUBSET Nat /\ gaps # {}
  <2>1. ASSUME NEW x \in s PROVE n - x \in Nat
    <3>1. x \in 1 .. n
      OBVIOUS
    <3> QED
      BY <3>1
  <2> QED
    BY <2>1
<1>2. PICK g \in gaps : \A m \in gaps : g <= m
  <2> HIDE DEF gaps
  <2> QED
    BY <1>1, LeastNat
<1>3. PICK x \in s : g = n - x
  OBVIOUS
<1>4. \A y \in s : x >= y
  <2> TAKE y \in s
  <2>1. n - y \in gaps /\ y \in Nat /\ x \in Nat
    OBVIOUS
  <2> QED
    BY <1>2, <1>3, <2>1
<1> QED
  BY <1>3, <1>4 DEF Max

(* What holds of a result and is kept when one more element is taken,      *)
(* holds of all results.                                                   *)
LEMMA IterStays ==
  ASSUME NEW S, IsFiniteSet(S), NEW T, NEW it, NEW pick,
         \A s \in SUBSET S : s # {} => pick[s] \in s,
         it[{}] \in T,
         \A s \in SUBSET S : s # {} /\ it[s \ {pick[s]}] \in T => it[s] \in T
  PROVE  \A s \in SUBSET S : it[s] \in T
<1> DEFINE bad == {Cardinality(s) : s \in {s \in SUBSET S : it[s] \notin T}}
<1>0. \A s \in SUBSET S : IsFiniteSet(s) /\ Cardinality(s) \in Nat
  BY FS_Subset, FS_CardinalityType
<1> SUFFICES ASSUME bad # {} PROVE FALSE
  OBVIOUS
<1>1. PICK k \in bad : \A m \in bad : k <= m
  <2>1. bad \in SUBSET Nat
    BY <1>0
  <2> HIDE DEF bad
  <2> QED
    BY <2>1, LeastNat
<1>2. PICK s \in SUBSET S : it[s] \notin T /\ k = Cardinality(s)
  BY <1>1
<1>3. s # {} /\ pick[s] \in s
  BY <1>2
<1>4. s \ {pick[s]} \in SUBSET S /\ Cardinality(s \ {pick[s]}) = Cardinality(s) - 1
  BY <1>0, <1>3, FS_RemoveElement
<1>5. it[s \ {pick[s]}] \in T
  <2>1. Cardinality(s) \in Nat
    BY <1>0
  <2>2. ~ (k <= Cardinality(s \ {pick[s]}))
    BY <1>2, <1>4, <2>1
  <2> QED
    BY <1>1, <1>4, <2>2
<1> QED
  BY <1>2, <1>3, <1>5

LEMMA MinInside ==
  ASSUME NEW n \in Nat, NEW s \in SUBSET (1 .. n), s # {}
  PROVE  Min(s) \in s
<1>1. PICK x \in s : \A y \in s : x <= y
  BY LeastNat
<1> QED
  BY <1>1 DEF Min

(* A function on the numbers up to N, each step of which is one of F.      *)
Climbs(f, N, T, base, F) ==
  /\ f \in [0 .. N -> T]
  /\ \A k \in 0 .. N : f[k] = IF k = 0 THEN base ELSE F[f[k-1]]

LEMMA ClimbExists ==
  ASSUME NEW T, NEW base \in T, NEW F \in [T -> T], NEW N \in Nat
  PROVE  \E f : Climbs(f, N, T, base, F)
<1> DEFINE Steps(m, f) == /\ f \in [0 .. m -> T]
                          /\ \A k \in 0 .. m : f[k] = IF k = 0 THEN base ELSE F[f[k-1]]
           missing == {m \in Nat : ~ \E f : Steps(m, f)}
<1>1. missing = {}
  <2> SUFFICES ASSUME missing # {} PROVE FALSE
    OBVIOUS
  <2>1. PICK m \in missing : \A l \in missing : m <= l
    <3>1. missing \in SUBSET Nat
      OBVIOUS
    <3> HIDE DEF missing
    <3> QED
      BY <3>1, LeastNat
  <2>2. m # 0
    <3>1. 0 .. 0 = {0}
      OBVIOUS
    <3>2. Steps(0, [k \in 0 .. 0 |-> base])
      BY <3>1
    <3> QED
      BY <3>2
  <2>3. m \in Nat /\ m - 1 \in Nat /\ m - 1 \notin missing
    <3>1. m \in Nat
      BY <2>1
    <3>2. m - 1 \in Nat /\ ~ (m <= m - 1)
      BY <2>2, <3>1
    <3> QED
      BY <2>1, <3>1, <3>2
  <2>4. PICK f : Steps(m - 1, f)
    BY <2>3
  <2> DEFINE g == [k \in 0 .. m |-> IF k = m THEN F[f[m - 1]] ELSE f[k]]
  <2>5. m - 1 \in 0 .. m - 1 /\ \A k \in 0 .. m : k # m => k \in 0 .. m - 1
    BY <2>3
  <2>6. \A k \in 0 .. m : k # 0 => k - 1 \in 0 .. m - 1 /\ k - 1 \in 0 .. m /\ k - 1 # m
    BY <2>3
  <2>7. Steps(m, g)
    <3>1. g \in [0 .. m -> T]
      BY <2>4, <2>5
    <3>2. ASSUME NEW k \in 0 .. m PROVE g[k] = IF k = 0 THEN base ELSE F[g[k-1]]
      <4>1. CASE k = m
        BY <2>2, <2>5, <2>6, <4>1
      <4>2. CASE k # m
        <5>1. g[k] = f[k] /\ k \in 0 .. m - 1
          BY <2>5, <4>2
        <5>2. k # 0 => g[k-1] = f[k-1]
          BY <2>6
        <5> HIDE DEF g
        <5> QED
          BY <2>4, <5>1, <5>2
      <4> QED
        BY <4>1, <4>2
    <3> HIDE DEF g
    <3> QED
      BY <3>1, <3>2
  <2> QED
    BY <2>1, <2>7
<1> QED
  BY <1>1 DEF Climbs

=============================================================================
