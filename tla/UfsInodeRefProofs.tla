-------------------------- MODULE UfsInodeRefProofs --------------------------
(***************************************************************************)
(* Any number of tasks, any tree, any calls and any errors: a directory    *)
(* that has links is in storage as long as someone has a pointer to it.    *)
(* Use counts are of no help here, as the lookup takes them away; the      *)
(* argument is that every pointer was got from the cache when it was       *)
(* taken, and that a directory with links never leaves the cache.          *)
(*                                                                         *)
(* For files the counts are what matters.  The second half shows, of calls *)
(* that are Orderly, that a file is in storage as long as someone has a    *)
(* pointer to it, and that its count is the number of these pointers.      *)
(***************************************************************************)
EXTENDS UfsInodeRef, FiniteSetTheorems, TLAPS

Pointer == Node \cup {NoNode}

Elems(s) == {s[i] : i \in 1 .. Len(s)}

(* n is among Locals(t) or is the minode of a handle of t.                 *)
Holds(t, n) ==
  \/ n \in {cwd[t], fp[t], ddesc[t]}
  \/ pc[t] \in {"walk", "mounted", "save", "name"} /\ n \in {walk[t], dir[t]}
  \/ pc[t] \in {"mount", "child"} /\ n = dir[t]
  \/ pc[t] \in Op \cup {"listget", "find", "get"} /\ n \in {dir[t], last[t]}
  \/ pc[t] = "cdmount" /\ n = Other(t)
  \/ pc[t] = "cdset" /\ n \in {min[t], Other(t)}
  \/ /\ pc[t] \in {"listuse", "listopen", "unlink", "drop", "target"}
     /\ n \in {dir[t], last[t], min[t]}
  \/ pc[t] = "quit" /\ n \in Elems(todo[t])

(* What the place of a call says of its locals.                            *)
Position(t) ==
  /\ pc[t] = "idle" => last[t] = NoNode
  /\ pc[t] \in {"walk", "mount", "mounted", "save", "name"} => rest[t] # << >>
  /\ pc[t] \in {"walk", "mount", "mounted", "save", "name", "child"} => call[t] \in Calls
  /\ pc[t] \in {"mount", "child"} => walk[t] \in Node
  /\ pc[t] \in {"cdmount", "listget"} =>
       Target(t) \in Dir /\ MountedOn[Target(t)] # NoNode
  /\ pc[t] = "get" => Name(t) \in Node
  /\ pc[t] \in {"unlink", "drop", "target"} => min[t] \in Node
  /\ pc[t] = "drop" => min[t] \in unlinked

Linked == Dir \ unlinked

LinkedKept == \A t \in Task : \A n \in Linked : Holds(t, n) => n \in cached

RootKept == Root \in Linked => Root \in cached

IInv ==
  /\ TypeOK
  /\ \A t \in Task : Position(t)
  /\ LinkedKept
  /\ RootKept

-----------------------------------------------------------------------------
(* What a step of task t may do.                                           *)

(* No directory with links leaves the cache.                               *)
Keeps == unlinked \subseteq unlinked' /\ cached \cap Linked' \subseteq cached'

(* A new pointer is one to the root or to a minode in the cache.           *)
Reaches(t) ==
  \A n \in Node : Holds(t, n)' => Holds(t, n) \/ n = Root \/ n \in cached'

(* Nothing of the other tasks changes.                                     *)
Alone(t) ==
  \A u \in Task \ {t} :
     /\ pc'[u] = pc[u] /\ call'[u] = call[u] /\ rest'[u] = rest[u]
     /\ walk'[u] = walk[u] /\ dir'[u] = dir[u] /\ last'[u] = last[u]
     /\ min'[u] = min[u] /\ todo'[u] = todo[u]
     /\ cwd'[u] = cwd[u] /\ fp'[u] = fp[u] /\ ddesc'[u] = ddesc[u]

Good(t) == TypeOK' /\ Position(t)' /\ Keeps /\ Reaches(t) /\ Alone(t)

(* A step that is good keeps the invariant.                                *)
LEMMA GoodStep ==
  ASSUME IInv, NEW t \in Task, Good(t)
  PROVE  IInv'
<1>1. TypeOK' /\ Position(t)' /\ Keeps /\ Reaches(t) /\ Alone(t)
  BY DEF Good
<1>2. ASSUME NEW u \in Task, u # t
      PROVE  Position(u)' /\ \A n \in Node : Holds(u, n)' <=> Holds(u, n)
  <2>1. /\ pc'[u] = pc[u] /\ call'[u] = call[u] /\ rest'[u] = rest[u]
        /\ walk'[u] = walk[u] /\ dir'[u] = dir[u] /\ last'[u] = last[u]
        /\ min'[u] = min[u] /\ todo'[u] = todo[u]
        /\ cwd'[u] = cwd[u] /\ fp'[u] = fp[u] /\ ddesc'[u] = ddesc[u]
    BY <1>1, <1>2 DEF Alone
  <2>2. Other(u)' = Other(u) /\ Target(u)' = Target(u) /\ Name(u)' = Name(u)
    BY <2>1 DEF Other, Target, Name
  <2>3. \A n \in Node : Holds(u, n)' <=> Holds(u, n)
    BY <2>1, <2>2 DEF Holds
  <2>4. Position(u) /\ unlinked \subseteq unlinked'
    BY <1>1 DEF IInv, Keeps
  <2>5. Position(u)'
    BY <2>1, <2>2, <2>4 DEF Position
  <2>6. QED
    BY <2>3, <2>5
<1>3. RootKept'
  BY <1>1 DEF IInv, RootKept, Keeps, Linked
<1>4. LinkedKept'
  <2> SUFFICES ASSUME NEW u \in Task, NEW n \in Linked', Holds(u, n)'
               PROVE  n \in cached'
    BY DEF LinkedKept
  <2>1. n \in Linked /\ n \in Node
    BY <1>1, RefAssumption DEF Linked, Keeps
  <2>2. Holds(u, n) \/ n = Root \/ n \in cached'
    BY <1>1, <1>2, <2>1 DEF Reaches
  <2>3. CASE Holds(u, n)
    BY <1>1, <2>1, <2>3 DEF IInv, LinkedKept, Keeps
  <2>4. CASE n = Root
    BY <1>3, <2>4 DEF RootKept
  <2>5. QED
    BY <2>2, <2>3, <2>4
<1>5. QED
  BY <1>1, <1>2, <1>3, <1>4 DEF IInv


-----------------------------------------------------------------------------
(* The steps                                                               *)

(* What the steps need of the constants.                                  *)
LEMMA NodeFacts ==
  /\ NoNode \notin Node /\ Root \in Dir /\ Dir \subseteq Node
  /\ \A d \in Dir : MountedOn[d] \in Dir \cup {NoNode}
BY RefAssumption

(* What a step leaves in the cache when it keeps its directories.         *)
Stored ==
  /\ cached' \subseteq Node
  /\ use' \in [Node -> 0 .. Word - 1]
  /\ \A n \in Dir \ unlinked : n \in cached => n \in cached'

(* ufs_inode_rel, of any pointer, keeps them.                              *)
LEMMA RelStored ==
  ASSUME IInv, NEW n, Rel(n)
  PROVE  Stored
<1>1. \A k \in 0 .. Word - 1 : Down(k) \in 0 .. Word - 1
  BY RefAssumption DEF Down
<1>2. cached \subseteq Node /\ use \in [Node -> 0 .. Word - 1]
  BY DEF IInv, TypeOK
<1>3. use' \in [Node -> 0 .. Word - 1]
  BY <1>1, <1>2 DEF Rel
<1>4. QED
  BY <1>2, <1>3 DEF Stored, Rel, Kept

(* ufs_inode_get keeps them, and what it returns is in the cache.          *)
LEMMA GetStored ==
  ASSUME IInv, NEW n \in Node, Get(n)
  PROVE  Stored /\ n \in cached'
<1>1. \A k \in 0 .. Word - 1 : (k + 1) % Word \in 0 .. Word - 1
  BY RefAssumption
<1>2. 1 \in 0 .. Word - 1
  BY RefAssumption
<1>3. cached \subseteq Node /\ use \in [Node -> 0 .. Word - 1]
  BY DEF IInv, TypeOK
<1>4. use' \in [Node -> 0 .. Word - 1]
  BY <1>1, <1>2, <1>3 DEF Get
<1>5. QED
  BY <1>3, <1>4 DEF Stored, Get

(* ufs_inode_use keeps them.                                               *)
LEMMA UseStored ==
  ASSUME IInv, NEW n, Use(n), UNCHANGED cached
  PROVE  Stored
<1>1. \A k \in 0 .. Word - 1 : (k + 1) % Word \in 0 .. Word - 1
  BY RefAssumption
<1>2. cached \subseteq Node /\ use \in [Node -> 0 .. Word - 1]
  BY DEF IInv, TypeOK
<1>3. use' \in [Node -> 0 .. Word - 1]
  BY <1>1, <1>2 DEF Use
<1>4. QED
  BY <1>2, <1>3 DEF Stored

(* So does a step that does not touch the cache.                           *)
LEMMA SameStored ==
  ASSUME IInv, UNCHANGED <<cached, use>>
  PROVE  Stored
BY DEF IInv, TypeOK, Stored

(* A step of ufs_lookup_minode.                                            *)
LEMMA LookupSteps ==
  ASSUME IInv, NEW t \in Task, LookupStep(t)
  PROVE  Good(t)
<1> USE DEF IInv, TypeOK, Position, Set, Quit, names, locals, handles, Label, Op,
        Good, Keeps, Reaches, Alone, Holds, Linked, Elems, Other, Target, Name,
        Entries, Mounts, Stored
<1>1. CASE WalkFails(t)
  <2>1. Stored
    BY <1>1, SameStored DEF WalkFails
  <2>2. QED
    BY <1>1, <2>1, NodeFacts DEF WalkFails
<1>2. CASE WalkOn(t)
  <2>1. Stored
    BY <1>2, SameStored DEF WalkOn
  <2>2. QED
    BY <1>2, <2>1, NodeFacts DEF WalkOn
<1>3. CASE WalkMount(t)
  <2>1. Stored
    BY <1>3, RelStored DEF WalkMount
  <2>2. QED
    BY <1>3, <2>1, NodeFacts DEF WalkMount
<1>4. CASE WalkMounted(t)
  <2>1. walk[t] \in Node
    BY <1>4, NodeFacts DEF WalkMounted, IInv, Position
  <2>2. CASE Get(walk[t]) /\ pc' = Set(pc, t, "mounted") /\ UNCHANGED todo
    <3>1. Stored /\ walk[t] \in cached'
      BY <2>1, <2>2, GetStored
    <3>2. TypeOK'
      BY <1>4, <2>1, <2>2, <3>1, NodeFacts DEF WalkMounted
    <3>3. Position(t)'
      BY <1>4, <2>1, <2>2, <3>1, NodeFacts DEF WalkMounted
    <3>4. Keeps
      BY <1>4, <2>1, <2>2, <3>1, NodeFacts DEF WalkMounted
    <3>5. Reaches(t)
      BY <1>4, <2>1, <2>2, <3>1, NodeFacts DEF WalkMounted
    <3>6. Alone(t)
      BY <1>4, <2>1, <2>2, <3>1, NodeFacts DEF WalkMounted
    <3>7. QED
      BY <3>2, <3>3, <3>4, <3>5, <3>6
  <2>3. CASE Quit(t, <<dir[t]>>) /\ UNCHANGED <<cached, use>>
    <3>1. Stored
      BY <2>3, SameStored
    <3>2. TypeOK'
      BY <1>4, <2>1, <2>3, <3>1, NodeFacts DEF WalkMounted
    <3>3. Position(t)'
      BY <1>4, <2>1, <2>3, <3>1, NodeFacts DEF WalkMounted
    <3>4. Keeps
      BY <1>4, <2>1, <2>3, <3>1, NodeFacts DEF WalkMounted
    <3>5. Reaches(t)
      BY <1>4, <2>1, <2>3, <3>1, NodeFacts DEF WalkMounted
    <3>6. Alone(t)
      BY <1>4, <2>1, <2>3, <3>1, NodeFacts DEF WalkMounted
    <3>7. QED
      BY <3>2, <3>3, <3>4, <3>5, <3>6
  <2>4. QED
    BY <1>4, <2>2, <2>3 DEF WalkMounted
<1>5. CASE SaveDir(t)
  <2>1. Stored
    BY <1>5, RelStored DEF SaveDir
  <2>2. QED
    BY <1>5, <2>1, NodeFacts DEF SaveDir
<1>6. CASE NameMissing(t)
  <2>1. Stored
    BY <1>6, SameStored DEF NameMissing
  <2>2. QED
    BY <1>6, <2>1, NodeFacts DEF NameMissing
<1>7. CASE NameFound(t)
  <2>1. Stored
    BY <1>7, RelStored DEF NameFound
  <2>2. QED
    BY <1>7, <2>1, NodeFacts DEF NameFound
<1>8. CASE ChildFails(t)
  <2>1. Stored
    BY <1>8, SameStored DEF ChildFails
  <2>2. QED
    BY <1>8, <2>1, NodeFacts DEF ChildFails
<1>9. CASE Child(t)
  <2>1. walk[t] \in Node /\ call[t] \in Calls /\ call[t].op \in Op
    BY <1>9, RefAssumption DEF Child
  <2>2. Stored /\ walk[t] \in cached'
    BY <1>9, <2>1, GetStored DEF Child
  <2>3. CASE rest[t] # << >>
    <3>1. pc' = Set(pc, t, "walk") /\ last' = last
      BY <1>9, <2>3 DEF Child
    <3>2. TypeOK'
      BY <1>9, <2>1, <2>2, <2>3, <3>1 DEF Child
    <3>3. Position(t)'
      BY <1>9, <2>1, <2>2, <2>3, <3>1 DEF Child
    <3>4. Keeps
      BY <1>9, <2>1, <2>2, <2>3, <3>1 DEF Child
    <3>5. Reaches(t)
      BY <1>9, <2>1, <2>2, <2>3, <3>1 DEF Child
    <3>6. Alone(t)
      BY <1>9, <2>1, <2>2, <2>3, <3>1 DEF Child
    <3>7. QED
      BY <3>2, <3>3, <3>4, <3>5, <3>6
  <2>4. CASE rest[t] = << >>
    <3>1. pc' = Set(pc, t, call[t].op) /\ last' = Set(last, t, walk[t])
      BY <1>9, <2>4 DEF Child
    <3>2. TypeOK'
      BY <1>9, <2>1, <2>2, <3>1 DEF Child
    <3>3. Position(t)'
      BY <1>9, <2>1, <2>2, <3>1 DEF Child
    <3>4. Keeps
      BY <1>9, <2>1, <2>2, <3>1 DEF Child
    <3>5. Reaches(t)
      BY <1>9, <2>1, <2>2, <3>1 DEF Child
    <3>6. Alone(t)
      BY <1>9, <2>1, <2>2, <3>1 DEF Child
    <3>7. QED
      BY <3>2, <3>3, <3>4, <3>5, <3>6
  <2>5. QED
    BY <2>3, <2>4
<1>10. QED
  BY <1>1, <1>2, <1>3, <1>4, <1>5, <1>6, <1>7, <1>8, <1>9 DEF LookupStep

(* A step of ufs_open after the lookup.                                    *)
LEMMA OpenSteps ==
  ASSUME IInv, NEW t \in Task, OpenStep(t)
  PROVE  Good(t)
<1> USE DEF IInv, TypeOK, Position, Set, Quit, names, locals, handles, Label, Op,
        Good, Keeps, Reaches, Alone, Holds, Linked, Elems, Other, Target, Name,
        Entries, Mounts, Stored
<1>1. CASE OpenFails(t)
  <2>1. Stored
    BY <1>1, SameStored DEF OpenFails
  <2>2. QED
    BY <1>1, <2>1, NodeFacts DEF OpenFails
<1>2. CASE OpenNoBuffer(t)
  <2>1. Stored
    BY <1>2, RelStored DEF OpenNoBuffer
  <2>2. QED
    BY <1>2, <2>1, NodeFacts DEF OpenNoBuffer
<1>3. CASE Open(t)
  <2>1. Stored
    BY <1>3, SameStored DEF Open
  <2>2. QED
    BY <1>3, <2>1, NodeFacts DEF Open
<1>4. QED
  BY <1>1, <1>2, <1>3 DEF OpenStep

(* A step of ufs_chgdir after the lookup.                                  *)
LEMMA CdSteps ==
  ASSUME IInv, NEW t \in Task, CdStep(t)
  PROVE  Good(t)
<1> USE DEF IInv, TypeOK, Position, Set, Quit, names, locals, handles, Label, Op,
        Good, Keeps, Reaches, Alone, Holds, Linked, Elems, Other, Target, Name,
        Entries, Mounts, Stored
<1>1. CASE CdFails(t)
  <2>1. Stored
    BY <1>1, SameStored DEF CdFails
  <2>2. TypeOK'
    BY <1>1, <2>1, NodeFacts DEF CdFails
  <2>3. Position(t)'
    BY <1>1, <2>1, NodeFacts DEF CdFails
  <2>4. Keeps
    BY <1>1, <2>1, NodeFacts DEF CdFails
  <2>5. Reaches(t)
    <3>1. /\ pc[t] = "cd" /\ pc'[t] = "quit"
          /\ todo'[t] = <<Target(t), Other(t)>>
          /\ UNCHANGED <<cwd, fp, ddesc>>
      BY <1>1 DEF CdFails
    <3>2. Elems(todo'[t]) = {Target(t), Other(t)}
      BY <3>1
    <3>3. \A n \in Node : n \in {Target(t), Other(t)} => n \in {dir[t], last[t]}
      BY NodeFacts
    <3>4. QED
      BY <3>1, <3>2, <3>3
  <2>6. Alone(t)
    BY <1>1, <2>1, NodeFacts DEF CdFails
  <2>7. QED
    BY <2>2, <2>3, <2>4, <2>5, <2>6
<1>2. CASE CdMount(t)
  <2>1. Stored
    BY <1>2, RelStored DEF CdMount
  <2>2. QED
    BY <1>2, <2>1, NodeFacts DEF CdMount
<1>3. CASE CdMounted(t)
  <2>1. MountedOn[Target(t)] \in Node
    BY <1>3, NodeFacts DEF CdMounted, IInv, Position
  <2>2. CASE Get(MountedOn[Target(t)]) /\ min' = Set(min, t, MountedOn[Target(t)]) /\ pc' = Set(pc, t, "cdset") /\ UNCHANGED todo
    <3>1. Stored /\ MountedOn[Target(t)] \in cached'
      BY <2>1, <2>2, GetStored
    <3>2. TypeOK'
      BY <1>3, <2>1, <2>2, <3>1, NodeFacts DEF CdMounted
    <3>3. Position(t)'
      BY <1>3, <2>1, <2>2, <3>1, NodeFacts DEF CdMounted
    <3>4. Keeps
      BY <1>3, <2>1, <2>2, <3>1, NodeFacts DEF CdMounted
    <3>5. Reaches(t)
      BY <1>3, <2>1, <2>2, <3>1, NodeFacts DEF CdMounted
    <3>6. Alone(t)
      BY <1>3, <2>1, <2>2, <3>1, NodeFacts DEF CdMounted
    <3>7. QED
      BY <3>2, <3>3, <3>4, <3>5, <3>6
  <2>3. CASE Quit(t, <<Other(t)>>) /\ UNCHANGED min /\ UNCHANGED <<cached, use>>
    <3>1. Stored
      BY <2>3, SameStored
    <3>2. TypeOK'
      BY <1>3, <2>1, <2>3, <3>1, NodeFacts DEF CdMounted
    <3>3. Position(t)'
      BY <1>3, <2>1, <2>3, <3>1, NodeFacts DEF CdMounted
    <3>4. Keeps
      BY <1>3, <2>1, <2>3, <3>1, NodeFacts DEF CdMounted
    <3>5. Reaches(t)
      BY <1>3, <2>1, <2>3, <3>1, NodeFacts DEF CdMounted
    <3>6. Alone(t)
      BY <1>3, <2>1, <2>3, <3>1, NodeFacts DEF CdMounted
    <3>7. QED
      BY <3>2, <3>3, <3>4, <3>5, <3>6
  <2>4. QED
    BY <1>3, <2>2, <2>3 DEF CdMounted
<1>4. CASE CdPlain(t)
  <2>1. Stored
    BY <1>4, SameStored DEF CdPlain
  <2>2. QED
    BY <1>4, <2>1, NodeFacts DEF CdPlain
<1>5. CASE CdSet(t)
  <2>1. Stored
    BY <1>5, RelStored DEF CdSet
  <2>2. QED
    BY <1>5, <2>1, NodeFacts DEF CdSet
<1>6. QED
  BY <1>1, <1>2, <1>3, <1>4, <1>5 DEF CdStep

(* A step of ufs_diropen after the lookup.                                 *)
LEMMA ListSteps ==
  ASSUME IInv, NEW t \in Task, ListStep(t)
  PROVE  Good(t)
<1> USE DEF IInv, TypeOK, Position, Set, Quit, names, locals, handles, Label, Op,
        Good, Keeps, Reaches, Alone, Holds, Linked, Elems, Other, Target, Name,
        Entries, Mounts, Stored
<1>1. CASE ListMount(t)
  <2>1. Stored
    BY <1>1, RelStored DEF ListMount
  <2>2. QED
    BY <1>1, <2>1, NodeFacts DEF ListMount
<1>2. CASE ListGet(t)
  <2>1. MountedOn[Target(t)] \in Node
    BY <1>2, NodeFacts DEF ListGet, IInv, Position
  <2>2. CASE Get(MountedOn[Target(t)]) /\ min' = Set(min, t, MountedOn[Target(t)]) /\ pc' = Set(pc, t, "listuse") /\ UNCHANGED todo
    <3>1. Stored /\ MountedOn[Target(t)] \in cached'
      BY <2>1, <2>2, GetStored
    <3>2. TypeOK'
      BY <1>2, <2>1, <2>2, <3>1, NodeFacts DEF ListGet
    <3>3. Position(t)'
      BY <1>2, <2>1, <2>2, <3>1, NodeFacts DEF ListGet
    <3>4. Keeps
      BY <1>2, <2>1, <2>2, <3>1, NodeFacts DEF ListGet
    <3>5. Reaches(t)
      BY <1>2, <2>1, <2>2, <3>1, NodeFacts DEF ListGet
    <3>6. Alone(t)
      BY <1>2, <2>1, <2>2, <3>1, NodeFacts DEF ListGet
    <3>7. QED
      BY <3>2, <3>3, <3>4, <3>5, <3>6
  <2>3. CASE Quit(t, <<last[t], dir[t]>>) /\ UNCHANGED min /\ UNCHANGED <<cached, use>>
    <3>1. Stored
      BY <2>3, SameStored
    <3>2. TypeOK'
      BY <1>2, <2>1, <2>3, <3>1, NodeFacts DEF ListGet
    <3>3. Position(t)'
      BY <1>2, <2>1, <2>3, <3>1, NodeFacts DEF ListGet
    <3>4. Keeps
      BY <1>2, <2>1, <2>3, <3>1, NodeFacts DEF ListGet
    <3>5. Reaches(t)
      BY <1>2, <2>1, <2>3, <3>1, NodeFacts DEF ListGet
    <3>6. Alone(t)
      BY <1>2, <2>1, <2>3, <3>1, NodeFacts DEF ListGet
    <3>7. QED
      BY <3>2, <3>3, <3>4, <3>5, <3>6
  <2>4. QED
    BY <1>2, <2>2, <2>3 DEF ListGet
<1>3. CASE ListUse(t)
  <2>1. Stored
    BY <1>3, UseStored DEF ListUse
  <2>2. QED
    BY <1>3, <2>1, NodeFacts DEF ListUse
<1>4. CASE ListPlain(t)
  <2>1. Stored
    BY <1>4, SameStored DEF ListPlain
  <2>2. QED
    BY <1>4, <2>1, NodeFacts DEF ListPlain
<1>5. CASE ListFails(t)
  <2>1. Stored
    BY <1>5, SameStored DEF ListFails
  <2>2. QED
    BY <1>5, <2>1, NodeFacts DEF ListFails
<1>6. CASE List(t)
  <2>1. Stored
    BY <1>6, RefAssumption DEF List, Listed
  <2>2. TypeOK'
    BY <1>6, <2>1, NodeFacts DEF List
  <2>3. Position(t)'
    BY <1>6, <2>1, NodeFacts DEF List
  <2>4. Keeps
    BY <1>6, <2>1, NodeFacts DEF List
  <2>5. Reaches(t)
    BY <1>6, <2>1, NodeFacts DEF List
  <2>6. Alone(t)
    BY <1>6, <2>1, NodeFacts DEF List
  <2>7. QED
    BY <2>2, <2>3, <2>4, <2>5, <2>6
<1>7. QED
  BY <1>1, <1>2, <1>3, <1>4, <1>5, <1>6 DEF ListStep

(* A step of ufs_rmdir or ufs_remove after the lookup.                     *)
LEMMA RemoveSteps ==
  ASSUME IInv, NEW t \in Task, RemoveStep(t)
  PROVE  Good(t)
<1> USE DEF IInv, TypeOK, Position, Set, Quit, names, locals, handles, Label, Op,
        Good, Keeps, Reaches, Alone, Holds, Linked, Elems, Other, Target, Name,
        Entries, Mounts, Stored
<1>1. CASE RmdirFails(t)
  <2>1. Stored
    BY <1>1, SameStored DEF RmdirFails
  <2>2. TypeOK'
    BY <1>1, <2>1, NodeFacts DEF RmdirFails
  <2>3. Position(t)'
    BY <1>1, <2>1, NodeFacts DEF RmdirFails
  <2>4. Keeps
    BY <1>1, <2>1, NodeFacts DEF RmdirFails
  <2>5. Reaches(t)
    BY <1>1, <2>1, NodeFacts DEF RmdirFails
  <2>6. Alone(t)
    BY <1>1, <2>1, NodeFacts DEF RmdirFails
  <2>7. QED
    BY <2>2, <2>3, <2>4, <2>5, <2>6
<1>2. CASE Rmdir(t)
  <2>1. Stored
    BY <1>2, SameStored DEF Rmdir
  <2>2. QED
    BY <1>2, <2>1, NodeFacts DEF Rmdir
<1>3. CASE RemoveFails(t)
  <2>1. Stored
    BY <1>3, SameStored DEF RemoveFails
  <2>2. QED
    BY <1>3, <2>1, NodeFacts DEF RemoveFails
<1>4. CASE Remove(t)
  <2>1. Stored
    BY <1>4, RelStored DEF Remove
  <2>2. QED
    BY <1>4, <2>1, NodeFacts DEF Remove
<1>5. CASE FindMissing(t)
  <2>1. Stored
    BY <1>5, SameStored DEF FindMissing
  <2>2. QED
    BY <1>5, <2>1, NodeFacts DEF FindMissing
<1>6. CASE Find(t)
  <2>1. Stored
    BY <1>6, SameStored DEF Find
  <2>2. QED
    BY <1>6, <2>1, NodeFacts DEF Find
<1>7. CASE GetFails(t)
  <2>1. Stored
    BY <1>7, SameStored DEF GetFails
  <2>2. QED
    BY <1>7, <2>1, NodeFacts DEF GetFails
<1>8. CASE GetVictim(t)
  <2>1. Name(t) \in Node
    BY <1>8 DEF GetVictim, IInv, Position
  <2>2. Stored /\ Name(t) \in cached'
    BY <1>8, <2>1, GetStored DEF GetVictim
  <2>3. QED
    BY <1>8, <2>1, <2>2, NodeFacts DEF GetVictim
<1>9. CASE UnlinkFails(t)
  <2>1. Stored
    BY <1>9, SameStored DEF UnlinkFails
  <2>2. /\ pc[t] = "unlink" /\ Quit(t, <<min[t], dir[t], last[t]>>)
        /\ UNCHANGED <<cached, use, names, locals, handles>>
    BY <1>9 DEF UnlinkFails
  <2>3. TypeOK'
    BY <2>1, <2>2, NodeFacts
  <2>4. Position(t)'
    BY <2>1, <2>2, NodeFacts
  <2>5. Keeps
    BY <2>1, <2>2, NodeFacts
  <2>6. Reaches(t)
    BY <2>1, <2>2, NodeFacts
  <2>7. Alone(t)
    BY <2>1, <2>2, NodeFacts
  <2>8. QED
    BY <2>3, <2>4, <2>5, <2>6, <2>7
<1>10. CASE Unlink(t)
  <2>1. Stored
    BY <1>10, SameStored DEF Unlink
  <2>2. QED
    BY <1>10, <2>1, NodeFacts DEF Unlink
<1>11. CASE DropFails(t)
  <2>1. Stored
    BY <1>11, SameStored DEF DropFails
  <2>2. QED
    BY <1>11, <2>1, NodeFacts DEF DropFails
<1>12. CASE Drop(t)
  <2>1. Stored
    BY <1>12, SameStored DEF Drop
  <2>2. QED
    BY <1>12, <2>1, NodeFacts DEF Drop
<1>13. CASE DropTarget(t)
  <2>1. min[t] \in Node
    BY <1>13 DEF DropTarget, IInv, Position
  <2>2. Stored /\ min[t] \in cached'
    BY <1>13, <2>1, GetStored DEF DropTarget
  <2>3. TypeOK'
    BY <1>13, <2>1, <2>2, NodeFacts DEF DropTarget
  <2>4. Position(t)'
    BY <1>13, <2>1, <2>2, NodeFacts DEF DropTarget
  <2>5. Keeps
    BY <1>13, <2>1, <2>2, NodeFacts DEF DropTarget
  <2>6. Reaches(t)
    <3>1. /\ pc[t] = "target" /\ pc'[t] = "quit"
          /\ todo'[t] = <<min[t], min[t], dir[t], last[t]>>
          /\ UNCHANGED <<cwd, fp, ddesc>>
      BY <1>13 DEF DropTarget
    <3>2. Elems(todo'[t]) = {min[t], dir[t], last[t]}
      BY <3>1
    <3>3. QED
      BY <3>1, <3>2
  <2>7. Alone(t)
    BY <1>13, <2>1, <2>2, NodeFacts DEF DropTarget
  <2>8. QED
    BY <2>3, <2>4, <2>5, <2>6, <2>7
<1>14. QED
  BY <1>1, <1>2, <1>3, <1>4, <1>5, <1>6, <1>7, <1>8, <1>9, <1>10, <1>11, <1>12, <1>13 DEF RemoveStep

(* The beginning of a call, the closing of a handle and the exit of a call *)
LEMMA OtherSteps ==
  ASSUME IInv, NEW t \in Task,
         (\E c \in Calls : Lookup(t, c)) \/ Close(t) \/ ListClose(t) \/ Release(t) \/ Return(t)
  PROVE  Good(t)
<1> USE DEF IInv, TypeOK, Position, Set, Quit, names, locals, handles, Label, Op,
        Good, Keeps, Reaches, Alone, Holds, Linked, Elems, Other, Target, Name,
        Entries, Mounts, Stored
<1>1. ASSUME NEW c \in Calls, Lookup(t, c)
      PROVE  Good(t)
  <2>1. Stored
    BY <1>1, UseStored DEF Lookup
  <2>2. c.op \in Op /\ c.path \in Seq(Node)
    BY RefAssumption
  <2>3. TypeOK'
    BY <1>1, <2>1, <2>2, NodeFacts DEF Lookup
  <2>4. Position(t)'
    BY <1>1, <2>1, <2>2, NodeFacts DEF Lookup
  <2>5. Keeps /\ Alone(t)
    BY <1>1, <2>1, <2>2 DEF Lookup
  <2>6. pc'[t] \in Op \cup {"walk"} /\ last'[t] = NoNode
    BY <1>1, <2>2 DEF Lookup
  <2>7. walk'[t] = Root /\ dir'[t] = Root /\ UNCHANGED handles
    BY <1>1 DEF Lookup
  <2>8. Reaches(t)
    BY <2>6, <2>7, NodeFacts
  <2>9. QED
    BY <2>3, <2>4, <2>5, <2>8
<1>2. CASE Close(t)
  <2>1. Stored
    BY <1>2, RelStored DEF Close
  <2>2. QED
    BY <1>2, <2>1, NodeFacts DEF Close
<1>3. CASE ListClose(t)
  <2>1. Stored
    BY <1>3, RelStored DEF ListClose
  <2>2. QED
    BY <1>3, <2>1, NodeFacts DEF ListClose
<1>4. CASE Release(t)
  <2>1. Stored
    BY <1>4, RelStored, SameStored DEF Release
  <2>2. QED
    BY <1>4, <2>1, NodeFacts DEF Release
<1>5. CASE Return(t)
  <2>1. Stored
    BY <1>5, SameStored DEF Return
  <2>2. QED
    BY <1>5, <2>1, NodeFacts DEF Return
<1>6. QED
  BY <1>1, <1>2, <1>3, <1>4, <1>5

-----------------------------------------------------------------------------
(* The theorems                                                            *)

(* The state in which ufs_sys_new and the mounts leave the cache.          *)
LEMMA InitIInv == Init => IInv
<1> SUFFICES ASSUME Init PROVE IInv
  OBVIOUS
<1>1. MountedOn[Root] = Root /\ Mounts \subseteq Dir
  BY RefAssumption DEF Mounts
<1>2. use \in [Node -> 0 .. Word - 1]
  <2> DEFINE held == 2 * Cardinality(Task) + (IF Mounts = {} THEN 1 ELSE 0)
  <2>1. held \in Nat
    BY RefAssumption, FS_CardinalityType
  <2> HIDE DEF held
  <2>2. held % Word \in 0 .. Word - 1
    BY <2>1, RefAssumption
  <2>3. use = [n \in Node |-> IF n = Root THEN held % Word ELSE IF n \in Mounts THEN 2 ELSE 0]
    BY DEF Init, held
  <2>4. QED
    BY <2>2, <2>3, RefAssumption
<1>3. TypeOK
  <2>1. cached \subseteq Node /\ unlinked = {} /\ gone = {}
    BY <1>1, RefAssumption DEF Init, Mounts
  <2>2. pc \in [Task -> Label] /\ call \in [Task -> Calls \cup {NoCall}]
    BY DEF Init, Label
  <2>3. rest \in [Task -> Seq(Node)] /\ todo \in [Task -> Seq(Node \cup {NoNode})]
    BY DEF Init
  <2>4. \A f \in {walk, dir, last, min, cwd, fp, ddesc} : f \in [Task -> Node \cup {NoNode}]
    BY RefAssumption DEF Init
  <2>5. QED
    BY <1>2, <2>1, <2>2, <2>3, <2>4 DEF TypeOK
<1>4. \A t \in Task : Position(t)
  BY DEF Init, Position
<1>5. RootKept
  BY DEF Init, RootKept
<1>6. LinkedKept
  BY RefAssumption DEF Init, LinkedKept, Holds, Linked, Op
<1>7. QED
  BY <1>3, <1>4, <1>5, <1>6 DEF IInv

(* Every step of every task keeps the invariant.                           *)
LEMMA NextIInv == IInv /\ [Next]_vars => IInv'
<1> SUFFICES ASSUME IInv, [Next]_vars PROVE IInv'
  OBVIOUS
<1>1. CASE UNCHANGED vars
  <2>1. UNCHANGED <<cached, use, unlinked, gone, pc, call, rest, walk, dir, last, min,
                    todo, cwd, fp, ddesc>>
    BY <1>1 DEF vars, names, locals, handles
  <2>2. TypeOK' /\ RootKept'
    BY <2>1 DEF IInv, TypeOK, RootKept, Linked
  <2>3. \A t \in Task : Position(t)'
    BY <2>1 DEF IInv, Position, Target, Name
  <2>4. LinkedKept'
    BY <2>1 DEF IInv, LinkedKept, Linked, Holds, Other
  <2>5. QED
    BY <2>2, <2>3, <2>4 DEF IInv
<1>2. ASSUME NEW t \in Task,
             \/ \E c \in Calls : Lookup(t, c)
             \/ LookupStep(t)
             \/ OpenStep(t) \/ Close(t)
             \/ CdStep(t)
             \/ ListStep(t) \/ ListClose(t)
             \/ RemoveStep(t)
             \/ Release(t)
             \/ Return(t)
      PROVE  IInv'
  <2>1. Good(t)
    BY <1>2, LookupSteps, OpenSteps, CdSteps, ListSteps, RemoveSteps, OtherSteps
  <2>2. QED
    BY <2>1, GoodStep
<1>3. QED
  BY <1>1, <1>2 DEF Next

(* The pointers the properties speak of are those of the invariant.        *)
LEMMA HeldHolds ==
  ASSUME TypeOK, NEW n \in Held
  PROVE  \E t \in Task : Holds(t, n)
<1>1. PICK t \in Task, i \in 1 .. 10 : i <= Len(References(t)) /\ References(t)[i] = n
  BY DEF Held, Holders
<1> DEFINE Ok(s) == s \in Seq(Pointer) /\ \A j \in 1 .. Len(s) : Holds(t, s[j])
<1>2. \A a, b, c \in Pointer :
        /\ Holds(t, a) => Ok(<<a>>)
        /\ Holds(t, a) /\ Holds(t, b) => Ok(<<a, b>>)
        /\ Holds(t, a) /\ Holds(t, b) /\ Holds(t, c) => Ok(<<a, b, c>>)
  OBVIOUS
<1>3. /\ pc[t] \in Label /\ todo[t] \in Seq(Pointer)
      /\ walk[t] \in Pointer /\ dir[t] \in Pointer /\ last[t] \in Pointer
      /\ min[t] \in Pointer /\ cwd[t] \in Pointer /\ fp[t] \in Pointer
      /\ ddesc[t] \in Pointer /\ Other(t) \in Pointer
  BY DEF TypeOK, Pointer, Other
<1>4. Ok(<<cwd[t], fp[t], ddesc[t]>>)
  BY <1>2, <1>3 DEF Holds
<1>5. Ok(Locals(t))
  <2>1. CASE pc[t] \in {"walk", "mounted", "save", "name"}
    <3>1. Locals(t) = <<walk[t], dir[t]>>
      BY <2>1 DEF Locals, Op
    <3>2. QED
      BY <2>1, <3>1, <1>2, <1>3 DEF Holds
  <2>2. CASE pc[t] \in {"mount", "child"}
    <3>1. Locals(t) = <<dir[t]>>
      BY <2>2 DEF Locals, Op
    <3>2. QED
      BY <2>2, <3>1, <1>2, <1>3 DEF Holds
  <2>3. CASE pc[t] \in Op \cup {"listget", "find", "get"}
    <3>1. Locals(t) = <<dir[t], last[t]>>
      BY <2>3 DEF Locals, Op
    <3>2. QED
      BY <2>3, <3>1, <1>2, <1>3 DEF Holds
  <2>4. CASE pc[t] = "cdmount"
    <3>1. Locals(t) = <<Other(t)>>
      BY <2>4 DEF Locals, Op
    <3>2. QED
      BY <2>4, <3>1, <1>2, <1>3 DEF Holds
  <2>5. CASE pc[t] = "cdset"
    <3>1. Locals(t) = <<min[t], Other(t)>>
      BY <2>5 DEF Locals, Op
    <3>2. QED
      BY <2>5, <3>1, <1>2, <1>3 DEF Holds
  <2>6. CASE pc[t] \in {"listuse", "listopen", "unlink", "drop", "target"}
    <3>1. Locals(t) = <<dir[t], last[t], min[t]>>
      BY <2>6 DEF Locals, Op
    <3>2. QED
      BY <2>6, <3>1, <1>2, <1>3 DEF Holds
  <2>7. CASE pc[t] = "quit"
    <3>1. Locals(t) = todo[t]
      BY <2>7 DEF Locals, Op
    <3>2. QED
      BY <2>7, <3>1, <1>3 DEF Holds, Elems
  <2>8. CASE pc[t] = "idle"
    <3>1. Locals(t) = << >>
      BY <2>8 DEF Locals, Op
    <3>2. QED
      BY <3>1
  <2>9. QED
    BY <1>3, <2>1, <2>2, <2>3, <2>4, <2>5, <2>6, <2>7, <2>8 DEF Label
<1>6. \A s, r \in Seq(Pointer) : \A j \in 1 .. 10 :
        j <= Len(s \o r) =>
          \/ j \in 1 .. Len(s) /\ (s \o r)[j] = s[j]
          \/ j - Len(s) \in 1 .. Len(r) /\ (s \o r)[j] = r[j - Len(s)]
  OBVIOUS
<1>7. QED
  BY <1>1, <1>4, <1>5, <1>6 DEF References

(* The pointers, counts and places of every call are what the code takes   *)
(* them for: above all no count leaves its range.                          *)
THEOREM RefTypes == Spec => []TypeOK
<1>1. IInv => TypeOK
  BY DEF IInv
<1>2. QED
  BY InitIInv, NextIInv, <1>1, PTL DEF Spec

(* ufs_inode_rel never frees a directory that has links, so that those who *)
(* use one, as current directory or in the middle of a call, still have it *)
(* when the lookup has released it once too often.                         *)
THEOREM LinkedDirsStay == Spec => []LinkedDirHeld
<1>1. IInv => LinkedDirHeld
  <2> SUFFICES ASSUME IInv, NEW n \in Held \cap (Dir \ unlinked)
               PROVE  n \in cached
    BY DEF LinkedDirHeld
  <2>1. PICK t \in Task : Holds(t, n)
    BY HeldHolds DEF IInv
  <2>2. QED
    BY <2>1 DEF IInv, LinkedKept, Linked
<1>2. QED
  BY InitIInv, NextIInv, <1>1, PTL DEF Spec

-----------------------------------------------------------------------------
(* Use counts of files                                                     *)

(* Under what the counts of files are right.  ufs_file_new gets a buffer   *)
(* (without one, ufs_open releases the minode twice); the paths go through *)
(* directories (a file on the way is taken and never released, as          *)
(* ufs_lookup_minode returns ENOTDIR without a release); what is listed    *)
(* is a directory (ufs_diropen keeps a minode that quit releases); and     *)
(* usecount has room for seven pointers of every task.                     *)
Orderly ==
  /\ "buffer" \notin FaultAt
  /\ \A c \in Calls :
       /\ \A i \in 1 .. Len(c.path) - 1 : c.path[i] \in Dir
       /\ c.op = "list" /\ c.path # << >> => c.path[Len(c.path)] \in Dir
  /\ 7 * Cardinality(Task) < Word

Files == Node \ Dir

DirPointer == Dir \cup {NoNode}

Walking == {"walk", "mount", "mounted", "save", "name", "child"}

(* Where a call may have a pointer to a file: in last[t] up to the         *)
(* dispatch on its kind, in min[t] when a name is removed, in the list of  *)
(* releases and in the handle.  All other pointers are to directories.     *)
Placed(t) ==
  /\ dir[t] \in DirPointer /\ cwd[t] \in DirPointer /\ ddesc[t] \in DirPointer
  /\ pc[t] # "idle" => call[t] \in Calls
  /\ pc[t] \in Walking \ {"child"} => walk[t] \in Dir
  /\ pc[t] \in Walking \cup {"open"} /\ call[t].op = "open" => fp[t] = NoNode
  /\ pc[t] \in Walking => \A i \in 1 .. Len(rest[t]) - 1 : rest[t][i] \in Dir
  /\ pc[t] \in Walking /\ rest[t] # << >> => rest[t][Len(rest[t])] = Name(t)
  /\ pc[t] \in Walking => call[t].path # << >>
  /\ pc[t] = "child" => IF rest[t] = << >> THEN walk[t] = Name(t) ELSE walk[t] \in Dir
  /\ pc[t] \in Op => call[t].op = pc[t] /\ last[t] \in {NoNode, Name(t)}
  /\ pc[t] \in {"list", "cdmount", "cdset", "listget", "listuse", "listopen",
                "find", "get", "unlink", "drop", "target"} => last[t] \in DirPointer
  /\ pc[t] \in {"cdset", "listuse", "listopen"} => min[t] \in DirPointer
  /\ pc[t] \in {"find", "get"} /\ call[t].op # "rmdir" => Name(t) \notin Dir
  /\ pc[t] \in {"unlink", "drop", "target"} /\ call[t].op # "rmdir" => min[t] \notin Dir
  /\ pc[t] = "quit" => Len(todo[t]) <= 4

One(b) == IF b THEN 1 ELSE 0

At(s, i, n) == One(i <= Len(s) /\ s[i] = n)

(* The pointers of task t to the file n.                                   *)
Mine(t, n) ==
  One(pc[t] \in {"open", "cd", "rmdir", "remove"} /\ last[t] = n)
  + One(pc[t] \in {"unlink", "drop", "target"} /\ min[t] = n)
  + (IF pc[t] = "quit"
     THEN At(todo[t], 1, n) + At(todo[t], 2, n) + At(todo[t], 3, n) + At(todo[t], 4, n)
     ELSE 0)
  + One(fp[t] = n)

Counted(n) ==
  IF n \in cached
  THEN use[n] = Cardinality(Holders(n)) /\ use[n] > 0
  ELSE Holders(n) = {}

FileInv ==
  /\ IInv
  /\ \A t \in Task : Placed(t)
  /\ \A n \in Files : Counted(n)

(* What a step does to the count of a file.                                *)
SameFor(n) == (n \in cached' <=> n \in cached) /\ use'[n] = use[n]
UpFor(n) == n \in cached' /\ use'[n] = IF n \in cached THEN (use[n] + 1) % Word ELSE 1
DownFor(n) ==
  /\ use'[n] = Down(use[n])
  /\ n \in cached' <=> n \in cached /\ Down(use[n]) # 0

Balanced(t, n) ==
  \/ SameFor(n) /\ Mine(t, n)' = Mine(t, n)
  \/ UpFor(n) /\ Mine(t, n)' = Mine(t, n) + 1
  \/ DownFor(n) /\ Mine(t, n)' = Mine(t, n) - 1

Fair(t) == Placed(t)' /\ \A n \in Files : Balanced(t, n)

-----------------------------------------------------------------------------
(* A sequence without its first element.                                   *)
LEMMA TailFacts ==
  ASSUME NEW S, NEW s \in Seq(S), s # << >>
  PROVE  /\ Len(Tail(s)) = Len(s) - 1 /\ Head(s) = s[1]
         /\ \A i \in 1 .. Len(s) - 1 : Tail(s)[i] = s[i + 1]
         /\ (Tail(s) = << >> <=> Len(s) = 1)
         /\ Len(s) \in Nat /\ Len(s) > 0
<1>1. Len(s) \in Nat /\ Len(s) > 0
  OBVIOUS
<1>2. Tail(s) \in Seq(S) /\ Len(Tail(s)) = Len(s) - 1 /\ Head(s) = s[1]
  OBVIOUS
<1>3. \A i \in 1 .. Len(s) - 1 : Tail(s)[i] = s[i + 1]
  OBVIOUS
<1>4. Tail(s) = << >> <=> Len(Tail(s)) = 0
  <2>1. \A r \in Seq(S) : r = << >> <=> Len(r) = 0
    OBVIOUS
  <2>2. QED
    BY <1>2, <2>1
<1>5. Tail(s) = << >> <=> Len(s) = 1
  BY <1>1, <1>2, <1>4
<1>6. QED
  BY <1>1, <1>2, <1>3, <1>5

-----------------------------------------------------------------------------
(* Counting                                                                *)

(* The places of a sequence of at most seven pointers that are n.          *)
Places(s, n) == {i \in 1 .. 10 : i <= Len(s) /\ s[i] = n}

Count(s, n) ==
  At(s, 1, n) + At(s, 2, n) + At(s, 3, n) + At(s, 4, n)
  + At(s, 5, n) + At(s, 6, n) + At(s, 7, n)

(* Those before the kth.                                                   *)
Before(s, n, k) == {i \in Places(s, n) : i < k}

(* One place more is one more or none.                                     *)
LEMMA OnePlace ==
  ASSUME NEW s, NEW n, NEW k \in 1 .. 10, IsFiniteSet(Before(s, n, k))
  PROVE  /\ IsFiniteSet(Before(s, n, k + 1))
         /\ Cardinality(Before(s, n, k + 1))
              = Cardinality(Before(s, n, k)) + At(s, k, n)
<1>1. CASE k <= Len(s) /\ s[k] = n
  <2>1. Before(s, n, k + 1) = Before(s, n, k) \cup {k} /\ k \notin Before(s, n, k)
    BY <1>1 DEF Before, Places
  <2>2. At(s, k, n) = 1
    BY <1>1 DEF At, One
  <2>3. QED
    BY <2>1, <2>2, FS_AddElement
<1>2. CASE ~(k <= Len(s) /\ s[k] = n)
  <2>1. Before(s, n, k + 1) = Before(s, n, k)
    BY <1>2 DEF Before, Places
  <2>2. Cardinality(Before(s, n, k)) \in Nat
    BY FS_CardinalityType
  <2>3. At(s, k, n) = 0
    BY <1>2 DEF At, One
  <2>4. QED
    BY <2>1, <2>2, <2>3
<1>3. QED
  BY <1>1, <1>2

(* The number of places is the sum over them.                              *)
LEMMA PlacesCount ==
  ASSUME NEW s, Len(s) \in 0 .. 7, NEW n
  PROVE  IsFiniteSet(Places(s, n)) /\ Cardinality(Places(s, n)) = Count(s, n)
<1> DEFINE P(k) == Before(s, n, k)
<1>1. P(1) = {} /\ IsFiniteSet(P(1)) /\ Cardinality(P(1)) = 0
  <2>1. P(1) = {}
    BY DEF Before, Places
  <2>2. QED
    BY <2>1, FS_EmptySet
<1>2. \A i \in 1 .. 7 : At(s, i, n) \in Nat
  BY DEF At, One
<1>3. IsFiniteSet(P(2)) /\ Cardinality(P(2)) = At(s, 1, n)
  BY <1>1, <1>2, OnePlace
<1>4. IsFiniteSet(P(3)) /\ Cardinality(P(3)) = At(s, 1, n) + At(s, 2, n)
  BY <1>3, <1>2, OnePlace
<1>5. IsFiniteSet(P(4)) /\ Cardinality(P(4)) = At(s, 1, n) + At(s, 2, n) + At(s, 3, n)
  BY <1>4, <1>2, OnePlace
<1>6. /\ IsFiniteSet(P(5))
      /\ Cardinality(P(5)) = At(s, 1, n) + At(s, 2, n) + At(s, 3, n) + At(s, 4, n)
  BY <1>5, <1>2, OnePlace
<1>7. /\ IsFiniteSet(P(6))
      /\ Cardinality(P(6)) = At(s, 1, n) + At(s, 2, n) + At(s, 3, n) + At(s, 4, n)
                             + At(s, 5, n)
  BY <1>6, <1>2, OnePlace
<1>8. /\ IsFiniteSet(P(7))
      /\ Cardinality(P(7)) = At(s, 1, n) + At(s, 2, n) + At(s, 3, n) + At(s, 4, n)
                             + At(s, 5, n) + At(s, 6, n)
  BY <1>7, <1>2, OnePlace
<1>9. IsFiniteSet(P(8)) /\ Cardinality(P(8)) = Count(s, n)
  BY <1>8, <1>2, OnePlace DEF Count
<1>10. Places(s, n) = P(8)
  BY DEF Before, Places
<1>11. QED
  BY <1>9, <1>10

(* The holders of n when task u has the pointers lists[u].                 *)
HoldersOf(lists, n) == {h \in Task \X (1 .. 10) : h[2] \in Places(lists[h[1]], n)}

LEMMA HoldersAre ==
  ASSUME NEW n
  PROVE  Holders(n) = HoldersOf([t \in Task |-> References(t)], n)
BY DEF Holders, HoldersOf, Places

(* There are at most seven for every task.                                 *)
LEMMA HoldersFinite ==
  ASSUME NEW lists, \A u \in Task : Len(lists[u]) \in 0 .. 7, NEW n
  PROVE  /\ IsFiniteSet(HoldersOf(lists, n))
         /\ Cardinality(HoldersOf(lists, n)) \in Nat
         /\ Cardinality(HoldersOf(lists, n)) <= 7 * Cardinality(Task)
<1>1. IsFiniteSet(Task) /\ Cardinality(Task) \in Nat
  BY RefAssumption, FS_CardinalityType
<1>2. IsFiniteSet(1 .. 7) /\ Cardinality(1 .. 7) = 7
  <2>1. 1 \in Int /\ 7 \in Int /\ ~(1 > 7) /\ 7 - 1 + 1 = 7
    OBVIOUS
  <2>2. QED
    BY <2>1, FS_Interval, Zenon
<1>3. IsFiniteSet(Task \X (1 .. 7)) /\ Cardinality(Task \X (1 .. 7)) = Cardinality(Task) * 7
  BY <1>1, <1>2, FS_Product
<1>4. HoldersOf(lists, n) \subseteq Task \X (1 .. 7)
  <2> SUFFICES ASSUME NEW h \in HoldersOf(lists, n)
               PROVE  h \in Task \X (1 .. 7)
    OBVIOUS
  <2>1. h \in Task \X (1 .. 10) /\ h[1] \in Task /\ h[2] <= Len(lists[h[1]])
    BY DEF HoldersOf, Places
  <2>2. h[2] \in 1 .. 10 /\ Len(lists[h[1]]) \in 0 .. 7
    BY <2>1
  <2>3. h[2] \in 1 .. 7
    <3>1. \A k \in 1 .. 10, l \in 0 .. 7 : k <= l => k \in 1 .. 7
      OBVIOUS
    <3>2. QED
      BY <2>1, <2>2, <3>1
  <2>4. QED
    BY <2>1, <2>3
<1>5. /\ IsFiniteSet(HoldersOf(lists, n))
      /\ Cardinality(HoldersOf(lists, n)) <= Cardinality(Task \X (1 .. 7))
  BY <1>3, <1>4, FS_Subset
<1>6. Cardinality(HoldersOf(lists, n)) \in Nat
  BY <1>5, FS_CardinalityType
<1>7. QED
  BY <1>1, <1>3, <1>5, <1>6

(* A task has as many of the holders as it has places.                     *)
LEMMA HoldersOfTask ==
  ASSUME NEW lists, NEW t \in Task, Len(lists[t]) \in 0 .. 7, NEW n
  PROVE  LET mine == {h \in HoldersOf(lists, n) : h[1] = t}
         IN  IsFiniteSet(mine) /\ Cardinality(mine) = Count(lists[t], n)
<1> DEFINE mine == {h \in HoldersOf(lists, n) : h[1] = t}
           f == [i \in Places(lists[t], n) |-> <<t, i>>]
<1>1. IsFiniteSet(Places(lists[t], n)) /\ Cardinality(Places(lists[t], n)) = Count(lists[t], n)
  BY PlacesCount
<1>2. \A i \in Places(lists[t], n) : f[i] \in mine
  BY DEF HoldersOf, Places
<1>3. \A i, j \in Places(lists[t], n) : f[i] = f[j] => i = j
  OBVIOUS
<1>4. \A h \in mine : \E i \in Places(lists[t], n) : f[i] = h
  <2> SUFFICES ASSUME NEW h \in mine
               PROVE  \E i \in Places(lists[t], n) : f[i] = h
    OBVIOUS
  <2>1. h \in Task \X (1 .. 10) /\ h[1] = t /\ h[2] \in Places(lists[t], n)
    BY DEF HoldersOf
  <2>2. f[h[2]] = <<h[1], h[2]>> /\ h = <<h[1], h[2]>>
    BY <2>1
  <2>3. QED
    BY <2>1, <2>2
<1>5. f \in Bijection(Places(lists[t], n), mine)
  <2>1. f \in [Places(lists[t], n) -> mine]
    BY <1>2
  <2> HIDE DEF f, mine
  <2>2. f \in Injection(Places(lists[t], n), mine)
    BY <2>1, <1>3 DEF Injection, IsInjective
  <2>3. f \in Surjection(Places(lists[t], n), mine)
    BY <2>1, <1>4 DEF Surjection
  <2>4. QED
    BY <2>2, <2>3 DEF Bijection
<1>6. QED
  BY <1>1, <1>5, FS_Bijection DEF ExistsBijection

(* When one task has another list, that is all that changes.               *)
LEMMA HoldersChange ==
  ASSUME NEW old, NEW new, NEW t \in Task, NEW n,
         \A u \in Task : Len(old[u]) \in 0 .. 7 /\ Len(new[u]) \in 0 .. 7,
         \A u \in Task \ {t} : new[u] = old[u]
  PROVE  Cardinality(HoldersOf(new, n)) - Count(new[t], n)
           = Cardinality(HoldersOf(old, n)) - Count(old[t], n)
<1> DEFINE Of(lists) == {h \in HoldersOf(lists, n) : h[1] = t}
           Rest(lists) == {h \in HoldersOf(lists, n) : h[1] # t}
<1>1. Rest(new) = Rest(old)
  BY DEF HoldersOf
<1>2. ASSUME NEW lists, \A u \in Task : Len(lists[u]) \in 0 .. 7
      PROVE  /\ Cardinality(HoldersOf(lists, n)) = Cardinality(Rest(lists)) + Count(lists[t], n)
             /\ Cardinality(Rest(lists)) \in Nat /\ Count(lists[t], n) \in Nat
  <2>1. IsFiniteSet(HoldersOf(lists, n))
    BY <1>2, HoldersFinite
  <2>2. IsFiniteSet(Of(lists)) /\ Cardinality(Of(lists)) = Count(lists[t], n)
    BY <1>2, HoldersOfTask
  <2>3. IsFiniteSet(Rest(lists))
    BY <2>1, FS_Subset
  <2>4. Of(lists) \cap Rest(lists) = {} /\ HoldersOf(lists, n) = Of(lists) \cup Rest(lists)
    OBVIOUS
  <2>5. Cardinality(Of(lists)) \in Nat /\ Cardinality(Rest(lists)) \in Nat
    BY <2>2, <2>3, FS_CardinalityType
  <2>6. Cardinality(Of(lists) \cup Rest(lists))
          = Cardinality(Of(lists)) + Cardinality(Rest(lists)) - Cardinality({})
    BY <2>2, <2>3, <2>4, FS_Union
  <2>7. Cardinality({}) = 0
    BY FS_EmptySet
  <2> HIDE DEF Of, Rest
  <2>8. QED
    BY <2>2, <2>4, <2>5, <2>6, <2>7
<1>3. /\ Cardinality(HoldersOf(new, n)) = Cardinality(Rest(new)) + Count(new[t], n)
      /\ Cardinality(Rest(new)) \in Nat /\ Count(new[t], n) \in Nat
  BY <1>2
<1>4. /\ Cardinality(HoldersOf(old, n)) = Cardinality(Rest(old)) + Count(old[t], n)
      /\ Cardinality(Rest(old)) \in Nat /\ Count(old[t], n) \in Nat
  BY <1>2
<1> HIDE DEF Rest
<1>5. QED
  BY <1>1, <1>3, <1>4

(* The first four of a list.                                               *)
Four(s, n) == At(s, 1, n) + At(s, 2, n) + At(s, 3, n) + At(s, 4, n)

(* Locals, and then the handles, of which only the second is one of a file *)
LEMMA CountHandles ==
  ASSUME NEW s \in Seq(Pointer), Len(s) <= 4, NEW n \in Files,
         NEW a \in Pointer \ {n}, NEW b \in Pointer, NEW c \in Pointer \ {n}
  PROVE  LET r == s \o <<a, b, c>>
         IN  Len(r) \in 0 .. 7 /\ Count(r, n) = Four(s, n) + One(b = n)
<1> DEFINE r == s \o <<a, b, c>>
<1>1. Len(s) \in Nat /\ Len(s) <= 4
  OBVIOUS
<1>2. /\ Len(r) = Len(s) + 3
      /\ \A i \in 1 .. Len(s) : r[i] = s[i]
      /\ r[Len(s) + 1] = a /\ r[Len(s) + 2] = b /\ r[Len(s) + 3] = c
  OBVIOUS
<1>3. a # n /\ c # n
  OBVIOUS
<1> HIDE DEF r
<1>4. ASSUME Len(s) = 0
      PROVE  Count(r, n) = Four(s, n) + One(b = n)
  <2>1. Len(r) = 3 /\ r[1] = a /\ r[2] = b /\ r[3] = c
    BY <1>2, <1>4
  <2>2. QED
    BY <2>1, <1>3, <1>4 DEF Count, Four, At, One
<1>5. ASSUME Len(s) = 1
      PROVE  Count(r, n) = Four(s, n) + One(b = n)
  <2>1. Len(r) = 4 /\ r[1] = s[1] /\ r[2] = a /\ r[3] = b /\ r[4] = c
    BY <1>2, <1>5
  <2>2. QED
    BY <2>1, <1>3, <1>5 DEF Count, Four, At, One
<1>6. ASSUME Len(s) = 2
      PROVE  Count(r, n) = Four(s, n) + One(b = n)
  <2>1. Len(r) = 5 /\ r[1] = s[1] /\ r[2] = s[2] /\ r[3] = a /\ r[4] = b /\ r[5] = c
    BY <1>2, <1>6
  <2>2. QED
    BY <2>1, <1>3, <1>6 DEF Count, Four, At, One
<1>7. ASSUME Len(s) = 3
      PROVE  Count(r, n) = Four(s, n) + One(b = n)
  <2>1. Len(r) = 6 /\ r[1] = s[1] /\ r[2] = s[2] /\ r[3] = s[3] /\ r[4] = a /\ r[5] = b /\ r[6] = c
    BY <1>2, <1>7
  <2>2. QED
    BY <2>1, <1>3, <1>7 DEF Count, Four, At, One
<1>8. ASSUME Len(s) = 4
      PROVE  Count(r, n) = Four(s, n) + One(b = n)
  <2>1. Len(r) = 7 /\ r[1] = s[1] /\ r[2] = s[2] /\ r[3] = s[3] /\ r[4] = s[4] /\ r[5] = a /\ r[6] = b /\ r[7] = c
    BY <1>2, <1>8
  <2>2. QED
    BY <2>1, <1>3, <1>8 DEF Count, Four, At, One
<1>9. Len(s) \in {0, 1, 2, 3, 4}
  <2>1. \A k \in Nat : k <= 4 => k \in {0, 1, 2, 3, 4}
    OBVIOUS
  <2>2. QED
    BY <1>1, <2>1
<1>10. Len(r) \in 0 .. 7
  BY <1>1, <1>2
<1>11. QED
  BY <1>4, <1>5, <1>6, <1>7, <1>8, <1>9, <1>10 DEF r

(* Of the pointers of a task those to a file are the ones of Mine.         *)
LEMMA MineCount ==
  ASSUME TypeOK, NEW t \in Task, Placed(t), NEW n \in Files
  PROVE  Len(References(t)) \in 0 .. 7 /\ Count(References(t), n) = Mine(t, n)
<1>1. /\ pc[t] \in Label /\ todo[t] \in Seq(Pointer)
      /\ walk[t] \in Pointer /\ dir[t] \in Pointer /\ last[t] \in Pointer
      /\ min[t] \in Pointer /\ cwd[t] \in Pointer /\ fp[t] \in Pointer
      /\ ddesc[t] \in Pointer /\ Other(t) \in Pointer
  BY DEF TypeOK, Pointer, Other
<1>2. n \notin DirPointer /\ n \in Node
  BY RefAssumption DEF Files, DirPointer
<1>3. dir[t] # n /\ cwd[t] # n /\ ddesc[t] # n /\ Other(t) # n
  BY <1>2 DEF Placed, Other, DirPointer
<1>4. /\ Locals(t) \in Seq(Pointer) /\ Len(Locals(t)) <= 4
      /\ Four(Locals(t), n) + One(fp[t] = n) = Mine(t, n)
  <2>1. CASE pc[t] \in {"walk", "mounted", "save", "name"}
    <3>1. Locals(t) = <<walk[t], dir[t]>> /\ walk[t] # n
      BY <2>1, <1>2 DEF Locals, Op, Placed, Walking, DirPointer
    <3>2. QED
      BY <2>1, <3>1, <1>1, <1>3 DEF Four, At, One, Mine
  <2>2. CASE pc[t] \in {"mount", "child"}
    <3>1. Locals(t) = <<dir[t]>>
      BY <2>2 DEF Locals, Op
    <3>2. QED
      BY <2>2, <3>1, <1>1, <1>3 DEF Four, At, One, Mine
  <2>3. CASE pc[t] \in {"list", "listget", "find", "get"}
    <3>1. Locals(t) = <<dir[t], last[t]>> /\ last[t] # n
      BY <2>3, <1>2 DEF Locals, Op, Placed
    <3>2. QED
      BY <2>3, <3>1, <1>1, <1>3 DEF Four, At, One, Mine
  <2>4. CASE pc[t] \in {"open", "cd", "rmdir", "remove"}
    <3>1. Locals(t) = <<dir[t], last[t]>>
      BY <2>4 DEF Locals, Op
    <3>2. QED
      BY <2>4, <3>1, <1>1, <1>3 DEF Four, At, One, Mine
  <2>5. CASE pc[t] = "cdmount"
    <3>1. Locals(t) = <<Other(t)>>
      BY <2>5 DEF Locals, Op
    <3>2. QED
      BY <2>5, <3>1, <1>1, <1>3 DEF Four, At, One, Mine
  <2>6. CASE pc[t] = "cdset"
    <3>1. Locals(t) = <<min[t], Other(t)>> /\ min[t] # n
      BY <2>6, <1>2 DEF Locals, Op, Placed
    <3>2. QED
      BY <2>6, <3>1, <1>1, <1>3 DEF Four, At, One, Mine
  <2>7. CASE pc[t] \in {"listuse", "listopen"}
    <3>1. Locals(t) = <<dir[t], last[t], min[t]>> /\ last[t] # n /\ min[t] # n
      BY <2>7, <1>2 DEF Locals, Op, Placed
    <3>2. QED
      BY <2>7, <3>1, <1>1, <1>3 DEF Four, At, One, Mine
  <2>8. CASE pc[t] \in {"unlink", "drop", "target"}
    <3>1. Locals(t) = <<dir[t], last[t], min[t]>> /\ last[t] # n
      BY <2>8, <1>2 DEF Locals, Op, Placed
    <3>2. QED
      BY <2>8, <3>1, <1>1, <1>3 DEF Four, At, One, Mine
  <2>9. CASE pc[t] = "quit"
    <3>1. Locals(t) = todo[t] /\ Len(todo[t]) <= 4
      BY <2>9 DEF Locals, Op, Placed
    <3>2. QED
      BY <2>9, <3>1, <1>1 DEF Four, At, One, Mine
  <2>10. CASE pc[t] = "idle"
    <3>1. Locals(t) = << >>
      BY <2>10 DEF Locals, Op
    <3>2. QED
      BY <2>10, <3>1 DEF Four, At, One, Mine
  <2>11. QED
    BY <1>1, <2>1, <2>2, <2>3, <2>4, <2>5, <2>6, <2>7, <2>8, <2>9, <2>10 DEF Label, Op
<1>5. cwd[t] \in Pointer \ {n} /\ fp[t] \in Pointer /\ ddesc[t] \in Pointer \ {n}
  BY <1>1, <1>3
<1>6. /\ Len(References(t)) \in 0 .. 7
      /\ Count(References(t), n) = Four(Locals(t), n) + One(fp[t] = n)
  BY <1>4, <1>5, CountHandles DEF References
<1>7. QED
  BY <1>4, <1>6

MineRight ==
  \A t \in Task, n \in Files :
     Placed(t) => Len(References(t)) \in 0 .. 7 /\ Count(References(t), n) = Mine(t, n)

LEMMA MineCounts == TypeOK => MineRight
BY MineCount DEF MineRight

(* A step that is good, and fair to every file, keeps the invariant.       *)
LEMMA FairStep ==
  ASSUME Orderly, FileInv, NEW t \in Task, Good(t), Fair(t)
  PROVE  FileInv'
<1>1. IInv'
  BY GoodStep DEF FileInv
<1>2. TypeOK /\ TypeOK' /\ Alone(t)
  BY <1>1 DEF FileInv, IInv, Good
<1>3. \A u \in Task \ {t} :
        /\ Placed(u)' = Placed(u)
        /\ References(u)' = References(u)
  <2> SUFFICES ASSUME NEW u \in Task \ {t}
               PROVE  Placed(u)' = Placed(u) /\ References(u)' = References(u)
    OBVIOUS
  <2>1. /\ pc'[u] = pc[u] /\ call'[u] = call[u] /\ rest'[u] = rest[u]
        /\ walk'[u] = walk[u] /\ dir'[u] = dir[u] /\ last'[u] = last[u]
        /\ min'[u] = min[u] /\ todo'[u] = todo[u]
        /\ cwd'[u] = cwd[u] /\ fp'[u] = fp[u] /\ ddesc'[u] = ddesc[u]
    BY <1>2 DEF Alone
  <2>2. Name(u)' = Name(u) /\ Other(u)' = Other(u)
    BY <2>1 DEF Name, Other
  <2>3. Placed(u)' = Placed(u)
    BY <2>1, <2>2 DEF Placed
  <2>4. Locals(u)' = Locals(u)
    BY <2>1, <2>2 DEF Locals
  <2>5. QED
    BY <2>1, <2>3, <2>4 DEF References
<1>4. \A u \in Task : Placed(u) /\ Placed(u)'
  BY <1>3 DEF FileInv, Fair
<1>5. ASSUME NEW n \in Files
      PROVE  Counted(n)'
  <2> DEFINE old == [u \in Task |-> References(u)]
             new == [u \in Task |-> References(u)']
             had == Cardinality(Holders(n))
             has == Cardinality(Holders(n)')
  <2>1. /\ \A u \in Task : Len(old[u]) \in 0 .. 7
        /\ Count(old[t], n) = Mine(t, n)
    BY <1>2, <1>4, MineCount
  <2>2. /\ \A u \in Task : Len(new[u]) \in 0 .. 7
        /\ Count(new[t], n) = Mine(t, n)'
    <3>1. ASSUME NEW u \in Task
          PROVE  Len(References(u)') \in 0 .. 7 /\ Count(References(u)', n) = Mine(u, n)'
      <4>1. (TypeOK => MineRight)'
        BY MineCounts, PTL
      <4>2. QED
        BY <4>1, <1>2, <1>4 DEF MineRight
    <3>2. QED
      BY <3>1
  <2>3. \A u \in Task \ {t} : new[u] = old[u]
    BY <1>3
  <2>4. Holders(n) = HoldersOf(old, n) /\ Holders(n)' = HoldersOf(new, n)
    BY HoldersAre DEF Holders, HoldersOf, Places
  <2> HIDE DEF old, new
  <2>5. has - Mine(t, n)' = had - Mine(t, n)
    BY <2>1, <2>2, <2>3, <2>4, HoldersChange
  <2>6. /\ IsFiniteSet(Holders(n)) /\ had \in Nat /\ had < Word
        /\ IsFiniteSet(Holders(n)') /\ has \in Nat /\ has < Word
    <3>1. Cardinality(Task) \in Nat /\ Word \in Nat /\ 7 * Cardinality(Task) < Word
      BY RefAssumption, FS_CardinalityType DEF Orderly
    <3>2. /\ IsFiniteSet(Holders(n)) /\ had \in Nat /\ had <= 7 * Cardinality(Task)
          /\ IsFiniteSet(Holders(n)') /\ has \in Nat /\ has <= 7 * Cardinality(Task)
      BY <2>1, <2>2, <2>4, HoldersFinite
    <3>3. QED
      BY <3>1, <3>2
  <2>7. (had = 0 <=> Holders(n) = {}) /\ (has = 0 <=> Holders(n)' = {})
    BY <2>6, FS_EmptySet
  <2>8. Counted(n) /\ Balanced(t, n)
    BY DEF FileInv, Fair
  <2>9. Mine(t, n) \in Nat /\ Mine(t, n)' \in Nat
    BY DEF Mine, At, One
  <2>10. n \in cached => use[n] = had /\ had > 0
    BY <2>8 DEF Counted
  <2>11. n \notin cached => had = 0
    BY <2>7, <2>8 DEF Counted
  <2>12. CASE SameFor(n) /\ Mine(t, n)' = Mine(t, n)
    <3>1. has = had
      BY <2>5, <2>6, <2>9, <2>12
    <3>2. QED
      BY <3>1, <2>7, <2>10, <2>11, <2>12 DEF Counted, SameFor
  <2>13. CASE UpFor(n) /\ Mine(t, n)' = Mine(t, n) + 1
    <3>1. has = had + 1
      BY <2>5, <2>6, <2>9, <2>13
    <3>2. (had + 1) % Word = had + 1
      BY <3>1, <2>6, RefAssumption
    <3>3. n \in cached' /\ use'[n] = has
      BY <3>1, <3>2, <2>10, <2>11, <2>13 DEF UpFor
    <3>4. QED
      BY <3>1, <3>3, <2>6 DEF Counted
  <2>14. CASE DownFor(n) /\ Mine(t, n)' = Mine(t, n) - 1
    <3>1. had = has + 1
      BY <2>5, <2>6, <2>9, <2>14
    <3>2. n \in cached /\ use[n] = has + 1
      BY <3>1, <2>6, <2>10, <2>11
    <3>3. use'[n] = has /\ (n \in cached' <=> has # 0)
      BY <3>2, <2>6, <2>14 DEF DownFor, Down
    <3>4. QED
      BY <3>3, <2>6, <2>7 DEF Counted
  <2>15. QED
    BY <2>8, <2>12, <2>13, <2>14 DEF Balanced
<1>6. QED
  BY <1>1, <1>4, <1>5 DEF FileInv

-----------------------------------------------------------------------------
(* The steps, for a file                                                   *)

(* What ufs_inode_rel, ufs_inode_get and ufs_inode_use do to a file.       *)
LEMMA RelFor ==
  ASSUME TypeOK, NEW k, Rel(k), NEW n \in Files
  PROVE  (n = k => DownFor(n)) /\ (n # k => SameFor(n))
<1>1. n \in Node /\ n \notin Dir /\ use \in [Node -> 0 .. Word - 1]
  BY DEF TypeOK, Files
<1>2. QED
  BY <1>1 DEF Rel, DownFor, SameFor, Kept

LEMMA GetFor ==
  ASSUME TypeOK, NEW k, Get(k), NEW n \in Files
  PROVE  (n = k => UpFor(n)) /\ (n # k => SameFor(n))
<1>1. n \in Node /\ use \in [Node -> 0 .. Word - 1]
  BY DEF TypeOK, Files
<1>2. QED
  BY <1>1 DEF Get, UpFor, SameFor

LEMMA UseFor ==
  ASSUME TypeOK, NEW k \in DirPointer, Use(k), UNCHANGED cached, NEW n \in Files
  PROVE  SameFor(n)
<1>1. n \in Node /\ n # k /\ use \in [Node -> 0 .. Word - 1]
  BY RefAssumption DEF TypeOK, Files, DirPointer
<1>2. QED
  BY <1>1 DEF Use, SameFor

LEMMA SameForAll ==
  ASSUME UNCHANGED <<cached, use>>, NEW n \in Files
  PROVE  SameFor(n)
BY DEF SameFor

LEMMA FileFacts ==
  /\ \A n \in Files : n \in Node /\ n \notin DirPointer
  /\ Dir \subseteq DirPointer /\ NoNode \in DirPointer
BY RefAssumption DEF Files, DirPointer

(* A step of ufs_lookup_minode.                                            *)
LEMMA LookupFair ==
  ASSUME Orderly, FileInv, NEW t \in Task, LookupStep(t)
  PROVE  Fair(t)
<1> USE DEF FileInv, IInv, TypeOK, Position, Placed, Walking, Set, Quit, names, locals,
        handles, Label, Op, Name, Entries, DirPointer, Mine, At, One
<1>0. /\ TypeOK
      /\ \A d \in Dir : MountedOn[d] \in DirPointer
  BY RefAssumption
<1>1. CASE WalkFails(t)
  <2>1. Placed(t)'
    BY <1>1, <1>0 DEF WalkFails
  <2>2. \A n \in Files : SameFor(n) /\ Mine(t, n)' = Mine(t, n)
    BY <1>1, <1>0, FileFacts, SameForAll DEF WalkFails
  <2>3. QED
    BY <2>1, <2>2 DEF Fair, Balanced
<1>2. CASE WalkOn(t)
  <2>1. Placed(t)'
    BY <1>2, <1>0 DEF WalkOn
  <2>2. \A n \in Files : SameFor(n) /\ Mine(t, n)' = Mine(t, n)
    BY <1>2, <1>0, FileFacts, SameForAll DEF WalkOn
  <2>3. QED
    BY <2>1, <2>2 DEF Fair, Balanced
<1>3. CASE WalkMount(t)
  <2>1. Placed(t)'
    BY <1>3, <1>0 DEF WalkMount
  <2>2. \A n \in Files : SameFor(n) /\ Mine(t, n)' = Mine(t, n)
    BY <1>3, <1>0, FileFacts, RelFor DEF WalkMount
  <2>3. QED
    BY <2>1, <2>2 DEF Fair, Balanced
<1>4. CASE WalkMounted(t)
  <2>1. Placed(t)'
    <3>1. CASE pc' = [pc EXCEPT ![t] = "mounted"] /\ UNCHANGED todo
      BY <1>4, <1>0, <3>1 DEF WalkMounted
    <3>2. CASE Quit(t, <<dir[t]>>)
      BY <1>4, <1>0, <3>2 DEF WalkMounted
    <3>3. QED
      BY <1>4, <3>1, <3>2 DEF WalkMounted
  <2>2. walk[t] \in Dir
    BY <1>4 DEF WalkMounted
  <2>3. \A n \in Files : SameFor(n)
    BY <1>4, <2>2, <1>0, FileFacts, GetFor, SameForAll DEF WalkMounted
  <2>4. \A n \in Files : Mine(t, n)' = Mine(t, n)
    BY <1>4, <1>0, FileFacts DEF WalkMounted
  <2>5. QED
    BY <2>1, <2>3, <2>4 DEF Fair, Balanced
<1>5. CASE SaveDir(t)
  <2>1. Placed(t)'
    BY <1>5, <1>0 DEF SaveDir
  <2>2. \A n \in Files : SameFor(n) /\ Mine(t, n)' = Mine(t, n)
    BY <1>5, <1>0, FileFacts, RelFor DEF SaveDir
  <2>3. QED
    BY <2>1, <2>2 DEF Fair, Balanced
<1>6. CASE NameMissing(t)
  <2>1. Placed(t)'
    BY <1>6, <1>0 DEF NameMissing
  <2>2. \A n \in Files : SameFor(n) /\ Mine(t, n)' = Mine(t, n)
    BY <1>6, <1>0, FileFacts, SameForAll DEF NameMissing
  <2>3. QED
    BY <2>1, <2>2 DEF Fair, Balanced
<1>7. CASE NameFound(t)
  <2>1. /\ rest[t] \in Seq(Node) /\ rest[t] # << >> /\ pc[t] = "name"
        /\ rest' = [rest EXCEPT ![t] = Tail(rest[t])]
        /\ walk' = [walk EXCEPT ![t] = Head(rest[t])]
        /\ pc' = [pc EXCEPT ![t] = "child"]
        /\ UNCHANGED <<call, dir, last, min, todo, cwd, fp, ddesc>>
    BY <1>7 DEF NameFound
  <2>2. LET s == rest[t]
        IN  /\ Len(Tail(s)) = Len(s) - 1 /\ Head(s) = s[1]
            /\ \A i \in 1 .. Len(s) - 1 : Tail(s)[i] = s[i + 1]
            /\ (Tail(s) = << >> <=> Len(s) = 1)
            /\ Len(s) \in Nat /\ Len(s) > 0
    BY <2>1, TailFacts
  <2>3. /\ \A i \in 1 .. Len(rest[t]) - 1 : rest[t][i] \in Dir
        /\ rest[t][Len(rest[t])] = Name(t)
    BY <2>1
  <2>4. \A i \in 1 .. Len(Tail(rest[t])) - 1 : Tail(rest[t])[i] \in Dir
    <3> SUFFICES ASSUME NEW i \in 1 .. Len(Tail(rest[t])) - 1
                 PROVE  Tail(rest[t])[i] \in Dir
      OBVIOUS
    <3>1. i \in 1 .. Len(rest[t]) - 1 /\ i + 1 \in 1 .. Len(rest[t]) - 1
      BY <2>1, <2>2
    <3>2. QED
      BY <2>1, <2>2, <2>3, <3>1
  <2>5. Tail(rest[t]) # << >> => Tail(rest[t])[Len(Tail(rest[t]))] = Name(t)
    <3> SUFFICES ASSUME Tail(rest[t]) # << >>
                 PROVE  Tail(rest[t])[Len(Tail(rest[t]))] = Name(t)
      OBVIOUS
    <3>1. Len(Tail(rest[t])) = Len(rest[t]) - 1 /\ Len(rest[t]) - 1 \in 1 .. Len(rest[t]) - 1
      BY <2>1, <2>2
    <3>2. Tail(rest[t])[Len(rest[t]) - 1] = rest[t][Len(rest[t]) - 1 + 1]
      BY <2>1, <2>2, <3>1
    <3>3. Len(rest[t]) - 1 + 1 = Len(rest[t])
      BY <2>1, <2>2
    <3>4. QED
      BY <2>3, <3>1, <3>2, <3>3
  <2>6. IF Tail(rest[t]) = << >> THEN Head(rest[t]) = Name(t) ELSE Head(rest[t]) \in Dir
    <3>1. CASE Tail(rest[t]) = << >>
      <4>1. Len(rest[t]) = 1 /\ Head(rest[t]) = rest[t][1]
        BY <2>1, <2>2, <3>1
      <4>2. QED
        BY <2>3, <3>1, <4>1
    <3>2. CASE Tail(rest[t]) # << >>
      <4>1. 1 \in 1 .. Len(rest[t]) - 1
        BY <2>1, <2>2, <3>2
      <4>2. QED
        BY <2>1, <2>2, <2>3, <3>2, <4>1
    <3>3. QED
      BY <3>1, <3>2
  <2>7. Placed(t)'
    <3>1. /\ pc[t] = "name" /\ pc'[t] = "child" /\ Name(t)' = Name(t)
          /\ rest'[t] = Tail(rest[t]) /\ walk'[t] = Head(rest[t])
      BY <1>0, <2>1
    <3>2. Placed(t)
      OBVIOUS
    <3> HIDE DEF FileInv, IInv, TypeOK, Position
    <3>3. QED
      BY <2>1, <2>4, <2>5, <2>6, <3>1, <3>2
  <2>8. \A n \in Files : SameFor(n) /\ Mine(t, n)' = Mine(t, n)
    BY <1>7, <1>0, FileFacts, RelFor DEF NameFound
  <2>9. QED
    BY <2>7, <2>8 DEF Fair, Balanced
<1>8. CASE ChildFails(t)
  <2>1. Placed(t)'
    BY <1>8, <1>0 DEF ChildFails
  <2>2. \A n \in Files : SameFor(n) /\ Mine(t, n)' = Mine(t, n)
    BY <1>8, <1>0, FileFacts, SameForAll DEF ChildFails
  <2>3. QED
    BY <2>1, <2>2 DEF Fair, Balanced
<1>9. CASE Child(t)
  <2>1. \A n \in Files : (n = walk[t] => UpFor(n)) /\ (n # walk[t] => SameFor(n))
    BY <1>9, <1>0, GetFor DEF Child
  <2>2. CASE rest[t] # << >>
    <3>1. Placed(t)'
      BY <1>9, <1>0, <2>2 DEF Child
    <3>2. \A n \in Files : n # walk[t] /\ Mine(t, n)' = Mine(t, n)
      BY <1>9, <1>0, <2>2, FileFacts DEF Child
    <3>3. QED
      BY <2>1, <3>1, <3>2 DEF Fair, Balanced
  <2>3. CASE rest[t] = << >>
    <3>1. /\ call[t] \in Calls /\ call[t].op \in Op /\ walk[t] = Name(t)
          /\ call[t].path \in Seq(Node) /\ call[t].path # << >>
      BY <1>9, <2>3, RefAssumption DEF Child
    <3>2. /\ pc' = [pc EXCEPT ![t] = call[t].op] /\ last' = [last EXCEPT ![t] = walk[t]]
          /\ UNCHANGED <<names, call, rest, walk, dir, min, todo, handles>>
      BY <1>9, <2>3 DEF Child
    <3>3. call[t].op = "list" => walk[t] \in Dir
      BY <3>1 DEF Orderly
    <3>4. Placed(t)'
      <4>1. /\ pc'[t] = call[t].op /\ last'[t] = Name(t) /\ pc[t] = "child"
            /\ Name(t)' = Name(t)
        BY <1>9, <3>1, <3>2 DEF Child
      <4>2. UNCHANGED <<call, rest, walk, dir, min, todo, cwd, fp, ddesc>>
        BY <3>2
      <4>3. Placed(t)
        OBVIOUS
      <4> HIDE DEF FileInv, IInv, TypeOK, Position
      <4>4. QED
        BY <3>1, <3>3, <4>1, <4>2, <4>3
    <3>5. \A n \in Files : Mine(t, n)' = Mine(t, n) + One(n = walk[t])
      BY <1>9, <1>0, <3>1, <3>2, <3>3, FileFacts DEF Child
    <3>6. QED
      BY <2>1, <3>4, <3>5 DEF Fair, Balanced
  <2>4. QED
    BY <2>2, <2>3
<1>10. QED
  BY <1>1, <1>2, <1>3, <1>4, <1>5, <1>6, <1>7, <1>8, <1>9 DEF LookupStep

(* A step of ufs_open after the lookup.                                    *)
LEMMA OpenFair ==
  ASSUME Orderly, FileInv, NEW t \in Task, OpenStep(t)
  PROVE  Fair(t)
<1> USE DEF FileInv, IInv, TypeOK, Position, Placed, Walking, Set, Quit, names, locals,
        handles, Label, Op, Name, Entries, DirPointer, Mine, At, One
<1>0. /\ TypeOK
      /\ \A d \in Dir : MountedOn[d] \in DirPointer
  BY RefAssumption
<1>1. CASE OpenFails(t)
  <2>1. Placed(t)'
    BY <1>1, <1>0 DEF OpenFails
  <2>2. \A n \in Files : SameFor(n) /\ Mine(t, n)' = Mine(t, n)
    BY <1>1, <1>0, FileFacts, SameForAll DEF OpenFails
  <2>3. QED
    BY <2>1, <2>2 DEF Fair, Balanced
<1>2. CASE OpenNoBuffer(t)
  BY <1>2 DEF OpenNoBuffer, Orderly
<1>3. CASE Open(t)
  <2>1. Placed(t)'
    BY <1>3, <1>0 DEF Open
  <2>2. /\ pc[t] = "open" /\ fp[t] = NoNode /\ dir[t] \in DirPointer
        /\ pc'[t] = "quit" /\ todo'[t] = <<dir[t]>> /\ fp'[t] = last[t]
    <3>1. /\ pc[t] = "open" /\ pc'[t] = "quit" /\ todo'[t] = <<dir[t]>> /\ fp'[t] = last[t]
      BY <1>3, <1>0 DEF Open
    <3>2. Placed(t)
      OBVIOUS
    <3> HIDE DEF FileInv, IInv, TypeOK, Position
    <3>3. QED
      BY <3>1, <3>2
  <2>3. \A n \in Files : n # NoNode /\ n # dir[t]
    BY <2>2, FileFacts
  <2>4. \A n \in Files : Mine(t, n)' = Mine(t, n)
    BY <2>2, <2>3
  <2>5. \A n \in Files : SameFor(n)
    BY <1>3, SameForAll DEF Open
  <2>6. QED
    BY <2>1, <2>4, <2>5 DEF Fair, Balanced
<1>4. QED
  BY <1>1, <1>2, <1>3 DEF OpenStep

(* A step of ufs_chgdir after the lookup.                                  *)
LEMMA CdFair ==
  ASSUME Orderly, FileInv, NEW t \in Task, CdStep(t)
  PROVE  Fair(t)
<1> USE DEF FileInv, IInv, TypeOK, Position, Placed, Walking, Set, Quit, names, locals,
        handles, Label, Op, Name, Entries, DirPointer, Mine, At, One
<1>0. /\ TypeOK
      /\ \A d \in Dir : MountedOn[d] \in DirPointer
  BY RefAssumption
<1>1. CASE CdFails(t)
  <2>1. Placed(t)'
    BY <1>1, <1>0 DEF CdFails, Target, Other
  <2>2. \A n \in Files : SameFor(n) /\ Mine(t, n)' = Mine(t, n)
    BY <1>1, <1>0, FileFacts, SameForAll DEF CdFails, Target, Other
  <2>3. QED
    BY <2>1, <2>2 DEF Fair, Balanced
<1>2. CASE CdMount(t)
  <2>1. Placed(t)'
    BY <1>2, <1>0 DEF CdMount, Target, Other
  <2>2. \A n \in Files : SameFor(n) /\ Mine(t, n)' = Mine(t, n)
    BY <1>2, <1>0, FileFacts, RelFor DEF CdMount, Target, Other
  <2>3. QED
    BY <2>1, <2>2 DEF Fair, Balanced
<1>3. CASE CdMounted(t)
  <2>1. Placed(t)'
    <3>1. CASE min' = [min EXCEPT ![t] = MountedOn[Target(t)]] /\ pc' = [pc EXCEPT ![t] = "cdset"] /\ UNCHANGED todo
      BY <1>3, <1>0, <3>1 DEF CdMounted, Target, Other
    <3>2. CASE Quit(t, <<Other(t)>>) /\ UNCHANGED min
      BY <1>3, <1>0, <3>2 DEF CdMounted, Target, Other
    <3>3. QED
      BY <1>3, <3>1, <3>2 DEF CdMounted
  <2>2. MountedOn[Target(t)] \in DirPointer
    BY <1>3, <1>0 DEF CdMounted
  <2>3. \A n \in Files : SameFor(n)
    BY <1>3, <2>2, <1>0, FileFacts, GetFor, SameForAll DEF CdMounted
  <2>4. \A n \in Files : Mine(t, n)' = Mine(t, n)
    BY <1>3, <1>0, FileFacts DEF CdMounted, Target, Other
  <2>5. QED
    BY <2>1, <2>3, <2>4 DEF Fair, Balanced
<1>4. CASE CdPlain(t)
  <2>1. Placed(t)'
    BY <1>4, <1>0 DEF CdPlain, Target, Other
  <2>2. \A n \in Files : SameFor(n) /\ Mine(t, n)' = Mine(t, n)
    BY <1>4, <1>0, FileFacts, SameForAll DEF CdPlain, Target, Other
  <2>3. QED
    BY <2>1, <2>2 DEF Fair, Balanced
<1>5. CASE CdSet(t)
  <2>1. Placed(t)'
    BY <1>5, <1>0 DEF CdSet, Target, Other
  <2>2. \A n \in Files : SameFor(n) /\ Mine(t, n)' = Mine(t, n)
    BY <1>5, <1>0, FileFacts, RelFor DEF CdSet, Target, Other
  <2>3. QED
    BY <2>1, <2>2 DEF Fair, Balanced
<1>6. QED
  BY <1>1, <1>2, <1>3, <1>4, <1>5 DEF CdStep

(* A step of ufs_diropen after the lookup.                                 *)
LEMMA ListFair ==
  ASSUME Orderly, FileInv, NEW t \in Task, ListStep(t)
  PROVE  Fair(t)
<1> USE DEF FileInv, IInv, TypeOK, Position, Placed, Walking, Set, Quit, names, locals,
        handles, Label, Op, Name, Entries, DirPointer, Mine, At, One
<1>0. /\ TypeOK
      /\ \A d \in Dir : MountedOn[d] \in DirPointer
  BY RefAssumption
<1>1. CASE ListMount(t)
  <2>1. Placed(t)'
    BY <1>1, <1>0 DEF ListMount, Target, Other
  <2>2. \A n \in Files : SameFor(n) /\ Mine(t, n)' = Mine(t, n)
    BY <1>1, <1>0, FileFacts, RelFor DEF ListMount, Target, Other
  <2>3. QED
    BY <2>1, <2>2 DEF Fair, Balanced
<1>2. CASE ListGet(t)
  <2>1. Placed(t)'
    <3>1. CASE min' = [min EXCEPT ![t] = MountedOn[Target(t)]] /\ pc' = [pc EXCEPT ![t] = "listuse"] /\ UNCHANGED todo
      BY <1>2, <1>0, <3>1 DEF ListGet, Target, Other
    <3>2. CASE Quit(t, <<last[t], dir[t]>>) /\ UNCHANGED min
      BY <1>2, <1>0, <3>2 DEF ListGet, Target, Other
    <3>3. QED
      BY <1>2, <3>1, <3>2 DEF ListGet
  <2>2. MountedOn[Target(t)] \in DirPointer
    BY <1>2, <1>0 DEF ListGet
  <2>3. \A n \in Files : SameFor(n)
    BY <1>2, <2>2, <1>0, FileFacts, GetFor, SameForAll DEF ListGet
  <2>4. \A n \in Files : Mine(t, n)' = Mine(t, n)
    BY <1>2, <1>0, FileFacts DEF ListGet, Target, Other
  <2>5. QED
    BY <2>1, <2>3, <2>4 DEF Fair, Balanced
<1>3. CASE ListUse(t)
  <2>1. Placed(t)'
    BY <1>3, <1>0 DEF ListUse
  <2>2. min[t] \in DirPointer
    BY <1>3, <1>0 DEF ListUse
  <2>3. \A n \in Files : SameFor(n)
    BY <1>3, <2>2, <1>0, UseFor DEF ListUse
  <2>4. \A n \in Files : Mine(t, n)' = Mine(t, n)
    BY <1>3, <1>0 DEF ListUse
  <2>5. QED
    BY <2>1, <2>3, <2>4 DEF Fair, Balanced
<1>4. CASE ListPlain(t)
  <2>1. Placed(t)'
    BY <1>4, <1>0 DEF ListPlain, Target, Other
  <2>2. \A n \in Files : SameFor(n) /\ Mine(t, n)' = Mine(t, n)
    BY <1>4, <1>0, FileFacts, SameForAll DEF ListPlain, Target, Other
  <2>3. QED
    BY <2>1, <2>2 DEF Fair, Balanced
<1>5. CASE ListFails(t)
  <2>1. Placed(t)'
    BY <1>5, <1>0 DEF ListFails, Target, Other
  <2>2. \A n \in Files : SameFor(n) /\ Mine(t, n)' = Mine(t, n)
    BY <1>5, <1>0, FileFacts, SameForAll DEF ListFails, Target, Other
  <2>3. QED
    BY <2>1, <2>2 DEF Fair, Balanced
<1>6. CASE List(t)
  <2>1. Placed(t)'
    BY <1>6, <1>0 DEF List
  <2>2. \A n \in Files : n \notin Listed(min[t])
    BY FileFacts DEF Listed
  <2>3. \A n \in Files : SameFor(n)
    BY <1>6, <2>2, FileFacts DEF List, SameFor
  <2>4. \A n \in Files : Mine(t, n)' = Mine(t, n)
    BY <1>6, <1>0, FileFacts DEF List
  <2>5. QED
    BY <2>1, <2>3, <2>4 DEF Fair, Balanced
<1>7. QED
  BY <1>1, <1>2, <1>3, <1>4, <1>5, <1>6 DEF ListStep

(* A step of ufs_rmdir or ufs_remove after the lookup.                     *)
LEMMA RemoveFair ==
  ASSUME Orderly, FileInv, NEW t \in Task, RemoveStep(t)
  PROVE  Fair(t)
<1> USE DEF FileInv, IInv, TypeOK, Position, Placed, Walking, Set, Quit, names, locals,
        handles, Label, Op, Name, Entries, DirPointer, Mine, At, One
<1>0. /\ TypeOK
      /\ \A d \in Dir : MountedOn[d] \in DirPointer
  BY RefAssumption
<1>1. CASE RmdirFails(t)
  <2>1. Placed(t)'
    BY <1>1, <1>0 DEF RmdirFails
  <2>2. \A n \in Files : SameFor(n) /\ Mine(t, n)' = Mine(t, n)
    BY <1>1, <1>0, FileFacts, SameForAll DEF RmdirFails
  <2>3. QED
    BY <2>1, <2>2 DEF Fair, Balanced
<1>2. CASE Rmdir(t)
  <2>1. Placed(t)'
    BY <1>2, <1>0 DEF Rmdir
  <2>2. \A n \in Files : SameFor(n) /\ Mine(t, n)' = Mine(t, n)
    BY <1>2, <1>0, FileFacts, SameForAll DEF Rmdir
  <2>3. QED
    BY <2>1, <2>2 DEF Fair, Balanced
<1>3. CASE RemoveFails(t)
  <2>1. Placed(t)'
    BY <1>3, <1>0 DEF RemoveFails
  <2>2. \A n \in Files : SameFor(n) /\ Mine(t, n)' = Mine(t, n)
    BY <1>3, <1>0, FileFacts, SameForAll DEF RemoveFails
  <2>3. QED
    BY <2>1, <2>2 DEF Fair, Balanced
<1>4. CASE Remove(t)
  <2>1. Placed(t)'
    <3>1. /\ pc[t] = "remove" /\ pc'[t] = "find" /\ last'[t] = NoNode
          /\ Name(t)' = Name(t)
          /\ UNCHANGED <<call, rest, walk, dir, min, todo, handles>>
      BY <1>4, <1>0 DEF Remove
    <3>2. last[t] \in Node \ Dir /\ last[t] # NoNode
      BY <1>4, RefAssumption DEF Remove
    <3>3. Name(t) \notin Dir
      BY <3>1, <3>2
    <3>4. Placed(t)
      OBVIOUS
    <3> HIDE DEF FileInv, IInv, TypeOK, Position
    <3>5. QED
      BY <3>1, <3>3, <3>4
  <2>2. \A n \in Files : (n = last[t] => DownFor(n)) /\ (n # last[t] => SameFor(n))
    BY <1>4, <1>0, RelFor DEF Remove
  <2>3. \A n \in Files : Mine(t, n)' = Mine(t, n) - One(n = last[t])
    BY <1>4, <1>0, FileFacts DEF Remove
  <2>4. ASSUME NEW n \in Files
        PROVE  Balanced(t, n)
    <3>1. CASE n = last[t]
      <4>1. Mine(t, n)' = Mine(t, n) - 1
        <5> HIDE DEF Mine
        <5>1. QED
          BY <2>3, <3>1
      <4>2. QED
        BY <2>2, <3>1, <4>1 DEF Balanced
    <3>2. CASE n # last[t]
      <4>1. Mine(t, n) \in Int
        OBVIOUS
      <4>2. Mine(t, n)' = Mine(t, n)
        <5> HIDE DEF Mine
        <5>1. QED
          BY <2>3, <3>2, <4>1
      <4>3. QED
        BY <2>2, <3>2, <4>2 DEF Balanced
    <3>3. QED
      BY <3>1, <3>2
  <2>5. QED
    BY <2>1, <2>4 DEF Fair
<1>5. CASE FindMissing(t)
  <2>1. Placed(t)'
    BY <1>5, <1>0 DEF FindMissing
  <2>2. \A n \in Files : SameFor(n) /\ Mine(t, n)' = Mine(t, n)
    BY <1>5, <1>0, FileFacts, SameForAll DEF FindMissing
  <2>3. QED
    BY <2>1, <2>2 DEF Fair, Balanced
<1>6. CASE Find(t)
  <2>1. Placed(t)'
    BY <1>6, <1>0 DEF Find
  <2>2. \A n \in Files : SameFor(n) /\ Mine(t, n)' = Mine(t, n)
    BY <1>6, <1>0, FileFacts, SameForAll DEF Find
  <2>3. QED
    BY <2>1, <2>2 DEF Fair, Balanced
<1>7. CASE GetFails(t)
  <2>1. Placed(t)'
    BY <1>7, <1>0 DEF GetFails
  <2>2. \A n \in Files : SameFor(n) /\ Mine(t, n)' = Mine(t, n)
    BY <1>7, <1>0, FileFacts, SameForAll DEF GetFails
  <2>3. QED
    BY <2>1, <2>2 DEF Fair, Balanced
<1>8. CASE GetVictim(t)
  <2>1. Placed(t)'
    BY <1>8, <1>0 DEF GetVictim
  <2>2. \A n \in Files : (n = Name(t) => UpFor(n)) /\ (n # Name(t) => SameFor(n))
    BY <1>8, <1>0, GetFor DEF GetVictim
  <2>3. \A n \in Files : Mine(t, n)' = Mine(t, n) + One(n = Name(t))
    BY <1>8, <1>0, FileFacts DEF GetVictim
  <2>4. ASSUME NEW n \in Files
        PROVE  Balanced(t, n)
    <3>1. CASE n = Name(t)
      <4>1. Mine(t, n)' = Mine(t, n) + 1
        <5> HIDE DEF Mine
        <5>1. QED
          BY <2>3, <3>1
      <4>2. QED
        BY <2>2, <3>1, <4>1 DEF Balanced
    <3>2. CASE n # Name(t)
      <4>1. Mine(t, n) \in Int
        OBVIOUS
      <4>2. Mine(t, n)' = Mine(t, n)
        <5> HIDE DEF Mine
        <5>1. QED
          BY <2>3, <3>2, <4>1
      <4>3. QED
        BY <2>2, <3>2, <4>2 DEF Balanced
    <3>3. QED
      BY <3>1, <3>2
  <2>5. QED
    BY <2>1, <2>4 DEF Fair
<1>9. CASE UnlinkFails(t)
  <2>1. Placed(t)'
    BY <1>9, <1>0 DEF UnlinkFails
  <2>2. \A n \in Files : SameFor(n) /\ Mine(t, n)' = Mine(t, n)
    BY <1>9, <1>0, FileFacts, SameForAll DEF UnlinkFails
  <2>3. QED
    BY <2>1, <2>2 DEF Fair, Balanced
<1>10. CASE Unlink(t)
  <2>1. Placed(t)'
    BY <1>10, <1>0 DEF Unlink
  <2>2. \A n \in Files : SameFor(n) /\ Mine(t, n)' = Mine(t, n)
    BY <1>10, <1>0, FileFacts, SameForAll DEF Unlink
  <2>3. QED
    BY <2>1, <2>2 DEF Fair, Balanced
<1>11. CASE DropFails(t)
  <2>1. Placed(t)'
    BY <1>11, <1>0 DEF DropFails
  <2>2. \A n \in Files : SameFor(n) /\ Mine(t, n)' = Mine(t, n)
    BY <1>11, <1>0, FileFacts, SameForAll DEF DropFails
  <2>3. QED
    BY <2>1, <2>2 DEF Fair, Balanced
<1>12. CASE Drop(t)
  <2>1. Placed(t)'
    BY <1>12, <1>0 DEF Drop
  <2>2. \A n \in Files : SameFor(n) /\ Mine(t, n)' = Mine(t, n)
    BY <1>12, <1>0, FileFacts, SameForAll DEF Drop
  <2>3. QED
    BY <2>1, <2>2 DEF Fair, Balanced
<1>13. CASE DropTarget(t)
  <2>1. Placed(t)'
    BY <1>13, <1>0 DEF DropTarget
  <2>2. \A n \in Files : (n = min[t] => UpFor(n)) /\ (n # min[t] => SameFor(n))
    BY <1>13, <1>0, GetFor DEF DropTarget
  <2>3. \A n \in Files : Mine(t, n)' = Mine(t, n) + One(n = min[t])
    BY <1>13, <1>0, FileFacts DEF DropTarget
  <2>4. ASSUME NEW n \in Files
        PROVE  Balanced(t, n)
    <3>1. CASE n = min[t]
      <4>1. Mine(t, n)' = Mine(t, n) + 1
        <5> HIDE DEF Mine
        <5>1. QED
          BY <2>3, <3>1
      <4>2. QED
        BY <2>2, <3>1, <4>1 DEF Balanced
    <3>2. CASE n # min[t]
      <4>1. Mine(t, n) \in Int
        OBVIOUS
      <4>2. Mine(t, n)' = Mine(t, n)
        <5> HIDE DEF Mine
        <5>1. QED
          BY <2>3, <3>2, <4>1
      <4>3. QED
        BY <2>2, <3>2, <4>2 DEF Balanced
    <3>3. QED
      BY <3>1, <3>2
  <2>5. QED
    BY <2>1, <2>4 DEF Fair
<1>14. QED
  BY <1>1, <1>2, <1>3, <1>4, <1>5, <1>6, <1>7, <1>8, <1>9, <1>10, <1>11, <1>12, <1>13 DEF RemoveStep

(* The release of the first of a list.                                     *)
LEMMA FourTail ==
  ASSUME NEW s, s # << >>, NEW n, Len(s) \in Nat, Len(s) > 0, Len(s) <= 4,
         Len(Tail(s)) = Len(s) - 1, Head(s) = s[1],
         \A i \in 1 .. Len(s) - 1 : Tail(s)[i] = s[i + 1]
  PROVE  Four(Tail(s), n) = Four(s, n) - One(n = Head(s))
<1>1. \A i \in 1 .. 3 : At(Tail(s), i, n) = At(s, i + 1, n)
  <2> SUFFICES ASSUME NEW i \in 1 .. 3
               PROVE  At(Tail(s), i, n) = At(s, i + 1, n)
    OBVIOUS
  <2>1. CASE i <= Len(s) - 1
    BY <2>1 DEF At, One
  <2>2. CASE ~(i <= Len(s) - 1)
    BY <2>2 DEF At, One
  <2>3. QED
    BY <2>1, <2>2
<1>2. /\ At(Tail(s), 1, n) = At(s, 2, n) /\ At(Tail(s), 2, n) = At(s, 3, n)
      /\ At(Tail(s), 3, n) = At(s, 4, n)
  BY <1>1
<1>3. At(Tail(s), 4, n) = 0
  BY DEF At, One
<1>4. At(s, 1, n) = One(n = Head(s))
  BY DEF At, One
<1>5. \A i \in 1 .. 4 : At(s, i, n) \in Int
  BY DEF At, One
<1>6. QED
  BY <1>2, <1>3, <1>4, <1>5 DEF Four

(* The beginning of a call, the closing of a handle and the exit of a call *)
LEMMA OtherFair ==
  ASSUME Orderly, FileInv, NEW t \in Task,
         (\E c \in Calls : Lookup(t, c)) \/ Close(t) \/ ListClose(t) \/ Release(t) \/ Return(t)
  PROVE  Fair(t)
<1> USE DEF FileInv, IInv, TypeOK, Position, Placed, Walking, Set, Quit, names, locals,
        handles, Label, Op, Name, Entries, DirPointer, Mine, At, One
<1>0. TypeOK
  OBVIOUS
<1>1. ASSUME NEW c \in Calls, Lookup(t, c)
      PROVE  Fair(t)
  <2>1. /\ c.op \in Op /\ c.path \in Seq(Node) /\ Root \in Dir
        /\ c # NoCall
    BY RefAssumption DEF NoCall
  <2>2. \A i \in 1 .. Len(c.path) - 1 : c.path[i] \in Dir
    BY DEF Orderly
  <2>3. /\ pc[t] = "idle" /\ pc'[t] = IF c.path = << >> THEN c.op ELSE "walk"
        /\ call'[t] = c /\ rest'[t] = c.path /\ walk'[t] = Root /\ dir'[t] = Root
        /\ last'[t] = NoNode /\ UNCHANGED <<min, todo, handles>>
        /\ (c.op = "open" => fp[t] = NoNode)
    BY <1>0, <1>1 DEF Lookup, Ready
  <2>4. Placed(t)'
    <3>1. Placed(t)
      OBVIOUS
    <3> HIDE DEF FileInv, IInv, TypeOK, Position
    <3>2. QED
      BY <2>1, <2>2, <2>3, <3>1
  <2>5. \A n \in Files : SameFor(n)
    BY <1>0, <1>1, <2>1, UseFor DEF Lookup
  <2>6. \A n \in Files : n # NoNode
    BY FileFacts
  <2>7. \A n \in Files : Mine(t, n)' = Mine(t, n)
    BY <2>1, <2>3, <2>6
  <2>8. QED
    BY <2>4, <2>5, <2>7 DEF Fair, Balanced
<1>2. CASE Close(t)
  <2>1. Placed(t)'
    BY <1>2, <1>0 DEF Close
  <2>2. \A n \in Files : (n = fp[t] => DownFor(n)) /\ (n # fp[t] => SameFor(n))
    BY <1>2, <1>0, RelFor DEF Close
  <2>3. \A n \in Files : Mine(t, n)' = Mine(t, n) - One(n = fp[t])
    BY <1>2, <1>0, FileFacts DEF Close
  <2>4. ASSUME NEW n \in Files
        PROVE  Balanced(t, n)
    <3>1. CASE n = fp[t]
      <4>1. Mine(t, n)' = Mine(t, n) - 1
        <5> HIDE DEF Mine
        <5>1. QED
          BY <2>3, <3>1
      <4>2. QED
        BY <2>2, <3>1, <4>1 DEF Balanced
    <3>2. CASE n # fp[t]
      <4>1. Mine(t, n) \in Int
        OBVIOUS
      <4>2. Mine(t, n)' = Mine(t, n)
        <5> HIDE DEF Mine
        <5>1. QED
          BY <2>3, <3>2, <4>1
      <4>3. QED
        BY <2>2, <3>2, <4>2 DEF Balanced
    <3>3. QED
      BY <3>1, <3>2
  <2>5. QED
    BY <2>1, <2>4 DEF Fair
<1>3. CASE ListClose(t)
  <2>1. Placed(t)'
    BY <1>3, <1>0 DEF ListClose
  <2>2. \A n \in Files : SameFor(n) /\ Mine(t, n)' = Mine(t, n)
    BY <1>3, <1>0, FileFacts, RelFor DEF ListClose
  <2>3. QED
    BY <2>1, <2>2 DEF Fair, Balanced
<1>4. CASE Release(t)
  <2> DEFINE s == todo[t]
  <2>1. /\ pc[t] = "quit" /\ s # << >> /\ s \in Seq(Pointer) /\ Len(s) <= 4
        /\ todo'[t] = Tail(s)
        /\ UNCHANGED <<names, pc, locals, handles>>
    BY <1>4, <1>0 DEF Release, Pointer
  <2>2. /\ Len(s) \in Nat /\ Len(s) > 0 /\ Len(Tail(s)) = Len(s) - 1 /\ Head(s) = s[1]
        /\ \A i \in 1 .. Len(s) - 1 : Tail(s)[i] = s[i + 1]
    BY <2>1
  <2>3. Placed(t)'
    <3>1. Placed(t) /\ Len(Tail(s)) <= 4
      BY <2>1, <2>2
    <3> HIDE DEF FileInv, IInv, TypeOK, Position, s
    <3>2. QED
      BY <2>1, <3>1
  <2>4. \A n \in Files : Mine(t, n)' = Mine(t, n) - One(n = Head(s))
    <3> SUFFICES ASSUME NEW n \in Files
                 PROVE  Mine(t, n)' = Mine(t, n) - One(n = Head(s))
      OBVIOUS
    <3>1. Four(Tail(s), n) = Four(s, n) - One(n = Head(s))
      BY <2>1, <2>2, FourTail
    <3>2. /\ Mine(t, n) = Four(s, n) + One(fp[t] = n)
          /\ Mine(t, n)' = Four(Tail(s), n) + One(fp[t] = n)
      BY <2>1 DEF Four
    <3>3. Four(s, n) \in Int /\ Four(Tail(s), n) \in Int /\ One(n = Head(s)) \in Int
      BY DEF Four
    <3> HIDE DEF s, Mine, One, At
    <3>4. One(fp[t] = n) \in Int
      BY DEF One
    <3>5. QED
      BY <3>1, <3>2, <3>3, <3>4
  <2>5. \A n \in Files : (n = Head(s) => DownFor(n)) /\ (n # Head(s) => SameFor(n))
    <3>1. CASE Head(s) # NoNode
      <4>1. Rel(Head(s))
        BY <1>4, <3>1 DEF Release
      <4>2. QED
        BY <4>1, <1>0, RelFor
    <3>2. CASE Head(s) = NoNode
      BY <1>4, <3>2, FileFacts, SameForAll DEF Release
    <3>3. QED
      BY <3>1, <3>2
  <2>6. ASSUME NEW n \in Files
        PROVE  Balanced(t, n)
    <3>1. CASE n = Head(s)
      <4>1. Mine(t, n)' = Mine(t, n) - 1
        <5> HIDE DEF Mine
        <5>1. QED
          BY <2>4, <3>1
      <4>2. QED
        BY <2>5, <3>1, <4>1 DEF Balanced
    <3>2. CASE n # Head(s)
      <4>1. Mine(t, n) \in Int
        OBVIOUS
      <4>2. Mine(t, n)' = Mine(t, n)
        <5> HIDE DEF Mine
        <5>1. QED
          BY <2>4, <3>2, <4>1
      <4>3. QED
        BY <2>5, <3>2, <4>2 DEF Balanced
    <3>3. QED
      BY <3>1, <3>2
  <2>7. QED
    BY <2>3, <2>6 DEF Fair
<1>5. CASE Return(t)
  <2>1. Placed(t)'
    BY <1>5, <1>0 DEF Return
  <2>2. \A n \in Files : SameFor(n)
    BY <1>5, SameForAll DEF Return
  <2>3. \A n \in Files : Mine(t, n)' = Mine(t, n)
    BY <1>5, <1>0 DEF Return
  <2>4. QED
    BY <2>1, <2>2, <2>3 DEF Fair, Balanced
<1>6. QED
  BY <1>1, <1>2, <1>3, <1>4, <1>5

-----------------------------------------------------------------------------
(* The theorems about files                                                *)

(* At the start no one has a pointer to a file, and none is in storage.    *)
LEMMA InitFileInv == Init => FileInv
<1> SUFFICES ASSUME Init PROVE FileInv
  OBVIOUS
<1>1. \A n \in Files : n \in Node /\ n \notin Dir /\ n # NoNode
  BY RefAssumption DEF Files
<1>2. cached \subseteq Dir
  BY RefAssumption DEF Init, Mounts
<1>3. \A t \in Task : Placed(t)
  BY RefAssumption DEF Init, Placed, DirPointer, Walking, Op
<1>4. ASSUME NEW n \in Files
      PROVE  Holders(n) = {}
  <2> SUFFICES ASSUME NEW h \in Task \X (1 .. 10), h[2] <= Len(References(h[1])),
                      References(h[1])[h[2]] = n
               PROVE  FALSE
    BY DEF Holders
  <2>1. h[1] \in Task /\ h[2] \in 1 .. 10
    OBVIOUS
  <2>2. Locals(h[1]) = << >>
    BY <2>1 DEF Init, Locals, Op
  <2>3. References(h[1]) = <<Root, NoNode, NoNode>>
    BY <2>1, <2>2 DEF Init, References
  <2>4. Root # n /\ NoNode # n
    BY <1>1, RefAssumption
  <2>5. h[2] \in 1 .. 3
    BY <2>1, <2>3
  <2>6. QED
    BY <2>3, <2>4, <2>5
<1>5. \A n \in Files : Counted(n)
  BY <1>1, <1>2, <1>4 DEF Counted
<1>6. QED
  BY <1>3, <1>5, InitIInv DEF FileInv

(* Every step of every task keeps the counts of files.                     *)
LEMMA NextFileInv ==
  ASSUME Orderly
  PROVE  FileInv /\ [Next]_vars => FileInv'
<1> SUFFICES ASSUME FileInv, [Next]_vars PROVE FileInv'
  OBVIOUS
<1>1. CASE UNCHANGED vars
  <2>1. UNCHANGED <<cached, use, unlinked, gone, pc, call, rest, walk, dir, last, min,
                    todo, cwd, fp, ddesc>>
    BY <1>1 DEF vars, names, locals, handles
  <2>2. IInv'
    BY NextIInv DEF FileInv
  <2>3. \A t \in Task : Placed(t)' = Placed(t)
    BY <2>1 DEF Placed, Name
  <2>4. \A t \in Task : References(t)' = References(t)
    BY <2>1 DEF References, Locals, Other
  <2>5. \A n \in Files : Counted(n)' = Counted(n)
    BY <2>1, <2>4 DEF Counted, Holders
  <2>6. QED
    BY <2>2, <2>3, <2>5 DEF FileInv
<1>2. ASSUME NEW t \in Task,
             \/ \E c \in Calls : Lookup(t, c)
             \/ LookupStep(t)
             \/ OpenStep(t) \/ Close(t)
             \/ CdStep(t)
             \/ ListStep(t) \/ ListClose(t)
             \/ RemoveStep(t)
             \/ Release(t)
             \/ Return(t)
      PROVE  FileInv'
  <2>1. Good(t)
    BY <1>2, LookupSteps, OpenSteps, CdSteps, ListSteps, RemoveSteps, OtherSteps DEF FileInv
  <2>2. Fair(t)
    BY <1>2, LookupFair, OpenFair, CdFair, ListFair, RemoveFair, OtherFair
  <2>3. QED
    BY <2>1, <2>2, FairStep
<1>3. QED
  BY <1>1, <1>2 DEF Next

(* A file is in storage if and only if someone has a pointer to it, and    *)
(* its use count is the number of these pointers, for any number of tasks  *)
(* with any calls that are Orderly: what is opened is freed by the last    *)
(* close and by no release before it, whoever removes it meanwhile.        *)
THEOREM FilesAlwaysCounted == Orderly => (Spec => []FileCounted)
<1> SUFFICES ASSUME Orderly PROVE Spec => []FileCounted
  OBVIOUS
<1>1. FileInv => FileCounted
  <2> SUFFICES ASSUME FileInv, NEW n \in Node \ Dir
               PROVE  /\ n \in cached => use[n] = Cardinality(Holders(n))
                      /\ n \in cached <=> n \in Held
    BY DEF FileCounted
  <2>1. Counted(n)
    BY DEF FileInv, Files
  <2>2. Cardinality({}) = 0
    BY FS_EmptySet
  <2>3. n \in cached => Holders(n) # {}
    BY <2>1, <2>2 DEF Counted
  <2>4. QED
    BY <2>1, <2>3 DEF Counted, Held
<1>2. FileInv /\ [Next]_vars => FileInv'
  BY NextFileInv
<1>3. QED
  BY InitFileInv, <1>1, <1>2, PTL DEF Spec

(* Without ufs_rmdir no directory loses its links.                         *)
NoRmdir == \A c \in Calls : c.op # "rmdir"

DirsLinked == unlinked \cap Dir = {}

LEMMA NextDirsLinked ==
  ASSUME NoRmdir
  PROVE  FileInv /\ DirsLinked /\ [Next]_vars => DirsLinked'
<1> SUFFICES ASSUME FileInv, DirsLinked, [Next]_vars PROVE DirsLinked'
  OBVIOUS
<1>1. ASSUME NEW t \in Task, Unlink(t)
      PROVE  DirsLinked'
  <2>1. pc[t] = "unlink" /\ unlinked' = unlinked \cup {min[t]}
    BY <1>1 DEF Unlink
  <2>2. call[t] \in Calls /\ call[t].op # "rmdir"
    BY <2>1 DEF FileInv, Placed, NoRmdir
  <2>3. min[t] \notin Dir
    BY <2>1, <2>2 DEF FileInv, Placed
  <2>4. QED
    BY <2>1, <2>3 DEF DirsLinked
<1>2. CASE UNCHANGED unlinked
  BY <1>2 DEF DirsLinked
<1>3. UNCHANGED unlinked \/ \E t \in Task : Unlink(t)
  <2>1. ASSUME NEW t \in Task,
               \/ \E c \in Calls : Lookup(t, c)
               \/ OpenStep(t) \/ Close(t) \/ ListClose(t) \/ Release(t) \/ Return(t)
        PROVE  UNCHANGED unlinked
    BY <2>1 DEF names, Lookup, OpenStep, OpenFails, OpenNoBuffer, Open, Close, ListClose,
       Release, Return
  <2>2. ASSUME NEW t \in Task, LookupStep(t)
        PROVE  UNCHANGED unlinked
    BY <2>2 DEF names, LookupStep, WalkFails, WalkOn, WalkMount, WalkMounted, SaveDir,
       NameMissing, NameFound, ChildFails, Child
  <2>3. ASSUME NEW t \in Task, CdStep(t)
        PROVE  UNCHANGED unlinked
    BY <2>3 DEF names, CdStep, CdFails, CdMount, CdMounted, CdPlain, CdSet
  <2>4. ASSUME NEW t \in Task, ListStep(t)
        PROVE  UNCHANGED unlinked
    BY <2>4 DEF names, ListStep, ListMount, ListGet, ListUse, ListPlain, ListFails, List
  <2>5. ASSUME NEW t \in Task, RemoveStep(t)
        PROVE  UNCHANGED unlinked \/ Unlink(t)
    BY <2>5 DEF names, RemoveStep, RmdirFails, Rmdir, RemoveFails, Remove, FindMissing,
       Find, GetFails, GetVictim, UnlinkFails, DropFails, Drop, DropTarget
  <2>6. CASE UNCHANGED vars
    BY <2>6 DEF vars, names
  <2>7. QED
    BY <2>1, <2>2, <2>3, <2>4, <2>5, <2>6 DEF Next
<1>4. QED
  BY <1>1, <1>2, <1>3

(* What ufs.h promises of the pointers that lookups return: a minode that  *)
(* someone still has a pointer to is in storage, file or directory, at     *)
(* every step of every task.  Directories that are removed are the         *)
(* exception, as ufs_lookup_minode releases them more often than it takes  *)
(* them and only their links keep them.                                    *)
THEOREM HeldAlwaysCached == Orderly /\ NoRmdir => (Spec => []HeldCached)
<1> SUFFICES ASSUME Orderly, NoRmdir PROVE Spec => []HeldCached
  OBVIOUS
<1>1. FileInv /\ [Next]_vars => FileInv'
  BY NextFileInv
<1>2. FileInv /\ DirsLinked /\ [Next]_vars => DirsLinked'
  BY NextDirsLinked
<1>3. Init => DirsLinked
  BY DEF Init, DirsLinked
<1>4. FileCounted /\ LinkedDirHeld /\ DirsLinked => HeldCached
  BY DEF FileCounted, LinkedDirHeld, DirsLinked, HeldCached, Held
<1>5. Spec => [](FileInv /\ DirsLinked)
  BY InitFileInv, <1>1, <1>2, <1>3, PTL DEF Spec
<1>6. QED
  BY <1>4, <1>5, FilesAlwaysCounted, LinkedDirsStay, PTL

=============================================================================
