------------------------------ MODULE NameTree ------------------------------
(* What the directories of a file system promise: a set of links, each a   *)
(* name in a directory for a node.  A call adds one link, takes one away,  *)
(* or moves one; it does not touch another.  A name is used once in a      *)
(* directory, a directory has one name, and only an empty directory goes.  *)
(* Nothing is promised once an operation has been used in one of the ways  *)
(* that outside collects.                                                  *)
EXTENDS Naturals

CONSTANTS
  Node,       \* files and directories of all disks
  Name,       \* what they can be called
  Tops        \* the directories that need no name: the roots of the disks

VARIABLES
  links,      \* triples of directory, name and node
  dirs,       \* the nodes that are directories
  asked,      \* directories and names where calls want to make a node
  outside     \* what has happened that the promise excludes

Named(n)    == \E l \in links : l[3] = n
Empty(n)    == \A l \in links : l[1] # n
Attached(d) == d \in dirs /\ (d \in Tops \/ Named(d))

(* n and the directories it is in, up to the top: the least set that has n *)
(* and, with a node, the directory that has a link to it.                  *)
Above(n) ==
  LET Upward(C) == n \in C /\ \A l \in links : l[3] \in C => l[1] \in C
  IN  {m \in Node : \A C \in SUBSET Node : Upward(C) => m \in C}

TreeInit ==
  /\ links \subseteq Node \X Name \X Node
  /\ dirs \subseteq Node /\ Tops \subseteq dirs
  /\ outside = {}

(* A second name for a file, or a new node where one is wanted: the name   *)
(* was not in use.                                                         *)
Bind(new) ==
  /\ Attached(new[1])
  /\ \A l \in links : <<l[1], l[2]>> # <<new[1], new[2]>>
  /\ new[3] \notin dirs
  /\ Named(new[3]) \/ <<new[1], new[2]>> \in asked
  /\ dirs' \in {dirs, dirs \cup (IF Named(new[3]) THEN {} ELSE {new[3]})}

Unbind(old) == Empty(old[3]) /\ UNCHANGED dirs

(* A node gets another name; one that had this name loses it.              *)
Move(old, new, others) ==
  /\ old[3] = new[3]
  /\ Attached(new[1])
  /\ old[3] \in dirs => old[3] \notin Above(new[1])
  /\ \A l \in others : l[1] = new[1] /\ l[2] = new[2] /\ Empty(l[3])
  /\ UNCHANGED dirs

(* A node that could not be given its name.                                *)
Orphan == \E n \in Node : ~Named(n) /\ dirs' = dirs \cup {n}

TreeNext ==
  LET gone  == links \ links'
      fresh == links' \ links
  IN \/ /\ outside' = outside
        /\ \/ links' = links /\ dirs' = dirs
           \/ gone = {} /\ fresh = {} /\ Orphan
           \/ gone = {} /\ \E new \in fresh : fresh = {new} /\ Bind(new)
           \/ fresh = {} /\ \E old \in gone : gone = {old} /\ Unbind(old)
           \/ \E old \in gone, new \in fresh : fresh = {new} /\ Move(old, new, gone \ {old})
     \/ outside \subseteq outside' /\ outside' # {}

TreeSpec == TreeInit /\ [][TreeNext]_<<links, dirs, asked, outside>>

=============================================================================
