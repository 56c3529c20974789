---------------------------- MODULE MCUfsInodeRef ---------------------------
(* A file in a directory, and a disk with a file mounted on another.       *)
EXTENDS UfsInodeRef, TLC

CONSTANTS root, home, file, mnt, disk2, data, empty

MCNode == {root, home, file, mnt, disk2, data, empty}
MCDir  == {root, home, mnt, disk2, empty}

MCParent ==
  [n \in MCNode |->
     CASE n \in {root, disk2}       -> NoNode
       [] n \in {home, mnt, empty}  -> root
       [] n = file                  -> home
       [] n = data                  -> disk2]

MCMountedOn ==
  [d \in MCDir |-> IF d = root THEN root ELSE IF d = mnt THEN disk2 ELSE NoNode]

Walk(op, path) == [op |-> op, path |-> path]

(* No directory is removed and no file is listed.                          *)
OrderlyCalls ==
  {Walk("open", <<home, file>>), Walk("remove", <<home, file>>),
   Walk("cd", <<home>>)}

(* Calls that get to every exit of the code.                             *)
AllCalls ==
  {Walk("open", <<home, file>>), Walk("open", <<home>>),
   Walk("open", <<file, data>>),
   Walk("cd", << >>), Walk("cd", <<mnt>>), Walk("cd", <<home, file>>),
   Walk("list", <<mnt>>), Walk("list", <<empty>>),
   Walk("rmdir", <<empty>>), Walk("rmdir", <<home>>), Walk("rmdir", << >>),
   Walk("remove", <<home, file>>), Walk("remove", <<home>>)}

Symmetry == Permutations(Task)

=============================================================================
