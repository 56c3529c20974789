---------------------------- MODULE MCUfsSystem -----------------------------
(* Three disks.  The first has the directories /a and /b, the second a     *)
(* directory c; fstab mounts the second on /a.                             *)
EXTENDS UfsSystem, TLC

CONSTANTS top1, a, b, top2, sub, top3

Symmetry == Permutations(Session)

MCDir      == {top1, a, b, top2, sub, top3}
MCDiskOf   == (top1 :> 0) @@ (a :> 0) @@ (b :> 0) @@ (top2 :> 1) @@ (sub :> 1) @@ (top3 :> 2)
MCUp       == (top1 :> top1) @@ (a :> top1) @@ (b :> top1) @@ (top2 :> top2) @@ (sub :> top2) @@ (top3 :> top3)
MCNameOf   == (top1 :> "") @@ (a :> "a") @@ (b :> "b") @@ (top2 :> "") @@ (sub :> "c") @@ (top3 :> "")
MCPaths    == {<< >>, <<"a">>, <<"b">>, <<"a", "c">>, <<"a", ".">>}
MCFstab    == [d \in {0, 1, 2} |->
                 IF d = 0 THEN <<[disk |-> 1, path |-> <<"a">>], [disk |-> 0, path |-> <<"b">>]>>
                 ELSE << >>]

(* All disks; all with one pager only; the second disk as the root.        *)
MCAllocated ==
  {[disks |-> <<0, 1, 2>>, pagers |-> <<0, 1, 2>>], [disks |-> <<0, 1, 2>>, pagers |-> <<0>>],
   [disks |-> <<1, 2>>, pagers |-> <<1, 2>>]}

=============================================================================
