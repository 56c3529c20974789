----------------------------- MODULE MCUfsNames -----------------------------
(* Two disks, the second mounted on the directory "m" of the first.  The   *)
(* second belongs to user u1; everybody may write to the root of the first.*)
(* A directory of three entries takes a second block.                      *)
EXTENDS UfsNames, TLC

CONSTANTS s1, s2, u1, nobody

All  == Right
Open == [owner |-> All, group |-> All, world |-> All]
Own  == [owner |-> All, group |-> {"r", "x"}, world |-> {"r", "x"}]

Directory(n, up, mode, nlink, rest) ==
  [kind |-> "dir", nlink |-> nlink,
   ent |-> <<Entry(".", n), Entry("..", up)>> \o rest,
   owner |-> u1, group |-> "g", mode |-> mode]

(* /a is a directory with a file b.                                        *)
MCFormatted ==
  (<<1, 2>> :> Directory(2, 2, Open, 4, <<Entry("m", 3), Entry("a", 4)>>)) @@
  (<<1, 3>> :> Directory(3, 2, Own, 2, << >>)) @@
  (<<1, 4>> :> Directory(4, 2, Own, 2, <<Entry("b", 5)>>)) @@
  (<<1, 5>> :> [kind |-> "file", nlink |-> 1, ent |-> << >>,
                owner |-> u1, group |-> "g", mode |-> Open]) @@
  (<<2, 2>> :> Directory(2, 2, Own, 2, << >>))

MCLastInode == <<7, 3>>
MCMounts   == <<1, 3>> :> 2
MCUserOf   == (s1 :> u1) @@ (s2 :> nobody)
MCGroupsOf == (u1 :> {"g"}) @@ (nobody :> {})
MCGroupOf  == u1 :> "g"
MCPerms    == {Own}

Path(abs, names) == [abs |-> abs, names |-> names]

MCPaths ==
  {Path(TRUE, <<"a">>), Path(TRUE, <<"a", "b">>), Path(TRUE, <<"m", "a">>),
   Path(TRUE, <<"a", "b", "a">>), Path(FALSE, <<"b">>), Path(FALSE, <<"..">>)}

=============================================================================
