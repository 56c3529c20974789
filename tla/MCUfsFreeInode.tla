--------------------------- MODULE MCUfsFreeInode ---------------------------
(* An inode list of three blocks of two inodes, of which the format uses   *)
(* the first two, and a cache of two numbers: four creates need a second   *)
(* and a third scan.                                                       *)
EXTENDS UfsFreeInode, TLC

Symmetry == Permutations(Thread)
=============================================================================
