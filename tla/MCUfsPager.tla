----------------------------- MODULE MCUfsPager -----------------------------
(* More blocks than pages, so that every operation meets hits, misses and  *)
(* clean and dirty pages to evict.                                         *)
EXTENDS UfsPager, TLC

Symmetry == Permutations(Block)
=============================================================================
