--------------------------- MODULE MCUfsFreeBlock ---------------------------
(* Small volumes for the free block list: the cache holds a link and one   *)
(* spare, so a few calls spill and refill it.                              *)
EXTENDS UfsFreeBlock, TLC

List(link, spare) == [nfreeblock |-> 2, freeblock |-> (0 :> link @@ 1 :> spare)]

(* One list block; block 4 belongs to a file.  Freeing it and popping one   *)
(* block more or less moves between no, one and two list blocks.           *)
MCFormat ==
  [cache |-> [nfreeblock |-> 2, freeblock |-> (0 :> 1 @@ 1 :> 3)],
   disk  |-> (1 :> List(0, 2) @@ 2 :> Zeroed @@ 3 :> Zeroed @@ 4 :> Zeroed),
   chain |-> <<1>>]

(* One list block, block 3 in use.                                         *)
MCFormatSmall ==
  [cache |-> [nfreeblock |-> 1, freeblock |-> (0 :> 1 @@ 1 :> 0)],
   disk  |-> (1 :> List(0, 2) @@ 2 :> Zeroed @@ 3 :> Zeroed),
   chain |-> <<1>>]

(* User data that looks like a full list of allocated blocks.              *)
MCPayload == {List(1, 2)}

Symmetry == Permutations(Thread)

=============================================================================
