---------------------------- MODULE MCUfsFileIO -----------------------------
(* Two bytes in a block: two blocks end a file without index blocks, the   *)
(* third and fourth are reached by an index block.  One file ends within a *)
(* block, the other at the end of one.                                     *)
EXTENDS UfsFileIO

CONSTANTS f1, f2

MCFiles == {f1, f2}
MCOldSizes == {f1 :> 3 @@ f2 :> 4}
MCModes == {<<"r">>, <<"r", "+">>, <<"w", "b">>, <<"a">>, <<"+", "b">>}
MCReadSizes == {<<3, 1>>}
MCWriteSizes == {<<3, 1>>, <<2, 2>>}
MCOffsets == {-1, 3}
=============================================================================
