---------------------------- MODULE MCUfsFileMap ----------------------------
(* One direct block and two numbers in a block: seven blocks are reached   *)
(* with two levels of index blocks, the eighth with three.                 *)
EXTENDS UfsFileMap
=============================================================================
