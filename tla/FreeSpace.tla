----------------------------- MODULE FreeSpace ------------------------------
(***************************************************************************)
(* What the free block allocator promises its callers, without lists: a    *)
(* block is reserved out of the available ones, then handed over or        *)
(* dropped, and only a block that was handed over comes back.              *)
(***************************************************************************)
CONSTANT Block

VARIABLES
  avail,      \* blocks that can be allocated
  pending,    \* blocks reserved for a call that has not returned
  used        \* blocks that belong to a caller

vars == <<avail, pending, used>>

Init ==
  /\ avail \subseteq Block
  /\ used = Block \ avail
  /\ pending = {}

Reserve(b) ==
  /\ b \in avail
  /\ avail' = avail \ {b}
  /\ pending' = pending \cup {b}
  /\ UNCHANGED used

HandOver(b) ==
  /\ b \in pending
  /\ pending' = pending \ {b}
  /\ used' = used \cup {b}
  /\ UNCHANGED avail

Return(b) ==
  /\ b \in used
  /\ used' = used \ {b}
  /\ avail' = avail \cup {b}
  /\ UNCHANGED pending

(* An I/O error drops a reserved block or one that was being returned.     *)
Drop(b) ==
  /\ b \in pending \cup used
  /\ pending' = pending \ {b}
  /\ used' = used \ {b}
  /\ UNCHANGED avail

Next == \E b \in Block : Reserve(b) \/ HandOver(b) \/ Return(b) \/ Drop(b)

Spec == Init /\ [][Next]_vars

=============================================================================
