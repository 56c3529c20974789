---------------------------- MODULE BlockDevice -----------------------------
(***************************************************************************)
(* What the pager promises the file system above it: a device with a fast  *)
(* memory in front of a stable store.  A read returns the last write; a    *)
(* write reaches the store at once or later; only a crash, or an error     *)
(* while the memory is given up, falls back to the store.                  *)
(***************************************************************************)
CONSTANTS
  Block,      \* block numbers
  Value,      \* block contents
  NoReply,    \* the last call returned no data
  Lossy       \* memory may be lost

VARIABLES
  mem,        \* what a read returns
  stable,     \* what survives a crash
  reply       \* the data the last step returned to a reader

vars == <<mem, stable, reply>>

Init ==
  /\ stable \in [Block -> Value]
  /\ mem = stable
  /\ reply = NoReply

Read(b) ==
  /\ reply' = [block |-> b, value |-> mem[b]]
  /\ UNCHANGED <<mem, stable>>

Write(b, v) ==
  /\ mem' = [mem EXCEPT ![b] = v]
  /\ stable' = stable \/ stable' = [stable EXCEPT ![b] = v]
  /\ reply' = NoReply

WriteBack(b) ==
  /\ stable' = [stable EXCEPT ![b] = mem[b]]
  /\ reply' = NoReply
  /\ UNCHANGED mem

(* A call that returns no data: an error, or a flush.                      *)
Silent ==
  /\ reply' = NoReply
  /\ UNCHANGED <<mem, stable>>

Lose ==
  /\ Lossy
  /\ mem' = stable
  /\ reply' = NoReply
  /\ UNCHANGED stable

Next ==
  \/ \E b \in Block : Read(b) \/ WriteBack(b)
  \/ \E b \in Block, v \in Value : Write(b, v)
  \/ Silent
  \/ Lose

Spec == Init /\ [][Next]_vars

=============================================================================
