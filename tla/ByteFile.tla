------------------------------ MODULE ByteFile ------------------------------
(***************************************************************************)
(* What the calls on a file handle promise: a file is a sequence of bytes, *)
(* a handle has a position in it.  A read returns the bytes at the         *)
(* position, a write replaces or appends them, a seek moves the position.  *)
(* A handle that is only written sets the end of the file where it seeks.  *)
(* An operation that fails half way has done the first part of its work.   *)
(* Bytes that a file gets between its end and a position behind it are not *)
(* specified, and a write that stops early may leave such bytes too.      *)
(* After a call outside the rules anything may happen, as long *)
(* as nobody has gone outside them everything below holds.                 *)
(***************************************************************************)
EXTENDS Naturals, Sequences

CONSTANTS File, Handle

VARIABLES
  content,    \* the bytes of each file
  desc,       \* of each handle: open, file, pos, and whether it only writes
  got,        \* the bytes that the last call returned
  put,        \* the bytes that the last call was given
  outside     \* what was done outside the rules

vars == <<content, desc, got, put, outside>>

Init == outside = {} /\ \A h \in Handle : ~desc[h].open

Others(h) == \A k \in Handle \ {h} : desc'[k] = desc[k]

OthersKeep(f) == \A g \in File \ {f} : content'[g] = content[g]

(* The file is cut or extended to n bytes. *)
Resized(f, n) ==
  /\ Len(content'[f]) = n
  /\ \A i \in 1 .. Len(content[f]) : i <= n => content'[f][i] = content[f][i]

Open(h) ==
  /\ ~desc[h].open /\ desc'[h].open /\ Others(h)
  /\ OthersKeep(desc'[h].file)
  /\ \/ content' = content /\ desc'[h].pos \in {0, Len(content[desc'[h].file])}
     \/ Resized(desc'[h].file, 0) /\ desc'[h].pos = 0

Close(h) ==
  /\ desc[h].open /\ ~desc'[h].open /\ Others(h)
  /\ content' = content

Same(h) == desc[h].open /\ desc'[h] = [desc[h] EXCEPT !.pos = desc'[h].pos] /\ Others(h)

Read(h) ==
  LET old == desc[h].pos IN
  /\ Same(h)
  /\ content' = content
  /\ desc'[h].pos = old + Len(got')
  /\ got' = SubSeq(content[desc[h].file], old + 1, old + Len(got'))

Write(h) ==
  LET f    == desc[h].file
      old  == desc[h].pos
      done == desc'[h].pos - old
  IN /\ Same(h) /\ OthersKeep(f)
     /\ done \in 0 .. Len(put')
     /\ SubSeq(content'[f], old + 1, old + done) = SubSeq(put', 1, done)
     /\ Len(content'[f]) >= old + done \/ done = 0
     /\ Len(content'[f]) >= Len(content[f])
     /\ Len(content'[f]) <= old + Len(put') \/ Len(content'[f]) = Len(content[f])
     /\ \A i \in 1 .. Len(content[f]) :
           i \notin old + 1 .. old + done => content'[f][i] = content[f][i]

Seek(h) ==
  LET f == desc[h].file IN
  /\ Same(h) /\ OthersKeep(f)
  /\ \/ content' = content
     \/ desc[h].writeOnly /\ Resized(f, desc'[h].pos)

Next ==
  \/ outside' # {}
  \/ outside' = {} /\ \E h \in Handle : Open(h) \/ Close(h) \/ Read(h) \/ Write(h) \/ Seek(h)

Spec == Init /\ [][Next]_vars

=============================================================================
