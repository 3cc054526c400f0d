------------------------------ MODULE RecordLog -----------------------------
(***************************************************************************)
(* What a log with a limited size promises, across crashes of the program  *)
(* that writes it: what can be read back is the newest part of what was    *)
(* written, in order and without a hole.  Once a file could not be moved   *)
(* out of the way, there may be holes; the order remains.                  *)
(***************************************************************************)
EXTENDS Naturals, Sequences

CONSTANT Record

VARIABLES stored,  \* every record ever written, in order
          kept,    \* those that can be read back
          sound    \* whether every file could be moved

vars == <<stored, kept, sound>>

Init == stored = <<>> /\ kept = <<>> /\ sound = TRUE

Write(r) ==
  /\ stored' = Append(stored, r)
  /\ kept' = Append(kept, r)
  /\ UNCHANGED sound

\* The records behind the i-th and up to the j-th make room: the oldest ones.
Discard(i, j) ==
  /\ sound => i = 0
  /\ kept' = SubSeq(kept, 1, i) \o SubSeq(kept, j + 1, Len(kept))
  /\ UNCHANGED <<stored, sound>>

Stay ==
  /\ sound' = FALSE
  /\ UNCHANGED <<stored, kept>>

Next ==
  \/ \E r \in Record : Write(r)
  \/ \E i \in 0 .. Len(kept), j \in 1 .. Len(kept) : i < j /\ Discard(i, j)
  \/ Stay

Spec == Init /\ [][Next]_vars

=============================================================================
