------------------------------ MODULE FifoRelay ------------------------------
(***************************************************************************)
(* What the chat server promises, whatever its threads do: the texts it    *)
(* accepts are relayed one at a time, in the order in which they were      *)
(* accepted, none twice and none skipped, until the relay closes.  A text  *)
(* accepted but not relayed when the relay closes is abandoned.            *)
(***************************************************************************)
EXTENDS Naturals, Sequences

CONSTANT Message            \* the texts that can be relayed

VARIABLES accepted,         \* every text accepted so far, in order
          relayed,          \* every text relayed so far, in order
          closed            \* no text is relayed any more

vars == <<accepted, relayed, closed>>

-----------------------------------------------------------------------------

Init ==
  /\ accepted = <<>>
  /\ relayed = <<>>
  /\ closed = FALSE

\* A closing relay may still accept a text that it will never relay.
Accept(m) ==
  /\ accepted' = Append(accepted, m)
  /\ UNCHANGED <<relayed, closed>>

Relay ==
  /\ ~closed
  /\ Len(relayed) < Len(accepted)
  /\ relayed' = Append(relayed, accepted[Len(relayed) + 1])
  /\ UNCHANGED <<accepted, closed>>

Close ==
  /\ ~closed
  /\ closed' = TRUE
  /\ UNCHANGED <<accepted, relayed>>

Next ==
  \/ \E m \in Message : Accept(m)
  \/ Relay
  \/ Close

SafeSpec == Init /\ [][Next]_vars

\* An open relay does not sit on an accepted text for ever.
Progress == WF_vars(Relay)
Spec == SafeSpec /\ Progress

=============================================================================
