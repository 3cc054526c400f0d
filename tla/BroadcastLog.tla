---------------------------- MODULE BroadcastLog ----------------------------
(***************************************************************************)
(* What the chat promises to the people in it, whatever fails between      *)
(* them: there is one conversation.  A line may be missing from it, but    *)
(* everybody's lines are in it in the order they were typed and at most    *)
(* once, and everybody hears it in its order, perhaps with gaps, never     *)
(* twice and never backwards.                                              *)
(***************************************************************************)
EXTENDS Naturals, Sequences

CONSTANT Client

VARIABLES said,    \* per client: how many lines it has typed
          log,     \* the conversation: its lines, in order
          heard    \* per client: the places of the log it was shown, in order

vars == <<said, log, heard>>

\* The later of two lines of one client has the greater number.
Before(a, b) == a.from = b.from => a.n < b.n

-----------------------------------------------------------------------------

Init ==
  /\ said = [c \in Client |-> 0]
  /\ log = <<>>
  /\ heard = [c \in Client |-> <<>>]

Say(c) ==
  /\ said' = [said EXCEPT ![c] = @ + 1]
  /\ UNCHANGED <<log, heard>>

\* A line joins the conversation behind every earlier one of its author.
Publish(c, n) ==
  /\ n \in 1 .. said[c]
  /\ \A i \in DOMAIN log : Before(log[i], [from |-> c, n |-> n])
  /\ log' = Append(log, [from |-> c, n |-> n])
  /\ UNCHANGED <<said, heard>>

\* A client is shown a line of the log beyond all those it was shown before.
Hear(c, i) ==
  /\ i \in DOMAIN log
  /\ \A k \in DOMAIN heard[c] : heard[c][k] < i
  /\ heard' = [heard EXCEPT ![c] = Append(@, i)]
  /\ UNCHANGED <<said, log>>

Next ==
  \/ \E c \in Client : Say(c)
  \/ \E c \in Client : \E n \in 1 .. said[c] : Publish(c, n)
  \/ \E c \in Client : \E i \in DOMAIN log : Hear(c, i)

Spec == Init /\ [][Next]_vars

=============================================================================
