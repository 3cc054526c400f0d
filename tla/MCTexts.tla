------------------------------ MODULE MCTexts -------------------------------
(* Two threads and what they log; two letters, which tell the order of words. *)
EXTENDS Texts

CONSTANTS t1, t2

\* One thread's texts are everything a message can trip over, in a function with
\* a return type and a semicolon behind the bracket; the other's are plain, in
\* functions with a bracket and without one.
Threads == {t1, t2}
FileNames == {<<"client", ".", "log">>, <<"client", ".", "csv">>}
Levels == {"debug", "verbose"}
Operands ==
  t1 :> {<<>>, <<"x">>, <<Quote>>, <<Field>>, <<NewLine>>, <<"x", Zero, "x">>, Null}
    @@ t2 :> {<<"x">>}
Functions ==
  t1 :> {<<"void", " ", "f", "(", Field, ")">>}
    @@ t2 :> {<<"int", " ", "g", "(", ")">>, <<"h">>}
OperandsEach == t1 :> 3 @@ t2 :> 1
StatementsEach == t1 :> 1 @@ t2 :> 2

\* The other logger: the second of two lets fewer severities pass.
ColorLevels == {"fatal", "error", "info", "verbose"}
InfoLimits == [first |-> "verbose", second |-> "info"]

Letters == {"a", "b"}

=============================================================================
