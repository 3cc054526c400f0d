----------------------------- MODULE InputCheck -----------------------------
(***************************************************************************)
(* The client asks for the server's address until checkIp accepts the      *)
(* answer or a signal has come.  An address is typed digit by digit: the   *)
(* regular expression of checkIp is one pattern, ipRange, four times, so   *)
(* of the octets already finished the model keeps what they are, not what  *)
(* they look like.                                                         *)
(***************************************************************************)
EXTENDS Integers, Sequences

CONSTANTS MaxDigits,  \* bound: digits typed in a row
          MaxDots     \* bound: dots typed in an answer

Digit == 0 .. 9

\* What an octet is to checkIp and to a reader.
Octet == [matched : BOOLEAN, decimal : BOOLEAN]

VARIABLES
  prompt,    \* "ip" or "done"
  octet,     \* the digits since the last dot
  dots,      \* dots typed
  before,    \* what the octets before the last dot are, taken together
  ipVerdict, \* of checkIp on the last answer, "none" before it
  g_quit,
  m_ipAddr   \* "none", "localhost" or "typed"

line == <<octet, dots, before>>
vars == <<prompt, line, ipVerdict, g_quit, m_ipAddr>>

-----------------------------------------------------------------------------
(* One octet.                                                              *)

\* "(?:[0-1]?[0-9]?[0-9]|2[0-4][0-9]|25[0-5])"
ipRange_ThirdDigitFree(o) ==
  \/ Len(o) \in 1 .. 2
  \/ Len(o) = 3 /\ o[1] \in 0 .. 2
ipRange(o) ==
  \/ Len(o) \in 1 .. 2
  \/ Len(o) = 3 /\ o[1] \in 0 .. 1
  \/ Len(o) = 3 /\ o[1] = 2 /\ o[2] \in 0 .. 4
  \/ Len(o) = 3 /\ o[1] = 2 /\ o[2] = 5 /\ o[3] \in 0 .. 5

Value(o) ==
  LET number[n \in 0 .. Len(o)] == IF n = 0 THEN 0 ELSE 10 * number[n - 1] + o[n]
  IN number[Len(o)]
Reading(o) == [matched |-> ipRange(o),
               decimal |-> Len(o) \in 1 .. 3 /\ Value(o) <= 255]
Both(a, b) == [k \in DOMAIN a |-> a[k] /\ b[k]]
All == [matched |-> TRUE, decimal |-> TRUE]
Answer == Both(before, Reading(octet))
EmptyLine == octet = <<>> /\ dots = 0

-----------------------------------------------------------------------------

Init ==
  /\ prompt = "ip"
  /\ octet = <<>> /\ dots = 0 /\ before = All
  /\ ipVerdict = "none"
  /\ g_quit = FALSE
  /\ m_ipAddr = "none"

TypeDigit(d) ==
  /\ prompt = "ip" /\ ipVerdict = "none"
  /\ Len(octet) < MaxDigits
  /\ octet' = Append(octet, d)
  /\ UNCHANGED <<prompt, dots, before, ipVerdict, g_quit, m_ipAddr>>

TypeDot ==
  /\ prompt = "ip" /\ ipVerdict = "none"
  /\ dots < MaxDots
  /\ dots' = dots + 1
  /\ before' = Answer
  /\ octet' = <<>>
  /\ UNCHANGED <<prompt, ipVerdict, g_quit, m_ipAddr>>

\* checkIp.
Enter ==
  /\ prompt = "ip" /\ ipVerdict = "none"
  /\ ipVerdict' = IF EmptyLine \/ (dots = 3 /\ Answer.matched) THEN "valid" ELSE "invalid"
  /\ m_ipAddr' = IF EmptyLine THEN "localhost" ELSE "typed"
  /\ UNCHANGED <<prompt, line, g_quit>>

\* init asks again, or goes on if the answer is valid or the flag is set.
AskAgain ==
  /\ prompt = "ip" /\ ipVerdict = "invalid" /\ ~g_quit
  /\ octet' = <<>> /\ dots' = 0 /\ before' = All
  /\ ipVerdict' = "none"
  /\ UNCHANGED <<prompt, g_quit, m_ipAddr>>
GoOn ==
  /\ prompt = "ip" /\ (ipVerdict = "valid" \/ (ipVerdict # "none" /\ g_quit))
  /\ prompt' = "done"
  /\ UNCHANGED <<line, ipVerdict, g_quit, m_ipAddr>>

Signal ==
  /\ ~g_quit
  /\ g_quit' = TRUE
  /\ UNCHANGED <<prompt, line, ipVerdict, m_ipAddr>>

Next ==
  \/ \E d \in Digit : TypeDigit(d)
  \/ TypeDot \/ Enter \/ AskAgain \/ GoOn \/ Signal

Spec == Init /\ [][Next]_vars

-----------------------------------------------------------------------------
(* Properties.                                                             *)

\* The pattern, which never computes a number, accepts an answer exactly if it
\* is four numbers from 0 to 255 of at most three digits; and an empty one.
AcceptsExactlyAddresses ==
  ipVerdict # "none" =>
    (ipVerdict = "valid" <=> EmptyLine \/ (dots = 3 /\ Answer.decimal))

=============================================================================
