----------------------------- MODULE ClientText -----------------------------
(***************************************************************************)
(* The texts a user of the client enters: names and lines (ChatMessage),   *)
(* and addresses (InputCheck).  The two dialogues share nothing, so a      *)
(* behaviour goes through one of them while the other rests where it       *)
(* begins.                                                                 *)
(***************************************************************************)
EXTENDS ChatMessage

CONSTANTS MaxDigits, MaxDots
VARIABLES prompt, octet, dots, before, ipVerdict, g_quit, m_ipAddr

address == <<prompt, octet, dots, before, ipVerdict, g_quit, m_ipAddr>>
Address == INSTANCE InputCheck

TextInit == MessageInit /\ Address!Init

\* A step of the conversation while no address has been asked for, or a step of
\* the dialogue about the address while no name has been entered.
TextNext ==
  \/ Address!Init /\ MessageNext /\ UNCHANGED address
  \/ MessageInit /\ Address!Next /\ UNCHANGED messageVars

TextSpec == TextInit /\ [][TextNext]_<<messageVars, address>>

-----------------------------------------------------------------------------
(* The property of InputCheck.                                             *)

\* checkIp accepts the dotted quads and the empty answer, nothing else.
AcceptsExactlyAddresses == Address!AcceptsExactlyAddresses

=============================================================================
