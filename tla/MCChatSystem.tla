---------------------------- MODULE MCChatSystem ----------------------------
(* One client types two lines, which fill every socket on the way, and      *)
(* another types one.                                                       *)
EXTENDS ChatSystem, TLC

CONSTANTS c1, c2
TwoClients == {c1, c2}
Lines == c1 :> 2 @@ c2 :> 1

=============================================================================
