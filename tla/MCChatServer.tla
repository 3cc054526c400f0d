----------------------------- MODULE MCChatServer -----------------------------
(* ChatServer with a few frames of a few texts.                              *)
EXTENDS ChatServer

=============================================================================
