----------------------------- MODULE MCChatClient -----------------------------
(* ChatClient with a few lines, a few frames and a small high-water mark.    *)
EXTENDS ChatClient

=============================================================================
