--------------------------- MODULE MCDaemonStart ----------------------------
(* The server is started from a terminal.                                  *)
EXTENDS DaemonStart

FromTerminal == 0 .. 2
=============================================================================
