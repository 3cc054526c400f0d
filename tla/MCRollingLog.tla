--------------------------- MODULE MCRollingLog -----------------------------
(* All constants are given in the configurations.                          *)
EXTENDS RollingLog

=============================================================================
