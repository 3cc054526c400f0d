-------------------------------- MODULE Bytes --------------------------------
(***************************************************************************)
(* The bytes that a C++ program treats apart when it reads or writes text. *)
(***************************************************************************)

\* White space; Tab stands for all of it but the space and the line break.
Space == " "
Tab == "\t"
NewLine == "\n"

\* The byte that ends a C string.
Zero == "0"

=============================================================================
