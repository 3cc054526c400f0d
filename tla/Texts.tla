-------------------------------- MODULE Texts --------------------------------
(***************************************************************************)
(* What becomes of texts: of a log statement on its way to a file or a     *)
(* console (Logger), and of what a user of the client enters (ClientText). *)
(* The log and the dialogues share nothing, so a behaviour is one of       *)
(* either while the other rests where it begins.                           *)
(***************************************************************************)
EXTENDS Logger, ClientText

log == <<vars, chain>>
entered == <<messageVars, address>>

TextsInit == LoggerInit /\ TextInit

\* A step of the log while no dialogue has begun, or of a dialogue while
\* nothing has been logged.
TextsNext ==
  \/ TextInit /\ LoggerNext /\ UNCHANGED entered
  \/ LoggerInit /\ TextNext /\ UNCHANGED log

TextsSpec == TextsInit /\ [][TextsNext]_<<log, entered>>

=============================================================================
