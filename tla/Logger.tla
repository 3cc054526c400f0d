------------------------------- MODULE Logger -------------------------------
(***************************************************************************)
(* Threads log: through a logger with one file (LogRecord), as in the      *)
(* programs, or through one with several appenders (LogAppenders).  The    *)
(* two loggers share nothing, so a behaviour is one of either while the    *)
(* other rests where it begins.                                            *)
(***************************************************************************)
EXTENDS LogRecord

CONSTANTS ChainLevels,    \* of LogAppenders: its bounds on severities and
          ChainRecords,   \* records,
          ChainLimits,    \* the limits of its two loggers,
          m_isatty        \* and whether its console is a terminal

ASSUME LoggerAssumption == "free" \notin Thread /\ m_isatty \in BOOLEAN

VARIABLES given, todo, pc, m_mutex, color, inFile, console, begun

chain == <<given, todo, pc, m_mutex, color, inFile, console, begun>>
Chain == INSTANCE LogAppenders WITH
  record <- given, file <- inFile,
  Severities <- ChainLevels, MaxRecords <- ChainRecords,
  maxSeverity <- ChainLimits

LoggerInit == Init /\ Chain!Init

\* A step of either logger while the other rests.
LoggerNext ==
  \/ Chain!Init /\ Next /\ UNCHANGED chain
  \/ Init /\ Chain!Next /\ UNCHANGED vars

LoggerSpec == LoggerInit /\ [][LoggerNext]_<<vars, chain>>

-----------------------------------------------------------------------------
(* The properties of LogAppenders.                                         *)

\* A record is on the terminal in the colour of its own severity.
OwnColor == Chain!OwnColor

\* The console has, of the file's records, those the second logger lets pass.
SameRecords == Chain!SameRecords

=============================================================================
