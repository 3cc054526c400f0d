---------------------------- MODULE LogAppenders ----------------------------
(***************************************************************************)
(* A plog logger with several appenders.  A log statement hands its record *)
(* to them one after the other, in its own thread; each has a mutex of its *)
(* own.  Here they are a file and a second logger, which lets fewer        *)
(* severities pass, with a coloured console behind it.                     *)
(*                                                                         *)
(* The console appender formats, then locks, sets the colour, writes and   *)
(* resets the colour; the file appender is one step (RollingLog has all of *)
(* them).                                                                  *)
(***************************************************************************)
EXTENDS Naturals, Sequences, SequencesExt

CONSTANTS Thread,
          Severities,   \* bound: severities that are logged
          MaxRecords,   \* bound: records of a thread
          maxSeverity,  \* per logger, "first" and "second": its limit
          m_isatty      \* whether the console is a terminal

Severity ==
  [none |-> 0, fatal |-> 1, error |-> 2, warning |-> 3, info |-> 4, debug |-> 5,
   verbose |-> 6]

\* m_appenders of the two loggers.
m_appenders == [first |-> <<"file", "second">>, second |-> <<"console">>]

VARIABLES
  record,    \* per thread: the record of its statement, or NoRecord
  todo,      \* per thread: appenders that are still to get it, in order
  pc,        \* per thread: where it is in the console's write()
  m_mutex,   \* of the console: the thread that holds it, or "free"
  color,     \* of the terminal
  file,      \* records in the file
  console,   \* records on the console, with their colours
  begun      \* per thread: records begun

vars == <<record, todo, pc, m_mutex, color, file, console, begun>>

NoRecord == [by |-> "none", n |-> 0, severity |-> "none"]
checkSeverity(logger, s) == Severity[s] <= Severity[maxSeverity[logger]]

\* What the terminal is told to write in for a severity.
Color(s) ==
  CASE s = "fatal" -> "white on red"
    [] s = "error" -> "red"
    [] s = "warning" -> "yellow"
    [] s \in {"debug", "verbose"} -> "cyan"
    [] OTHER -> "plain"

Init ==
  /\ record = [t \in Thread |-> NoRecord]
  /\ todo = [t \in Thread |-> <<>>]
  /\ pc = [t \in Thread |-> "idle"]
  /\ m_mutex = "free"
  /\ color = "plain"
  /\ file = <<>>
  /\ console = <<>>
  /\ begun = [t \in Thread |-> 0]

-----------------------------------------------------------------------------
(* Loggers.                                                                *)

\* A statement that the first logger lets pass: logger += record.  One with a
\* condition (PLOG_IF) that is false is no statement.
Log(t, s) ==
  /\ record[t] = NoRecord
  /\ begun[t] < MaxRecords
  /\ checkSeverity("first", s)
  /\ begun' = [begun EXCEPT ![t] = @ + 1]
  /\ record' = [record EXCEPT ![t] = [by |-> t, n |-> begun'[t], severity |-> s]]
  /\ todo' = [todo EXCEPT ![t] = m_appenders["first"]]
  /\ UNCHANGED <<pc, m_mutex, color, file, console>>

Turn(t, appender) == todo[t] # <<>> /\ Head(todo[t]) = appender /\ pc[t] = "idle"

WriteFile(t) ==
  /\ Turn(t, "file")
  /\ file' = Append(file, record[t])
  /\ todo' = [todo EXCEPT ![t] = Tail(@)]
  /\ UNCHANGED <<record, pc, m_mutex, color, console, begun>>

\* A logger is an appender too; as one it looks at the severity itself.
WriteSecond_NoCheck(t) ==
  /\ Turn(t, "second")
  /\ todo' = [todo EXCEPT ![t] = m_appenders["second"] \o Tail(@)]
  /\ UNCHANGED <<record, pc, m_mutex, color, file, console, begun>>
WriteSecond(t) ==
  /\ Turn(t, "second")
  /\ todo' = [todo EXCEPT ![t] =
       IF checkSeverity("second", record[t].severity)
       THEN m_appenders["second"] \o Tail(@) ELSE Tail(@)]
  /\ UNCHANGED <<record, pc, m_mutex, color, file, console, begun>>

\* All appenders have it: the statement ends.
Finish(t) ==
  /\ record[t] # NoRecord
  /\ todo[t] = <<>>
  /\ record' = [record EXCEPT ![t] = NoRecord]
  /\ UNCHANGED <<todo, pc, m_mutex, color, file, console, begun>>

-----------------------------------------------------------------------------
(* ColorConsoleAppender::write.                                            *)

Acquire(t) == m_mutex = "free" /\ m_mutex' = t
Release == m_mutex' = "free"

setColor_NoLock(t) ==
  /\ Turn(t, "console")
  /\ m_mutex' = t
  /\ color' = IF m_isatty /\ Color(record[t].severity) # "plain"
              THEN Color(record[t].severity) ELSE color
  /\ pc' = [pc EXCEPT ![t] = "writestr"]
  /\ UNCHANGED <<record, todo, file, console, begun>>
setColor(t) ==
  /\ Turn(t, "console")
  /\ Acquire(t)
  /\ color' = IF m_isatty /\ Color(record[t].severity) # "plain"
              THEN Color(record[t].severity) ELSE color
  /\ pc' = [pc EXCEPT ![t] = "writestr"]
  /\ UNCHANGED <<record, todo, file, console, begun>>

writestr(t) ==
  /\ pc[t] = "writestr"
  /\ console' = Append(console, [record |-> record[t], color |-> color])
  /\ pc' = [pc EXCEPT ![t] = "resetColor"]
  /\ UNCHANGED <<record, todo, m_mutex, color, file, begun>>

resetColor(t) ==
  /\ pc[t] = "resetColor"
  /\ color' = IF m_isatty THEN "plain" ELSE color
  /\ Release
  /\ todo' = [todo EXCEPT ![t] = Tail(@)]
  /\ pc' = [pc EXCEPT ![t] = "idle"]
  /\ UNCHANGED <<record, file, console, begun>>

Next ==
  \E t \in Thread :
    \/ \E s \in Severities : Log(t, s)
    \/ WriteFile(t) \/ WriteSecond(t) \/ Finish(t)
    \/ setColor(t) \/ writestr(t) \/ resetColor(t)

Spec == Init /\ [][Next]_vars

-----------------------------------------------------------------------------
(* Properties.                                                             *)

\* Whoever else is writing, a record is on a terminal in the colour of its own
\* severity, and the terminal is left plain; a console that is no terminal has
\* no colours.
OwnColor ==
  /\ \A i \in DOMAIN console :
       console[i].color =
         IF m_isatty THEN Color(console[i].record.severity) ELSE "plain"
  /\ (\A t \in Thread : pc[t] = "idle") => color = "plain"

\* The console shows, of what is in the file, just what the second logger lets
\* pass, each record once; one may still be missing, while its statement is
\* under way.  The orders of file and console may differ, but not among the
\* records of one thread.
OnConsole == [i \in DOMAIN console |-> console[i].record]
InOrder(s) == \A i, j \in DOMAIN s : i < j /\ s[i].by = s[j].by => s[i].n < s[j].n
SameRecords ==
  LET due == {r \in Range(file) : checkSeverity("second", r.severity)}
  IN /\ InOrder(file) /\ InOrder(OnConsole)
     /\ Range(OnConsole) \subseteq due
     /\ \A r \in due \ Range(OnConsole) : r = record[r.by]

=============================================================================
