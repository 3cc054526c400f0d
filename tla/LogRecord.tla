----------------------------- MODULE LogRecord ------------------------------
(***************************************************************************)
(* A log statement, from the macro to the line in the file.  The macro     *)
(* asks the logger whether it wants the severity; if so it makes a Record, *)
(* the operands of << are appended to its message, and the record is       *)
(* handed to the appender, which formats and writes it.  Any number of     *)
(* threads do this at once.                                                *)
(*                                                                         *)
(* Texts are sequences of bytes; a number, a name or a time is one byte.   *)
(***************************************************************************)
EXTENDS Bytes, Naturals, Sequences, SequencesExt

CONSTANTS Thread,
          FileName,        \* names that may be given to plog::init
          Severities,      \* bound: severities that are logged
          Operand,         \* bound, per thread: operands of <<
          Signature,       \* bound, per thread: signatures of the functions that log
          MaxOperands,     \* bound, per thread: operands of a statement
          MaxStatements,   \* bound, per thread: statements
          MaxTime,         \* bound: ticks of the clock
          kMaxMessageSize

ASSUME RecordAssumption ==
  /\ MaxOperands \in [Thread -> Nat] /\ MaxStatements \in [Thread -> Nat]
  /\ MaxTime \in Nat
  /\ kMaxMessageSize \in Nat \ {0}
  /\ \A t \in Thread : \A x \in Operand[t] : x \in Seq(Range(x))

Quote == "\""
Field == ";"

VARIABLES
  now,           \* the wall clock; nobody sets it back
  maxSeverity,   \* the limit of the logger, or "unset": there is no logger
  formatter,     \* "none", "txt" or "csv"
  record,        \* per thread: the record of its statement, or NoRecord
  file,          \* the lines of the log file
  \* History variables.
  statements,    \* per thread: statements begun
  written        \* the records behind the lines of the file

vars == <<now, maxSeverity, formatter, record, file, statements, written>>

-----------------------------------------------------------------------------
(* Severities, function names, messages.                                   *)

Severity ==
  [none |-> 0, fatal |-> 1, error |-> 2, warning |-> 3, info |-> 4, debug |-> 5,
   verbose |-> 6]
severityToString ==
  [none |-> "NONE", fatal |-> "FATAL", error |-> "ERROR", warning |-> "WARN",
   info |-> "INFO", debug |-> "DEBUG", verbose |-> "VERB"]

\* The logger is a singleton, and there is none before plog::init.
getInstance == maxSeverity # "unset"
checkSeverity(s) == Severity[s] <= Severity[maxSeverity]

\* Where byte b first is in s, or behind the end.
Find(s, b) ==
  IF Contains(s, b) THEN SelectInSeq(s, LAMBDA c : c = b) ELSE Len(s) + 1

\* The word in front of the first bracket of a signature.
processFuncName(sig) ==
  LET head == SubSeq(sig, 1, Find(sig, "(") - 1)
      n == SelectLastInSeq(head, LAMBDA c : c = " ")
  IN IF Contains(sig, "(") THEN SubSeq(head, n + 1, Len(head)) ELSE sig

\* What << appends: a null pointer is spelled out, a text ends at a zero byte.
Null == <<"null">>
Streamed(x) ==
  IF x = Null THEN <<"(", "null", ")">> ELSE SubSeq(x, 1, Find(x, Zero) - 1)

\* What is logged has a severity of plog's, and neither a thread's number nor a
\* function's name has a byte that means something to a CSV file.
IsPlain(s) == s \in Seq(Range(s) \ {Quote, Field})
ASSUME StatementAssumption ==
  /\ Severities \subseteq DOMAIN Severity
  /\ \A t \in Thread : IsPlain(<<t>>) /\ \A sig \in Signature[t] : IsPlain(processFuncName(sig))

-----------------------------------------------------------------------------
(* Records.                                                                *)

ftime == now

\* What a record takes down before anything is streamed into it; n and operands
\* are the model's.
NewRecord(t, s, sig, n) ==
  [severity |-> s, tid |-> t, time |-> ftime, func |-> sig, message |-> <<>>,
   n |-> n, operands |-> 0]
NoRecord == [severity |-> "none", tid |-> "none", time |-> 0, func |-> <<>>,
             message |-> <<>>, n |-> 0, operands |-> 0]

getFunc(r) == processFuncName(r.func)

-----------------------------------------------------------------------------
(* Formatters.                                                             *)

\* The extension of the file name decides.
findExtensionDot(name) == SelectLastInSeq(name, LAMBDA c : c = ".")
isCsv(name) ==
  LET dot == findExtensionDot(name)
  IN dot # 0 /\ SubSeq(name, dot, Len(name)) = <<".", "csv">>

TxtFormat(r) ==
  <<"date", " ", "time", " ", severityToString[r.severity], " ", "[", r.tid, "]", " ", "[">>
    \o getFunc(r) \o <<"@", "line", "]", " ">> \o r.message \o <<NewLine>>

\* A message is cut, and put between quotes with every quote in it doubled: the
\* code splits it at its quotes and puts each part between quotes.
CutMessage(m) ==
  IF Len(m) > kMaxMessageSize
  THEN SubSeq(m, 1, kMaxMessageSize) \o <<".", ".", ".">> ELSE m
Quoted_OncePerMessage(m) == <<Quote>> \o m \o <<Quote>>
Escaped(c) == IF c = Quote THEN <<Quote, Quote>> ELSE <<c>>
Quoted(m) ==
  LET escaped[n \in 0 .. Len(m)] ==
        IF n = 0 THEN <<>> ELSE escaped[n - 1] \o Escaped(m[n])
  IN <<Quote>> \o escaped[Len(m)] \o <<Quote>>
CsvFormat(r) ==
  <<"date", Field, "time", Field, severityToString[r.severity], Field, r.tid, Field, "0", Field>>
    \o getFunc(r) \o <<"@", "line", Field>> \o Quoted(CutMessage(r.message))
    \o <<NewLine>>

Format(r) == IF formatter = "csv" THEN CsvFormat(r) ELSE TxtFormat(r)

-----------------------------------------------------------------------------

Init ==
  /\ now = 0
  /\ maxSeverity = "unset"
  /\ formatter = "none"
  /\ record = [t \in Thread |-> NoRecord]
  /\ file = <<>>
  /\ statements = [t \in Thread |-> 0]
  /\ written = <<>>

Tick ==
  /\ now < MaxTime
  /\ now' = now + 1
  /\ UNCHANGED <<maxSeverity, formatter, record, file, statements, written>>

\* plog::init(debug, name): logger and appender are made once, and the
\* appender is given to the logger.
init(severity, f) == maxSeverity' = severity /\ formatter' = f
InitLogger ==
  /\ ~getInstance
  /\ \E name \in FileName : init("debug", IF isCsv(name) THEN "csv" ELSE "txt")
  /\ UNCHANGED <<now, record, file, statements, written>>

\* PLOG(s): nothing happens, not even the operands are evaluated, unless the
\* logger wants the severity; then a Record takes down time and thread.
PLOG_SharedRecord(t, s, sig) ==
  /\ record[t] = NoRecord
  /\ statements[t] < MaxStatements[t]
  /\ statements' = [statements EXCEPT ![t] = @ + 1]
  /\ record' = IF getInstance /\ checkSeverity(s)
               THEN [u \in Thread |-> NewRecord(t, s, sig, statements'[t])]
               ELSE record
  /\ UNCHANGED <<now, maxSeverity, formatter, file, written>>
PLOG(t, s, sig) ==
  /\ record[t] = NoRecord
  /\ statements[t] < MaxStatements[t]
  /\ statements' = [statements EXCEPT ![t] = @ + 1]
  /\ record' = IF getInstance /\ checkSeverity(s)
               THEN [record EXCEPT ![t] = NewRecord(t, s, sig, statements'[t])]
               ELSE record
  /\ UNCHANGED <<now, maxSeverity, formatter, file, written>>

\* record << x
Stream(t, x) ==
  /\ record[t] # NoRecord
  /\ record[t].operands < MaxOperands[t]
  /\ record' = [record EXCEPT ![t].message = @ \o Streamed(x),
                              ![t].operands = @ + 1]
  /\ UNCHANGED <<now, maxSeverity, formatter, file, statements, written>>

\* logger += record: the appender formats and writes it under its mutex.
Write(t) ==
  /\ record[t] # NoRecord
  /\ file' = Append(file, Format(record[t]))
  /\ written' = Append(written, record[t])
  /\ record' = [record EXCEPT ![t] = NoRecord]
  /\ UNCHANGED <<now, maxSeverity, formatter, statements>>

Next ==
  \/ InitLogger \/ Tick
  \/ \E t \in Thread :
       \/ \E s \in Severities, sig \in Signature[t] : PLOG(t, s, sig)
       \/ \E x \in Operand[t] : Stream(t, x)
       \/ Write(t)

Spec == Init /\ [][Next]_vars

-----------------------------------------------------------------------------
(* Properties.                                                             *)

\* A reader of CSV files: fields end at a semicolon outside quotes; inside
\* quotes two quotes stand for one.
Reading(fields, field, state) == [fields |-> fields, field |-> field, state |-> state]
ReadByte(r, c) ==
  IF r.state = "quoted"
  THEN IF c = Quote THEN Reading(r.fields, r.field, "quote")
       ELSE Reading(r.fields, Append(r.field, c), "quoted")
  ELSE IF c = Field THEN Reading(Append(r.fields, r.field), <<>>, "plain")
  ELSE IF c = Quote
  THEN Reading(r.fields, IF r.state = "quote" THEN Append(r.field, c) ELSE r.field, "quoted")
  ELSE Reading(r.fields, Append(r.field, c), "plain")
ReadCsv(line) ==
  LET read[n \in 0 .. Len(line)] ==
        IF n = 0 THEN Reading(<<>>, <<>>, "plain") ELSE ReadByte(read[n - 1], line[n])
  IN read[Len(line) - 1]

\* Whatever a message holds, quotes, semicolons and line breaks included, and
\* whatever function it comes from, its line in a CSV file reads back as seven
\* fields: the last is the message as far as it is kept.
ReadsBack ==
  formatter = "csv" =>
    \A i \in DOMAIN file :
      LET r == ReadCsv(file[i])
      IN /\ r.state # "quoted"
         /\ Len(r.fields) = 6
         /\ r.fields[6] = getFunc(written[i]) \o <<"@", "line">>
         /\ r.field = CutMessage(written[i].message)

\* Threads that log at the same time do not mix their records, and none is
\* written twice: the file has those of each thread in the order of its
\* statements and of their times, all before the one under way, and no verbose
\* one.  Lines of two threads may be out of the order of their times, for a
\* record is timed before its thread waits for the appender's mutex.
ThreadOrder ==
  /\ \A i, j \in DOMAIN written : i < j /\ written[i].tid = written[j].tid =>
       written[i].n < written[j].n /\ written[i].time <= written[j].time
  /\ \A i \in DOMAIN written :
       LET r == written[i]
       IN /\ r.severity # "verbose"
          /\ record[r.tid] # NoRecord => r.n < record[r.tid].n

=============================================================================
