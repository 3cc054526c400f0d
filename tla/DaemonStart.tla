---------------------------- MODULE DaemonStart -----------------------------
(***************************************************************************)
(* main() of the server, from the first log record to the end of the       *)
(* process, and what becomes of its descriptors.  `server -d` forks; the   *)
(* child detaches itself and closes descriptors 0, 1 and 2.  A descriptor  *)
(* is a number: the kernel gives out the lowest free one, plog's File      *)
(* keeps the number of the log file, and std::cout writes to number 1.     *)
(*                                                                         *)
(* The threads inside startServer() are ChatServer's; here it prints,      *)
(* opens sockets, and returns or throws.                                   *)
(***************************************************************************)
EXTENDS Integers, FiniteSets

CONSTANTS MaxFd,   \* bound: descriptors a process has are 0 .. MaxFd
          Given    \* the standard descriptors that are open at the start

ASSUME StartAssumption == MaxFd \in Nat /\ MaxFd > 2 /\ Given \subseteq 0 .. 2

Process == {"parent", "child"}
Fd == 0 .. MaxFd
Argument == {"none", "-i", "-d", "other"}

VARIABLES
  arg,        \* argv[1]
  pc,         \* per process: where it is; "absent" before the fork
  table,      \* per process and descriptor: what is open there, or "closed"
  cwd,        \* per process: "start" or "root"
  session,    \* processes that lead a session of their own
  logger,     \* whether plog::init has made the logger
  m_firstWrite, \* per process: whether the log file is still to be opened
  m_file,     \* per process: descriptor of the log file, -1 if there is none
  buffered,   \* processes with console output not yet written
  \* History variables.
  stored,     \* per process: where its log records went
  shown       \* per process: where its console output went

plog == <<m_firstWrite, m_file>>
vars == <<arg, pc, table, cwd, session, logger, plog, buffered, stored, shown>>

Free(p) == {f \in Fd : table[p][f] = "closed"}
Lowest(p) == CHOOSE f \in Free(p) : \A g \in Free(p) : f <= g

Goto(p, l) == pc' = [pc EXCEPT ![p] = l]

Init ==
  /\ arg \in Argument
  /\ pc = [p \in Process |-> IF p = "parent" THEN "init" ELSE "absent"]
  /\ table = [p \in Process |->
                [f \in Fd |-> IF f \in Given THEN "console" ELSE "closed"]]
  /\ cwd = [p \in Process |-> "start"]
  /\ session = {}
  /\ logger = FALSE
  /\ m_firstWrite = [p \in Process |-> TRUE]
  /\ m_file = [p \in Process |-> -1]
  /\ buffered = {}
  /\ stored = [p \in Process |-> {}]
  /\ shown = [p \in Process |-> {}]

-----------------------------------------------------------------------------
(* plog, as main() uses it.                                                *)

\* A severity passes if it is no more verbose than the limit of the logger.
SeverityOf ==
  [none |-> 0, fatal |-> 1, error |-> 2, warning |-> 3, info |-> 4, debug |-> 5,
   verbose |-> 6]
checkSeverity(s) == SeverityOf[s] <= SeverityOf["debug"]

\* The logger is a singleton: log statements find it once plog::init made it.
init == logger' = TRUE
getInstance == logger

\* The kernel gives a file that is opened the lowest free number, or none.
File_open(p, file) ==
  \/ /\ Free(p) # {}
     /\ m_file' = [m_file EXCEPT ![p] = Lowest(p)]
     /\ table' = [table EXCEPT ![p][Lowest(p)] = file]
  \/ UNCHANGED <<m_file, table>>

\* What is written goes where that number leads by now; written to -1, it is lost.
File_write(p) ==
  stored' = [stored EXCEPT ![p] =
    @ \cup {IF m_file'[p] = -1 THEN "nowhere" ELSE table'[p][m_file'[p]]}]

\* RollingFileAppender::write: the first record opens sever.log in the current
\* directory, once and for all; if that fails every record is lost.
LogIn == [start |-> "sever.log", root |-> "/sever.log"]
openLogFile(p) == File_open(p, LogIn[cwd[p]])
write_OpensAgain(p) ==
  /\ openLogFile(p)
  /\ m_firstWrite' = [m_firstWrite EXCEPT ![p] = FALSE]
  /\ File_write(p)
write(p) ==
  /\ IF m_firstWrite[p] THEN openLogFile(p) ELSE UNCHANGED <<m_file, table>>
  /\ m_firstWrite' = [m_firstWrite EXCEPT ![p] = FALSE]
  /\ File_write(p)

\* A log statement of severity s.
PLOG(p, s) ==
  IF getInstance /\ checkSeverity(s) THEN write(p)
  ELSE UNCHANGED <<plog, table, stored>>

\* print(): the words go to std::cout, for g_isDaemon is never set, and each
\* to the log; the end of the line goes to std::cout in any case.
print(p) == PLOG(p, "info") /\ buffered' = buffered \cup {p}

\* What std::cout holds reaches descriptor 1 when the buffer is full, at the
\* end of a line on a terminal, or at exit.
Written(p) ==
  shown' = [shown EXCEPT ![p] = @ \cup ({table[p][1]} \ {"closed"})]
Flush(p) ==
  /\ p \in buffered
  /\ pc[p] # "ended"
  /\ Written(p)
  /\ buffered' = buffered \ {p}
  /\ UNCHANGED <<arg, pc, table, cwd, session, logger, plog, stored>>

-----------------------------------------------------------------------------
(* main().                                                                 *)

Banner_AfterDetaching(p) ==
  /\ pc[p] = "init"
  /\ init
  /\ Goto(p, "args")
  /\ UNCHANGED <<arg, cwd, session, buffered, plog, table, stored, shown>>
Banner(p) ==
  /\ pc[p] = "init"
  /\ init
  /\ write(p)
  /\ Goto(p, "args")
  /\ UNCHANGED <<arg, cwd, session, buffered, shown>>

Usage(p) ==
  /\ pc[p] = "args"
  /\ arg \notin {"-i", "-d"}
  /\ buffered' = buffered \cup {p}
  /\ Goto(p, "exit")
  /\ UNCHANGED <<arg, table, cwd, session, logger, plog, stored, shown>>

Interactive(p) ==
  /\ pc[p] = "args"
  /\ arg = "-i"
  /\ PLOG(p, "info")
  /\ Goto(p, "serve")
  /\ UNCHANGED <<arg, cwd, session, logger, buffered, shown>>

Daemon(p) ==
  /\ pc[p] = "args"
  /\ arg = "-d"
  /\ PLOG(p, "verbose")
  /\ Goto(p, "fork")
  /\ UNCHANGED <<arg, cwd, session, logger, buffered, shown>>

\* The child starts with copies of the parent's descriptors and memory.
Fork_ParentStays(p) ==
  /\ pc[p] = "fork"
  /\ pc' = [pc EXCEPT !["parent"] = "serve", !["child"] = "setsid"]
  /\ table' = [table EXCEPT !["child"] = table["parent"]]
  /\ m_file' = [m_file EXCEPT !["child"] = m_file["parent"]]
  /\ m_firstWrite' = [m_firstWrite EXCEPT !["child"] = m_firstWrite["parent"]]
  /\ UNCHANGED <<arg, cwd, session, logger, buffered, stored, shown>>
Fork(p) ==
  /\ pc[p] = "fork"
  /\ pc' = [pc EXCEPT !["parent"] = "exit", !["child"] = "setsid"]
  /\ table' = [table EXCEPT !["child"] = table["parent"]]
  /\ m_file' = [m_file EXCEPT !["child"] = m_file["parent"]]
  /\ m_firstWrite' = [m_firstWrite EXCEPT !["child"] = m_firstWrite["parent"]]
  /\ UNCHANGED <<arg, cwd, session, logger, buffered, stored, shown>>

\* fork, setsid or chdir fails: it is logged and the process exits.
Fails(p) ==
  /\ pc[p] \in {"fork", "setsid", "chdir"}
  /\ PLOG(p, "fatal")
  /\ Goto(p, "exit")
  /\ UNCHANGED <<arg, cwd, session, logger, buffered, shown>>

Setsid(p) ==
  /\ pc[p] = "setsid"
  /\ session' = session \cup {p}
  /\ Goto(p, "chdir")
  /\ UNCHANGED <<arg, table, cwd, logger, plog, buffered, stored, shown>>

Chdir(p) ==
  /\ pc[p] = "chdir"
  /\ cwd' = [cwd EXCEPT ![p] = "root"]
  /\ Goto(p, "close")
  /\ UNCHANGED <<arg, table, session, logger, plog, buffered, stored, shown>>

CloseStandard_KeepsOutput(p) ==
  /\ pc[p] = "close"
  /\ table' = [table EXCEPT ![p] = [f \in Fd |-> IF f \in {0, 2} THEN "closed" ELSE @[f]]]
  /\ Goto(p, "serve")
  /\ UNCHANGED <<arg, cwd, session, logger, plog, buffered, stored, shown>>
CloseStandard(p) ==
  /\ pc[p] = "close"
  /\ table' = [table EXCEPT ![p] = [f \in Fd |-> IF f <= 2 THEN "closed" ELSE @[f]]]
  /\ Goto(p, "serve")
  /\ UNCHANGED <<arg, cwd, session, logger, plog, buffered, stored, shown>>

-----------------------------------------------------------------------------
(* startServer().                                                          *)

\* It prints whenever it likes,
Report(p) ==
  /\ pc[p] = "serve"
  /\ print(p)
  /\ UNCHANGED <<arg, pc, cwd, session, logger, shown>>

\* and opens a descriptor for every socket, thread and connection of ZeroMQ.
OpenSocket(p) ==
  /\ pc[p] = "serve"
  /\ Free(p) # {}
  /\ table' = [table EXCEPT ![p][Lowest(p)] = "socket"]
  /\ UNCHANGED <<arg, pc, cwd, session, logger, plog, buffered, stored, shown>>

\* The destructor of the server writes to std::cout.  ZeroMQ closes what it
\* opened.  An exception is printed.
Without(p, what) == [f \in Fd |-> IF table[p][f] = what THEN "closed" ELSE table[p][f]]
Return(p) ==
  /\ pc[p] = "serve"
  /\ buffered' = buffered \cup {p}
  /\ table' = [table EXCEPT ![p] = Without(p, "socket")]
  /\ Goto(p, "exit")
  /\ UNCHANGED <<arg, cwd, session, logger, plog, stored, shown>>
Catch(p) ==
  /\ pc[p] = "serve"
  /\ table' = [table EXCEPT ![p] = Without(p, "socket")]
  /\ buffered' = buffered \cup {p}
  /\ Goto(p, "caught")
  /\ UNCHANGED <<arg, cwd, session, logger, plog, stored, shown>>
BadExit(p) ==
  /\ pc[p] = "caught"
  /\ print(p)
  /\ Goto(p, "exit")
  /\ UNCHANGED <<arg, cwd, session, logger, shown>>

\* The end of main() or exit(): static objects are destroyed, stdout is flushed.
Exit(p) ==
  /\ pc[p] = "exit"
  /\ IF p \in buffered THEN Written(p) ELSE UNCHANGED shown
  /\ buffered' = buffered \ {p}
  /\ table' = [table EXCEPT ![p] = [f \in Fd |-> "closed"]]
  /\ Goto(p, "ended")
  /\ UNCHANGED <<arg, cwd, session, logger, plog, stored>>

Next ==
  \E p \in Process :
    \/ Banner(p) \/ Usage(p) \/ Interactive(p) \/ Daemon(p) \/ Fork(p)
    \/ Fails(p) \/ Setsid(p) \/ Chdir(p) \/ CloseStandard(p)
    \/ Report(p) \/ OpenSocket(p) \/ Return(p) \/ Catch(p) \/ BadExit(p)
    \/ Exit(p) \/ Flush(p)

Spec == Init /\ [][Next]_vars

-----------------------------------------------------------------------------
(* Properties.                                                             *)

Thing == {"closed", "console", "socket"} \cup {LogIn[d] : d \in DOMAIN LogIn}

\* Every variable has its type, and a process opens its log at most once.
TypeOK ==
  /\ arg \in Argument
  /\ pc \in [Process -> {"absent", "init", "args", "fork", "setsid", "chdir",
                         "close", "serve", "caught", "exit", "ended"}]
  /\ table \in [Process -> [Fd -> Thing]]
  /\ cwd \in [Process -> {"start", "root"}]
  /\ session \subseteq Process /\ buffered \subseteq Process
  /\ logger \in BOOLEAN
  /\ m_file \in [Process -> Fd \cup {-1}] /\ m_firstWrite \in [Process -> BOOLEAN]
  /\ stored \in [Process -> SUBSET (Thing \cup {"nowhere"})] /\ shown \in [Process -> SUBSET Thing]
  /\ \A p \in Process :
       Cardinality({f \in Fd : table[p][f] \in {LogIn[d] : d \in DOMAIN LogIn}}) <= 1

\* "stores them into the log": what the first record found decides for both
\* processes.  If it opened the log, every record of either of them is written to
\* that file, in the directory the server was started in, though the process
\* that writes may have been forked, may have moved to another directory and has
\* closed descriptors; if it could not, every record is lost, and none strays
\* into another file, the console or a socket.
RecordsReachLog ==
  \A p \in Process :
    stored[p] \subseteq {IF m_file["parent"] = -1 THEN "nowhere" ELSE LogIn["start"]}

\* A daemon that serves has let go of everything of its starter's except the
\* log, and it serves alone; the starter has not stayed to serve as well.
ServesDetached ==
  \A p \in Process :
    pc[p] = "serve" /\ arg = "-d" =>
      /\ pc["parent"] \in {"exit", "ended"}
      /\ p \in session /\ cwd[p] = "root"
      /\ \A f \in Fd : table[p][f] # "console"

\* "if app is not a daemon prints them to console": as a daemon it should write
\* nothing to std::cout.  But nothing sets g_isDaemon, so print() does, and the
\* descriptor that gets it may be a socket's by then.
DaemonPrintsNothing == shown["child"] = {}

\* What a daemon writes to std::cout all the same reaches neither the terminal it
\* has left nor its own log, though its number 1 is given out again while it
\* serves.  Of sockets that get it this says nothing.
PrintsSpareTerminalAndLog ==
  shown["child"] \cap {"console", LogIn["start"], LogIn["root"]} = {}

=============================================================================
