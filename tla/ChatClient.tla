----------------------------- MODULE ChatClient -----------------------------
(***************************************************************************)
(* CZmqChatClient as main() of Client/src/main.cpp runs it: the main       *)
(* thread asks for name and address, starts the receiving thread, reads    *)
(* lines and sends them, and destroys the object when sending ends.        *)
(*                                                                         *)
(*   user --> cin --> main thread --> PUSH socket's pipe --> server        *)
(*   user <-- cout <-- receiving thread <-- SUB socket   <-- server        *)
(*                                                                         *)
(* The chat lines are numbered as they are typed and 0 is the empty line;  *)
(* a name or an address is known by what its check says of it.  m_mtx only *)
(* guards reads of strings nobody writes any more, so it is not modelled.  *)
(***************************************************************************)
EXTENDS Integers, Sequences, FiniteSets, SequencesExt

CONSTANTS MaxLines,   \* bound: non-empty chat lines typed in a behaviour
          MaxFrames,  \* bound: frames that reach the SUB socket
          SndHwm      \* ZMQ_SNDHWM of the PUSH socket

ASSUME ClientAssumption ==
  /\ MaxLines \in Nat
  /\ MaxFrames \in Nat
  /\ SndHwm \in Nat \ {0}

VARIABLES
  g_quit,           \* m_externalQuitFlag: set by the signal handler
  m_localQuitFlag,  \* set by the thread that fails to connect
  m_flIsRunning,    \* set by start()
  m_name,           \* "empty", "valid" or "long"
  m_ipAddr,         \* "empty", "valid" or "invalid"
  cin,              \* "good", or "failed" from the end of file on
  mainPc,           \* where the main thread is
  recvPc,           \* where the receiving thread is ("none": not created)
  inputStr,         \* sendMessage's line
  pipe,             \* lines waiting in the PUSH socket
  sub,              \* number of frames waiting in the SUB socket
  eintr,            \* threads whose blocking call a signal has interrupted
  typed,            \* non-empty lines read so far, up to MaxLines
  frames,           \* frames that reached the SUB socket, up to MaxFrames
  \* History variables, read by no guard.
  wire,             \* lines that left the process, in order
  dropped,          \* lines for which send() returned false
  failed,           \* lines reported by "send: fail"
  sentAtQuit        \* lines sent when g_quit was set

flags == <<g_quit, m_localQuitFlag, m_flIsRunning>>
input == <<cin, typed>>
params == <<m_name, m_ipAddr>>
incoming == <<sub, frames>>
outgoing == <<pipe, wire, dropped, failed, sentAtQuit>>
vars == <<flags, input, params, incoming, outgoing, mainPc, recvPc, inputStr,
          eintr>>

Threads == {"main", "recv"}
MainPcs == {"name", "nameCheck", "ip", "ipCheck", "spawn", "open", "loop",
            "getline", "send", "close", "stop", "end", "aborted"}
RecvPcs == {"none", "open", "loop", "recv", "done", "aborted"}

Sent == wire \o pipe
-----------------------------------------------------------------------------

Init ==
  /\ g_quit = FALSE
  /\ m_localQuitFlag = FALSE
  /\ m_flIsRunning = FALSE
  /\ m_name = "empty"
  /\ m_ipAddr = "empty"
  /\ cin = "good"
  /\ mainPc = "name"
  /\ recvPc = "none"
  /\ inputStr = 0
  /\ pipe = <<>>
  /\ sub = 0
  /\ eintr = {}
  /\ typed = 0
  /\ frames = 0
  /\ wire = <<>>
  /\ dropped = {}
  /\ failed = {}
  /\ sentAtQuit = 0

\* std::terminate ends the process: an exception left the receiving thread.
Terminate ==
  /\ mainPc' = "aborted"
  /\ recvPc' = "aborted"

-----------------------------------------------------------------------------
(* std::getline on std::cin, which reads through stdio: a read the user    *)
(* answers, and a read that yields nothing.                                *)

\* A line arrives.  The last one may lack its newline, and the empty one that
\* finds the end of the input is the end of file.
Answered ==
  /\ cin = "good"
  /\ cin' \in {"good", "failed"}
  /\ eintr' = eintr \ {"main"}

\* An interrupted read counts as the end of file and empties the string; on a
\* stream that has failed before, getline returns at once and leaves it alone.
Interrupted == cin = "good" /\ "main" \in eintr
Unanswered ==
  /\ Interrupted \/ cin = "failed"
  /\ cin' = "failed"
  /\ eintr' = eintr \ {"main"}

-----------------------------------------------------------------------------
(* Main thread: init().                                                    *)

TypeName ==
  /\ mainPc = "name"
  /\ Answered
  /\ m_name' \in {"empty", "valid", "long"}
  /\ mainPc' = "nameCheck"
  /\ UNCHANGED <<flags, typed, m_ipAddr, incoming, outgoing, recvPc, inputStr>>

NoName ==
  /\ mainPc = "name"
  /\ Unanswered
  /\ m_name' = IF Interrupted THEN "empty" ELSE m_name
  /\ mainPc' = "nameCheck"
  /\ UNCHANGED <<flags, typed, m_ipAddr, incoming, outgoing, recvPc, inputStr>>

\* checkName turns the empty name into "User".  A name it rejects is asked for
\* again, unless g_quit is set: then init() goes on with it.
NameCheck ==
  /\ mainPc = "nameCheck"
  /\ m_name' = IF m_name = "empty" THEN "valid" ELSE m_name
  /\ mainPc' = IF m_name = "long" /\ ~g_quit THEN "name" ELSE "ip"
  /\ UNCHANGED <<flags, input, m_ipAddr, incoming, outgoing, recvPc, inputStr,
                 eintr>>

TypeIp ==
  /\ mainPc = "ip"
  /\ Answered
  /\ m_ipAddr' \in {"empty", "valid", "invalid"}
  /\ mainPc' = "ipCheck"
  /\ UNCHANGED <<flags, typed, m_name, incoming, outgoing, recvPc, inputStr>>

NoIp ==
  /\ mainPc = "ip"
  /\ Unanswered
  /\ m_ipAddr' = IF Interrupted THEN "empty" ELSE m_ipAddr
  /\ mainPc' = "ipCheck"
  /\ UNCHANGED <<flags, typed, m_name, incoming, outgoing, recvPc, inputStr>>

\* checkIp turns the empty address into "localhost".
IpCheck ==
  /\ mainPc = "ipCheck"
  /\ m_ipAddr' = IF m_ipAddr = "empty" THEN "valid" ELSE m_ipAddr
  /\ mainPc' = IF m_ipAddr = "invalid" /\ ~g_quit THEN "ip" ELSE "spawn"
  /\ UNCHANGED <<flags, input, m_name, incoming, outgoing, recvPc, inputStr,
                 eintr>>

-----------------------------------------------------------------------------
(* Main thread: start(), startSending(), sendMessage(), stop().            *)

\* The thread is created, or std::thread's constructor throws and the
\* exception leaves start(): the destructor is next.
Spawn ==
  /\ mainPc = "spawn"
  /\ m_flIsRunning' = TRUE
  /\ \/ mainPc' = "open" /\ recvPc' = "open"
     \/ mainPc' = "stop" /\ UNCHANGED recvPc
  /\ UNCHANGED <<g_quit, m_localQuitFlag, input, params, incoming, outgoing,
                 inputStr, eintr>>

\* The PUSH socket is connected; or connect throws, which is caught; or the
\* socket cannot be created, and the exception leaves start().
OpenSend_ForgetsFlag ==
  /\ mainPc = "open"
  /\ mainPc' \in {"loop", "close", "stop"}
  /\ UNCHANGED <<flags, input, params, incoming, outgoing, recvPc, inputStr,
                 eintr>>
OpenSend ==
  /\ mainPc = "open"
  /\ \/ mainPc' \in {"loop", "stop"} /\ UNCHANGED m_localQuitFlag
     \/ mainPc' = "close" /\ m_localQuitFlag' = TRUE
  /\ UNCHANGED <<g_quit, m_flIsRunning, input, params, incoming, outgoing,
                 recvPc, inputStr, eintr>>

\* Both flags only ever rise, so testing one after the other yields what
\* testing both at once would.
Quitting == m_localQuitFlag \/ g_quit

SendLoop_LocalOnly ==
  /\ mainPc = "loop"
  /\ mainPc' = IF m_localQuitFlag THEN "close" ELSE "getline"
  /\ UNCHANGED <<flags, input, params, incoming, outgoing, recvPc, inputStr,
                 eintr>>
SendLoop ==
  /\ mainPc = "loop"
  /\ mainPc' = IF Quitting THEN "close" ELSE "getline"
  /\ UNCHANGED <<flags, input, params, incoming, outgoing, recvPc, inputStr,
                 eintr>>

\* getUserInput() returns a line.
TypeLine ==
  /\ mainPc = "getline"
  /\ Answered
  /\ \/ inputStr' = 0 /\ UNCHANGED typed
     \/ typed < MaxLines /\ typed' = typed + 1 /\ inputStr' = typed'
  /\ mainPc' = "send"
  /\ UNCHANGED <<flags, params, incoming, outgoing, recvPc>>

\* getUserInput() returns its fresh, hence empty, string.
NoLine_ReusesString ==
  /\ mainPc = "getline"
  /\ Unanswered
  /\ mainPc' = "send"
  /\ UNCHANGED <<flags, typed, params, incoming, outgoing, recvPc, inputStr>>
NoLine ==
  /\ mainPc = "getline"
  /\ Unanswered
  /\ inputStr' = 0
  /\ mainPc' = "send"
  /\ UNCHANGED <<flags, typed, params, incoming, outgoing, recvPc>>

SendEmpty ==
  /\ mainPc = "send"
  /\ inputStr = 0
  /\ mainPc' = "loop"
  /\ UNCHANGED <<flags, input, params, incoming, outgoing, recvPc, inputStr,
                 eintr>>

\* There is room in the pipe.  zmq_connect made the pipe, so there need not be
\* a connection to the server yet.
SendQueued_IgnoresHwm ==
  /\ mainPc = "send"
  /\ inputStr # 0
  /\ pipe' = Append(pipe, inputStr)
  /\ mainPc' = "loop"
  /\ eintr' = eintr \ {"main"}
  /\ UNCHANGED <<flags, input, params, incoming, recvPc, inputStr, wire,
                 dropped, failed, sentAtQuit>>
SendQueued ==
  /\ mainPc = "send"
  /\ inputStr # 0
  /\ Len(pipe) < SndHwm
  /\ pipe' = Append(pipe, inputStr)
  /\ mainPc' = "loop"
  /\ eintr' = eintr \ {"main"}
  /\ UNCHANGED <<flags, input, params, incoming, recvPc, inputStr, wire,
                 dropped, failed, sentAtQuit>>

\* The pipe stays full for ZMQ_SNDTIMEO: send() returns false, nobody looks.
SendTimesOut ==
  /\ mainPc = "send"
  /\ inputStr # 0
  /\ Len(pipe) = SndHwm
  /\ dropped' = dropped \cup {inputStr}
  /\ mainPc' = "loop"
  /\ eintr' = eintr \ {"main"}
  /\ UNCHANGED <<flags, input, params, incoming, recvPc, inputStr, pipe, wire,
                 failed, sentAtQuit>>

\* A signal interrupts the send: the exception is caught and reported.
SendThrows ==
  /\ mainPc = "send"
  /\ inputStr # 0
  /\ "main" \in eintr
  /\ failed' = failed \cup {inputStr}
  /\ mainPc' = "loop"
  /\ eintr' = eintr \ {"main"}
  /\ UNCHANGED <<flags, input, params, incoming, recvPc, inputStr, pipe, wire,
                 dropped, sentAtQuit>>

\* The context's destructor waits, for ever if need be (ZMQ_LINGER is -1),
\* until the lines in the pipe have reached the server.
CloseSend ==
  /\ mainPc = "close"
  /\ pipe = <<>>
  /\ mainPc' = "stop"
  /\ UNCHANGED <<flags, input, params, incoming, outgoing, recvPc, inputStr,
                 eintr>>

\* stop() joins the receiving thread, if there is one.  It sets no flag.
Stop_OnlyDetects ==
  /\ mainPc = "stop"
  /\ mainPc' = "end"
  /\ UNCHANGED <<flags, input, params, incoming, outgoing, recvPc, inputStr,
                 eintr>>
Stop ==
  /\ mainPc = "stop"
  /\ m_flIsRunning => recvPc \in {"none", "done"}
  /\ mainPc' = "end"
  /\ UNCHANGED <<flags, input, params, incoming, outgoing, recvPc, inputStr,
                 eintr>>

-----------------------------------------------------------------------------
(* Receiving thread: startReceiving() and receiveMessage().                *)

\* The SUB socket is connected; or connect throws, which is caught; or the
\* socket cannot be created, in a thread that does not catch that.
OpenRecv ==
  /\ recvPc = "open"
  /\ \/ recvPc' = "loop" /\ UNCHANGED <<mainPc, m_localQuitFlag>>
     \/ recvPc' = "done" /\ m_localQuitFlag' = TRUE /\ UNCHANGED mainPc
     \/ Terminate /\ UNCHANGED m_localQuitFlag
  /\ UNCHANGED <<g_quit, m_flIsRunning, input, params, incoming, outgoing,
                 inputStr, eintr>>

RecvLoop_LocalOnly ==
  /\ recvPc = "loop"
  /\ recvPc' = IF m_localQuitFlag THEN "done" ELSE "recv"
  /\ UNCHANGED <<flags, input, params, incoming, outgoing, mainPc, inputStr,
                 eintr>>
RecvLoop ==
  /\ recvPc = "loop"
  /\ recvPc' = IF Quitting THEN "done" ELSE "recv"
  /\ UNCHANGED <<flags, input, params, incoming, outgoing, mainPc, inputStr,
                 eintr>>

RecvFrame ==
  /\ recvPc = "recv"
  /\ sub > 0
  /\ sub' = sub - 1
  /\ eintr' = eintr \ {"recv"}
  /\ UNCHANGED <<flags, input, params, frames, outgoing, mainPc, recvPc,
                 inputStr>>

\* EAGAIN: recv returns false, the thread sleeps and tests the flags again.
RecvNothing ==
  /\ recvPc = "recv"
  /\ sub = 0
  /\ recvPc' = "loop"
  /\ eintr' = eintr \ {"recv"}
  /\ UNCHANGED <<flags, input, params, incoming, outgoing, mainPc, inputStr>>

\* A signal interrupts recv's poll of its mailbox, which it makes whether or
\* not a frame is waiting: the exception it throws leaves the thread.
RecvThrows ==
  /\ recvPc = "recv"
  /\ "recv" \in eintr
  /\ Terminate
  /\ UNCHANGED <<flags, input, params, incoming, outgoing, inputStr, eintr>>

-----------------------------------------------------------------------------
(* Environment: the network and the operator's signals.                    *)

\* The server's PULL socket takes a line over.
Deliver ==
  /\ mainPc \in {"loop", "getline", "send", "close"}
  /\ pipe # <<>>
  /\ wire' = Append(wire, Head(pipe))
  /\ pipe' = Tail(pipe)
  /\ UNCHANGED <<flags, input, params, incoming, mainPc, recvPc, inputStr,
                 eintr, dropped, failed, sentAtQuit>>

Arrive ==
  /\ recvPc \in {"loop", "recv"}
  /\ frames < MaxFrames
  /\ frames' = frames + 1
  /\ sub' = sub + 1
  /\ UNCHANGED <<flags, input, params, outgoing, mainPc, recvPc, inputStr,
                 eintr>>

Alive(t) == IF t = "main" THEN mainPc \notin {"end", "aborted"}
                          ELSE recvPc \notin {"none", "done", "aborted"}
Interruptible(t) == IF t = "main" THEN mainPc \in {"name", "ip", "getline", "send"}
                                  ELSE recvPc = "recv"

\* s_signal_handler runs on any living thread.  The blocking call the thread is
\* about to make or in the middle of is interrupted only in the second case.
Signal(t) ==
  /\ Alive(t)
  /\ g_quit' = TRUE
  /\ sentAtQuit' = IF g_quit THEN sentAtQuit ELSE Len(Sent)
  /\ \/ ~g_quit /\ UNCHANGED eintr
     \/ Interruptible(t) /\ t \notin eintr /\ eintr' = eintr \cup {t}
  /\ UNCHANGED <<m_localQuitFlag, m_flIsRunning, input, params, incoming,
                 mainPc, recvPc, inputStr, pipe, wire, dropped, failed>>

\* main() has returned, or the process was terminated.
Finished ==
  /\ mainPc \in {"end", "aborted"}
  /\ UNCHANGED vars

-----------------------------------------------------------------------------

Input == TypeName \/ TypeIp \/ TypeLine

MainThread ==
  \/ NoName \/ NameCheck \/ NoIp \/ IpCheck \/ Spawn \/ OpenSend \/ SendLoop
  \/ NoLine \/ SendEmpty \/ SendQueued \/ SendTimesOut \/ SendThrows
  \/ CloseSend \/ Stop

RecvThread ==
  \/ OpenRecv \/ RecvLoop \/ RecvFrame \/ RecvNothing \/ RecvThrows

Next ==
  \/ Input
  \/ MainThread
  \/ RecvThread
  \/ Deliver
  \/ Arrive
  \/ \E t \in Threads : Signal(t)
  \/ Finished

Spec == Init /\ [][Next]_vars

\* The scheduler runs both threads, and the server takes what is sent to it.
FairSpec ==
  /\ Spec
  /\ WF_vars(MainThread)
  /\ WF_vars(RecvThread)
  /\ WF_vars(Deliver)

\* Besides, the user keeps pressing Enter.
UserFairSpec == FairSpec /\ WF_vars(Input)

-----------------------------------------------------------------------------
(* Properties.                                                             *)

Ascending(s) == \A i, j \in DOMAIN s : i < j => s[i] < s[j]

\* The line in sendMessage's hands.
Hand == IF mainPc = "send" /\ inputStr # 0 THEN {inputStr} ELSE {}

\* Every variable has its type; in particular the pipe never exceeds the
\* high-water mark, which is what makes send() time out.
TypeOK ==
  /\ {g_quit, m_localQuitFlag, m_flIsRunning} \subseteq BOOLEAN
  /\ m_name \in {"empty", "valid", "long"}
  /\ m_ipAddr \in {"empty", "valid", "invalid"}
  /\ cin \in {"good", "failed"}
  /\ mainPc \in MainPcs
  /\ recvPc \in RecvPcs
  /\ typed \in 0 .. MaxLines
  /\ inputStr \in 0 .. typed
  /\ pipe \in Seq(1 .. typed) /\ Len(pipe) <= SndHwm
  /\ frames \in 0 .. MaxFrames
  /\ sub \in 0 .. frames
  /\ eintr \subseteq Threads
  /\ wire \in Seq(1 .. typed)
  /\ dropped \cup failed \subseteq 1 .. typed
  /\ sentAtQuit \in 0 .. Len(Sent)

\* Every line typed is in one place: in sendMessage's hands, sent, dropped or
\* reported; and lines are sent once, in the order in which they were typed,
\* also when the end of the input keeps getline from yielding new ones.
SentOnceInOrder ==
  /\ Ascending(Sent)
  /\ mainPc # "aborted" =>
       /\ ToSet(Sent) \cup dropped \cup failed \cup Hand = 1 .. typed
       /\ Cardinality(ToSet(Sent)) + Cardinality(dropped) + Cardinality(failed)
            + Cardinality(Hand) = typed

\* init() may go on with a name or an address its check rejected, when a signal
\* arrives between the two tests of the loop; no line is sent under them.
NothingSentUnchecked ==
  Sent # <<>> => m_name = "valid" /\ m_ipAddr = "valid"

\* Once the signal handler has set g_quit the client sends at most the one
\* line it was reading or sending.
AtMostOneAfterQuit == g_quit => Len(Sent) <= sentAtQuit + 1

\* When main() returns the receiving thread, which uses the client object, is
\* gone, and no line is left behind in the pipe.
CleanEnd == mainPc = "end" => recvPc \in {"none", "done"} /\ pipe = <<>>

Over == mainPc \in {"end", "aborted"}

\* A signal ends the client at the user's next Enter, if frames stop coming: the
\* model has MaxFrames of them, and receiveMessage tests no flag while it drains
\* the socket.
QuitLeadsToEnd == g_quit ~> Over

\* A connection that fails in either thread ends both, at the next Enter and if
\* frames stop coming; and so does the return of startSending(), whatever made
\* it return.
FailureLeadsToEnd == m_localQuitFlag \/ mainPc = "close" ~> Over

\* The constructor's comment: setting the external flag to 'true' will end the
\* send and receive loops.
FlagEndsLoops ==
  g_quit ~> /\ mainPc \notin {"loop", "getline", "send"}
            /\ recvPc \notin {"loop", "recv"}

\* The comment of stop(): it stops the send and receive loops and joins the
\* threads, so the destructor that calls it returns.
StopLeadsToEnd == mainPc = "stop" ~> Over

\* The comment of sendMessage(): it gets the user's message and sends it to the
\* server; what cannot be sent is reported as "send: fail".
SentOrReported == dropped = {}

=============================================================================
