----------------------------- MODULE ChatServer -----------------------------
(***************************************************************************)
(* CZmqChatServer as startServer() of Server/src/main.cpp runs it: the     *)
(* main thread constructs the object, starts the receiving thread, sends   *)
(* from its own thread and destroys the object when sending ends.          *)
(*                                                                         *)
(*   clients --> PULL socket --> receiving thread                          *)
(*                                  |  m_receivedMessages under m_mtx      *)
(*               PUB socket  <-- main thread --> subscribers               *)
(*                                                                         *)
(* One action per critical section, socket call or flag test.  Text is a   *)
(* model value; a std::string is the text and the number of times the      *)
(* server's filter was put in front of it.                                 *)
(***************************************************************************)
EXTENDS Integers, Sequences

CONSTANTS Message,    \* the non-empty texts clients send
          Empty,      \* the frame of length zero
          MaxFrames,  \* bound: frames that reach the PULL socket in a behaviour
          PullHwm     \* ZMQ_RCVHWM of the PULL socket

ASSUME ServerAssumption ==
  /\ Empty \notin Message
  /\ MaxFrames \in Nat
  /\ PullHwm \in Nat \ {0}

VARIABLES
  g_quit,              \* set by the signal handler
  m_flIsWorking,       \* set by start(), cleared by stop()
  m_mtx,               \* holder of the mutex: "main", "recv" or "free"
  m_receivedMessages,  \* std::queue<std::string>, guarded by m_mtx
  mainPc,              \* where the main thread is
  recvPc,              \* where the receiving thread is ("none": not created)
  broadcast_msg,       \* sendMsg's local message: no string or one
  recv_str,            \* recvMsg's local string: no string or one
  pull,                \* frames waiting in the PULL socket
  flushed,             \* how many published strings left the PUB socket
  eintr,               \* threads that took a signal inside a ZeroMQ call
  arrivals,            \* frames that reached the PULL socket, up to MaxFrames
  published,           \* strings handed to the PUB socket, in order
  \* History variables, read by no guard.
  accepted,            \* non-empty texts taken from the PULL socket
  lost,                \* text in hand when a send threw
  pubAtQuit            \* Len(published) when g_quit was set

sockets == <<pull, flushed, eintr, arrivals>>
history == <<accepted, published, lost, pubAtQuit>>
vars == <<g_quit, m_flIsWorking, m_mtx, m_receivedMessages, mainPc, recvPc,
          broadcast_msg, recv_str, sockets, history>>

Threads == {"main", "recv"}
MainPcs == {"start", "spawn", "open", "loop", "lock", "check", "pop", "send",
            "close", "stop", "join", "end", "aborted"}
RecvPcs == {"none", "open", "loop", "recv", "lock", "push", "done", "aborted"}

\* A string holds a text behind zero or more copies of the filter.
String == [filters : Nat, text : Message]
Bare(m) == [filters |-> 0, text |-> m]
Texts(s) == [i \in DOMAIN s |-> s[i].text]

AddFilter(s) == [s EXCEPT !.filters = @ + 1]

\* The strings inside the server, oldest first.
InFlight == broadcast_msg \o m_receivedMessages \o recv_str

-----------------------------------------------------------------------------
(* The lock_guards.                                                        *)

MutexFree_NoGuard == TRUE
MutexFree == m_mtx = "free"

Acquire(t) == MutexFree /\ m_mtx' = t
Release == m_mtx' = "free"

-----------------------------------------------------------------------------

Init ==
  /\ g_quit = FALSE
  /\ m_flIsWorking = FALSE
  /\ m_mtx = "free"
  /\ m_receivedMessages = <<>>
  /\ mainPc = "start"
  /\ recvPc = "none"
  /\ broadcast_msg = <<>>
  /\ recv_str = <<>>
  /\ pull = <<>>
  /\ flushed = 0
  /\ eintr = {}
  /\ arrivals = 0
  /\ accepted = <<>>
  /\ published = <<>>
  /\ lost = <<>>
  /\ pubAtQuit = 0

\* std::terminate ends the process: an exception left the receiving thread.
Terminate ==
  /\ mainPc' = "aborted"
  /\ recvPc' = "aborted"

-----------------------------------------------------------------------------
(* Main thread: start(), startSending(), sendMsg(), stop().                *)

Start ==
  /\ mainPc = "start"
  /\ m_flIsWorking' = TRUE
  /\ mainPc' = "spawn"
  /\ UNCHANGED <<g_quit, m_mtx, m_receivedMessages, recvPc, broadcast_msg,
                 recv_str, sockets, history>>

\* The thread is created, or std::thread's constructor throws and the
\* exception leaves start(): the destructor is next.
Spawn ==
  /\ mainPc = "spawn"
  /\ \/ mainPc' = "open" /\ recvPc' = "open"
     \/ mainPc' = "stop" /\ UNCHANGED recvPc
  /\ UNCHANGED <<g_quit, m_flIsWorking, m_mtx, m_receivedMessages,
                 broadcast_msg, recv_str, sockets, history>>

\* The PUB socket is bound, or bind throws (the port is taken).
OpenSend ==
  /\ mainPc = "open"
  /\ mainPc' \in {"loop", "stop"}
  /\ UNCHANGED <<g_quit, m_flIsWorking, m_mtx, m_receivedMessages, recvPc,
                 broadcast_msg, recv_str, sockets, history>>

\* g_quit only ever rises, and m_flIsWorking only falls once it has risen, so
\* testing one after the other yields what testing both at once would.
Working == ~g_quit /\ m_flIsWorking

SendLoop_IgnoresQuit ==
  /\ mainPc = "loop"
  /\ mainPc' = IF m_flIsWorking THEN "lock" ELSE "close"
  /\ UNCHANGED <<g_quit, m_flIsWorking, m_mtx, m_receivedMessages, recvPc,
                 broadcast_msg, recv_str, sockets, history>>
SendLoop ==
  /\ mainPc = "loop"
  /\ mainPc' = IF Working THEN "lock" ELSE "close"
  /\ UNCHANGED <<g_quit, m_flIsWorking, m_mtx, m_receivedMessages, recvPc,
                 broadcast_msg, recv_str, sockets, history>>

SendLock ==
  /\ mainPc = "lock"
  /\ Acquire("main")
  /\ mainPc' = "check"
  /\ UNCHANGED <<g_quit, m_flIsWorking, m_receivedMessages, recvPc,
                 broadcast_msg, recv_str, sockets, history>>

SendNothing ==
  /\ mainPc = "check"
  /\ m_receivedMessages = <<>>
  /\ Release
  /\ mainPc' = "loop"
  /\ UNCHANGED <<g_quit, m_flIsWorking, m_receivedMessages, recvPc,
                 broadcast_msg, recv_str, sockets, history>>

\* messageString is a reference: the filter is put in front of the string
\* while it still is the front element of the queue.
SendPrefix ==
  /\ mainPc = "check"
  /\ m_receivedMessages # <<>>
  /\ m_receivedMessages' = [m_receivedMessages EXCEPT ![1] = AddFilter(@)]
  /\ mainPc' = "pop"
  /\ UNCHANGED <<g_quit, m_flIsWorking, m_mtx, recvPc, broadcast_msg,
                 recv_str, sockets, history>>

SendPop_ForgetsPop ==
  /\ mainPc = "pop"
  /\ broadcast_msg' = <<Head(m_receivedMessages)>>
  /\ mainPc' = "send"
  /\ UNCHANGED <<g_quit, m_flIsWorking, m_mtx, m_receivedMessages, recvPc,
                 recv_str, sockets, history>>
SendPop ==
  /\ mainPc = "pop"
  /\ broadcast_msg' = <<Head(m_receivedMessages)>>
  /\ m_receivedMessages' = Tail(m_receivedMessages)
  /\ mainPc' = "send"
  /\ UNCHANGED <<g_quit, m_flIsWorking, m_mtx, recvPc, recv_str, sockets,
                 history>>

\* A PUB socket never blocks; the lock_guard ends with the if statement.
SendPublish ==
  /\ mainPc = "send"
  /\ published' = published \o broadcast_msg
  /\ broadcast_msg' = <<>>
  /\ eintr' = eintr \ {"main"}
  /\ Release
  /\ mainPc' = "loop"
  /\ UNCHANGED <<g_quit, m_flIsWorking, m_receivedMessages, recvPc, recv_str,
                 pull, flushed, arrivals, accepted, lost, pubAtQuit>>

\* A send interrupted by a signal throws: the lock_guard, the message and the
\* socket are destroyed on the way out of startSending().
SendThrows ==
  /\ mainPc = "send"
  /\ "main" \in eintr
  /\ lost' = Texts(broadcast_msg)
  /\ broadcast_msg' = <<>>
  /\ eintr' = eintr \ {"main"}
  /\ Release
  /\ mainPc' = "close"
  /\ UNCHANGED <<g_quit, m_flIsWorking, m_receivedMessages, recvPc, recv_str,
                 pull, flushed, arrivals, accepted, published, pubAtQuit>>

\* The context's destructor waits, for ever if need be (ZMQ_LINGER is -1),
\* until the PUB socket has got rid of what it was given.
CloseSend ==
  /\ mainPc = "close"
  /\ flushed = Len(published)
  /\ mainPc' = "stop"
  /\ UNCHANGED <<g_quit, m_flIsWorking, m_mtx, m_receivedMessages, recvPc,
                 broadcast_msg, recv_str, sockets, history>>

Stop_KeepsWorking ==
  /\ mainPc = "stop"
  /\ mainPc' = IF m_flIsWorking THEN "join" ELSE "end"
  /\ UNCHANGED <<g_quit, m_flIsWorking, m_mtx, m_receivedMessages, recvPc,
                 broadcast_msg, recv_str, sockets, history>>
Stop ==
  /\ mainPc = "stop"
  /\ m_flIsWorking' = FALSE
  /\ mainPc' = IF m_flIsWorking THEN "join" ELSE "end"
  /\ UNCHANGED <<g_quit, m_mtx, m_receivedMessages, recvPc, broadcast_msg,
                 recv_str, sockets, history>>

\* m_sendThr is never started; m_receiveThr is joinable if it was created.
Join_OnlyDetects ==
  /\ mainPc = "join"
  /\ mainPc' = "end"
  /\ UNCHANGED <<g_quit, m_flIsWorking, m_mtx, m_receivedMessages, recvPc,
                 broadcast_msg, recv_str, sockets, history>>
Join ==
  /\ mainPc = "join"
  /\ recvPc \in {"none", "done"}
  /\ mainPc' = "end"
  /\ UNCHANGED <<g_quit, m_flIsWorking, m_mtx, m_receivedMessages, recvPc,
                 broadcast_msg, recv_str, sockets, history>>

-----------------------------------------------------------------------------
(* Receiving thread: startReceiving() and recvMsg().                       *)

\* The PULL socket is bound, or bind throws in a thread that catches nothing.
OpenRecv ==
  /\ recvPc = "open"
  /\ \/ recvPc' = "loop" /\ UNCHANGED mainPc
     \/ Terminate
  /\ UNCHANGED <<g_quit, m_flIsWorking, m_mtx, m_receivedMessages,
                 broadcast_msg, recv_str, sockets, history>>

RecvLoop ==
  /\ recvPc = "loop"
  /\ recvPc' = IF Working THEN "recv" ELSE "done"
  /\ UNCHANGED <<g_quit, m_flIsWorking, m_mtx, m_receivedMessages, mainPc,
                 broadcast_msg, recv_str, sockets, history>>

\* A frame is ready: an empty one is skipped, any other is to be pushed.
RecvFrame_KeepsEmpty ==
  /\ recvPc = "recv"
  /\ pull # <<>>
  /\ pull' = Tail(pull)
  /\ recv_str' = <<Bare(Head(pull))>>
  /\ accepted' = Append(accepted, Head(pull))
  /\ recvPc' = "lock"
  /\ eintr' = eintr \ {"recv"}
  /\ UNCHANGED <<g_quit, m_flIsWorking, m_mtx, m_receivedMessages, mainPc,
                 broadcast_msg, flushed, arrivals, published, lost, pubAtQuit>>
RecvFrame ==
  /\ recvPc = "recv"
  /\ pull # <<>>
  /\ pull' = Tail(pull)
  /\ \/ /\ Head(pull) = Empty
        /\ UNCHANGED <<recvPc, recv_str, accepted>>
     \/ /\ Head(pull) # Empty
        /\ recv_str' = <<Bare(Head(pull))>>
        /\ accepted' = Append(accepted, Head(pull))
        /\ recvPc' = "lock"
  /\ eintr' = eintr \ {"recv"}
  /\ UNCHANGED <<g_quit, m_flIsWorking, m_mtx, m_receivedMessages, mainPc,
                 broadcast_msg, flushed, arrivals, published, lost, pubAtQuit>>

\* EAGAIN: recv returns false, the thread sleeps and tests the flags again.
RecvNothing ==
  /\ recvPc = "recv"
  /\ pull = <<>>
  /\ recvPc' = "loop"
  /\ eintr' = eintr \ {"recv"}
  /\ UNCHANGED <<g_quit, m_flIsWorking, m_mtx, m_receivedMessages, mainPc,
                 broadcast_msg, recv_str, pull, flushed, arrivals, history>>

\* A signal interrupts recv's poll of its mailbox, which it makes whether or
\* not a frame is waiting: the exception it throws leaves the thread.
RecvThrows ==
  /\ recvPc = "recv"
  /\ "recv" \in eintr
  /\ Terminate
  /\ UNCHANGED <<g_quit, m_flIsWorking, m_mtx, m_receivedMessages,
                 broadcast_msg, recv_str, sockets, history>>

RecvLock ==
  /\ recvPc = "lock"
  /\ Acquire("recv")
  /\ recvPc' = "push"
  /\ UNCHANGED <<g_quit, m_flIsWorking, m_receivedMessages, mainPc,
                 broadcast_msg, recv_str, sockets, history>>

RecvPush ==
  /\ recvPc = "push"
  /\ m_receivedMessages' = m_receivedMessages \o recv_str
  /\ recv_str' = <<>>
  /\ Release
  /\ recvPc' = "recv"
  /\ UNCHANGED <<g_quit, m_flIsWorking, mainPc, broadcast_msg, sockets,
                 history>>

-----------------------------------------------------------------------------
(* Environment: the network, the subscribers and the operator.             *)

\* A client's frame reaches the bound PULL socket.  At its high-water mark the
\* socket stops reading; nothing is dropped.
Arrive ==
  /\ recvPc \in {"loop", "recv", "lock", "push"}
  /\ arrivals < MaxFrames
  /\ Len(pull) < PullHwm
  /\ \E f \in Message \cup {Empty} : pull' = Append(pull, f)
  /\ arrivals' = arrivals + 1
  /\ UNCHANGED <<g_quit, m_flIsWorking, m_mtx, m_receivedMessages, mainPc,
                 recvPc, broadcast_msg, recv_str, flushed, eintr, history>>

\* A published string leaves the process, to its subscribers or to nobody.
Flush ==
  /\ mainPc \notin {"end", "aborted"}
  /\ flushed < Len(published)
  /\ flushed' = flushed + 1
  /\ UNCHANGED <<g_quit, m_flIsWorking, m_mtx, m_receivedMessages, mainPc,
                 recvPc, broadcast_msg, recv_str, pull, eintr, arrivals, history>>

Alive(t) == IF t = "main" THEN mainPc \notin {"end", "aborted"}
                          ELSE recvPc \notin {"none", "done", "aborted"}
InZmqCall(t) == IF t = "main" THEN mainPc = "send" ELSE recvPc = "recv"

\* s_signal_handler runs on any living thread; a thread inside a ZeroMQ call
\* may see that call fail.  (Its log line is modelled elsewhere.)
Signal(t) ==
  /\ Alive(t)
  /\ ~g_quit \/ (InZmqCall(t) /\ t \notin eintr)
  /\ g_quit' = TRUE
  /\ pubAtQuit' = IF g_quit THEN pubAtQuit ELSE Len(published)
  /\ eintr' = IF InZmqCall(t) THEN eintr \cup {t} ELSE eintr
  /\ UNCHANGED <<m_flIsWorking, m_mtx, m_receivedMessages, mainPc, recvPc,
                 broadcast_msg, recv_str, pull, flushed, arrivals, accepted,
                 published, lost>>

\* startServer() has returned, or the process was terminated.
Finished ==
  /\ mainPc \in {"end", "aborted"}
  /\ UNCHANGED vars

-----------------------------------------------------------------------------

MainThread ==
  \/ Start \/ Spawn \/ OpenSend \/ SendLoop \/ SendLock \/ SendNothing
  \/ SendPrefix \/ SendPop \/ SendPublish \/ SendThrows \/ CloseSend
  \/ Stop \/ Join

RecvThread ==
  \/ OpenRecv \/ RecvLoop \/ RecvFrame \/ RecvNothing \/ RecvThrows
  \/ RecvLock \/ RecvPush

Next ==
  \/ MainThread
  \/ RecvThread
  \/ Arrive
  \/ Flush
  \/ \E t \in Threads : Signal(t)
  \/ Finished

Spec == Init /\ [][Next]_vars

\* The scheduler runs both threads; no subscriber stalls for ever.
FairSpec ==
  /\ Spec
  /\ WF_vars(MainThread)
  /\ WF_vars(RecvThread)
  /\ WF_vars(Flush)

\* A thread that keeps finding the mutex free gets it some day.
LockFairness == SF_vars(SendLock) /\ SF_vars(RecvLock)

-----------------------------------------------------------------------------
(* Properties.                                                             *)

AtMostOne(s, S) == s \in Seq(S) /\ Len(s) <= 1

\* Every variable has its type; in particular an empty frame never becomes a
\* string of the queue, and neither socket exceeds what it was given.
TypeOK ==
  /\ g_quit \in BOOLEAN
  /\ m_flIsWorking \in BOOLEAN
  /\ m_mtx \in Threads \cup {"free"}
  /\ m_receivedMessages \in Seq(String)
  /\ mainPc \in MainPcs
  /\ recvPc \in RecvPcs
  /\ AtMostOne(broadcast_msg, String)
  /\ AtMostOne(recv_str, String)
  /\ pull \in Seq(Message \cup {Empty})
  /\ Len(pull) <= PullHwm
  /\ eintr \in SUBSET Threads
  /\ arrivals \in 0 .. MaxFrames
  /\ accepted \in Seq(Message)
  /\ published \in Seq(String)
  /\ flushed \in 0 .. Len(published)
  /\ AtMostOne(lost, Message)
  /\ pubAtQuit \in 0 .. Len(published)

\* While the process lives, m_mtx is held by exactly the thread that is in its
\* critical section (sendMsg from the emptiness test to the end of the if
\* statement, recvMsg around push), whichever way that section is left.
MutualExclusion ==
  mainPc # "aborted" =>
    /\ m_mtx = "main" <=> mainPc \in {"check", "pop", "send"}
    /\ m_mtx = "recv" <=> recvPc = "push"

\* sendMsg edits the front of the shared queue in place, yet every published
\* string carries the server's filter exactly once, and so no queued string
\* carries it except the front one between the edit and the pop.
FilteredOnce ==
  /\ \A i \in DOMAIN published : published[i].filters = 1
  /\ mainPc # "aborted" =>
       \A i \in DOMAIN m_receivedMessages :
         m_receivedMessages[i].filters = IF i = 1 /\ mainPc = "pop" THEN 1 ELSE 0

\* The two threads together neither drop, duplicate nor reorder a text: what
\* was taken from the PULL socket is what was published, then what is inside
\* the server, except for one text in hand when a signal breaks a send, after
\* which sending is over.
RelayedInOrder ==
  /\ accepted = Texts(published) \o lost \o Texts(InFlight)
  /\ lost # <<>> =>
       g_quit /\ mainPc \in {"close", "stop", "join", "end", "aborted"}

\* Once the signal handler has set g_quit the server publishes at most the
\* one message whose sendMsg call had already begun.
AtMostOneAfterQuit == g_quit => Len(published) <= pubAtQuit + 1

\* When startServer() returns, the receiving thread is gone, nobody holds the
\* mutex and no text is in a thread's hands: all that was accepted has been
\* published, was lost to the signal, or dies with the queue.
CleanEnd ==
  mainPc = "end" =>
    /\ recvPc \in {"none", "done"}
    /\ m_mtx = "free"
    /\ InFlight = m_receivedMessages
    /\ flushed = Len(published)

\* A signal ends the server, provided the frames stop coming.
QuitLeadsToEnd == g_quit ~> mainPc \in {"end", "aborted"}

\* The destructor's stop() returns whatever made start() end: a signal, or an
\* exception while g_quit is still false.
StopLeadsToEnd == mainPc = "stop" ~> mainPc \in {"end", "aborted"}

\* startServer() catches every exception of the server and reports it ("bad
\* exit"): no exception ends the process through std::terminate.
NeverTerminated == mainPc # "aborted"

-----------------------------------------------------------------------------
\* The threads, mutex and queue implement the relay.

Relay == INSTANCE FifoRelay WITH
  relayed <- Texts(published),
  closed <- mainPc \in {"close", "stop", "join", "end", "aborted"}

\* The server relays accepted texts one by one, in order, and, if the mutex is
\* fair to both threads, an open server does not keep an accepted text for ever.
RelaySpec == Relay!SafeSpec /\ (LockFairness => Relay!Progress)

=============================================================================
