----------------------------- MODULE SignalLog ------------------------------
(***************************************************************************)
(* Who waits for whom in the two programs.  Each has two threads and a     *)
(* handler for SIGINT and SIGTERM that writes a log record before it sets  *)
(* g_quit; every log record is written under the mutex of plog's appender, *)
(* and the server's threads share m_mtx besides.  Neither mutex is         *)
(* recursive.                                                              *)
(*                                                                         *)
(* Code is a control flow graph: an edge takes a thread from one label to  *)
(* another by taking or dropping a mutex, testing or setting g_quit, or    *)
(* doing something of no interest here.  A handler runs on top of whatever *)
(* its thread was doing, so a thread is a stack of frames.                 *)
(*                                                                         *)
(* These are the locks of the programs' own code.  A log record is also    *)
(* formatted on the heap, whose lock is the C library's and not modelled:  *)
(* a handler that interrupts its thread inside malloc can wait there too.  *)
(***************************************************************************)
EXTENDS Naturals, Sequences

Thread == {"main", "recv"}
Mutex == {"log", "m_mtx"}

\* The edges of a control flow graph.
Edge(a, op, x, b) == [from |-> a, op |-> op, arg |-> x, to |-> b]
Go(a, b) == Edge(a, "go", "", b)
IfQuit(a, b) == Edge(a, "quit", "", b)
UnlessQuit(a, b) == Edge(a, "unlessQuit", "", b)
Store(a, b) == Edge(a, "store", "", b)
Take(a, m, b) == Edge(a, "take", m, b)
Drop(a, m, b) == Edge(a, "drop", m, b)

\* One log record: the appender's write() under its mutex.
Log(a, writing, b) == {Take(a, "log", writing), Drop(writing, "log", b)}

-----------------------------------------------------------------------------
(* The loops and the handler of both programs.                             *)

\* s_signal_handler, the same in both programs.
Handler_NeverStores ==
  Log("sig.log", "sig.write", "sig.store") \cup {Go("sig.store", "sig.return")}
Handler ==
  Log("sig.log", "sig.write", "sig.store") \cup {Store("sig.store", "sig.return")}

\* Server, main thread: print() is called with m_mtx held and logs twice.
SendMsg ==
  {UnlessQuit("main.loop", "main.lock"), IfQuit("main.loop", "main.done"),
   Take("main.lock", "m_mtx", "main.check"),
   Go("main.check", "main.unlock"), Go("main.check", "main.log1")}
  \cup Log("main.log1", "main.write1", "main.log2")
  \cup Log("main.log2", "main.write2", "main.unlock")
  \cup {Drop("main.unlock", "m_mtx", "main.loop")}

\* Server, receiving thread: drains the socket without testing the flag.
RecvMsg ==
  {UnlessQuit("recv.loop", "recv.poll"), IfQuit("recv.loop", "recv.done"),
   Go("recv.poll", "recv.loop"), Go("recv.poll", "recv.log1")}
  \cup Log("recv.log1", "recv.write1", "recv.log2")
  \cup Log("recv.log2", "recv.write2", "recv.lock")
  \cup {Take("recv.lock", "m_mtx", "recv.push"),
        Drop("recv.push", "m_mtx", "recv.poll")}

\* Client, main thread: a line is logged, sent, and its sending logged.
SendMessage ==
  {UnlessQuit("user.loop", "user.getline"), IfQuit("user.loop", "main.done"),
   Go("user.getline", "user.loop"), Go("user.getline", "user.log1")}
  \cup Log("user.log1", "user.write1", "user.log2")
  \cup Log("user.log2", "user.write2", "user.loop")

\* Client, receiving thread.
ReceiveMessage ==
  {UnlessQuit("sub.loop", "sub.poll"), IfQuit("sub.loop", "recv.done"),
   Go("sub.poll", "sub.loop"), Go("sub.poll", "sub.log1")}
  \cup Log("sub.log1", "sub.write1", "sub.poll")

ServerCode == SendMsg \cup RecvMsg \cup Handler
ClientCode == SendMessage \cup ReceiveMessage \cup Handler

-----------------------------------------------------------------------------

CONSTANTS Code,        \* what the threads run: ServerCode \cup ClientCode
          Holding,     \* per mutex: the labels at which a frame holds it
          MaxSignals   \* bound: signals delivered in a behaviour

Label == {e.from : e \in Code} \cup {e.to : e \in Code}
Signal == {"SIGINT", "SIGTERM"}
SigLabel == {"sig.log", "sig.write", "sig.store", "sig.return"}

\* Where the threads of the server begin, and those of the client.
First == {[main |-> "main.loop", recv |-> "recv.loop"],
          [main |-> "user.loop", recv |-> "sub.loop"]}
Last == [main |-> "main.done", recv |-> "recv.done"]

\* What the scopes of the lock_guards give: where a mutex is held.
Scoped(e, m) ==
  /\ e.op = "take" /\ e.arg = m => e.from \notin Holding[m] /\ e.to \in Holding[m]
  /\ e.op = "drop" /\ e.arg = m => e.from \in Holding[m] /\ e.to \notin Holding[m]
  /\ ~(e.op \in {"take", "drop"} /\ e.arg = m) =>
       (e.from \in Holding[m] <=> e.to \in Holding[m])

\* Scopes apart, the code keeps two rules: nobody takes m_mtx with the log's
\* mutex in hand, and the handler leaves m_mtx alone.
ASSUME CodeAssumption ==
  /\ MaxSignals \in Nat
  /\ {"sig.log", "sig.return"} \cup {f[t] : f \in First, t \in Thread}
       \cup {Last[t] : t \in Thread} \subseteq Label \ UNION {Holding[m] : m \in Mutex}
  /\ \A f \in First, t \in Thread : f[t] \notin SigLabel
  /\ \A e \in Code :
       /\ e.op \in {"take", "drop"} => e.arg \in Mutex
       /\ \A m \in Mutex : Scoped(e, m)
       /\ e.op = "take" /\ e.arg = "m_mtx" => e.from \notin Holding["log"]
       /\ e.from \in SigLabel <=> e.to \in SigLabel
       /\ e.op = "take" /\ e.from \in SigLabel => e.arg = "log"

VARIABLES
  stack,     \* per thread: its frames, the running one last
  owner,     \* per mutex: the thread that holds it, or "free"
  g_quit,
  signals    \* signals delivered so far, up to MaxSignals

vars == <<stack, owner, g_quit, signals>>

Frame == [sig : Signal \cup {"none"}, at : Label]
Top(t) == stack[t][Len(stack[t])]
MoveTo(t, l) == stack' = [stack EXCEPT ![t][Len(stack[t])].at = l]

Done(t) == Len(stack[t]) = 1 /\ Top(t).at = Last[t]
Ended == \A t \in Thread : Done(t)

Waits(t, m) ==
  \E e \in Code : e.from = Top(t).at /\ e.op = "take" /\ e.arg = m

\* A lower frame of t, which cannot go on before the running one has, holds m.
HeldBelow(t, m) ==
  \E i \in 1 .. Len(stack[t]) - 1 : stack[t][i].at \in Holding[m]

-----------------------------------------------------------------------------

\* A behaviour is one of the server or one of the client.
Init ==
  /\ \E f \in First :
       stack = [t \in Thread |-> <<[sig |-> "none", at |-> f[t]]>>]
  /\ owner = [m \in Mutex |-> "free"]
  /\ g_quit = FALSE
  /\ signals = 0

\* One edge of the graph, by the running frame of t.
Move(t, e) ==
  /\ e.from = Top(t).at
  /\ MoveTo(t, e.to)
  /\ UNCHANGED signals

TakeMutex_NoGuard(t, e) ==
  /\ e.op = "take"
  /\ Move(t, e)
  /\ owner' = [owner EXCEPT ![e.arg] = t]
  /\ UNCHANGED g_quit
TakeMutex(t, e) ==
  /\ e.op = "take"
  /\ owner[e.arg] = "free"
  /\ Move(t, e)
  /\ owner' = [owner EXCEPT ![e.arg] = t]
  /\ UNCHANGED g_quit

DropMutex_KeepsIt(t, e) ==
  /\ e.op = "drop"
  /\ Move(t, e)
  /\ UNCHANGED <<owner, g_quit>>
DropMutex(t, e) ==
  /\ e.op = "drop"
  /\ Move(t, e)
  /\ owner' = [owner EXCEPT ![e.arg] = "free"]
  /\ UNCHANGED g_quit

TestQuit_Cached(t, e) ==
  /\ e.op = "unlessQuit"
  /\ Move(t, e)
  /\ UNCHANGED <<owner, g_quit>>
TestQuit(t, e) ==
  /\ e.op = IF g_quit THEN "quit" ELSE "unlessQuit"
  /\ Move(t, e)
  /\ UNCHANGED <<owner, g_quit>>

StoreQuit(t, e) ==
  /\ e.op = "store"
  /\ Move(t, e)
  /\ g_quit' = TRUE
  /\ UNCHANGED owner

Proceed(t, e) ==
  /\ e.op = "go"
  /\ Move(t, e)
  /\ UNCHANGED <<owner, g_quit>>

\* The handler returns to what it interrupted.
Return_LeavesTheLoop(t) ==
  /\ Top(t).at = "sig.return"
  /\ stack' = [stack EXCEPT ![t] = SubSeq(@, 1, Len(@) - 2)]
  /\ UNCHANGED <<owner, g_quit, signals>>
Return(t) ==
  /\ Top(t).at = "sig.return"
  /\ stack' = [stack EXCEPT ![t] = SubSeq(@, 1, Len(@) - 1)]
  /\ UNCHANGED <<owner, g_quit, signals>>

Step(t) ==
  \/ \E e \in Code : \/ TakeMutex(t, e) \/ DropMutex(t, e) \/ TestQuit(t, e)
                     \/ StoreQuit(t, e) \/ Proceed(t, e)
  \/ Return(t)

\* A signal reaches any thread that still exists, whatever it is doing, a wait
\* for a mutex included.  sa_mask is empty: a handler masks its own signal
\* and not the other one.
Deliver(t, s) ==
  /\ signals < MaxSignals
  /\ ~Ended /\ ~(t = "recv" /\ Done(t))
  /\ \A i \in DOMAIN stack[t] : stack[t][i].sig # s
  /\ stack' = [stack EXCEPT ![t] = Append(@, [sig |-> s, at |-> "sig.log"])]
  /\ signals' = signals + 1
  /\ UNCHANGED <<owner, g_quit>>

Next ==
  \/ \E t \in Thread : Step(t)
  \/ \E t \in Thread, s \in Signal : Deliver(t, s)

Spec == Init /\ [][Next]_vars

\* The scheduler runs every thread, the mutexes starve nobody, and the user
\* answers std::getline.
FairSpec == Spec /\ \A t \in Thread : SF_vars(Step(t))

\* Besides, frames do not come faster for ever than the thread receives them.
FoundEmpty ==
  /\ Top("recv").at \in {"recv.poll", "sub.poll"}
  /\ Step("recv")
  /\ Top("recv").at' \in {f["recv"] : f \in First}
CalmSpec == FairSpec /\ SF_vars(FoundEmpty)

-----------------------------------------------------------------------------
(* Properties.                                                             *)

\* Every variable has its type; no thread is without a frame.
TypeOK ==
  /\ stack \in [Thread -> Seq(Frame)]
  /\ \A t \in Thread : stack[t] # <<>>
  /\ owner \in [Mutex -> Thread \cup {"free"}]
  /\ g_quit \in BOOLEAN
  /\ signals \in 0 .. MaxSignals

\* Whichever frames signals have piled up, a mutex is held by at most one frame
\* of one thread, and its owner is that thread.
OneHolder ==
  \A m \in Mutex :
    /\ \A t \in Thread : \A i, j \in DOMAIN stack[t] :
         stack[t][i].at \in Holding[m] /\ stack[t][j].at \in Holding[m] => i = j
    /\ \A t \in Thread :
         owner[m] = t <=> \E i \in DOMAIN stack[t] : stack[t][i].at \in Holding[m]

\* A thread that cannot move waits for a mutex that is held, or has ended.
Halted(t) == Done(t) \/ \E m \in Mutex : Waits(t, m) /\ owner[m] # "free"
Stuck == ~Ended /\ \A t \in Thread : Halted(t)

\* The two threads cannot block each other with these two mutexes, of which
\* sendMsg holds both at once: if nobody can move, a handler waits for the
\* log's mutex that the code it interrupted is holding.
StuckOnlyByHandler ==
  Stuck => \E t \in Thread : Waits(t, "log") /\ HeldBelow(t, "log")

Interrupted == \E t \in Thread : HeldBelow(t, "log")

\* A signal that does not hit its thread inside the logger raises the flag, if
\* no handler waits for a lock outside the model.
SignalRaisesFlag == signals > 0 ~> g_quit \/ Interrupted

\* The flag ends both loops, unless a handler hits a thread inside the logger;
\* frames that never stop coming, which would keep recvMsg in its inner loop, are
\* assumed away by CalmSpec.
FlagEndsLoops == g_quit ~> Ended \/ Interrupted

=============================================================================
