# ZeromqChat: models, checks and proofs

A TLA+ account of ZeromqChat (`src/`): a chat server that collects messages on
a ZeroMQ PULL socket and broadcasts them on a PUB socket, and a terminal client
that sends lines on a PUSH socket and shows what its SUB socket receives. Both
programs are two threads, a few flags, a mutex and a signal handler; the models
are about those, about what crosses the network between them, and about the
logger both are built on.

## The system

| Component | State | Operations | Interacts with |
|---|---|---|---|
| Server object, `Server/src/ZmqChatServer.{h,cpp}` | `m_flIsWorking`, `m_receivedMessages` under `m_mtx`, two threads | `start`, `startSending`/`sendMsg` (main thread), `startReceiving`/`recvMsg` (second thread), `stop` | clients through PULL (5555) and PUB (5556); `g_quit` |
| Server process, `Server/src/main.cpp`, `global.h` | `g_quit`, `g_isDaemon`, descriptors | argument handling, daemon start-up, signal handler, `print` | the server object, the logger |
| Client object, `Client/src/ZmqChatClient.{h,cpp}` | `m_localQuitFlag`, `m_flIsRunning`, name, address, two threads | `init` (prompts), `startSending`/`sendMessage` (main thread), `startReceiving`/`receiveMessage` (second thread), `stop` | user through `std::cin`/`cout`; server through PUSH and SUB; `g_quit` |
| Client process, `Client/src/main.cpp` | `g_quit` | signal handler, `main` | the client object, the logger |
| Message codec `CChatMessage` | a frame | constructor, `getData` | both client threads |
| Input checks | - | `checkName`, `checkIp`, `checkPort` (never called) | `init` |
| plog (vendored, twice) | log file behind a mutex | `PLOGI` and friends | every thread, the signal handlers |

What is hard in this code, and what makes each part correct:

* **Server.** Two threads race for a queue whose front is edited in place; a
  send can throw between the pop and the publication; the receiving thread can
  throw where nobody catches; the flag can rise at any point of either loop.
  Correct means: no text lost, repeated, reordered or filtered twice; the mutex
  always released; at most one message after the flag; the end of
  `startServer()` reached, after both threads have stopped.
* **Client.** The main thread blocks in `std::getline`, which a signal may or
  may not interrupt and which behaves differently once the input has ended;
  either connection may fail while the other thread is at work; the pipe to the
  server may be full. Correct means: each line sent at most once, in order, or
  accounted for; nothing sent under parameters that were rejected; both threads
  ended before the object they share is destroyed.
* **Both processes.** The signal handlers log before they set the flag, on top of
  any frame of any thread. Correct means: a signal raises the flag, and two
  threads with two mutexes never wait for each other.
* **Start-up.** `-d` forks, changes directory and closes descriptors by number
  after the log was opened. Correct means: one detached server, whose records
  reach the log.
* **Codec and checks.** Frames are taken apart with formatted input over memory
  that does not end where the frame does; addresses are checked by a pattern.
* **Logger.** Threads, processes and crashes meet in one file that is renamed as
  it grows. Correct means: what is kept is the newest part, whole and in order.
* **End to end.** PUB/SUB loses messages for late and slow subscribers;
  connections break and servers restart. Correct means: one conversation, heard
  by all in its order.

`PROJECT.json` lists the hazards one by one, at the line where each bites, with
the properties that cover them.

## Modules

| Module | What it is |
|---|---|
| `FifoRelay` | abstract: what the server promises about texts |
| `ChatServer` | the server object and its process' signal handling; implements `FifoRelay` |
| `ChatClient` | the client object and its process' signal handling |
| `BroadcastLog` | abstract: what the chat promises its users, one conversation |
| `ChatSystem` | clients, the sockets between, `FifoRelay` as the server; faults; implements `BroadcastLog` |
| `SignalLog` | threads, handlers on top of them, the log's mutex and `m_mtx`, for both programs |
| `ChatMessage` | a name and a text from the sender's prompt to the receiver's screen |
| `InputCheck` | `checkIp` and the dialogue around it |
| `DaemonStart` | `main()` of the server: arguments, daemon, descriptors, `print()` |
| `RecordLog` | abstract: what a log of limited size promises |
| `RollingLog` | plog's rolling file appender: threads, processes, files; implements `RecordLog` |
| `LogRecord` | a log statement from the macro to the formatted line |
| `LogAppenders` | several appenders behind a logger, and the colour console |
| `Bytes` | the bytes that `ChatMessage` and `LogRecord` tell apart |
| `ClientText` | `ChatMessage` and `InputCheck` side by side |
| `Logger` | `LogRecord` and `LogAppenders` side by side |
| `Texts` | `Logger` and `ClientText` side by side |
| `ChatServerProofs`, `ChatClientProofs`, `SignalLogProofs`, `ChatSystemProofs`, `ClientTextProofs`, `DaemonStartProofs`, `RollingLogProofs`, `LoggerProofs` | theorems and their proofs |
| `MC...` | values that a `.cfg` cannot write down |

"Side by side" is of two modules that share no state: a behaviour is one of
either while the other rests in its initial state.

How they hang together: `ChatServer` and `ChatClient` are the two programs with
their threads; `SignalLog` is the same two programs reduced to who holds what
and who waits for whom; `ChatSystem` puts clients around the relay that
`ChatServer` was shown to implement. `ChatMessage` and `InputCheck` are the data
the thread models abstract from. `DaemonStart` is what happens around
`startServer()`, and `RollingLog`, `LogRecord` and `LogAppenders` are the logger
below everything.

### ChatServer

The main thread's program counter `mainPc` runs through

    start  spawn  open  loop <-> (lock check pop send)  close  stop  join  end

and the receiving thread's `recvPc` through

    none  open  loop <-> recv <-> (lock push)  done

One action is one flag test, one critical-section entry, one socket call or one
access to the queue, so every interleaving in which the threads see each
other's effects is explored; `sendMsg` is four actions (lock, emptiness test and
in-place edit, pop, send), because what makes it correct is that the mutex spans
them. `aborted` is the process after `std::terminate`. Each exception that can
leave a function is an action or a disjunct with the path it takes:
`std::thread`'s constructor (`Spawn`), `bind` in either thread (`OpenSend`,
`OpenRecv`), an interrupted `send` (`SendThrows`, which unwinds through
`startSending`, the context's destructor and `stop`) and an interrupted `recv`
(`RecvThrows`, possible whether or not a frame is waiting, since `recv` polls
the socket's mailbox in both cases). A string is a text and the number of
filters in front of it. The sockets are external: `pull` is a bounded queue that
stops reading at its high-water mark, PUB never blocks, and the context's
destructor waits for the strings published to leave (`flushed`), since no linger
is set.

`accepted`, `lost` and `pubAtQuit` are history variables no guard reads;
`published` is read by the linger guard (its length only).

### ChatClient

`mainPc` runs through

    name nameCheck  ip ipCheck  spawn  open  loop <-> (getline send)  close  stop  end

and `recvPc` through `none open loop <-> recv done`. `std::getline` is modelled
by what it does on a stdio-backed `std::cin`: it returns a line (perhaps the
last, without a newline, after which the stream is no longer good), it finds the
end of the input or is interrupted (the string is emptied, the stream fails),
or it is called on a failed stream (it returns at once and leaves the string
alone). A signal may hit just before the blocking call, when it interrupts
nothing. Chat lines are numbered as they are typed; a name or an address is
represented by the verdict of its check. The PUSH socket is a pipe that exists
from `connect` on, whether or not the server is there; `SendTimesOut` is
`send()` returning false.

`m_mtx` of the client guards reads of strings that nobody writes once the
threads run, so it has no variable.

### SignalLog

The code of each program is a control flow graph (`ServerCode`, `ClientCode`)
whose edges take or drop one of the two mutexes, test or set `g_quit`, or do
something of no interest. A thread is a stack of frames: a signal pushes a frame
that runs `Handler`, at any point, a wait for a mutex included. `sa_mask` is
empty, so SIGINT may interrupt the handler of SIGTERM and the reverse. The two
`print()` arguments of `sendMsg` are two log records written with `m_mtx` held;
`recvMsg` logs before it takes `m_mtx`. `Holding` says at which labels a frame
holds a mutex; a behaviour begins as one of the programs (`First`), and their
labels are disjoint, so one run covers both. Other locks that a handler's logging
may need are not modelled, above all the heap's: formatting a record allocates,
and a handler that interrupts its thread inside the allocator would wait for that
lock as it does for the log's. `CodeAssumption` relates
`Holding` to the edges and states the two rules that the deadlock theorem needs: nobody
takes `m_mtx` with the log's mutex in hand, and the handler leaves `m_mtx` alone.
Both mutexes are non-recursive; the log's is a `pthread_mutex_t` with default
attributes.

### ChatSystem

    client --PUSH--> pipe --> pull --> relay --> out --SUB--> client

A client is `new`, `on` or `left`; `Say`, `Show`, `Leave` are what its two
threads do from outside (`sendMessage`, `receiveMessage` with `displayMessage`,
`stop` with its linger). `Accept`, `Publish` and `Stop` are the three steps of
`FifoRelay`, that is of `recvMsg`, `sendMsg` and the end of the sending loop.
`Subscribe` is the moment the PUB socket learns of a subscriber: what is
published before, it misses. A pipe that is full drops the line (`sendMessage`
ignores the timeout), a full PULL socket stops reading, a full subscriber is
skipped by PUB. `Disconnect` and `Down` lose frames at the end of each queue at
which they are in flight; `Restart` is a new server process with an empty queue.
A place of `log` is one publication by any server; `heard`, `since` and `missed`
are history.

### ChatMessage, InputCheck

`ChatMessage` follows one user's lines: `EnterName` (the default, the length
limit), `EnterText` (the constructor's join), `Relay` (the server's filter),
`Show` (`getData`). The formatted input of `std::stringstream` is defined on
sequences of bytes (`Word`, `AfterWord`, `AfterByte`, `ReadLine`). The stream is
made from a `char*`, so it ends at the first zero byte (`CString`). `std::getline`
lets a user enter zero bytes, and what is behind the first of them is lost.
A frame itself ends without one, so `Show` appends any bytes of the receiver's memory
(`after`) up to the next one: undefined behaviour as a nondeterministic choice.

`InputCheck` lets a user type an address digit by digit, so that every answer is
reached, and keeps of a finished octet only what it is to the pattern and to a
reader. `Enter` is `checkIp`, `AskAgain` and `GoOn` the loop in `init`, which a
signal may cut short.

### DaemonStart

Two processes, the parent and, after `Fork`, its child, each with a table of
descriptors. The kernel gives out the lowest free number; plog's `File` keeps a
number and `std::cout` writes to number 1, whatever is open there by then. Every
log statement is the whole of `PLOG` (singleton, severity, first write). What
`print()` puts into `std::cout` is written when the buffer is flushed: at any
moment (`Flush`) or at exit. `startServer()` is `Report`, `OpenSocket` and its
ways to end (`Return`, `Catch` with `BadExit`). `stored` and `shown` record where
bytes went. `g_isDaemon` has no variable: nothing sets it.

### RollingLog, LogRecord, LogAppenders

plog is vendored, one copy per program; both copies are the same code, and
`map` points at one or the other. The programs use little of it: one file that is
never renamed, text lines, one appender. `RollingLog` has their configuration and
the rolling one. The CSV lines of `LogRecord`, and all of `LogAppenders` (chained
loggers, the colour console), are code of the repository in configurations that
neither program builds; what is shown of them matters to whoever changes the
call of `plog::init`.

`RollingLog`: a file is a sequence of cells, one per record and one for the
header. `write()` is split at every system call (`Close`, `Unlink`, each
`Rename`, `Open`, `WriteHeader`, `WriteRecord`), each of which may be the last
before `Kill`. All but `close` may fail (`UnlinkFails`, `RenameFails`, `OpenFails`,
`WriteFails`), and the write of a record may be short (`WriteShort`: the cell is
there, but not `whole`). The code ignores the results of `unlink` and `rename`:
after a failed one the next rename overwrites a file in the middle of the log, or
the file at number 0 is opened again and grows. `unmoved` counts such files;
`RecordLog` promises the newest records only while there are none (`sound`), and
`SizeBounded` allows a record for each. A process writes at its own offset, since the file is not
opened for appending, and has its own mutex. `m_maxFiles`, the number of files
the logger is given, is chosen at the start: both programs give 0, one file that
is never renamed; with 4 the appender rolls.

`LogRecord`: `PLOG`, `Stream` and `Write` are the three parts of a statement,
interleaved between threads. A text is a sequence of bytes, a name or number one
byte; the CSV formatter doubles quotes and cuts long messages as the code does,
and the property reads lines back with a CSV reader of its own.

`LogAppenders`: `operator+=` hands a record to one appender after the other; one
of them is a second logger with its own limit. The console's `write` is three
steps under its mutex.

## Runs

| Run | Question | Bounds | Result |
|---|---|---|---|
| `server_safety` | Are texts, mutex, filter and shutdown right under every interleaving, signal and exception? Does a signal, or a failed start, end the server? Does it implement `FifoRelay`, with its progress? | 2 texts and the empty frame, 3 frames, high-water mark 2 | holds |
| `server_terminates` | Is every exception of the server caught, as `startServer`'s `catch ( ... )` says? | 1 frame | violated |
| `client_safety` | Are lines, prompts and shutdown right under every interleaving, signal, end of input and failure? Does a signal, a failed connection, the end of the send loop end the client? | 4 lines, 2 frames, pipe of 2 | holds |
| `client_flag` | Does setting the flag end the loops, as the constructor's comment says? | 1 line, 1 frame, pipe of 1 | violated |
| `client_stop` | Does `stop()` stop the loops, as its comment says? | 1 line, 1 frame, pipe of 1 | violated |
| `client_reports` | Is every line sent or reported as failed? | 3 lines, pipe of 2 | violated |
| `signals` | Can the threads of a program block each other? Does a signal raise the flag, and the flag end the loops? | both programs, 3 signals | holds |
| `system_faults` | Is there one conversation, whatever fails? Does a subscriber that keeps up miss nothing? Is a line shown to everybody who keeps up? | 2 clients, 2 lines and 1, 1 fault, sockets of 1 | holds |
| `daemon_start` | Do all records go to one log, if it could be opened, and nowhere else? Is the daemon detached and alone, and its terminal and log spared what it prints? | descriptors 0 to 5 | holds |
| `daemon_prints` | Does a daemon print nothing, as the comment of `print` says? | descriptors 0 to 5 | violated |
| `log_rolls` | What is kept of the log when calls fail, writes are short and the process is killed: is it in order, the newest part, long enough, and all of it if the file is never renamed? Do sizes stay in bounds? | 2 threads, 3 records each, 1 file or 4 files of 1 record, 2 kills, 1 failed call or short write | holds |
| `texts` | Do concurrent log statements keep apart, does every message read back from a CSV log, does every record get its own colour and the console its records? What of a client's names and texts is sure to arrive? Does `checkIp` accept just the dotted quads? | 2 threads; 1 statement of 3 operands of 7 kinds, limit 2, beside 2 plain ones; 2 records each, 4 severities; names and texts of 3 bytes, 2 letters, 1 byte behind the frame; octets of 4 digits, 4 dots | holds |

Type invariants are checked where threads or processes share variables; the
modules about data (`ChatMessage`, `InputCheck`, `LogRecord`, `LogAppenders`) have
properties of their results instead.

**Bounds.** `MaxFrames`, `MaxLines` bound what the environment does in one
behaviour, `PullHwm` and `SndHwm` are the sockets' limits. Three frames make the
queue, the hand of a thread and the PULL socket non-empty at once; the
high-water marks are smaller than the number of frames or lines, so the full
socket occurs. Two texts tell a repetition from two equal messages.

Three signals put a handler on top of a handler on one thread while the other
has one too, which is as deep as two signal numbers allow on one thread. In
`ChatSystem` every queue is one frame long, so each is full as soon as it is
used, and the three lines of two clients overfill all of them; the fault may come
at any point of that. A name of three bytes can hold a space inside, in front, at
the end, or nothing but spaces, and so can a text. Four digits and four dots are
one more than an address has; the octets behind a dot are kept as verdicts, so
all combinations are covered. Six descriptors hold the three standard ones, the
log and two sockets. In `RollingLog` six records fill four files of one and
make the appender delete the oldest twice; with four, a rename that fails can make
the next one overwrite a file in the middle; two kills let a crash hit the
recovery from a crash.
In `Logger` one thread puts three operands in a row, of each kind that can upset
a CSV line, into a message that is cut after the second byte, while the other
logs twice.

**Fairness.** `FairSpec` gives each thread weak fairness (the operating system
schedules runnable threads) and lets published or sent strings leave the
process (no subscriber or server stalls for ever; without that the infinite
linger may wait for ever by design). The progress part of `RelaySpec` is stated
under `LockFairness`, strong fairness of the two lock operations: `std::mutex`
promises no fairness, and the sending loop polls it without a pause, so progress
of the receiving thread really rests on this assumption.
`UserFairSpec` adds a user who keeps answering prompts; `client_flag` shows what
happens without one. `SignalLog`'s `FairSpec` is strong fairness of each thread:
the scheduler runs it and the mutexes starve nobody; `CalmSpec` adds that the
receiving thread finds the socket empty some day: the drain loop of `recvMsg`
tests no flag, and under load that never ceases it would go on for ever. `ChatSystem`'s `FairSpec` gives the server its two steps
and each client its connection (strong, since a full PULL socket blocks it again
and again) and its receiving thread. No fairness is assumed of signals,
arrivals, new lines, subscriptions or failures.

**What the violations show.**

* `server_terminates`: an exception of the receiving thread (the port is taken,
  `recv` interrupted) is not caught by `startServer()` and ends the process.
* `client_flag`: the quit flag does not end the send loop while the main thread
  is in `std::getline`, neither when the other thread handles the signal nor
  when it arrives just before the read.
* `client_stop`: `stop()` sets no flag, so after an exception of
  `startSending()` the destructor waits for a receiving thread that loops on.
* `daemon_prints`: nothing sets `g_isDaemon`, so `print()` writes to `std::cout` in
  the daemon, too, whose descriptor 1 is closed at first and then belongs to
  whatever is opened next, a socket of ZeroMQ.
* `client_reports`: a line that meets a full pipe is dropped after 10 ms and
  logged as `send: ok`.

**What the properties leave open.** Some conditions of the passing properties
are there because the code does not do without them:

* The client's `QuitLeadsToEnd` and `FailureLeadsToEnd` rest on a user who keeps
  pressing Enter and on frames that stop coming: the model has `MaxFrames` of them.
  `receiveMessage` tests no flag while it drains the socket, so frames that come
  faster than it shows them for ever would keep its thread there. The server's
  properties of this kind rest on finitely many frames, too.
* `RelaySpec` promises progress under `LockFairness`, which assumes away that the
  sending loop keeps the mutex from the receiving thread.
* `SignalRaisesFlag` and `FlagEndsLoops` except a handler that interrupts its
  thread inside the logger. The handlers log before they store the flag
  (`main.cpp:30` of the server, `:21` of the client), so such a handler waits for
  a mutex its own thread holds: the flag stays unset and the thread hangs.
  `StuckOnlyByHandler` says that nothing else in the use of these two mutexes can
  block the threads for good. Of other locks, as the heap's, it says nothing.
* `FlagEndsLoops` holds under `CalmSpec` only (see above), so it does not show that
  the flag ends a receiving thread under load that never ceases; it would not.
* `OneWordNameShown` is about names of one word: `checkName` accepts white space, and
  `getData` takes the first word for the name. Frames are read as C strings, so
  bytes behind the frame may be shown as part of the message, and what is behind
  a zero byte in a name or a text is lost: both properties speak of what is in
  front of it.
* `AcceptsExactlyAddresses` reads octets as decimal numbers. The resolver of the
  C library reads one with a leading zero, which the pattern accepts, to the base
  of 8. `checkPort`, which nothing calls, returns true for every number.
* `RecordsReachLog` says what the first record decides for good: if its open of the
  log succeeds, every record of both processes reaches that file; if it fails, the
  code never tries again and all are lost. It is checked for a server started from
  a terminal. If one of
  the descriptors 0 to 2 is closed at the start, the log file gets its number and
  the daemon closes it.
* `PrintsSpareTerminalAndLog` says of a daemon's prints where they do not go. They
  may go into a socket of ZeroMQ, as `daemon_prints` shows.
* `SizeBounded` and `KeepsNewest` allow for files that could not be deleted or
  renamed: each may grow by a record more, or be overwritten by the next rename.
* `KeepsEnough` and `KeepsNewest` are checked for one process. The log file is not
  opened for appending: two servers in one directory overwrite each other's
  records.

Each property of a passing run has a mutant in its module
(`<Action>_<WhatIsWrong>`): the action as a plausible bug would have it. None of
them is part of the specification.

## Proofs

`ChatServerProofs` proves the safety properties that `server_safety` checks,
for every set of texts, every number of frames and every high-water mark, from
`ServerAssumption` alone (the empty frame is not a text; the bounds are naturals;
the high-water mark is positive), and that the server implements the safety part
of `FifoRelay`. The properties are not inductive as they stand; the inductive
invariants are layered, each layer using those below it:

1. `TypeInv`: the types, and the queue is not empty between the emptiness test
   and the pop (only the main thread takes strings out).
2. `ControlInv`: mutual exclusion; `std::terminate` stops both threads at once;
   the receiving thread does not exist before `Spawn`.
3. `HandInv`: a thread holds a string exactly between taking it and handing it
   on.
4. `FilterInv`: `FilteredOnce`, and the filters of the strings in hand. It needs
   mutual exclusion: the statement about the queue speaks of its first element
   while the main thread is at `pop`, and a push then would have to be told apart.
5. `OrderInv`: `RelayedInOrder`, and a send is only broken after `g_quit` was
   set. Each move of a string shifts the brackets of one concatenation
   (`Regroup`).
6. `QuitInv`: after the flag, either nothing was published, or one string was
   and the main thread is out of `sendMsg`.
7. `EndInv`: `m_flIsWorking` is still set when `stop()` is called, so the join
   happens; the PUB socket is empty from `stop` on.

`ServerRefinesRelay` follows from 1, 3 and 5: `SendPublish` is `Relay`, a
non-empty `RecvFrame` is `Accept`, the steps by which sending ends are `Close`,
all others change nothing the relay speaks of.

`ChatClientProofs` proves the five safety properties that `client_safety`
checks, for every number of lines and frames and every high-water mark, from
`ClientAssumption` (the bounds are naturals, the high-water mark is positive).
`TypeOK` is inductive as it stands; the others need:

1. `CheckedInv`: without `g_quit` the parameters are valid beyond their prompts;
   a main thread about to read or send a line has valid ones; nothing has been
   sent while they can still change.
2. `QuitInv`: a main thread about to read or send a line saw the flag unset, so
   nothing was sent since it rose.
3. `EndInv`: `m_flIsRunning` is set whenever there is a receiving thread, so
   that `stop()` joins it; the pipe is empty outside the life of the socket.
4. `PlacesInv`: the lines typed are split, without overlap, among sent, dropped,
   reported and in hand, and the line in hand is the last one typed, which is
   why sending it keeps the order. `SplitCardinality` turns the split into the
   count that `SentOnceInOrder` states.

The two facts that make a queue between two threads harmless, that taking from
its head and putting at its end leave the concatenation in order, are the lemmas
`TakeKeeps` and `PutAppends`.

`SignalLogProofs` proves `TypeOK`, `OneHolder` and `StuckOnlyByHandler` from
`CodeAssumption`, for any code that keeps its rules, hence for both programs and
any number of signals. `OneHolder` needs that a frame under another one does not
move, so what it holds stays held; `StuckOnlyByHandler` follows from it: if
nobody can move, look at a thread that waits for the log's mutex. Its holder's
running frame does not wait for `m_mtx` (a rule), so it waits for the log's mutex
itself, and holds it in a frame below: a handler on top of its own logging
thread.

`ChatSystemProofs` proves `TypeOK`, `NoGapSinceSubscribed` and the refinement
`ConversationSpec` of `ChatSystem`, for every set of clients and every bound, with
any number of faults. For the second, the invariant says of each subscriber that
has missed nothing that its shown and coming lines end with the places
`since + 1 .. Len(log)`; `Publish` extends both sides by one place, or puts the
subscriber among those that missed one, and a step that shortens `out` also ends
the subscription. For the refinement it says where the lines are: those of one
client in its pipe, in the PULL socket and in the server's hands are in the order
in which they were said and come after all of its lines in the log, and what
comes to a subscriber are places of the log, in its order and behind the last one
shown. A fault or a drop takes lines out of this order and moves none.

`ClientTextProofs` proves the three properties of `ClientText` that `texts` checks
for texts of any length over any bytes, without an assumption.

* `OneWordNameShown` and `NoWordLost`. `MessageInv` keeps that name and text have no
  line break, and that the frame is made of them. The rest is about sequences:
  what a C string keeps is what is entered up to its first zero byte, and all of it
  and then something of what is behind the frame if there is none (`CutsAt`,
  `DataIs`); a sequence is white space, a word and a rest in one way only
  (`SplitsOnce`, `OneWord`), so a name of one word is read as it is; a line is read
  up to the first line break, so what is read begins with all that was entered
  (`BeginsWith`). `WordsShown` puts this together for any name: behind the white
  space in front of its first word, what was entered and what is shown differ in
  one byte at most, white space in both, so no word is lost or runs into the next.
* `AcceptsExactlyAddresses`. `AddressInv` says that the verdicts kept of the
  octets are those of what was typed; `RangeIsOctet` goes through the
  alternatives of the pattern and compares them with the value of the digits.

`DaemonStartProofs` proves the four properties of `daemon_start`, for any number
of descriptors. `Given` is the set of those open at the start.

* `TypeOK` and `ServesDetached` need nothing of `Given`: `Route` says which
  statements of `main()` a process may be at, as the parent or as the child, and
  what has been done to its session and directory by then; `StartInv` adds what
  its descriptors may be.
* `RecordsReachLog` and `PrintsSpareTerminalAndLog` are for `Given = 0 .. 2`, a server
  started from a terminal; the first is false without that (see above). `KeepsLog`
  says that the log's file has a number above 2, which a daemon does not close,
  and keeps it to the end of each process; `KeepsQuiet`, that what the child has
  printed waits for a descriptor that is closed or a socket's. Both rest on the
  kernel's choice of the lowest free number, whose existence is `LeastNumber`.

`RollingLogProofs` proves the properties of `log_rolls`, for any threads, limits,
numbers of files, failed calls, short writes and kills. `TypeOK` holds for any number of
processes, too. The others have the hypothesis `Process = {p}`, that one process
writes at a time, starting again after each kill: two at a time overwrite each
other's records (see above), and their theorems would be false. `log_rolls`
makes the same choice.

* `SizeBounded`: a write looks at the size first, unless it is the first one
  after a start, hence the record for each kill; and renaming frees number 0, so
  that the file opened after it is a new one, unless a file could not be moved,
  hence the record for each of those (`SizeInv`, `Turns`).
* `KeepsEnough` and `KeepsNewest`: `PlaceInv` says that no file has two
  numbers, that a process with the file open stands at its end, and that a rename
  finds its new number free unless a file could not be moved. `FullInv` says that a
  log that is never renamed has everything, and that of any other, as long as
  nothing has failed, only full files have been renamed and the numbers are given
  without a gap but for the one (`Hole`) that moves down while files change theirs;
  so nothing is lost before all are given. What is kept is the
  concatenation of the files from the oldest to the newest (`Joined`), so a
  record written extends it (`JoinedGrows`), a rename to a free number leaves it
  alone, since it moves a file into a gap beside it (`JoinedShifts`), `unlink` cuts
  it at the front (`JoinedDrops`), and a rename onto another file cuts that one out
  of the middle (`JoinedLacks`), which only happens when one could not be moved:
  each step is one of `RecordLog` or a stutter.
* Facts about `Joined` for every number of files are an induction. The library's
  theorem for it has an operator as a parameter, which the provers cannot
  instantiate, so `Downwards` (and `Upwards` in `ClientTextProofs`) derives what is
  needed from the well-foundedness of the naturals: a set of numbers without a
  least missing element misses none.

`LoggerProofs` proves the four properties of `Logger` that `texts` checks, for any threads, texts,
severities and bounds. `ThreadOrder` rests on `OrderInv`:
the record a thread has in hand is that of its last statement, and each line of
the thread in the log is of an earlier one, or of this one once the record is out
of its hands. `OwnColor` rests on `ColorInv`: the colour of the terminal differs
from the plain one only while a thread holds the console's mutex, and is that of
its record when it is shown. `SameRecords` rests on what each appender has been
given of a record under way (`GivenInv`, `FileInv`, `ShownInv`).

`ReadsBack` says that a line of a CSV log reads back as its record. The reader
is a fold over the line (`Reads`, from a state to a state), which composes along
concatenation (`ReadsConcat`), so each piece of the line is read on its own: the
fixed head (`ReadsHead`), names (`ReadsPlain`), and the quoted message, whose
doubled quotes are read as single ones inside quotes whatever stands around them
(`ReadsQuoted`). The formatter's own fold is met by `Upwards`, byte by byte.
`CsvInv` pairs the lines of the file with the records behind them. It rests on
`StatementAssumption`: severities are plog's, and neither a thread's number nor
the name of a function that logs has a quote or a semicolon. The formatter writes
both as they are; numbers are decimal and the names are identifiers of C++, so
the code warrants it (the exception, a literal operator `operator""`, is nowhere
in the two programs).

Only model-checked are the liveness properties and the progress part of
`RelaySpec`, which are beyond the proof system.

## Not modelled

`checkPort`, which has no caller: its prompt is in a comment.

The wording of prompts, log lines and terminal sequences; the ports, which are
constants of the program; the TCP layer below the sockets' queues; the build
files. Of plog: the branches for Windows, Android and other systems (`WinApi.h`,
`EventLogAppender`, `DebugOutputAppender`, `AndroidAppender`), which these builds
do not compile; wide characters and their conversion; `printf` into a record;
changing severity or limits at run time; UTC; the formatters `FuncMessage` and
`MessageOnly`, which nothing here uses. Failures of memory allocation are not
modelled anywhere; failures of thread and socket creation, and of the log's
system calls, are.
