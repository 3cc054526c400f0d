----------------------------- MODULE ChatSystem -----------------------------
(***************************************************************************)
(* The whole chat: clients, the server as the relay ChatServer implements, *)
(* and the ZeroMQ sockets between them.                                    *)
(*                                                                         *)
(*   client --PUSH--> pipe --> pull --> relay --> out --SUB--> client      *)
(*                                                                         *)
(* pipe and out stand for everything between two sockets: their own pipes  *)
(* and the TCP connection.  ZeroMQ reconnects by itself and says nothing.  *)
(* When a connection breaks, the frames nearest the receiver are lost on   *)
(* the way to the server (they had left the client's pipe) and those       *)
(* nearest the sender on the way back (they had not reached the client).   *)
(***************************************************************************)
EXTENDS Naturals, Sequences

CONSTANTS Client,
          MaxLines,    \* bound, per client: lines it types
          MaxFaults,   \* bound: broken connections and server ends
          SndHwm,      \* frames a PUSH socket and its connection hold
          PullHwm,     \* frames the PULL socket holds
          SubHwm       \* frames held for one subscriber

ASSUME SystemAssumption ==
  /\ MaxLines \in [Client -> Nat] /\ MaxFaults \in Nat
  /\ SndHwm \in Nat /\ PullHwm \in Nat /\ SubHwm \in Nat

VARIABLES
  client,     \* per client: "new", "on" or "left"
  said,       \* per client: lines typed
  pipe,       \* per client: lines on their way to the server
  up,         \* whether a server process exists
  pull,       \* lines in the server's PULL socket
  accepted, relayed, closed,     \* the relay inside the server
  subscribed, \* clients the PUB socket knows
  out,        \* per client: places of the log on their way to it
  faults,
  \* History variables, read by no guard.
  log,        \* lines published, by all servers
  heard,      \* per client: places of the log it was shown
  since,      \* per client: Len(log) when it last subscribed
  missed      \* clients that missed a line since they last subscribed

relay == <<accepted, relayed, closed>>
clients == <<client, said, heard>>
vars == <<clients, pipe, up, pull, relay, subscribed, out, faults, log, since,
          missed>>

Line == [from : Client, n : Nat \ {0}]

Server == INSTANCE FifoRelay WITH Message <- Line

\* Accepted by this server and not yet published.
Waiting == SubSeq(accepted, Len(relayed) + 1, Len(accepted))

Init ==
  /\ client = [c \in Client |-> "new"]
  /\ said = [c \in Client |-> 0]
  /\ pipe = [c \in Client |-> <<>>]
  /\ up = TRUE
  /\ pull = <<>>
  /\ Server!Init
  /\ subscribed = {}
  /\ out = [c \in Client |-> <<>>]
  /\ faults = 0
  /\ log = <<>>
  /\ heard = [c \in Client |-> <<>>]
  /\ since = [c \in Client |-> 0]
  /\ missed = {}

-----------------------------------------------------------------------------
(* Clients.                                                                *)

Start(c) ==
  /\ client[c] = "new"
  /\ client' = [client EXCEPT ![c] = "on"]
  /\ UNCHANGED <<said, heard, pipe, up, pull, relay, subscribed, out, faults,
                 log, since, missed>>

\* sendMessage: a line that finds the pipe full for the whole of the send
\* timeout is dropped.
Say(c) ==
  /\ client[c] = "on"
  /\ said[c] < MaxLines[c]
  /\ said' = [said EXCEPT ![c] = @ + 1]
  /\ pipe' = IF Len(pipe[c]) < SndHwm
             THEN [pipe EXCEPT ![c] = Append(@, [from |-> c, n |-> said[c] + 1])]
             ELSE pipe
  /\ UNCHANGED <<client, heard, up, pull, relay, subscribed, out, faults, log,
                 since, missed>>

\* receiveMessage and displayMessage.
Show_OwnLinesHidden(c) ==
  /\ client[c] = "on"
  /\ out[c] # <<>>
  /\ heard' = IF log[Head(out[c])].from = c THEN heard
              ELSE [heard EXCEPT ![c] = Append(@, Head(out[c]))]
  /\ out' = [out EXCEPT ![c] = Tail(@)]
  /\ UNCHANGED <<client, said, pipe, up, pull, relay, subscribed, faults, log,
                 since, missed>>
Show(c) ==
  /\ client[c] = "on"
  /\ out[c] # <<>>
  /\ heard' = [heard EXCEPT ![c] = Append(@, Head(out[c]))]
  /\ out' = [out EXCEPT ![c] = Tail(@)]
  /\ UNCHANGED <<client, said, pipe, up, pull, relay, subscribed, faults, log,
                 since, missed>>

\* The client ends: its sending context waits for the pipe, its receiving one
\* forgets what it was not shown.
Leave(c) ==
  /\ client[c] = "on"
  /\ pipe[c] = <<>>
  /\ client' = [client EXCEPT ![c] = "left"]
  /\ subscribed' = subscribed \ {c}
  /\ out' = [out EXCEPT ![c] = <<>>]
  /\ UNCHANGED <<said, heard, pipe, up, pull, relay, faults, log, since, missed>>

-----------------------------------------------------------------------------
(* Sockets.                                                                *)

\* The subscription of a connecting or reconnecting client reaches the server.
Subscribe(c) ==
  /\ client[c] = "on"
  /\ up
  /\ c \notin subscribed
  /\ subscribed' = subscribed \cup {c}
  /\ since' = [since EXCEPT ![c] = Len(log)]
  /\ missed' = missed \ {c}
  /\ UNCHANGED <<clients, pipe, up, pull, relay, out, faults, log>>

\* A line reaches the PULL socket, which reads no more at its high-water mark.
Deliver_NoLimit(c) ==
  /\ up
  /\ pipe[c] # <<>>
  /\ pull' = Append(pull, Head(pipe[c]))
  /\ pipe' = [pipe EXCEPT ![c] = Tail(@)]
  /\ UNCHANGED <<clients, up, relay, subscribed, out, faults, log, since, missed>>
Deliver(c) ==
  /\ up
  /\ pipe[c] # <<>>
  /\ Len(pull) < PullHwm
  /\ pull' = Append(pull, Head(pipe[c]))
  /\ pipe' = [pipe EXCEPT ![c] = Tail(@)]
  /\ UNCHANGED <<clients, up, relay, subscribed, out, faults, log, since, missed>>

-----------------------------------------------------------------------------
(* Server.                                                                 *)

\* recvMsg, as the relay sees it.
Accept ==
  /\ up
  /\ pull # <<>>
  /\ Server!Accept(Head(pull))
  /\ pull' = Tail(pull)
  /\ UNCHANGED <<clients, pipe, up, subscribed, out, faults, log, since, missed>>

\* sendMsg, as the relay sees it, and the PUB socket: one copy for each
\* subscriber it knows, none for one that is at its high-water mark.
Publish_DropsForAll ==
  LET slow == {c \in subscribed : Len(out[c]) >= SubHwm} IN
  /\ up
  /\ Server!Relay
  /\ log' = Append(log, relayed'[Len(relayed')])
  /\ out' = [c \in Client |-> IF c \in subscribed /\ slow = {}
                              THEN Append(out[c], Len(log')) ELSE out[c]]
  /\ missed' = missed \cup slow
  /\ UNCHANGED <<clients, pipe, up, pull, subscribed, faults, since>>
Publish ==
  LET slow == {c \in subscribed : Len(out[c]) >= SubHwm} IN
  /\ up
  /\ Server!Relay
  /\ log' = Append(log, relayed'[Len(relayed')])
  /\ out' = [c \in Client |-> IF c \in subscribed \ slow
                              THEN Append(out[c], Len(log')) ELSE out[c]]
  /\ missed' = missed \cup slow
  /\ UNCHANGED <<clients, pipe, up, pull, subscribed, faults, since>>

\* The sending loop of the server ends.
Stop ==
  /\ up
  /\ Server!Close
  /\ UNCHANGED <<clients, pipe, up, pull, subscribed, out, faults, log, since,
                 missed>>

\* A new server process binds the same ports.
Restart_KeepsRelay ==
  /\ ~up
  /\ up' = TRUE
  /\ accepted' = accepted /\ relayed' = <<>> /\ closed' = FALSE
  /\ UNCHANGED <<clients, pipe, pull, subscribed, out, faults, log, since, missed>>
Restart ==
  /\ ~up
  /\ up' = TRUE
  /\ accepted' = <<>> /\ relayed' = <<>> /\ closed' = FALSE
  /\ UNCHANGED <<clients, pipe, pull, subscribed, out, faults, log, since, missed>>

-----------------------------------------------------------------------------
(* Faults.                                                                 *)

\* k frames of s are lost at its front, or all but the first k.
LoseFirst(s, k) == SubSeq(s, k + 1, Len(s))
KeepFirst(s, k) == SubSeq(s, 1, k)

\* The connections of c break; its sockets will connect again.
Disconnect(c) ==
  /\ faults < MaxFaults
  /\ client[c] = "on"
  /\ faults' = faults + 1
  /\ \E k \in 0 .. Len(pipe[c]) : pipe' = [pipe EXCEPT ![c] = LoseFirst(@, k)]
  /\ \E k \in 0 .. Len(out[c]) : out' = [out EXCEPT ![c] = KeepFirst(@, k)]
  /\ subscribed' = subscribed \ {c}
  /\ UNCHANGED <<clients, up, pull, relay, log, since, missed>>

\* The server process ends, killed at any point or after Stop: all it holds is
\* gone and all connections break.
Down ==
  /\ up
  /\ faults < MaxFaults
  /\ faults' = faults + 1
  /\ up' = FALSE
  /\ pull' = <<>>
  /\ \E k \in [Client -> 0 .. SndHwm] :
       /\ \A c \in Client : k[c] <= Len(pipe[c])
       /\ pipe' = [c \in Client |-> LoseFirst(pipe[c], k[c])]
  /\ \E k \in [Client -> 0 .. SubHwm] :
       /\ \A c \in Client : k[c] <= Len(out[c])
       /\ out' = [c \in Client |-> KeepFirst(out[c], k[c])]
  /\ subscribed' = {}
  /\ UNCHANGED <<clients, relay, log, since, missed>>

-----------------------------------------------------------------------------

Next ==
  \/ \E c \in Client : \/ Start(c) \/ Say(c) \/ Show(c) \/ Leave(c)
                       \/ Subscribe(c) \/ Deliver(c) \/ Disconnect(c)
  \/ Accept \/ Publish \/ Stop \/ Restart \/ Down

Spec == Init /\ [][Next]_vars
\* Connected and running, the sockets and both programs do their work.
FairSpec ==
  /\ Spec
  /\ WF_vars(Accept) /\ WF_vars(Publish)
  /\ \A c \in Client : SF_vars(Deliver(c)) /\ WF_vars(Show(c))

-----------------------------------------------------------------------------
(* Properties.                                                             *)

\* Every variable has its type, and no queue between two sockets exceeds what
\* the sockets hold.
TypeOK ==
  /\ client \in [Client -> {"new", "on", "left"}]
  /\ said \in [Client -> Nat]
  /\ \A c \in Client : said[c] <= MaxLines[c]
  /\ pipe \in [Client -> Seq(Line)]
  /\ \A c \in Client : Len(pipe[c]) <= SndHwm
  /\ up \in BOOLEAN /\ closed \in BOOLEAN
  /\ pull \in Seq(Line) /\ Len(pull) <= PullHwm
  /\ accepted \in Seq(Line) /\ relayed \in Seq(Line)
  /\ Len(relayed) <= Len(accepted)
  /\ subscribed \in SUBSET Client
  /\ log \in Seq(Line)
  /\ out \in [Client -> Seq(Nat)]
  /\ \A c \in Client : Len(out[c]) <= SubHwm
  /\ heard \in [Client -> Seq(Nat)]
  /\ since \in [Client -> 0 .. Len(log)]
  /\ missed \in SUBSET Client
  /\ faults \in 0 .. MaxFaults

\* A subscriber that kept up since it last connected was, or will be, shown
\* every line published since then, in a row: what other subscribers do, fall
\* behind, leave or lose their connections, costs it nothing.
Shown(c) == heard[c] \o out[c]
NoGapSinceSubscribed ==
  \A c \in subscribed \ missed :
    LET new == Len(log) - since[c]
    IN /\ Len(Shown(c)) >= new
       /\ \A i \in 1 .. new : Shown(c)[Len(Shown(c)) - new + i] = since[c] + i

\* Nobody but the faults takes a sent line from a subscriber that keeps up, its
\* author included.
InPipe(c, n) == \E i \in DOMAIN pipe[c] : pipe[c][i].n = n
Heard(d, c, n) == \E i \in DOMAIN heard[d] : log[heard[d][i]] = [from |-> c, n |-> n]
EveryLineHeard ==
  \A c, d \in Client : \A n \in 1 .. MaxLines[c] :
    InPipe(c, n) /\ d \in subscribed ~>
      Heard(d, c, n) \/ d \in missed \/ client[d] = "left" \/ faults > 0 \/ closed

-----------------------------------------------------------------------------
\* Clients, sockets and server together keep one conversation.

Conversation == INSTANCE BroadcastLog
ConversationSpec == Conversation!Spec

=============================================================================
