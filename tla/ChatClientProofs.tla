-------------------------- MODULE ChatClientProofs --------------------------
(***************************************************************************)
(* The safety properties of ChatClient, for every number of lines and      *)
(* frames and every high-water mark.                                       *)
(***************************************************************************)
EXTENDS ChatClient, SequenceTheorems, FiniteSetTheorems, TLAPS

-----------------------------------------------------------------------------
(* Queues between two threads.                                             *)

\* An element moves from the head of a queue to the end of the sequence of the
\* elements taken out: the two together stay the same.
LEMMA TakeKeeps ==
  ASSUME NEW S, NEW w \in Seq(S), NEW p \in Seq(S), p # <<>>
  PROVE  Append(w, Head(p)) \o Tail(p) = w \o p
<1>1. Len(p) \in Nat \ {0} /\ Head(p) \in S /\ Head(p) = p[1]
  BY EmptySeq, HeadTailProperties
<1>2. PICK h, t : h = <<p[1]>> /\ t = SubSeq(p, 1 + 1, Len(p))
  OBVIOUS
<1>3. p = h \o t /\ Tail(p) = t
  BY <1>1, <1>2, SubSeqRecursiveFirst, SubSeqFull, TailIsSubSeq
<1>4. h \in Seq(S) /\ t \in Seq(S)
  BY <1>1, <1>2, <1>3, HeadTailProperties
<1>5. (w \o h) \o t = w \o (h \o t)
  BY <1>4, ConcatAssociative, SMTT(30)
<1>6. Append(w, Head(p)) = w \o h
  BY <1>1, <1>2, AppendIsConcat
<1>7. QED
  BY <1>3, <1>5, <1>6

\* An element put into the queue comes after all the others.
LEMMA PutAppends ==
  ASSUME NEW S, NEW w \in Seq(S), NEW p \in Seq(S), NEW e \in S
  PROVE  w \o Append(p, e) = Append(w \o p, e)
<1>1. PICK c, d : c = <<e>> /\ d = w \o p
  OBVIOUS
<1>2. c \in Seq(S) /\ d \in Seq(S)
  BY <1>1, ConcatProperties
<1>3. Append(d, e) = d \o c /\ Append(p, e) = p \o c
  BY <1>1, <1>2, AppendIsConcat
<1>4. (w \o p) \o c = w \o (p \o c)
  BY <1>2, ConcatAssociative, SMTT(30)
<1>5. QED
  BY <1>1, <1>3, <1>4

-----------------------------------------------------------------------------
(* The type invariant.                                                     *)

\* The lines sent are a sequence of lines typed, and what a step of the network
\* or of sendMessage makes of it.
LEMMA SentType ==
  ASSUME TypeOK
  PROVE  Sent \in Seq(1 .. typed) /\ Len(Sent) \in Nat
<1>1. wire \in Seq(1 .. typed) /\ pipe \in Seq(1 .. typed)
  BY DEF TypeOK
<1>2. Sent \in Seq(1 .. typed)
  BY <1>1, ConcatProperties DEF Sent
<1>3. QED
  BY <1>2, LenProperties

LEMMA DeliverSent ==
  ASSUME TypeOK, Deliver
  PROVE  Sent' = Sent
<1>1. wire \in Seq(1 .. typed) /\ pipe \in Seq(1 .. typed) /\ pipe # <<>>
  BY DEF TypeOK, Deliver
<1>2. QED
  BY <1>1, TakeKeeps DEF Deliver, Sent

LEMMA QueuedSent ==
  ASSUME TypeOK, SendQueued
  PROVE  Sent' = Append(Sent, inputStr) /\ Len(Sent') = Len(Sent) + 1
<1>1. /\ wire \in Seq(1 .. typed) /\ pipe \in Seq(1 .. typed)
      /\ inputStr \in 1 .. typed
  BY DEF TypeOK, SendQueued
<1>2. Sent' = Append(Sent, inputStr)
  BY <1>1, PutAppends DEF SendQueued, Sent
<1>3. Sent \in Seq(1 .. typed)
  BY SentType
<1>4. QED
  BY <1>1, <1>2, <1>3, AppendProperties

\* TypeOK is inductive as it stands.
LEMMA TypeInvariant == Spec => []TypeOK
<1>1. Init => TypeOK
  <2> SUFFICES ASSUME Init
               PROVE  TypeOK
    OBVIOUS
  <2>1. /\ pipe \in Seq(1 .. typed) /\ Len(pipe) = 0
        /\ wire \in Seq(1 .. typed) /\ Len(wire) = 0
    BY EmptySeq DEF Init
  <2>2. Len(Sent) = 0
    BY DEF Init, Sent
  <2>3. /\ Len(pipe) <= SndHwm
        /\ typed \in 0 .. MaxLines /\ inputStr \in 0 .. typed
        /\ frames \in 0 .. MaxFrames /\ sub \in 0 .. frames
        /\ sentAtQuit \in 0 .. Len(Sent)
    BY <2>1, <2>2, ClientAssumption DEF Init
  <2>4. QED
    BY <2>1, <2>3 DEF Init, TypeOK, MainPcs, RecvPcs, Threads
<1>2. TypeOK /\ [Next]_vars => TypeOK'
  <2> SUFFICES ASSUME TypeOK, [Next]_vars
               PROVE  TypeOK'
    OBVIOUS
  <2> USE DEF TypeOK, MainPcs, RecvPcs, Threads
  <2>1. CASE TypeName
    BY <2>1 DEF TypeName, Answered, flags, incoming, outgoing, Sent
  <2>2. CASE TypeIp
    BY <2>2 DEF TypeIp, Answered, flags, incoming, outgoing, Sent
  <2>3. CASE TypeLine
    <3>1. typed' \in 0 .. MaxLines /\ typed <= typed' /\ inputStr' \in 0 .. typed'
      BY <2>3, ClientAssumption DEF TypeLine
    <3>2. 1 .. typed \subseteq 1 .. typed'
      BY <3>1
    <3>3. pipe' \in Seq(1 .. typed') /\ wire' \in Seq(1 .. typed')
      BY <2>3, <3>2, SeqMonotonic DEF TypeLine, outgoing
    <3>4. dropped' \cup failed' \subseteq 1 .. typed'
      BY <2>3, <3>2 DEF TypeLine, outgoing
    <3>5. QED
      BY <2>3, <3>1, <3>3, <3>4
         DEF TypeLine, Answered, flags, params, incoming, outgoing, Sent
  <2>4. CASE NoName
    BY <2>4 DEF NoName, Unanswered, flags, incoming, outgoing, Sent
  <2>5. CASE NameCheck
    BY <2>5 DEF NameCheck, flags, input, incoming, outgoing, Sent
  <2>6. CASE NoIp
    BY <2>6 DEF NoIp, Unanswered, flags, incoming, outgoing, Sent
  <2>7. CASE IpCheck
    BY <2>7 DEF IpCheck, flags, input, incoming, outgoing, Sent
  <2>8. CASE Spawn
    BY <2>8 DEF Spawn, input, params, incoming, outgoing, Sent
  <2>9. CASE OpenSend
    BY <2>9 DEF OpenSend, input, params, incoming, outgoing, Sent
  <2>10. CASE SendLoop
    BY <2>10 DEF SendLoop, Quitting, flags, input, params, incoming, outgoing,
       Sent
  <2>11. CASE NoLine
    BY <2>11 DEF NoLine, Unanswered, flags, params, incoming, outgoing, Sent
  <2>12. CASE SendEmpty
    BY <2>12 DEF SendEmpty, flags, input, params, incoming, outgoing, Sent
  <2>13. CASE SendQueued
    <3>1. inputStr \in 1 .. typed
      BY <2>13 DEF SendQueued
    <3>2. pipe' \in Seq(1 .. typed) /\ Len(pipe') <= SndHwm
      <4>1. pipe \in Seq(1 .. typed) /\ Len(pipe) \in Nat /\ Len(pipe) < SndHwm
        BY <2>13, LenProperties DEF SendQueued
      <4>2. QED
        BY <2>13, <3>1, <4>1, AppendProperties, ClientAssumption DEF SendQueued
    <3>3. sentAtQuit' \in 0 .. Len(Sent')
      <4>1. Len(Sent') = Len(Sent) + 1 /\ Len(Sent) \in Nat
        BY <2>13, QueuedSent, SentType
      <4>2. QED
        BY <2>13, <4>1 DEF SendQueued
    <3>4. QED
      BY <2>13, <3>2, <3>3 DEF SendQueued, flags, input, params, incoming
  <2>14. CASE SendTimesOut
    BY <2>14 DEF SendTimesOut, flags, input, params, incoming, Sent
  <2>15. CASE SendThrows
    BY <2>15 DEF SendThrows, flags, input, params, incoming, Sent
  <2>16. CASE CloseSend
    BY <2>16 DEF CloseSend, flags, input, params, incoming, outgoing, Sent
  <2>17. CASE Stop
    BY <2>17 DEF Stop, flags, input, params, incoming, outgoing, Sent
  <2>18. CASE OpenRecv
    BY <2>18 DEF OpenRecv, Terminate, input, params, incoming, outgoing, Sent
  <2>19. CASE RecvLoop
    BY <2>19 DEF RecvLoop, Quitting, flags, input, params, incoming, outgoing,
       Sent
  <2>20. CASE RecvFrame
    <3>1. sub' \in 0 .. frames'
      BY <2>20, ClientAssumption DEF RecvFrame
    <3>2. QED
      BY <2>20, <3>1 DEF RecvFrame, flags, input, params, outgoing, Sent
  <2>21. CASE RecvNothing
    BY <2>21 DEF RecvNothing, flags, input, params, incoming, outgoing, Sent
  <2>22. CASE RecvThrows
    BY <2>22 DEF RecvThrows, Terminate, flags, input, params, incoming,
       outgoing, Sent
  <2>23. CASE Deliver
    <3>1. pipe \in Seq(1 .. typed) /\ wire \in Seq(1 .. typed) /\ pipe # <<>>
      BY <2>23 DEF Deliver
    <3>2. /\ Head(pipe) \in 1 .. typed /\ pipe' \in Seq(1 .. typed)
          /\ Len(pipe') = Len(pipe) - 1
      BY <2>23, <3>1, HeadTailProperties DEF Deliver
    <3>3. wire' \in Seq(1 .. typed)
      BY <2>23, <3>1, <3>2, AppendProperties DEF Deliver
    <3>4. Len(pipe') <= SndHwm
      <4>1. Len(pipe) \in Nat
        BY <3>1, LenProperties
      <4>2. QED
        BY <3>2, <4>1, ClientAssumption
    <3>5. Sent' = Sent
      BY <2>23, DeliverSent
    <3>6. QED
      BY <2>23, <3>2, <3>3, <3>4, <3>5 DEF Deliver, flags, input, params, incoming
  <2>24. CASE Arrive
    <3>1. frames' \in 0 .. MaxFrames /\ sub' \in 0 .. frames'
      BY <2>24, ClientAssumption DEF Arrive
    <3>2. QED
      BY <2>24, <3>1 DEF Arrive, flags, input, params, outgoing, Sent
  <2>25. ASSUME NEW t \in Threads, Signal(t)
         PROVE  TypeOK'
    <3>1. Len(Sent) \in Nat /\ Sent' = Sent
      BY <2>25, SentType DEF Signal, Sent
    <3>2. sentAtQuit' \in 0 .. Len(Sent')
      BY <2>25, <3>1 DEF Signal
    <3>3. g_quit' \in BOOLEAN /\ eintr' \subseteq Threads
      BY <2>25 DEF Signal
    <3>4. UNCHANGED <<m_localQuitFlag, m_flIsRunning, input, params, incoming,
                      mainPc, recvPc, inputStr, pipe, wire, dropped, failed>>
      BY <2>25 DEF Signal
    <3>5. QED
      BY <3>2, <3>3, <3>4 DEF input, params, incoming
  <2>26. CASE UNCHANGED vars
    BY <2>26 DEF vars, flags, input, params, incoming, outgoing, Sent
  <2>27. QED
    BY <2>1, <2>2, <2>3, <2>4, <2>5, <2>6, <2>7, <2>8, <2>9, <2>10, <2>11,
       <2>12, <2>13, <2>14, <2>15, <2>16, <2>17, <2>18, <2>19, <2>20, <2>21,
       <2>22, <2>23, <2>24, <2>25, <2>26
       DEF Next, Input, MainThread, RecvThread, Finished
<1>3. QED
  BY <1>1, <1>2, PTL DEF Spec

\* Every variable keeps its type, and the pipe its bound.
THEOREM ClientTypeCorrect == Spec => []TypeOK
BY TypeInvariant

-----------------------------------------------------------------------------
(* Name and address.                                                       *)

\* A rejected name or address gets past its prompt only when g_quit is set, and
\* then SendLoop goes to "close" before a line is read.  Once a line is read
\* the parameters are valid, and they do not change any more.
CheckedInv ==
  /\ mainPc \in {"name", "nameCheck", "ip", "ipCheck", "spawn", "open"} =>
       wire = <<>> /\ pipe = <<>>
  /\ mainPc \in {"ip", "ipCheck", "spawn", "open", "loop"} /\ ~g_quit =>
       m_name = "valid"
  /\ mainPc \in {"spawn", "open", "loop"} /\ ~g_quit => m_ipAddr = "valid"
  /\ mainPc \in {"getline", "send"} => m_name = "valid" /\ m_ipAddr = "valid"
  /\ wire # <<>> \/ pipe # <<>> => m_name = "valid" /\ m_ipAddr = "valid"

\* CheckedInv is inductive, given the types.
LEMMA CheckedInvariant == Spec => []CheckedInv
<1>1. Init => CheckedInv
  BY DEF Init, CheckedInv
<1>2. TypeOK /\ CheckedInv /\ [Next]_vars => CheckedInv'
  <2> SUFFICES ASSUME TypeOK, CheckedInv, [Next]_vars
               PROVE  CheckedInv'
    OBVIOUS
  <2> USE DEF CheckedInv
  <2>1. CASE TypeName
    BY <2>1 DEF TypeName, Answered, flags, incoming, outgoing
  <2>2. CASE TypeIp
    BY <2>2 DEF TypeIp, Answered, flags, incoming, outgoing
  <2>3. CASE TypeLine
    BY <2>3 DEF TypeLine, Answered, flags, params, incoming, outgoing
  <2>4. CASE NoName
    BY <2>4 DEF NoName, Unanswered, flags, incoming, outgoing
  <2>5. CASE NameCheck
    BY <2>5 DEF NameCheck, flags, input, incoming, outgoing, TypeOK
  <2>6. CASE NoIp
    BY <2>6 DEF NoIp, Unanswered, flags, incoming, outgoing
  <2>7. CASE IpCheck
    BY <2>7 DEF IpCheck, flags, input, incoming, outgoing, TypeOK
  <2>8. CASE Spawn
    BY <2>8 DEF Spawn, input, params, incoming, outgoing
  <2>9. CASE OpenSend
    BY <2>9 DEF OpenSend, input, params, incoming, outgoing
  <2>10. CASE SendLoop
    BY <2>10 DEF SendLoop, Quitting, flags, input, params, incoming, outgoing
  <2>11. CASE NoLine
    BY <2>11 DEF NoLine, Unanswered, flags, params, incoming, outgoing
  <2>12. CASE SendEmpty
    BY <2>12 DEF SendEmpty, flags, input, params, incoming, outgoing
  <2>13. CASE SendQueued
    BY <2>13 DEF SendQueued, flags, input, params, incoming
  <2>14. CASE SendTimesOut
    BY <2>14 DEF SendTimesOut, flags, input, params, incoming
  <2>15. CASE SendThrows
    BY <2>15 DEF SendThrows, flags, input, params, incoming
  <2>16. CASE CloseSend
    BY <2>16 DEF CloseSend, flags, input, params, incoming, outgoing
  <2>17. CASE Stop
    BY <2>17 DEF Stop, flags, input, params, incoming, outgoing
  <2>18. CASE OpenRecv
    BY <2>18 DEF OpenRecv, Terminate, input, params, incoming, outgoing
  <2>19. CASE RecvLoop
    BY <2>19 DEF RecvLoop, Quitting, flags, input, params, incoming, outgoing
  <2>20. CASE RecvFrame
    BY <2>20 DEF RecvFrame, flags, input, params, outgoing
  <2>21. CASE RecvNothing
    BY <2>21 DEF RecvNothing, flags, input, params, incoming, outgoing
  <2>22. CASE RecvThrows
    BY <2>22 DEF RecvThrows, Terminate, flags, input, params, incoming,
       outgoing
  <2>23. CASE Deliver
    BY <2>23 DEF Deliver, flags, input, params, incoming
  <2>24. CASE Arrive
    BY <2>24 DEF Arrive, flags, input, params, outgoing
  <2>25. ASSUME NEW t \in Threads, Signal(t)
         PROVE  CheckedInv'
    BY <2>25 DEF Signal, input, params, incoming
  <2>26. CASE UNCHANGED vars
    BY <2>26 DEF vars, flags, input, params, incoming, outgoing
  <2>27. QED
    BY <2>1, <2>2, <2>3, <2>4, <2>5, <2>6, <2>7, <2>8, <2>9, <2>10, <2>11,
       <2>12, <2>13, <2>14, <2>15, <2>16, <2>17, <2>18, <2>19, <2>20, <2>21,
       <2>22, <2>23, <2>24, <2>25, <2>26
       DEF Next, Input, MainThread, RecvThread, Finished
<1>3. QED
  BY <1>1, <1>2, TypeInvariant, PTL DEF Spec

\* No line is sent under a name or an address that its check rejected.
THEOREM CheckedCorrect == Spec => []NothingSentUnchecked
<1>1. TypeOK /\ CheckedInv => NothingSentUnchecked
  <2> SUFFICES ASSUME TypeOK, CheckedInv, Sent # <<>>
               PROVE  m_name = "valid" /\ m_ipAddr = "valid"
    BY DEF NothingSentUnchecked
  <2>1. wire \in Seq(1 .. typed) /\ pipe \in Seq(1 .. typed)
    BY DEF TypeOK
  <2>2. wire # <<>> \/ pipe # <<>>
    BY <2>1, ConcatEmptySeq DEF Sent
  <2>3. QED
    BY <2>2 DEF CheckedInv
<1>2. QED
  BY <1>1, TypeInvariant, CheckedInvariant, PTL

-----------------------------------------------------------------------------
(* After the quit flag.                                                    *)

\* A main thread that is about to read or send a line saw g_quit unset: the one
\* line it may still send is that one.
QuitInv ==
  g_quit =>
    /\ Len(Sent) <= sentAtQuit + 1
    /\ mainPc \in {"getline", "send"} => Len(Sent) <= sentAtQuit

\* QuitInv is inductive, given the types.
LEMMA QuitInvariant == Spec => []QuitInv
<1>1. Init => QuitInv
  BY DEF Init, QuitInv
<1>2. TypeOK /\ QuitInv /\ [Next]_vars => QuitInv'
  <2> SUFFICES ASSUME TypeOK, QuitInv, [Next]_vars
               PROVE  QuitInv'
    OBVIOUS
  <2> USE DEF QuitInv
  <2>1. CASE TypeName
    BY <2>1 DEF TypeName, Answered, flags, incoming, outgoing, Sent
  <2>2. CASE TypeIp
    BY <2>2 DEF TypeIp, Answered, flags, incoming, outgoing, Sent
  <2>3. CASE TypeLine
    BY <2>3 DEF TypeLine, Answered, flags, params, incoming, outgoing, Sent
  <2>4. CASE NoName
    BY <2>4 DEF NoName, Unanswered, flags, incoming, outgoing, Sent
  <2>5. CASE NameCheck
    BY <2>5 DEF NameCheck, flags, input, incoming, outgoing, Sent
  <2>6. CASE NoIp
    BY <2>6 DEF NoIp, Unanswered, flags, incoming, outgoing, Sent
  <2>7. CASE IpCheck
    BY <2>7 DEF IpCheck, flags, input, incoming, outgoing, Sent
  <2>8. CASE Spawn
    BY <2>8 DEF Spawn, input, params, incoming, outgoing, Sent
  <2>9. CASE OpenSend
    BY <2>9 DEF OpenSend, input, params, incoming, outgoing, Sent
  <2>10. CASE SendLoop
    BY <2>10 DEF SendLoop, Quitting, flags, input, params, incoming, outgoing,
       Sent
  <2>11. CASE NoLine
    BY <2>11 DEF NoLine, Unanswered, flags, params, incoming, outgoing, Sent
  <2>12. CASE SendEmpty
    BY <2>12 DEF SendEmpty, flags, input, params, incoming, outgoing, Sent
  <2>13. CASE SendQueued
    <3>1. Len(Sent') = Len(Sent) + 1 /\ Len(Sent) \in Nat /\ sentAtQuit \in Nat
      BY <2>13, QueuedSent, SentType DEF TypeOK
    <3>2. /\ mainPc = "send" /\ mainPc' = "loop"
          /\ UNCHANGED <<flags, sentAtQuit>>
      BY <2>13 DEF SendQueued
    <3>3. QED
      BY <3>1, <3>2 DEF flags
  <2>14. CASE SendTimesOut
    BY <2>14 DEF SendTimesOut, flags, input, params, incoming, Sent
  <2>15. CASE SendThrows
    BY <2>15 DEF SendThrows, flags, input, params, incoming, Sent
  <2>16. CASE CloseSend
    BY <2>16 DEF CloseSend, flags, input, params, incoming, outgoing, Sent
  <2>17. CASE Stop
    BY <2>17 DEF Stop, flags, input, params, incoming, outgoing, Sent
  <2>18. CASE OpenRecv
    BY <2>18 DEF OpenRecv, Terminate, input, params, incoming, outgoing, Sent
  <2>19. CASE RecvLoop
    BY <2>19 DEF RecvLoop, Quitting, flags, input, params, incoming, outgoing,
       Sent
  <2>20. CASE RecvFrame
    BY <2>20 DEF RecvFrame, flags, input, params, outgoing, Sent
  <2>21. CASE RecvNothing
    BY <2>21 DEF RecvNothing, flags, input, params, incoming, outgoing, Sent
  <2>22. CASE RecvThrows
    BY <2>22 DEF RecvThrows, Terminate, flags, input, params, incoming,
       outgoing, Sent
  <2>23. CASE Deliver
    <3>1. Sent' = Sent
      BY <2>23, DeliverSent
    <3>2. QED
      BY <2>23, <3>1 DEF Deliver, flags
  <2>24. CASE Arrive
    BY <2>24 DEF Arrive, flags, input, params, outgoing, Sent
  <2>25. ASSUME NEW t \in Threads, Signal(t)
         PROVE  QuitInv'
    <3>1. Len(Sent) \in Nat /\ Sent' = Sent
      BY <2>25, SentType DEF Signal, Sent
    <3>2. CASE g_quit
      BY <2>25, <3>1, <3>2 DEF Signal
    <3>3. CASE ~g_quit
      BY <2>25, <3>1, <3>3 DEF Signal, TypeOK
    <3>4. QED
      BY <3>2, <3>3
  <2>26. CASE UNCHANGED vars
    BY <2>26 DEF vars, flags, input, params, incoming, outgoing, Sent
  <2>27. QED
    BY <2>1, <2>2, <2>3, <2>4, <2>5, <2>6, <2>7, <2>8, <2>9, <2>10, <2>11,
       <2>12, <2>13, <2>14, <2>15, <2>16, <2>17, <2>18, <2>19, <2>20, <2>21,
       <2>22, <2>23, <2>24, <2>25, <2>26
       DEF Next, Input, MainThread, RecvThread, Finished
<1>3. QED
  BY <1>1, <1>2, TypeInvariant, PTL DEF Spec

\* Once g_quit is set the client sends at most the line it was busy with.
THEOREM ClientQuitCorrect == Spec => []AtMostOneAfterQuit
<1>1. QuitInv => AtMostOneAfterQuit
  BY DEF QuitInv, AtMostOneAfterQuit
<1>2. QED
  BY <1>1, QuitInvariant, PTL

-----------------------------------------------------------------------------
(* The end of main().                                                      *)

\* Once the receiving thread exists m_flIsRunning is set, so that stop() joins
\* it; and the destructor of the sending context has emptied the pipe, if the
\* socket was ever created.
EndInv ==
  /\ mainPc \in {"name", "nameCheck", "ip", "ipCheck", "spawn"} =>
       recvPc = "none"
  /\ recvPc # "none" => m_flIsRunning
  /\ mainPc \in {"name", "nameCheck", "ip", "ipCheck", "spawn", "open",
                 "stop", "end"} => pipe = <<>>
  /\ mainPc = "end" => recvPc \in {"none", "done"}

\* EndInv is inductive as it stands.
LEMMA EndInvariant == Spec => []EndInv
<1>1. Init => EndInv
  BY DEF Init, EndInv
<1>2. EndInv /\ [Next]_vars => EndInv'
  <2> SUFFICES ASSUME EndInv, [Next]_vars
               PROVE  EndInv'
    OBVIOUS
  <2> USE DEF EndInv
  <2>1. CASE TypeName
    BY <2>1 DEF TypeName, Answered, flags, incoming, outgoing
  <2>2. CASE TypeIp
    BY <2>2 DEF TypeIp, Answered, flags, incoming, outgoing
  <2>3. CASE TypeLine
    BY <2>3 DEF TypeLine, Answered, flags, params, incoming, outgoing
  <2>4. CASE NoName
    BY <2>4 DEF NoName, Unanswered, flags, incoming, outgoing
  <2>5. CASE NameCheck
    BY <2>5 DEF NameCheck, flags, input, incoming, outgoing
  <2>6. CASE NoIp
    BY <2>6 DEF NoIp, Unanswered, flags, incoming, outgoing
  <2>7. CASE IpCheck
    BY <2>7 DEF IpCheck, flags, input, incoming, outgoing
  <2>8. CASE Spawn
    BY <2>8 DEF Spawn, input, params, incoming, outgoing
  <2>9. CASE OpenSend
    BY <2>9 DEF OpenSend, input, params, incoming, outgoing
  <2>10. CASE SendLoop
    BY <2>10 DEF SendLoop, Quitting, flags, input, params, incoming, outgoing
  <2>11. CASE NoLine
    BY <2>11 DEF NoLine, Unanswered, flags, params, incoming, outgoing
  <2>12. CASE SendEmpty
    BY <2>12 DEF SendEmpty, flags, input, params, incoming, outgoing
  <2>13. CASE SendQueued
    BY <2>13 DEF SendQueued, flags, input, params, incoming
  <2>14. CASE SendTimesOut
    BY <2>14 DEF SendTimesOut, flags, input, params, incoming
  <2>15. CASE SendThrows
    BY <2>15 DEF SendThrows, flags, input, params, incoming
  <2>16. CASE CloseSend
    BY <2>16 DEF CloseSend, flags, input, params, incoming, outgoing
  <2>17. CASE Stop
    BY <2>17 DEF Stop, flags, input, params, incoming, outgoing
  <2>18. CASE OpenRecv
    BY <2>18 DEF OpenRecv, Terminate, input, params, incoming, outgoing
  <2>19. CASE RecvLoop
    BY <2>19 DEF RecvLoop, Quitting, flags, input, params, incoming, outgoing
  <2>20. CASE RecvFrame
    BY <2>20 DEF RecvFrame, flags, input, params, outgoing
  <2>21. CASE RecvNothing
    BY <2>21 DEF RecvNothing, flags, input, params, incoming, outgoing
  <2>22. CASE RecvThrows
    BY <2>22 DEF RecvThrows, Terminate, flags, input, params, incoming,
       outgoing
  <2>23. CASE Deliver
    BY <2>23 DEF Deliver, flags, input, params, incoming
  <2>24. CASE Arrive
    BY <2>24 DEF Arrive, flags, input, params, outgoing
  <2>25. ASSUME NEW t \in Threads, Signal(t)
         PROVE  EndInv'
    BY <2>25 DEF Signal, input, params, incoming
  <2>26. CASE UNCHANGED vars
    BY <2>26 DEF vars, flags, input, params, incoming, outgoing
  <2>27. QED
    BY <2>1, <2>2, <2>3, <2>4, <2>5, <2>6, <2>7, <2>8, <2>9, <2>10, <2>11,
       <2>12, <2>13, <2>14, <2>15, <2>16, <2>17, <2>18, <2>19, <2>20, <2>21,
       <2>22, <2>23, <2>24, <2>25, <2>26
       DEF Next, Input, MainThread, RecvThread, Finished
<1>3. QED
  BY <1>1, <1>2, PTL DEF Spec

\* When main() returns the receiving thread is gone and the pipe is empty.
THEOREM ClientEndCorrect == Spec => []CleanEnd
<1>1. EndInv => CleanEnd
  BY DEF EndInv, CleanEnd
<1>2. QED
  BY <1>1, EndInvariant, PTL

-----------------------------------------------------------------------------
(* Each line once, and in order.                                           *)

\* The lines typed are split among what was sent, dropped, reported and is in
\* hand.
Split(sent, drop, fail, hand) ==
  /\ sent \cup drop \cup fail \cup hand = 1 .. typed
  /\ sent \cap drop = {}
  /\ (sent \cup drop) \cap fail = {}
  /\ (sent \cup drop \cup fail) \cap hand = {}

\* The line in hand is the last one typed, so that it follows all the others
\* when it is sent.
PlacesInv ==
  /\ Ascending(Sent)
  /\ mainPc = "send" /\ inputStr # 0 => inputStr = typed
  /\ mainPc # "aborted" => Split(ToSet(Sent), dropped, failed, Hand)

\* A split counts every line once.
LEMMA SplitCardinality ==
  ASSUME typed \in Nat, NEW A, NEW B, NEW C, NEW D, Split(A, B, C, D)
  PROVE  Cardinality(A) + Cardinality(B) + Cardinality(C) + Cardinality(D)
           = typed
<1>1. IsFiniteSet(1 .. typed) /\ Cardinality(1 .. typed) = typed
  BY FS_Interval
<1>2. /\ A \in SUBSET (1 .. typed) /\ B \in SUBSET (1 .. typed)
      /\ C \in SUBSET (1 .. typed) /\ D \in SUBSET (1 .. typed)
  BY DEF Split
<1>3. IsFiniteSet(A) /\ IsFiniteSet(B) /\ IsFiniteSet(C) /\ IsFiniteSet(D)
  BY <1>1, <1>2, FS_Subset
<1>4. Cardinality({}) = 0
  BY FS_EmptySet
<1> DEFINE AB == A \cup B
           ABC == AB \cup C
<1>5. IsFiniteSet(AB) /\ Cardinality(AB) = Cardinality(A) + Cardinality(B) - 0
  BY <1>3, <1>4, FS_Union DEF Split
<1>6. IsFiniteSet(ABC)
      /\ Cardinality(ABC) = Cardinality(AB) + Cardinality(C) - 0
  <2>1. AB \cap C = {}
    BY DEF Split
  <2> HIDE DEF AB
  <2>2. QED
    BY <1>3, <1>4, <1>5, <2>1, FS_Union
<1>7. Cardinality(ABC \cup D) = Cardinality(ABC) + Cardinality(D) - 0
  <2>1. ABC \cap D = {}
    BY DEF Split
  <2> HIDE DEF ABC
  <2>2. QED
    BY <1>3, <1>4, <1>6, <2>1, FS_Union
<1>8. ABC \cup D = 1 .. typed
  BY DEF Split
<1>9. /\ Cardinality(A) \in Nat /\ Cardinality(B) \in Nat
      /\ Cardinality(C) \in Nat /\ Cardinality(D) \in Nat
      /\ Cardinality(AB) \in Nat /\ Cardinality(ABC) \in Nat
  BY <1>3, <1>5, <1>6, FS_CardinalityType
<1> HIDE DEF AB, ABC
<1>10. typed = Cardinality(ABC) + Cardinality(D) - 0
  BY <1>1, <1>7, <1>8
<1>11. QED
  BY <1>5, <1>6, <1>9, <1>10

\* The elements of a sequence with one more element.
LEMMA ToSetAppend ==
  ASSUME NEW S, NEW s \in Seq(S), NEW e \in S
  PROVE  ToSet(Append(s, e)) = ToSet(s) \cup {e}
<1> DEFINE a == Append(s, e)
<1>1. /\ a \in Seq(S) /\ Len(a) = Len(s) + 1 /\ Len(s) \in Nat
      /\ \A i \in 1 .. Len(s) : a[i] = s[i]
      /\ a[Len(s) + 1] = e
  BY AppendProperties, LenProperties
<1> HIDE DEF a
<1>2. DOMAIN a = 1 .. Len(s) + 1 /\ DOMAIN s = 1 .. Len(s)
  BY <1>1, LenProperties
<1>3. ToSet(a) = {a[i] : i \in 1 .. Len(s) + 1}
  BY <1>2 DEF ToSet
<1>4. ToSet(s) = {s[i] : i \in 1 .. Len(s)}
  BY <1>2 DEF ToSet
<1>5. 1 .. Len(s) + 1 = (1 .. Len(s)) \cup {Len(s) + 1}
  BY <1>1
<1>6. {a[i] : i \in 1 .. Len(s) + 1} = {s[i] : i \in 1 .. Len(s)} \cup {e}
  BY <1>1, <1>5
<1>7. QED
  BY <1>3, <1>4, <1>6 DEF a

\* An element greater than all others may follow them.
LEMMA AscendingAppend ==
  ASSUME NEW s \in Seq(Nat), NEW e \in Nat, Ascending(s),
         \A x \in ToSet(s) : x < e
  PROVE  Ascending(Append(s, e))
<1> DEFINE a == Append(s, e)
<1>1. /\ a \in Seq(Nat) /\ Len(a) = Len(s) + 1 /\ Len(s) \in Nat
      /\ \A i \in 1 .. Len(s) : a[i] = s[i]
      /\ a[Len(s) + 1] = e
  BY AppendProperties, LenProperties
<1> HIDE DEF a
<1>2. DOMAIN a = 1 .. Len(s) + 1 /\ DOMAIN s = 1 .. Len(s)
  BY <1>1, LenProperties
<1>3. \A i \in 1 .. Len(s) : s[i] < e
  BY <1>2 DEF ToSet
<1>4. ASSUME NEW i \in DOMAIN a, NEW j \in DOMAIN a, i < j
      PROVE  a[i] < a[j]
  <2>1. i \in 1 .. Len(s)
    BY <1>1, <1>2, <1>4
  <2>2. CASE j \in 1 .. Len(s)
    BY <1>1, <1>2, <1>4, <2>1, <2>2 DEF Ascending
  <2>3. CASE j = Len(s) + 1
    BY <1>1, <1>3, <2>1, <2>3
  <2>4. QED
    BY <1>1, <1>2, <2>2, <2>3
<1>5. QED
  BY <1>4 DEF Ascending, a

\* PlacesInv is inductive, given the types.
LEMMA PlacesInvariant == Spec => []PlacesInv
<1>1. Init => PlacesInv
  <2> SUFFICES ASSUME Init PROVE PlacesInv
    OBVIOUS
  <2>1. Sent = <<>> /\ ToSet(Sent) = {}
    BY DEF Init, Sent, ToSet
  <2>2. Ascending(Sent)
    BY <2>1 DEF Ascending
  <2>3. Split(ToSet(Sent), dropped, failed, Hand)
    BY <2>1 DEF Init, Split, Hand
  <2>4. QED
    BY <2>2, <2>3 DEF Init, PlacesInv
<1>2. TypeOK /\ PlacesInv /\ [Next]_vars => PlacesInv'
  <2> SUFFICES ASSUME TypeOK, PlacesInv, [Next]_vars
               PROVE  PlacesInv'
    OBVIOUS
  <2> USE DEF PlacesInv
  <2>1. CASE TypeName
    BY <2>1 DEF TypeName, Answered, flags, incoming, outgoing, Sent, Hand,
       Split
  <2>2. CASE TypeIp
    BY <2>2 DEF TypeIp, Answered, flags, incoming, outgoing, Sent, Hand, Split
  <2>3. CASE TypeLine
    <3>1. /\ Sent' = Sent /\ UNCHANGED <<dropped, failed>> /\ mainPc' = "send"
          /\ mainPc = "getline"
      BY <2>3 DEF TypeLine, outgoing, Sent
    <3>2. Split(ToSet(Sent), dropped, failed, {}) /\ typed \in Nat
      BY <3>1, ClientAssumption DEF Hand, TypeOK
    <3>3. CASE inputStr' = 0 /\ UNCHANGED typed
      <4>1. Hand' = {}
        BY <3>1, <3>3 DEF Hand
      <4>2. QED
        BY <3>1, <3>2, <3>3, <4>1 DEF Split
    <3>4. CASE typed' = typed + 1 /\ inputStr' = typed'
      <4>1. Hand' = {typed + 1}
        BY <3>1, <3>2, <3>4 DEF Hand
      <4>2. 1 .. typed' = (1 .. typed) \cup {typed + 1}
            /\ typed + 1 \notin 1 .. typed
        BY <3>2, <3>4
      <4> DEFINE s == ToSet(Sent)
      <4> HIDE DEF s
      <4>3. /\ s \cup dropped \cup failed \cup {} = 1 .. typed
            /\ s \cap dropped = {} /\ (s \cup dropped) \cap failed = {}
        BY <3>2 DEF Split, s
      <4>4. /\ s \cup dropped \cup failed \cup {typed + 1} = 1 .. typed'
            /\ (s \cup dropped \cup failed) \cap {typed + 1} = {}
        BY <4>2, <4>3
      <4>5. (s' = s)
        BY <3>1 DEF s
      <4>6. Split(s, dropped, failed, Hand)'
        BY <3>1, <4>1, <4>3, <4>4, <4>5 DEF Split
      <4>7. QED
        BY <3>1, <3>4, <4>6 DEF s
    <3>5. QED
      BY <2>3, <3>3, <3>4 DEF TypeLine
  <2>4. CASE NoName
    BY <2>4 DEF NoName, Unanswered, flags, incoming, outgoing, Sent, Hand,
       Split
  <2>5. CASE NameCheck
    BY <2>5 DEF NameCheck, flags, input, incoming, outgoing, Sent, Hand, Split
  <2>6. CASE NoIp
    BY <2>6 DEF NoIp, Unanswered, flags, incoming, outgoing, Sent, Hand, Split
  <2>7. CASE IpCheck
    BY <2>7 DEF IpCheck, flags, input, incoming, outgoing, Sent, Hand, Split
  <2>8. CASE Spawn
    BY <2>8 DEF Spawn, input, params, incoming, outgoing, Sent, Hand, Split
  <2>9. CASE OpenSend
    BY <2>9 DEF OpenSend, input, params, incoming, outgoing, Sent, Hand, Split
  <2>10. CASE SendLoop
    BY <2>10 DEF SendLoop, Quitting, flags, input, params, incoming, outgoing,
       Sent, Hand, Split
  <2>11. CASE NoLine
    BY <2>11 DEF NoLine, Unanswered, flags, params, incoming, outgoing, Sent,
       Hand, Split
  <2>12. CASE SendEmpty
    BY <2>12 DEF SendEmpty, flags, input, params, incoming, outgoing, Sent,
       Hand, Split
  <2>13. CASE SendQueued
    <3>1. /\ mainPc = "send" /\ inputStr # 0 /\ mainPc' = "loop"
          /\ UNCHANGED <<typed, dropped, failed>>
      BY <2>13 DEF SendQueued, input
    <3>2. /\ inputStr = typed /\ Hand = {typed}
          /\ typed \in Nat /\ typed \in 1 .. typed
      BY <3>1 DEF Hand, TypeOK
    <3>3. Sent' = Append(Sent, typed) /\ Sent \in Seq(1 .. typed)
      BY <2>13, <3>2, QueuedSent, SentType
    <3>4. ToSet(Sent') = ToSet(Sent) \cup {typed}
      BY <3>2, <3>3, ToSetAppend
    <3> DEFINE s == ToSet(Sent)
    <3>5. /\ s \cup dropped \cup failed \cup {typed} = 1 .. typed
          /\ s \cap dropped = {} /\ (s \cup dropped) \cap failed = {}
          /\ (s \cup dropped \cup failed) \cap {typed} = {}
      BY <3>1, <3>2 DEF Split
    <3>6. \A x \in s : x \in 1 .. typed /\ x # typed
      BY <3>5
    <3>7. Ascending(Sent')
      <4>1. Sent \in Seq(Nat)
        BY <3>2, <3>3, SeqMonotonic
      <4>2. \A x \in s : x < typed
        BY <3>2, <3>6
      <4>3. QED
        BY <3>2, <3>3, <4>1, <4>2, AscendingAppend
    <3>8. Split(ToSet(Sent), dropped, failed, Hand)'
      <4>1. Hand' = {}
        BY <3>1 DEF Hand
      <4> HIDE DEF s
      <4>2. /\ (s \cup {typed}) \cup dropped \cup failed \cup {} = 1 .. typed
            /\ (s \cup {typed}) \cap dropped = {}
            /\ ((s \cup {typed}) \cup dropped) \cap failed = {}
        BY <3>5
      <4>3. ToSet(Sent)' = s \cup {typed}
        BY <3>4 DEF s
      <4>4. QED
        BY <3>1, <4>1, <4>2, <4>3 DEF Split
    <3>9. QED
      BY <3>1, <3>7, <3>8
  <2>14. CASE SendTimesOut
    <3>1. /\ mainPc = "send" /\ inputStr # 0 /\ mainPc' = "loop"
          /\ Sent' = Sent /\ UNCHANGED <<typed, failed>>
          /\ dropped' = dropped \cup {inputStr}
      BY <2>14 DEF SendTimesOut, input, Sent
    <3>2. Hand = {inputStr} /\ Hand' = {}
      BY <3>1 DEF Hand
    <3>3. Split(ToSet(Sent), dropped', failed, {})
      BY <3>1, <3>2 DEF Split
    <3>4. QED
      BY <3>1, <3>2, <3>3 DEF Split
  <2>15. CASE SendThrows
    <3>1. /\ mainPc = "send" /\ inputStr # 0 /\ mainPc' = "loop"
          /\ Sent' = Sent /\ UNCHANGED <<typed, dropped>>
          /\ failed' = failed \cup {inputStr}
      BY <2>15 DEF SendThrows, input, Sent
    <3>2. Hand = {inputStr} /\ Hand' = {}
      BY <3>1 DEF Hand
    <3>3. Split(ToSet(Sent), dropped, failed', {})
      BY <3>1, <3>2 DEF Split
    <3>4. QED
      BY <3>1, <3>2, <3>3 DEF Split
  <2>16. CASE CloseSend
    BY <2>16 DEF CloseSend, flags, input, params, incoming, outgoing, Sent,
       Hand, Split
  <2>17. CASE Stop
    BY <2>17 DEF Stop, flags, input, params, incoming, outgoing, Sent, Hand,
       Split
  <2>18. CASE OpenRecv
    BY <2>18 DEF OpenRecv, Terminate, input, params, incoming, outgoing, Sent,
       Hand, Split
  <2>19. CASE RecvLoop
    BY <2>19 DEF RecvLoop, Quitting, flags, input, params, incoming, outgoing,
       Sent, Hand, Split
  <2>20. CASE RecvFrame
    BY <2>20 DEF RecvFrame, flags, input, params, outgoing, Sent, Hand, Split
  <2>21. CASE RecvNothing
    BY <2>21 DEF RecvNothing, flags, input, params, incoming, outgoing, Sent,
       Hand, Split
  <2>22. CASE RecvThrows
    BY <2>22 DEF RecvThrows, Terminate, flags, input, params, incoming,
       outgoing, Sent, Hand, Split
  <2>23. CASE Deliver
    <3>1. Sent' = Sent
      BY <2>23, DeliverSent
    <3>2. UNCHANGED <<mainPc, inputStr, typed, dropped, failed>>
      BY <2>23 DEF Deliver, input
    <3>3. Hand' = Hand
      BY <3>2 DEF Hand
    <3>4. QED
      BY <3>1, <3>2, <3>3 DEF Split
  <2>24. CASE Arrive
    BY <2>24 DEF Arrive, flags, input, params, outgoing, Sent, Hand, Split
  <2>25. ASSUME NEW t \in Threads, Signal(t)
         PROVE  PlacesInv'
    <3>1. UNCHANGED <<mainPc, inputStr, typed, dropped, failed, Sent, Hand>>
      BY <2>25 DEF Signal, input, Sent, Hand
    <3>2. QED
      BY <3>1 DEF Split
  <2>26. CASE UNCHANGED vars
    BY <2>26 DEF vars, flags, input, params, incoming, outgoing, Sent,
                     Hand, Split
  <2>27. QED
    BY <2>1, <2>2, <2>3, <2>4, <2>5, <2>6, <2>7, <2>8, <2>9, <2>10, <2>11,
       <2>12, <2>13, <2>14, <2>15, <2>16, <2>17, <2>18, <2>19, <2>20, <2>21,
       <2>22, <2>23, <2>24, <2>25, <2>26
       DEF Next, Input, MainThread, RecvThread, Finished
<1>3. QED
  BY <1>1, <1>2, TypeInvariant, PTL DEF Spec

\* Every line typed is in exactly one place, and lines are sent in order.
THEOREM ClientOrderCorrect == Spec => []SentOnceInOrder
<1>1. TypeOK /\ PlacesInv => SentOnceInOrder
  <2> SUFFICES ASSUME TypeOK, PlacesInv
               PROVE  SentOnceInOrder
    OBVIOUS
  <2>1. CASE mainPc = "aborted"
    BY <2>1 DEF PlacesInv, SentOnceInOrder
  <2>2. CASE mainPc # "aborted"
    <3>1. Split(ToSet(Sent), dropped, failed, Hand)
      BY <2>2 DEF PlacesInv
    <3>2. typed \in Nat
      BY ClientAssumption DEF TypeOK
    <3>3. Cardinality(ToSet(Sent)) + Cardinality(dropped)
            + Cardinality(failed) + Cardinality(Hand) = typed
      BY <3>1, <3>2, SplitCardinality
    <3>4. QED
      BY <3>1, <3>3 DEF PlacesInv, SentOnceInOrder, Split
  <2>3. QED
    BY <2>1, <2>2
<1>2. QED
  BY <1>1, TypeInvariant, PlacesInvariant, PTL

=============================================================================
