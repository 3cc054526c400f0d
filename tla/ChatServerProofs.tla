-------------------------- MODULE ChatServerProofs --------------------------
(***************************************************************************)
(* The safety properties of ChatServer, for every set of texts, every      *)
(* number of frames and every high-water mark.  The invariants are proved  *)
(* in layers: each layer may use the ones before it.                       *)
(***************************************************************************)
EXTENDS ChatServer, SequenceTheorems, TLAPS

-----------------------------------------------------------------------------
(* Sequences.                                                              *)

\* A non-empty sequence is its head followed by its tail.
LEMMA SeqSplit ==
  ASSUME NEW S, NEW s \in Seq(S), s # <<>>
  PROVE  /\ <<Head(s)>> \in Seq(S)
         /\ s = <<Head(s)>> \o Tail(s)
<1>1. Len(s) \in Nat \ {0} /\ Head(s) \in S /\ Head(s) = s[1]
  BY EmptySeq, HeadTailProperties
<1>2. SubSeq(s, 1, Len(s)) = <<s[1]>> \o SubSeq(s, 1 + 1, Len(s))
  BY <1>1, SubSeqRecursiveFirst
<1>3. SubSeq(s, 1, Len(s)) = s /\ Tail(s) = SubSeq(s, 1 + 1, Len(s))
  BY SubSeqFull, TailIsSubSeq
<1>4. QED
  BY <1>1, <1>2, <1>3

\* The equation has a name so that the provers instantiate it as a whole.
Associates(s, t, u) == (s \o t) \o u = s \o (t \o u)

-----------------------------------------------------------------------------
(* Sequences of strings and their texts.                                   *)

\* Texts keeps the length of a sequence of strings and yields messages.
LEMMA TextsType ==
  ASSUME NEW s \in Seq(String)
  PROVE  /\ Texts(s) \in Seq(Message)
         /\ Len(Texts(s)) = Len(s)
         /\ \A i \in 1 .. Len(s) : Texts(s)[i] = s[i].text
<1>1. DOMAIN s = 1 .. Len(s) /\ Len(s) \in Nat
  BY LenProperties
<1>2. ASSUME NEW i \in 1 .. Len(s)
      PROVE  s[i].text \in Message
  <2>1. s[i] \in String
    BY ElementOfSeq
  <2>2. QED
    BY <2>1 DEF String
<1>3. Texts(s) \in [1 .. Len(s) -> Message]
  BY <1>1, <1>2 DEF Texts
<1>4. QED
  BY <1>1, <1>3, SeqDef DEF Texts

\* The texts of a concatenation are the concatenated texts.
LEMMA TextsConcat ==
  ASSUME NEW s \in Seq(String), NEW t \in Seq(String)
  PROVE  Texts(s \o t) = Texts(s) \o Texts(t)
<1>1. s \o t \in Seq(String) /\ Len(s \o t) = Len(s) + Len(t)
  BY ConcatProperties
<1>2. /\ Texts(s) \in Seq(Message) /\ Len(Texts(s)) = Len(s)
      /\ Texts(t) \in Seq(Message) /\ Len(Texts(t)) = Len(t)
      /\ Texts(s \o t) \in Seq(Message) /\ Len(Texts(s \o t)) = Len(s) + Len(t)
  BY <1>1, TextsType
<1>3. Texts(s) \o Texts(t) \in Seq(Message)
      /\ Len(Texts(s) \o Texts(t)) = Len(s) + Len(t)
  BY <1>2, ConcatProperties
<1>4. ASSUME NEW i \in 1 .. Len(s) + Len(t)
      PROVE  Texts(s \o t)[i] = (Texts(s) \o Texts(t))[i]
  <2>1. Len(s) \in Nat /\ Len(t) \in Nat
    BY LenProperties
  <2>2. Texts(s \o t)[i] = (s \o t)[i].text
    BY <1>1, TextsType
  <2>3. (s \o t)[i] = IF i <= Len(s) THEN s[i] ELSE t[i - Len(s)]
    BY ConcatProperties
  <2>4. (Texts(s) \o Texts(t))[i]
          = IF i <= Len(s) THEN Texts(s)[i] ELSE Texts(t)[i - Len(s)]
    BY <1>2, ConcatProperties
  <2>5. CASE i <= Len(s)
    BY <2>1, <2>2, <2>3, <2>4, <2>5, TextsType
  <2>6. CASE ~(i <= Len(s))
    <3>1. i - Len(s) \in 1 .. Len(t)
      BY <2>1, <2>6
    <3>2. QED
      BY <2>2, <2>3, <2>4, <2>6, <3>1, TextsType
  <2>7. QED
    BY <2>5, <2>6
<1>5. QED
  BY <1>2, <1>3, <1>4, SeqEqual

-----------------------------------------------------------------------------
(* The type invariant.                                                     *)

\* SendPop takes the head of a queue SendPrefix found non-empty: only the main
\* thread takes strings out.
TypeInv ==
  /\ TypeOK
  /\ mainPc = "pop" => m_receivedMessages # <<>>

\* A sequence of at most one element is empty or a singleton.
LEMMA AtMostOneCases ==
  ASSUME NEW S, NEW s, AtMostOne(s, S)
  PROVE  \/ s = <<>>
         \/ \E e \in S : s = <<e>>
<1>1. s \in Seq(S) /\ Len(s) \in Nat /\ Len(s) <= 1
  BY LenProperties DEF AtMostOne
<1>2. CASE Len(s) = 0
  BY <1>1, <1>2, EmptySeq
<1>3. CASE Len(s) = 1
  <2>1. s[1] \in S
    BY <1>1, <1>3, ElementOfSeq
  <2>2. s = <<s[1]>>
    BY <1>1, <1>3, <2>1
  <2>3. QED
    BY <2>1, <2>2
<1>4. \A n \in Nat : n <= 1 => n = 0 \/ n = 1
  OBVIOUS
<1>5. QED
  BY <1>1, <1>2, <1>3, <1>4

LEMMA AtMostOneIntro ==
  ASSUME NEW S
  PROVE  /\ AtMostOne(<<>>, S)
         /\ \A e \in S : AtMostOne(<<e>>, S)
BY DEF AtMostOne

\* The filter changes neither the text nor the type of a string.
LEMMA AddFilterType ==
  ASSUME NEW s \in String
  PROVE  /\ AddFilter(s) \in String
         /\ AddFilter(s).text = s.text
         /\ AddFilter(s).filters = s.filters + 1
BY DEF AddFilter, String

\* The type invariant and the non-empty queue of SendPop hold throughout.
LEMMA TypeInvariant == Spec => []TypeInv
<1>1. Init => TypeInv
  <2> SUFFICES ASSUME Init
               PROVE  TypeInv
    OBVIOUS
  <2>1. /\ m_receivedMessages \in Seq(String)
        /\ pull \in Seq(Message \cup {Empty}) /\ Len(pull) = 0
        /\ accepted \in Seq(Message)
        /\ published \in Seq(String) /\ Len(published) = 0
    BY EmptySeq DEF Init
  <2>2. /\ AtMostOne(broadcast_msg, String) /\ AtMostOne(recv_str, String)
        /\ AtMostOne(lost, Message)
    BY AtMostOneIntro DEF Init
  <2>3. /\ Len(pull) <= PullHwm
        /\ arrivals \in 0 .. MaxFrames
        /\ flushed \in 0 .. Len(published) /\ pubAtQuit \in 0 .. Len(published)
    BY <2>1, ServerAssumption DEF Init
  <2>4. QED
    BY <2>1, <2>2, <2>3 DEF Init, TypeInv, TypeOK, MainPcs, RecvPcs, Threads
<1>2. TypeInv /\ [Next]_vars => TypeInv'
  <2> SUFFICES ASSUME TypeInv, [Next]_vars
               PROVE  TypeInv'
    OBVIOUS
  <2> USE DEF TypeInv, TypeOK, MainPcs, RecvPcs, Threads
  <2>1. CASE Start
    BY <2>1 DEF Start, sockets, history
  <2>2. CASE Spawn
    BY <2>2 DEF Spawn, sockets, history
  <2>3. CASE OpenSend
    BY <2>3 DEF OpenSend, sockets, history
  <2>4. CASE SendLoop
    BY <2>4 DEF SendLoop, sockets, history
  <2>5. CASE SendLock
    BY <2>5 DEF SendLock, Acquire, sockets, history
  <2>6. CASE SendNothing
    BY <2>6 DEF SendNothing, Release, sockets, history
  <2>7. CASE SendPrefix
    <3>1. m_receivedMessages' \in Seq(String)
      <4>1. 1 \in 1 .. Len(m_receivedMessages)
        BY <2>7, LenProperties, EmptySeq DEF SendPrefix
      <4>2. m_receivedMessages[1] \in String
        BY <4>1, ElementOfSeq
      <4>3. AddFilter(m_receivedMessages[1]) \in String
        BY <4>2, AddFilterType
      <4>4. QED
        BY <2>7, <4>1, <4>3, ExceptSeq DEF SendPrefix
    <3>2. m_receivedMessages' # <<>>
      BY <2>7 DEF SendPrefix
    <3>3. QED
      BY <2>7, <3>1, <3>2 DEF SendPrefix, sockets, history
  <2>8. CASE SendPop
    <3>1. /\ Head(m_receivedMessages) \in String
          /\ Tail(m_receivedMessages) \in Seq(String)
      BY <2>8, HeadTailProperties DEF SendPop
    <3>2. QED
      BY <2>8, <3>1, AtMostOneIntro DEF SendPop, sockets, history
  <2>9. CASE SendPublish
    <3>1. /\ published' \in Seq(String)
          /\ Len(published') = Len(published) + Len(broadcast_msg)
      BY <2>9, ConcatProperties DEF SendPublish, AtMostOne
    <3>2. Len(published) \in Nat /\ Len(broadcast_msg) \in Nat
      BY LenProperties DEF AtMostOne
    <3>3. flushed' \in 0 .. Len(published') /\ pubAtQuit' \in 0 .. Len(published')
      BY <2>9, <3>1, <3>2 DEF SendPublish
    <3>4. AtMostOne(broadcast_msg', String)
      BY <2>9, AtMostOneIntro DEF SendPublish
    <3>5. eintr' \in SUBSET Threads
      BY <2>9 DEF SendPublish
    <3>6. QED
      BY <2>9, <3>1, <3>3, <3>4, <3>5 DEF SendPublish, Release
  <2>10. CASE SendThrows
    <3>1. AtMostOne(lost', Message)
      BY <2>10, TextsType DEF SendThrows, AtMostOne
    <3>2. QED
      BY <2>10, <3>1, AtMostOneIntro DEF SendThrows, Release
  <2>11. CASE CloseSend
    BY <2>11 DEF CloseSend, sockets, history
  <2>12. CASE Stop
    BY <2>12 DEF Stop, sockets, history
  <2>13. CASE Join
    BY <2>13 DEF Join, sockets, history
  <2>14. CASE OpenRecv
    BY <2>14 DEF OpenRecv, Terminate, sockets, history
  <2>15. CASE RecvLoop
    BY <2>15 DEF RecvLoop, sockets, history
  <2>16. CASE RecvFrame
    <3>1. /\ Head(pull) \in Message \cup {Empty}
          /\ pull' \in Seq(Message \cup {Empty})
          /\ Len(pull') = Len(pull) - 1
      BY <2>16, HeadTailProperties DEF RecvFrame
    <3>2. Len(pull') <= PullHwm
      BY <3>1, LenProperties, ServerAssumption
    <3>3. AtMostOne(recv_str', String) /\ accepted' \in Seq(Message)
      <4>1. CASE Head(pull) = Empty
        BY <2>16, <4>1 DEF RecvFrame
      <4>2. CASE Head(pull) # Empty
        <5>1. Head(pull) \in Message /\ Bare(Head(pull)) \in String
          BY <3>1, <4>2 DEF Bare, String
        <5>2. recv_str' = <<Bare(Head(pull))>> /\ accepted' = Append(accepted, Head(pull))
          BY <2>16, <4>2 DEF RecvFrame
        <5>3. QED
          BY <5>1, <5>2, AtMostOneIntro, AppendProperties
      <4>3. QED
        BY <4>1, <4>2
    <3>4. QED
      BY <2>16, <3>1, <3>2, <3>3 DEF RecvFrame
  <2>17. CASE RecvNothing
    BY <2>17 DEF RecvNothing, history
  <2>18. CASE RecvThrows
    BY <2>18 DEF RecvThrows, Terminate, sockets, history
  <2>19. CASE RecvLock
    BY <2>19 DEF RecvLock, Acquire, sockets, history
  <2>20. CASE RecvPush
    <3>1. /\ m_receivedMessages' \in Seq(String)
          /\ m_receivedMessages # <<>> => m_receivedMessages' # <<>>
      BY <2>20, ConcatProperties, LenProperties, EmptySeq DEF RecvPush, AtMostOne
    <3>2. QED
      BY <2>20, <3>1, AtMostOneIntro DEF RecvPush, Release, sockets, history
  <2>21. CASE Arrive
    <3>1. /\ pull' \in Seq(Message \cup {Empty})
          /\ Len(pull') = Len(pull) + 1
      BY <2>21, AppendProperties DEF Arrive
    <3>2. Len(pull') <= PullHwm /\ arrivals' \in 0 .. MaxFrames
      BY <2>21, <3>1, LenProperties, ServerAssumption DEF Arrive
    <3>3. QED
      BY <2>21, <3>1, <3>2 DEF Arrive, history
  <2>22. CASE Flush
    BY <2>22, LenProperties DEF Flush, history
  <2>23. ASSUME NEW t \in Threads, Signal(t)
         PROVE  TypeInv'
    BY <2>23, LenProperties DEF Signal
  <2>24. CASE UNCHANGED vars
    BY <2>24 DEF vars, sockets, history
  <2>25. QED
    BY <2>1, <2>2, <2>3, <2>4, <2>5, <2>6, <2>7, <2>8, <2>9, <2>10, <2>11,
       <2>12, <2>13, <2>14, <2>15, <2>16, <2>17, <2>18, <2>19, <2>20, <2>21,
       <2>22, <2>23, <2>24
       DEF Next, MainThread, RecvThread, Finished
<1>3. QED
  BY <1>1, <1>2, PTL DEF Spec

\* Every reachable state is type-correct: no empty frame reaches the queue and
\* no thread ever holds more than one string.
THEOREM TypeCorrect == Spec => []TypeOK
<1>1. TypeInv => TypeOK
  BY DEF TypeInv
<1>2. QED
  BY <1>1, TypeInvariant, PTL

-----------------------------------------------------------------------------
(* The mutex.                                                              *)

\* Besides, std::terminate takes both threads at once, and the receiving thread
\* does not exist before start() creates it.
ControlInv ==
  /\ MutualExclusion
  /\ mainPc = "aborted" <=> recvPc = "aborted"
  /\ mainPc \in {"start", "spawn"} => recvPc = "none"

LEMMA ControlInvariant == Spec => []ControlInv
<1>1. Init => ControlInv
  BY DEF Init, ControlInv, MutualExclusion
<1>2. ControlInv /\ [Next]_vars => ControlInv'
  <2> SUFFICES ASSUME ControlInv, [Next]_vars
               PROVE  ControlInv'
    OBVIOUS
  <2> USE DEF ControlInv, MutualExclusion
  <2>1. CASE Start
    BY <2>1 DEF Start, sockets, history
  <2>2. CASE Spawn
    BY <2>2 DEF Spawn, sockets, history
  <2>3. CASE OpenSend
    BY <2>3 DEF OpenSend, sockets, history
  <2>4. CASE SendLoop
    BY <2>4 DEF SendLoop, sockets, history
  <2>5. CASE SendLock
    BY <2>5 DEF SendLock, Acquire, MutexFree, sockets, history
  <2>6. CASE SendNothing
    BY <2>6 DEF SendNothing, Release, sockets, history
  <2>7. CASE SendPrefix
    BY <2>7 DEF SendPrefix, sockets, history
  <2>8. CASE SendPop
    BY <2>8 DEF SendPop, sockets, history
  <2>9. CASE SendPublish
    BY <2>9 DEF SendPublish, Release
  <2>10. CASE SendThrows
    BY <2>10 DEF SendThrows, Release
  <2>11. CASE CloseSend
    BY <2>11 DEF CloseSend, sockets, history
  <2>12. CASE Stop
    BY <2>12 DEF Stop, sockets, history
  <2>13. CASE Join
    BY <2>13 DEF Join, sockets, history
  <2>14. CASE OpenRecv
    BY <2>14 DEF OpenRecv, Terminate, sockets, history
  <2>15. CASE RecvLoop
    BY <2>15 DEF RecvLoop, sockets, history
  <2>16. CASE RecvFrame
    BY <2>16 DEF RecvFrame
  <2>17. CASE RecvNothing
    BY <2>17 DEF RecvNothing, history
  <2>18. CASE RecvThrows
    BY <2>18 DEF RecvThrows, Terminate, sockets, history
  <2>19. CASE RecvLock
    BY <2>19 DEF RecvLock, Acquire, MutexFree, sockets, history
  <2>20. CASE RecvPush
    BY <2>20 DEF RecvPush, Release, sockets, history
  <2>21. CASE Arrive
    BY <2>21 DEF Arrive, history
  <2>22. CASE Flush
    BY <2>22 DEF Flush, history
  <2>23. ASSUME NEW t \in Threads, Signal(t)
         PROVE  ControlInv'
    BY <2>23 DEF Signal
  <2>24. CASE UNCHANGED vars
    BY <2>24 DEF vars, sockets, history
  <2>25. QED
    BY <2>1, <2>2, <2>3, <2>4, <2>5, <2>6, <2>7, <2>8, <2>9, <2>10, <2>11,
       <2>12, <2>13, <2>14, <2>15, <2>16, <2>17, <2>18, <2>19, <2>20, <2>21,
       <2>22, <2>23, <2>24
       DEF Next, MainThread, RecvThread, Finished
<1>3. QED
  BY <1>1, <1>2, PTL DEF Spec

\* The mutex is held by exactly the thread that is in its critical section.
THEOREM MutexCorrect == Spec => []MutualExclusion
<1>1. ControlInv => MutualExclusion
  BY DEF ControlInv
<1>2. QED
  BY <1>1, ControlInvariant, PTL

-----------------------------------------------------------------------------
(* The strings in the threads' hands, and the filter.                      *)

\* While the process lives, a thread holds a string exactly between taking it
\* from the queue or the socket and handing it on.
HandInv ==
  mainPc # "aborted" =>
    /\ broadcast_msg # <<>> <=> mainPc = "send"
    /\ recv_str # <<>> <=> recvPc \in {"lock", "push"}

LEMMA HandInvariant == Spec => []HandInv
<1>1. Init => HandInv
  BY DEF Init, HandInv
<1>2. TypeInv /\ ControlInv /\ HandInv /\ [Next]_vars => HandInv'
  <2> SUFFICES ASSUME TypeInv, ControlInv, HandInv, [Next]_vars
               PROVE  HandInv'
    OBVIOUS
  <2> USE DEF HandInv, ControlInv
  <2>1. CASE Start
    BY <2>1 DEF Start, sockets, history
  <2>2. CASE Spawn
    BY <2>2 DEF Spawn, sockets, history
  <2>3. CASE OpenSend
    BY <2>3 DEF OpenSend, sockets, history
  <2>4. CASE SendLoop
    BY <2>4 DEF SendLoop, sockets, history
  <2>5. CASE SendLock
    BY <2>5 DEF SendLock, Acquire, MutexFree, sockets, history
  <2>6. CASE SendNothing
    BY <2>6 DEF SendNothing, Release, sockets, history
  <2>7. CASE SendPrefix
    BY <2>7 DEF SendPrefix, sockets, history
  <2>8. CASE SendPop
    BY <2>8 DEF SendPop, sockets, history
  <2>9. CASE SendPublish
    BY <2>9 DEF SendPublish, Release
  <2>10. CASE SendThrows
    BY <2>10 DEF SendThrows, Release
  <2>11. CASE CloseSend
    BY <2>11 DEF CloseSend, sockets, history
  <2>12. CASE Stop
    BY <2>12 DEF Stop, sockets, history
  <2>13. CASE Join
    BY <2>13 DEF Join, sockets, history
  <2>14. CASE OpenRecv
    BY <2>14 DEF OpenRecv, Terminate, sockets, history
  <2>15. CASE RecvLoop
    BY <2>15 DEF RecvLoop, sockets, history
  <2>16. CASE RecvFrame
    <3>1. CASE Head(pull) = Empty
      BY <2>16, <3>1 DEF RecvFrame
    <3>2. CASE Head(pull) # Empty
      <4>1. recv_str' # <<>>
        <5>1. recv_str' = <<Bare(Head(pull))>>
          BY <2>16, <3>2 DEF RecvFrame
        <5>2. QED
          BY <5>1
      <4>2. QED
        BY <2>16, <3>2, <4>1 DEF RecvFrame
    <3>3. QED
      BY <3>1, <3>2
  <2>17. CASE RecvNothing
    BY <2>17 DEF RecvNothing, history
  <2>18. CASE RecvThrows
    BY <2>18 DEF RecvThrows, Terminate, sockets, history
  <2>19. CASE RecvLock
    BY <2>19 DEF RecvLock, Acquire, MutexFree, sockets, history
  <2>20. CASE RecvPush
    BY <2>20 DEF RecvPush, Release, sockets, history
  <2>21. CASE Arrive
    BY <2>21 DEF Arrive, history
  <2>22. CASE Flush
    BY <2>22 DEF Flush, history
  <2>23. ASSUME NEW t \in Threads, Signal(t)
         PROVE  HandInv'
    BY <2>23 DEF Signal
  <2>24. CASE UNCHANGED vars
    BY <2>24 DEF vars, sockets, history
  <2>25. QED
    BY <2>1, <2>2, <2>3, <2>4, <2>5, <2>6, <2>7, <2>8, <2>9, <2>10, <2>11,
       <2>12, <2>13, <2>14, <2>15, <2>16, <2>17, <2>18, <2>19, <2>20, <2>21,
       <2>22, <2>23, <2>24
       DEF Next, MainThread, RecvThread, Finished
<1>3. QED
  BY <1>1, <1>2, TypeInvariant, ControlInvariant, PTL DEF Spec

\* A published or popped string carries the filter once; a string in the
\* receiving thread's hands does not carry it.
Filtered(s, n) == \A i \in DOMAIN s : s[i].filters = n

FilterInv ==
  /\ FilteredOnce
  /\ mainPc # "aborted" => Filtered(broadcast_msg, 1) /\ Filtered(recv_str, 0)

LEMMA FilteredConcat ==
  ASSUME NEW s \in Seq(String), NEW t \in Seq(String), NEW n,
         Filtered(s, n), Filtered(t, n)
  PROVE  Filtered(s \o t, n)
<1>1. /\ DOMAIN s = 1 .. Len(s) /\ DOMAIN t = 1 .. Len(t)
      /\ Len(s) \in Nat /\ Len(t) \in Nat
      /\ DOMAIN (s \o t) = 1 .. Len(s) + Len(t)
  BY LenProperties, ConcatProperties
<1>2. ASSUME NEW i \in 1 .. Len(s) + Len(t)
      PROVE  (s \o t)[i].filters = n
  <2>1. (s \o t)[i] = IF i <= Len(s) THEN s[i] ELSE t[i - Len(s)]
    BY ConcatProperties
  <2>2. CASE i <= Len(s)
    BY <1>1, <2>1, <2>2 DEF Filtered
  <2>3. CASE ~(i <= Len(s))
    <3>1. i - Len(s) \in 1 .. Len(t)
      BY <1>1, <2>3
    <3>2. QED
      BY <1>1, <2>1, <2>3, <3>1 DEF Filtered
  <2>4. QED
    BY <2>2, <2>3
<1>3. QED
  BY <1>1, <1>2 DEF Filtered

LEMMA FilteredSingle ==
  ASSUME NEW e
  PROVE  Filtered(<<e>>, e.filters) /\ Filtered(<<>>, 0) /\ Filtered(<<>>, 1)
BY DEF Filtered

LEMMA FilterInvariant == Spec => []FilterInv
<1>1. Init => FilterInv
  BY DEF Init, FilterInv, FilteredOnce, Filtered
<1>2. TypeInv /\ ControlInv /\ FilterInv /\ [Next]_vars => FilterInv'
  <2> SUFFICES ASSUME TypeInv, ControlInv, FilterInv, [Next]_vars
               PROVE  FilterInv'
    OBVIOUS
  <2>0. /\ m_receivedMessages \in Seq(String) /\ published \in Seq(String)
        /\ AtMostOne(broadcast_msg, String) /\ AtMostOne(recv_str, String)
    BY DEF TypeInv, TypeOK
  <2> USE <2>0 DEF FilterInv, FilteredOnce
  <2>1. CASE Start
    BY <2>1 DEF Start, sockets, history
  <2>2. CASE Spawn
    BY <2>2 DEF Spawn, sockets, history
  <2>3. CASE OpenSend
    BY <2>3 DEF OpenSend, sockets, history
  <2>4. CASE SendLoop
    BY <2>4 DEF SendLoop, sockets, history
  <2>5. CASE SendLock
    BY <2>5 DEF SendLock, Acquire, MutexFree, sockets, history
  <2>6. CASE SendNothing
    BY <2>6 DEF SendNothing, Release, sockets, history
  <2>7. CASE SendPrefix
    <3>1. 1 \in 1 .. Len(m_receivedMessages)
      BY <2>7, LenProperties, EmptySeq DEF SendPrefix
    <3>2. m_receivedMessages[1] \in String /\ m_receivedMessages[1].filters = 0
      BY <2>7, <3>1, ElementOfSeq, LenProperties DEF SendPrefix
    <3>3. ASSUME NEW i \in DOMAIN m_receivedMessages'
          PROVE  m_receivedMessages'[i].filters = IF i = 1 THEN 1 ELSE 0
      <4>1. m_receivedMessages'
              = [m_receivedMessages EXCEPT ![1] = AddFilter(m_receivedMessages[1])]
        BY <2>7 DEF SendPrefix
      <4>2. i \in DOMAIN m_receivedMessages
        BY <4>1
      <4>3. CASE i = 1
        <5>1. m_receivedMessages'[i] = AddFilter(m_receivedMessages[1])
          BY <4>1, <4>2, <4>3
        <5>2. QED
          BY <3>2, <4>3, <5>1, AddFilterType
      <4>4. CASE i # 1
        <5>1. m_receivedMessages'[i] = m_receivedMessages[i]
          BY <4>1, <4>2, <4>4
        <5>2. m_receivedMessages[i].filters = 0
          BY <2>7, <4>2, <4>4 DEF SendPrefix
        <5>3. QED
          BY <4>4, <5>1, <5>2
      <4>5. QED
        BY <4>3, <4>4
    <3>4. mainPc' = "pop" /\ UNCHANGED <<published, broadcast_msg, recv_str>>
      BY <2>7 DEF SendPrefix, history
    <3>5. mainPc # "aborted"
      BY <2>7 DEF SendPrefix
    <3>6. QED
      BY <3>3, <3>4, <3>5
  <2>8. CASE SendPop
    <3> DEFINE q == m_receivedMessages
    <3>1. q # <<>> /\ mainPc = "pop"
      BY <2>8 DEF SendPop, TypeInv
    <3>2. /\ Len(q) \in Nat \ {0} /\ DOMAIN q = 1 .. Len(q)
          /\ Tail(q) \in Seq(String) /\ Len(Tail(q)) = Len(q) - 1
          /\ \A i \in 1 .. Len(Tail(q)) : Tail(q)[i] = q[i + 1]
      <4>1. Len(q) \in Nat \ {0}
        BY <3>1, EmptySeq
      <4>2. DOMAIN q = 1 .. Len(q)
        BY LenProperties
      <4>3. QED
        BY <3>1, <4>1, <4>2, HeadTailProperties
    <3>3. DOMAIN Tail(q) = 1 .. Len(q) - 1
      BY <3>2, LenProperties
    <3>4. Filtered(<<Head(q)>>, 1)
      <4>1. Head(q) = q[1] /\ q[1].filters = 1
        BY <3>1, <3>2
      <4>2. QED
        BY <4>1, FilteredSingle
    <3>5. ASSUME NEW i \in DOMAIN Tail(q)
          PROVE  Tail(q)[i].filters = 0
      <4>1. i + 1 \in DOMAIN q /\ i + 1 # 1 /\ i \in 1 .. Len(Tail(q))
        BY <3>2, <3>3
      <4>2. Tail(q)[i] = q[i + 1] /\ q[i + 1].filters = 0
        BY <3>1, <3>2, <4>1
      <4>3. QED
        BY <4>2
    <3>6. /\ mainPc' = "send" /\ broadcast_msg' = <<Head(q)>>
          /\ m_receivedMessages' = Tail(q) /\ UNCHANGED <<published, recv_str>>
      BY <2>8 DEF SendPop, history
    <3>7. QED
      BY <3>1, <3>4, <3>5, <3>6
  <2>9. CASE SendPublish
    <3>1. mainPc = "send" /\ mainPc' = "loop"
      BY <2>9 DEF SendPublish
    <3>2. Filtered(published', 1)
      <4>1. Filtered(published, 1) /\ Filtered(broadcast_msg, 1)
        BY <3>1 DEF Filtered
      <4>2. QED
        BY <2>9, <4>1, FilteredConcat DEF SendPublish, AtMostOne
    <3>3. Filtered(broadcast_msg', 1)
      BY <2>9, FilteredSingle DEF SendPublish
    <3>4. UNCHANGED <<m_receivedMessages, recv_str>>
      BY <2>9 DEF SendPublish
    <3>5. QED
      BY <3>1, <3>2, <3>3, <3>4 DEF Filtered
  <2>10. CASE SendThrows
    <3>1. Filtered(broadcast_msg', 1)
      BY <2>10, FilteredSingle DEF SendThrows
    <3>2. QED
      BY <2>10, <3>1 DEF SendThrows
  <2>11. CASE CloseSend
    BY <2>11 DEF CloseSend, sockets, history
  <2>12. CASE Stop
    BY <2>12 DEF Stop, sockets, history
  <2>13. CASE Join
    BY <2>13 DEF Join, sockets, history
  <2>14. CASE OpenRecv
    BY <2>14 DEF OpenRecv, Terminate, sockets, history
  <2>15. CASE RecvLoop
    BY <2>15 DEF RecvLoop, sockets, history
  <2>16. CASE RecvFrame
    <3>1. CASE Head(pull) = Empty
      BY <2>16, <3>1 DEF RecvFrame
    <3>2. CASE Head(pull) # Empty
      <4>1. Filtered(recv_str', 0)
        <5>1. recv_str' = <<Bare(Head(pull))>> /\ Bare(Head(pull)).filters = 0
          BY <2>16, <3>2 DEF RecvFrame, Bare
        <5>2. QED
          BY <5>1, FilteredSingle
      <4>2. QED
        BY <2>16, <4>1 DEF RecvFrame
    <3>3. QED
      BY <3>1, <3>2
  <2>17. CASE RecvNothing
    BY <2>17 DEF RecvNothing, history
  <2>18. CASE RecvThrows
    BY <2>18 DEF RecvThrows, Terminate, sockets, history
  <2>19. CASE RecvLock
    BY <2>19 DEF RecvLock, Acquire, MutexFree, sockets, history
  <2>20. CASE RecvPush
    <3>1. mainPc # "aborted" /\ mainPc # "pop" /\ mainPc' = mainPc
      BY <2>20 DEF RecvPush, ControlInv, MutualExclusion
    <3>2. Filtered(m_receivedMessages, 0) /\ Filtered(recv_str, 0)
      BY <3>1 DEF Filtered
    <3>3. Filtered(m_receivedMessages', 0)
      BY <2>20, <3>2, FilteredConcat DEF RecvPush, AtMostOne
    <3>4. Filtered(recv_str', 0)
      BY <2>20, FilteredSingle DEF RecvPush
    <3>5. UNCHANGED <<published, broadcast_msg>>
      BY <2>20 DEF RecvPush, history
    <3>6. QED
      BY <3>1, <3>3, <3>4, <3>5 DEF Filtered
  <2>21. CASE Arrive
    BY <2>21 DEF Arrive, history
  <2>22. CASE Flush
    BY <2>22 DEF Flush, history
  <2>23. ASSUME NEW t \in Threads, Signal(t)
         PROVE  FilterInv'
    BY <2>23 DEF Signal
  <2>24. CASE UNCHANGED vars
    BY <2>24 DEF vars, sockets, history
  <2>25. QED
    BY <2>1, <2>2, <2>3, <2>4, <2>5, <2>6, <2>7, <2>8, <2>9, <2>10, <2>11,
       <2>12, <2>13, <2>14, <2>15, <2>16, <2>17, <2>18, <2>19, <2>20, <2>21,
       <2>22, <2>23, <2>24
       DEF Next, MainThread, RecvThread, Finished
<1>3. QED
  BY <1>1, <1>2, TypeInvariant, ControlInvariant, PTL DEF Spec

\* Every published string carries the server's filter exactly once.
THEOREM FilterCorrect == Spec => []FilteredOnce
<1>1. FilterInv => FilteredOnce
  BY DEF FilterInv
<1>2. QED
  BY <1>1, FilterInvariant, PTL

-----------------------------------------------------------------------------
(* The order of the texts.                                                 *)

LEMMA InFlightTexts ==
  ASSUME NEW b \in Seq(String), NEW q \in Seq(String), NEW r \in Seq(String)
  PROVE  Texts(b \o q \o r) = Texts(b) \o Texts(q) \o Texts(r)
<1>1. b \o q \in Seq(String)
  BY ConcatProperties
<1>2. QED
  BY <1>1, TextsConcat

\* Putting the filter in front of the first string leaves the texts alone.
LEMMA TextsFiltered ==
  ASSUME NEW q \in Seq(String), q # <<>>
  PROVE  Texts([q EXCEPT ![1] = AddFilter(q[1])]) = Texts(q)
<1> DEFINE f == [q EXCEPT ![1] = AddFilter(q[1])]
<1>1. Len(q) \in Nat \ {0}
  BY EmptySeq
<1>2. q[1] \in String
  BY <1>1, ElementOfSeq
<1>3. AddFilter(q[1]) \in String /\ AddFilter(q[1]).text = q[1].text
  BY <1>2, AddFilterType
<1>4. f \in Seq(String) /\ Len(f) = Len(q)
  BY <1>1, <1>3, ExceptSeq
<1>5. ASSUME NEW i \in 1 .. Len(q)
      PROVE  f[i].text = q[i].text
  <2>1. f[i] = IF i = 1 THEN AddFilter(q[1]) ELSE q[i]
    BY <1>1, <1>3, ExceptSeq
  <2>2. QED
    BY <1>3, <2>1
<1>6. DOMAIN f = DOMAIN q /\ DOMAIN q = 1 .. Len(q)
  BY <1>4, LenProperties
<1> HIDE DEF f
<1>7. QED
  BY <1>5, <1>6 DEF Texts, f

\* A signal can only break a send after it has set g_quit; the second conjunct
\* of RelayedInOrder is then kept.
OrderInv ==
  /\ RelayedInOrder
  /\ "main" \in eintr => g_quit

\* The first conjunct of RelayedInOrder, with the texts taken apart.
Ordered(a, p, l, b, q, r) ==
  a = Texts(p) \o l \o (Texts(b) \o Texts(q) \o Texts(r))

LEMMA TextsEmpty == Texts(<<>>) = <<>>
BY DEF Texts

\* Moving a text from one place of the server to the next only moves the
\* brackets of RelayedInOrder's concatenation.  The lemmas are stated over Line,
\* whose definition their proofs do not need.
Line == Seq(Message)

LEMMA Associative == \A s, t, u \in Line : Associates(s, t, u)
BY ConcatAssociative DEF Line, Associates

LEMMA Closed ==
  \A s, t \in Line : s \o t \in Line
BY ConcatProperties DEF Line

LEMMA Neutral ==
  \A s \in Line : s \o <<>> = s /\ <<>> \o s = s
BY ConcatEmptySeq DEF Line

Regrouped(p, l, b, q, r) ==
  /\ p \o <<>> \o (b \o q \o r) = (p \o b) \o <<>> \o (<<>> \o q \o r)
  /\ p \o <<>> \o (b \o q \o r) = p \o b \o (<<>> \o q \o r)
  /\ (p \o l \o (b \o q \o <<>>)) \o r = p \o l \o (b \o q \o r)
  /\ p \o l \o (b \o q \o r) = p \o l \o (b \o (q \o r) \o <<>>)

LEMMA Regroup == \A p, l, b, q, r \in Line : Regrouped(p, l, b, q, r)
<1> TAKE p, l, b, q, r \in Line
<1>1. /\ p \o b \in Line /\ q \o r \in Line
  BY Closed, Zenon
<1>2. p \o l \in Line
  BY Closed, Zenon
<1>3. b \o q \in Line
  BY Closed, Zenon
<1>4. b \o (q \o r) \in Line
  BY <1>1, Closed, Zenon
<1>5. p \o <<>> = p /\ (p \o b) \o <<>> = p \o b /\ <<>> \o q = q
  BY <1>1, Neutral, Zenon
<1>6. (b \o q) \o <<>> = b \o q
  BY <1>3, Neutral, Zenon
<1>7. (b \o (q \o r)) \o <<>> = b \o (q \o r)
  BY <1>4, Neutral, Zenon
<1>8. /\ Associates(b, q, r)
      /\ Associates(p, b, q \o r)
      /\ Associates(p \o l, b \o q, r)
  BY <1>1, <1>2, <1>3, Associative
<1>9. QED
  BY <1>5, <1>6, <1>7, <1>8 DEF Regrouped, Associates

LEMMA OrderInvariant == Spec => []OrderInv
<1>1. Init => OrderInv
  <2> SUFFICES ASSUME Init PROVE OrderInv
    OBVIOUS
  <2>1. Texts(published) = <<>> /\ Texts(InFlight) = <<>>
    BY TextsEmpty DEF Init, InFlight
  <2>2. QED
    BY <2>1 DEF Init, OrderInv, RelayedInOrder
<1>2. TypeInv /\ TypeInv' /\ ControlInv /\ HandInv /\ OrderInv /\ [Next]_vars => OrderInv'
  <2> SUFFICES ASSUME TypeInv, TypeInv', ControlInv, HandInv, OrderInv, [Next]_vars
               PROVE  OrderInv'
    OBVIOUS
  <2>a. /\ published \in Seq(String) /\ m_receivedMessages \in Seq(String)
        /\ broadcast_msg \in Seq(String) /\ recv_str \in Seq(String)
        /\ lost \in Seq(Message)
    BY DEF TypeInv, TypeOK, AtMostOne
  <2>b. /\ published' \in Seq(String) /\ m_receivedMessages' \in Seq(String)
        /\ broadcast_msg' \in Seq(String) /\ recv_str' \in Seq(String)
    BY DEF TypeInv, TypeOK, AtMostOne
  <2> DEFINE P == Texts(published)
             B == Texts(broadcast_msg)
             Q == Texts(m_receivedMessages)
             R == Texts(recv_str)
  <2>0. P \in Line /\ B \in Line /\ Q \in Line /\ R \in Line /\ lost \in Line
    BY <2>a, TextsType DEF Line
  <2>e. Regrouped(P, lost, B, Q, R)
    BY <2>0, Regroup
  <2>c. Ordered(accepted, published, lost, broadcast_msg, m_receivedMessages, recv_str)
    BY <2>a, InFlightTexts DEF OrderInv, RelayedInOrder, InFlight, Ordered
  <2>d. /\ lost # <<>> =>
             g_quit /\ mainPc \in {"close", "stop", "join", "end", "aborted"}
        /\ "main" \in eintr => g_quit
    BY DEF OrderInv, RelayedInOrder
  <2> SUFFICES
        /\ Ordered(accepted', published', lost', broadcast_msg', m_receivedMessages', recv_str')
        /\ lost' # <<>> =>
             g_quit' /\ mainPc' \in {"close", "stop", "join", "end", "aborted"}
        /\ "main" \in eintr' => g_quit'
    BY <2>b, InFlightTexts DEF OrderInv, RelayedInOrder, InFlight, Ordered
  <2> DEFINE Goal ==
        /\ Ordered(accepted', published', lost', broadcast_msg', m_receivedMessages', recv_str')
        /\ lost' # <<>> =>
             g_quit' /\ mainPc' \in {"close", "stop", "join", "end", "aborted"}
        /\ "main" \in eintr' => g_quit'
  <2> USE <2>a, <2>c, <2>d DEF Ordered
  <2>1. CASE Start
    BY <2>1 DEF Start, sockets, history
  <2>2. CASE Spawn
    BY <2>2 DEF Spawn, sockets, history
  <2>3. CASE OpenSend
    BY <2>3 DEF OpenSend, sockets, history
  <2>4. CASE SendLoop
    BY <2>4 DEF SendLoop, sockets, history
  <2>5. CASE SendLock
    BY <2>5 DEF SendLock, Acquire, MutexFree, sockets, history
  <2>6. CASE SendNothing
    BY <2>6 DEF SendNothing, Release, sockets, history
  <2>7. CASE SendPrefix
    <3>1. Texts(m_receivedMessages') = Texts(m_receivedMessages)
      BY <2>7, TextsFiltered DEF SendPrefix
    <3>2. Ordered(accepted', published', lost', broadcast_msg', m_receivedMessages', recv_str')
      BY <2>7, <3>1 DEF SendPrefix, history
    <3>3. QED
      BY <2>7, <3>2 DEF SendPrefix, sockets, history
  <2>8. CASE SendPop
    <3> DEFINE q == m_receivedMessages
    <3>1. mainPc = "pop" /\ q # <<>> /\ broadcast_msg = <<>>
      BY <2>8 DEF SendPop, TypeInv, HandInv
    <3>2. Tail(q) \in Seq(String) /\ <<Head(q)>> \in Seq(String) /\ q = <<Head(q)>> \o Tail(q)
      BY <3>1, HeadTailProperties, SeqSplit
    <3>3. Texts(q) = Texts(<<Head(q)>>) \o Texts(Tail(q))
      BY <3>2, TextsConcat
    <3>4. Texts(broadcast_msg) \o Texts(q) = Texts(broadcast_msg') \o Texts(m_receivedMessages')
      BY <2>8, <3>1, <3>3, TextsType, TextsEmpty, ConcatEmptySeq DEF SendPop
    <3>5. Ordered(accepted', published', lost', broadcast_msg', m_receivedMessages', recv_str')
      BY <2>8, <3>4 DEF SendPop, history
    <3>6. QED
      BY <2>8, <3>5 DEF SendPop, sockets, history
  <2>9. CASE SendPublish
    <3>1. mainPc = "send" /\ lost = <<>> /\ lost' = <<>>
      BY <2>9 DEF SendPublish
    <3>2. Texts(published') = Texts(published) \o Texts(broadcast_msg) /\ Texts(broadcast_msg') = <<>>
      BY <2>9, TextsConcat, TextsEmpty DEF SendPublish
    <3>3. UNCHANGED <<accepted, m_receivedMessages, recv_str>>
      BY <2>9 DEF SendPublish
    <3>4. P \o <<>> \o (B \o Q \o R) = (P \o B) \o <<>> \o (<<>> \o Q \o R)
      BY <2>e DEF Regrouped
    <3>5. Ordered(accepted', published', lost', broadcast_msg', m_receivedMessages', recv_str')
      BY <3>1, <3>2, <3>3, <3>4
    <3>6. QED
      BY <2>9, <3>1, <3>5 DEF SendPublish
  <2>10. CASE SendThrows
    <3>1. mainPc = "send" /\ lost = <<>> /\ lost' = Texts(broadcast_msg)
      BY <2>10 DEF SendThrows
    <3>2. Texts(broadcast_msg') = <<>> /\ UNCHANGED published
      BY <2>10, TextsEmpty DEF SendThrows
    <3>3. UNCHANGED <<accepted, m_receivedMessages, recv_str>>
      BY <2>10 DEF SendThrows
    <3>4. P \o <<>> \o (B \o Q \o R) = P \o B \o (<<>> \o Q \o R)
      BY <2>e DEF Regrouped
    <3>5. Ordered(accepted', published', lost', broadcast_msg', m_receivedMessages', recv_str')
      BY <3>1, <3>2, <3>3, <3>4
    <3>6. QED
      BY <2>10, <3>5 DEF SendThrows
  <2>11. CASE CloseSend
    BY <2>11 DEF CloseSend, sockets, history
  <2>12. CASE Stop
    BY <2>12 DEF Stop, sockets, history
  <2>13. CASE Join
    BY <2>13 DEF Join, sockets, history
  <2>14. CASE OpenRecv
    BY <2>14 DEF OpenRecv, Terminate, sockets, history
  <2>15. CASE RecvLoop
    BY <2>15 DEF RecvLoop, sockets, history
  <2>16. CASE RecvFrame
    <3>1. CASE Head(pull) = Empty
      BY <2>16, <3>1 DEF RecvFrame
    <3>2. CASE Head(pull) # Empty
      <4> DEFINE m == Head(pull)
      <4>1. /\ recv_str = <<>> /\ recv_str' = <<Bare(m)>>
            /\ accepted' = Append(accepted, m)
            /\ UNCHANGED <<published, lost, broadcast_msg, m_receivedMessages>>
        BY <2>16, <3>2 DEF RecvFrame, HandInv, ControlInv
      <4>2. m \in Message
        <5>1. pull \in Seq(Message \cup {Empty}) /\ pull # <<>>
          BY <2>16 DEF RecvFrame, TypeInv, TypeOK
        <5>2. m \in Message \cup {Empty}
          BY <5>1, HeadTailProperties
        <5>3. QED
          BY <3>2, <5>2
      <4>3. Texts(recv_str') = <<m>> /\ Texts(recv_str) = <<>> /\ <<m>> \in Seq(Message)
        <5> HIDE DEF m
        <5>1. Texts(<<Bare(m)>>) = <<m>>
          BY DEF Texts, Bare
        <5>2. QED
          BY <4>1, <4>2, <5>1, TextsEmpty
      <4>4. accepted' = accepted \o <<m>>
        BY <4>1, <4>2, AppendIsConcat DEF TypeInv, TypeOK
      <4>5. (P \o lost \o (B \o Q \o <<>>)) \o <<m>> = P \o lost \o (B \o Q \o <<m>>)
        <5> DEFINE n == <<m>>
        <5>1. n \in Line
          BY <4>3 DEF Line
        <5>2. Regrouped(P, lost, B, Q, n)
          BY <2>0, <5>1, Regroup
        <5>3. QED
          BY <5>2 DEF Regrouped
      <4>6. Ordered(accepted', published', lost', broadcast_msg', m_receivedMessages', recv_str')
        BY <4>1, <4>3, <4>4, <4>5
      <4>7. QED
        BY <2>16, <4>6 DEF RecvFrame
    <3>3. QED
      BY <3>1, <3>2
  <2>17. CASE RecvNothing
    BY <2>17 DEF RecvNothing, history
  <2>18. CASE RecvThrows
    BY <2>18 DEF RecvThrows, Terminate, sockets, history
  <2>19. CASE RecvLock
    BY <2>19 DEF RecvLock, Acquire, MutexFree, sockets, history
  <2>20. CASE RecvPush
    <3>1. /\ Texts(m_receivedMessages') = Texts(m_receivedMessages) \o Texts(recv_str)
          /\ Texts(recv_str') = <<>>
      BY <2>20, TextsConcat, TextsEmpty DEF RecvPush
    <3>2. UNCHANGED <<accepted, published, lost, broadcast_msg>>
      BY <2>20 DEF RecvPush, history
    <3>3. P \o lost \o (B \o Q \o R) = P \o lost \o (B \o (Q \o R) \o <<>>)
      BY <2>e DEF Regrouped
    <3>4. Ordered(accepted', published', lost', broadcast_msg', m_receivedMessages', recv_str')
      BY <3>1, <3>2, <3>3
    <3>5. QED
      BY <2>20, <3>4 DEF RecvPush, sockets, history
  <2>21. CASE Arrive
    BY <2>21 DEF Arrive, history
  <2>22. CASE Flush
    BY <2>22 DEF Flush, history
  <2>23. ASSUME NEW t \in Threads, Signal(t)
         PROVE  Goal
    BY <2>23 DEF Signal
  <2>24. CASE UNCHANGED vars
    BY <2>24 DEF vars, sockets, history
  <2>25. QED
    BY <2>1, <2>2, <2>3, <2>4, <2>5, <2>6, <2>7, <2>8, <2>9, <2>10, <2>11,
       <2>12, <2>13, <2>14, <2>15, <2>16, <2>17, <2>18, <2>19, <2>20, <2>21,
       <2>22, <2>23, <2>24
       DEF Next, MainThread, RecvThread, Finished
<1>3. QED
  BY <1>1, <1>2, TypeInvariant, ControlInvariant, HandInvariant, PTL DEF Spec

\* Neither thread drops, duplicates or reorders a text, save the one in hand
\* when a signal breaks a send.
THEOREM OrderCorrect == Spec => []RelayedInOrder
<1>1. OrderInv => RelayedInOrder
  BY DEF OrderInv
<1>2. QED
  BY <1>1, OrderInvariant, PTL

-----------------------------------------------------------------------------
(* After the quit flag.                                                    *)

\* When g_quit rises the main thread is at most one sendMsg call away from
\* testing it, and that call publishes at most one string.
QuitInv ==
  g_quit =>
    \/ Len(published) = pubAtQuit
    \/ /\ Len(published) = pubAtQuit + 1
       /\ mainPc \in {"loop", "close", "stop", "join", "end", "aborted"}

LEMMA QuitInvariant == Spec => []QuitInv
<1>1. Init => QuitInv
  BY DEF Init, QuitInv
<1>2. TypeInv /\ QuitInv /\ [Next]_vars => QuitInv'
  <2> SUFFICES ASSUME TypeInv, QuitInv, [Next]_vars
               PROVE  QuitInv'
    OBVIOUS
  <2> USE DEF QuitInv
  <2>1. CASE Start
    BY <2>1 DEF Start, sockets, history
  <2>2. CASE Spawn
    BY <2>2 DEF Spawn, sockets, history
  <2>3. CASE OpenSend
    BY <2>3 DEF OpenSend, sockets, history
  <2>4. CASE SendLoop
    BY <2>4 DEF SendLoop, Working, history
  <2>5. CASE SendLock
    BY <2>5 DEF SendLock, Acquire, MutexFree, sockets, history
  <2>6. CASE SendNothing
    BY <2>6 DEF SendNothing, Release, sockets, history
  <2>7. CASE SendPrefix
    BY <2>7 DEF SendPrefix, sockets, history
  <2>8. CASE SendPop
    BY <2>8 DEF SendPop, sockets, history
  <2>9. CASE SendPublish
    <3>1. /\ published \in Seq(String) /\ broadcast_msg \in Seq(String)
          /\ Len(broadcast_msg) <= 1 /\ pubAtQuit \in 0 .. Len(published)
      BY DEF TypeInv, TypeOK, AtMostOne
    <3>2. Len(published) \in Nat
      BY <3>1, LenProperties
    <3>3. Len(broadcast_msg) \in Nat
      BY <3>1, LenProperties
    <3>4. Len(published') = Len(published) + Len(broadcast_msg)
      BY <2>9, <3>1, ConcatProperties DEF SendPublish
    <3>5. /\ mainPc = "send" /\ mainPc' = "loop"
          /\ UNCHANGED <<g_quit, pubAtQuit>>
      BY <2>9 DEF SendPublish
    <3>6. QED
      BY <3>1, <3>2, <3>3, <3>4, <3>5
  <2>10. CASE SendThrows
    BY <2>10 DEF SendThrows, Release
  <2>11. CASE CloseSend
    BY <2>11 DEF CloseSend, sockets, history
  <2>12. CASE Stop
    BY <2>12 DEF Stop, sockets, history
  <2>13. CASE Join
    BY <2>13 DEF Join, sockets, history
  <2>14. CASE OpenRecv
    BY <2>14 DEF OpenRecv, Terminate, sockets, history
  <2>15. CASE RecvLoop
    BY <2>15 DEF RecvLoop, sockets, history
  <2>16. CASE RecvFrame
    BY <2>16 DEF RecvFrame
  <2>17. CASE RecvNothing
    BY <2>17 DEF RecvNothing, history
  <2>18. CASE RecvThrows
    BY <2>18 DEF RecvThrows, Terminate, sockets, history
  <2>19. CASE RecvLock
    BY <2>19 DEF RecvLock, Acquire, MutexFree, sockets, history
  <2>20. CASE RecvPush
    BY <2>20 DEF RecvPush, Release, sockets, history
  <2>21. CASE Arrive
    BY <2>21 DEF Arrive, history
  <2>22. CASE Flush
    BY <2>22 DEF Flush, history
  <2>23. ASSUME NEW t \in Threads, Signal(t)
         PROVE  QuitInv'
    BY <2>23 DEF Signal
  <2>24. CASE UNCHANGED vars
    BY <2>24 DEF vars, sockets, history
  <2>25. QED
    BY <2>1, <2>2, <2>3, <2>4, <2>5, <2>6, <2>7, <2>8, <2>9, <2>10, <2>11,
       <2>12, <2>13, <2>14, <2>15, <2>16, <2>17, <2>18, <2>19, <2>20, <2>21,
       <2>22, <2>23, <2>24
       DEF Next, MainThread, RecvThread, Finished
<1>3. QED
  BY <1>1, <1>2, TypeInvariant, PTL DEF Spec

\* Once g_quit is set the server publishes at most one more message.
THEOREM QuitCorrect == Spec => []AtMostOneAfterQuit
<1>1. TypeInv /\ QuitInv => AtMostOneAfterQuit
  BY DEF TypeInv, TypeOK, QuitInv, AtMostOneAfterQuit
<1>2. QED
  BY <1>1, TypeInvariant, QuitInvariant, PTL

-----------------------------------------------------------------------------
(* The end of startServer().                                               *)

\* m_flIsWorking is still set when the destructor calls stop(), so the
\* receiving thread is joined whatever made start() end; and the context of
\* the PUB socket, if there is one, was emptied before.
EndInv ==
  /\ mainPc \in {"spawn", "open", "loop", "lock", "check", "pop", "send",
                 "close", "stop"} => m_flIsWorking
  /\ mainPc \in {"start", "spawn", "open"} => published = <<>> /\ flushed = 0
  /\ mainPc \in {"stop", "join", "end"} => flushed = Len(published)
  /\ mainPc = "end" => recvPc \in {"none", "done"}

LEMMA EndInvariant == Spec => []EndInv
<1>1. Init => EndInv
  BY DEF Init, EndInv
<1>2. TypeInv /\ ControlInv /\ EndInv /\ [Next]_vars => EndInv'
  <2> SUFFICES ASSUME TypeInv, ControlInv, EndInv, [Next]_vars
               PROVE  EndInv'
    OBVIOUS
  <2> USE DEF EndInv, ControlInv
  <2>1. CASE Start
    BY <2>1 DEF Start, sockets, history
  <2>2. CASE Spawn
    <3>1. Len(<<>>) = 0
      BY EmptySeq
    <3>2. QED
      BY <2>2, <3>1 DEF Spawn, sockets, history
  <2>3. CASE OpenSend
    <3>1. Len(<<>>) = 0
      BY EmptySeq
    <3>2. QED
      BY <2>3, <3>1 DEF OpenSend, sockets, history
  <2>4. CASE SendLoop
    BY <2>4 DEF SendLoop, sockets, history
  <2>5. CASE SendLock
    BY <2>5 DEF SendLock, Acquire, MutexFree, sockets, history
  <2>6. CASE SendNothing
    BY <2>6 DEF SendNothing, Release, sockets, history
  <2>7. CASE SendPrefix
    BY <2>7 DEF SendPrefix, sockets, history
  <2>8. CASE SendPop
    BY <2>8 DEF SendPop, sockets, history
  <2>9. CASE SendPublish
    BY <2>9 DEF SendPublish, Release
  <2>10. CASE SendThrows
    BY <2>10 DEF SendThrows, Release
  <2>11. CASE CloseSend
    BY <2>11 DEF CloseSend, sockets, history
  <2>12. CASE Stop
    BY <2>12 DEF Stop, sockets, history
  <2>13. CASE Join
    BY <2>13 DEF Join, sockets, history
  <2>14. CASE OpenRecv
    BY <2>14 DEF OpenRecv, Terminate, sockets, history
  <2>15. CASE RecvLoop
    BY <2>15 DEF RecvLoop, sockets, history
  <2>16. CASE RecvFrame
    BY <2>16 DEF RecvFrame
  <2>17. CASE RecvNothing
    BY <2>17 DEF RecvNothing, history
  <2>18. CASE RecvThrows
    BY <2>18 DEF RecvThrows, Terminate, sockets, history
  <2>19. CASE RecvLock
    BY <2>19 DEF RecvLock, Acquire, MutexFree, sockets, history
  <2>20. CASE RecvPush
    BY <2>20 DEF RecvPush, Release, sockets, history
  <2>21. CASE Arrive
    BY <2>21 DEF Arrive, history
  <2>22. CASE Flush
    <3>1. mainPc \notin {"start", "spawn", "open", "stop", "join", "end"}
      <4>1. Len(<<>>) = 0
        BY EmptySeq
      <4>2. QED
        BY <2>22, <4>1, LenProperties DEF Flush, TypeInv, TypeOK
    <3>2. QED
      BY <2>22, <3>1 DEF Flush, history
  <2>23. ASSUME NEW t \in Threads, Signal(t)
         PROVE  EndInv'
    BY <2>23 DEF Signal
  <2>24. CASE UNCHANGED vars
    BY <2>24 DEF vars, sockets, history
  <2>25. QED
    BY <2>1, <2>2, <2>3, <2>4, <2>5, <2>6, <2>7, <2>8, <2>9, <2>10, <2>11,
       <2>12, <2>13, <2>14, <2>15, <2>16, <2>17, <2>18, <2>19, <2>20, <2>21,
       <2>22, <2>23, <2>24
       DEF Next, MainThread, RecvThread, Finished
<1>3. QED
  BY <1>1, <1>2, TypeInvariant, ControlInvariant, PTL DEF Spec

\* When startServer() returns, the receiving thread is gone, the mutex is free
\* and no text is in a thread's hands.
THEOREM EndCorrect == Spec => []CleanEnd
<1>1. TypeInv /\ ControlInv /\ HandInv /\ EndInv => CleanEnd
  <2> SUFFICES ASSUME TypeInv, ControlInv, HandInv, EndInv, mainPc = "end"
               PROVE  /\ recvPc \in {"none", "done"}
                      /\ m_mtx = "free"
                      /\ InFlight = m_receivedMessages
                      /\ flushed = Len(published)
    BY DEF CleanEnd
  <2>1. recvPc \in {"none", "done"} /\ flushed = Len(published)
    BY DEF EndInv
  <2>2. m_mtx = "free"
    BY <2>1 DEF ControlInv, MutualExclusion, TypeInv, TypeOK, Threads
  <2>3. broadcast_msg = <<>> /\ recv_str = <<>>
    BY <2>1 DEF HandInv
  <2>4. InFlight = m_receivedMessages
    <3>1. m_receivedMessages \in Seq(String)
      BY DEF TypeInv, TypeOK
    <3>2. QED
      BY <2>3, <3>1, ConcatEmptySeq DEF InFlight
  <2>5. QED
    BY <2>1, <2>2, <2>4
<1>2. QED
  BY <1>1, TypeInvariant, ControlInvariant, HandInvariant, EndInvariant, PTL

-----------------------------------------------------------------------------
(* The refinement.                                                         *)

\* Whatever the threads, the mutex and the signals do, the server is a relay
\* that never skips, repeats or reorders a text: every step of the server is a
\* step of FifoRelay or changes nothing that FifoRelay speaks of.
THEOREM ServerRefinesRelay == Spec => Relay!SafeSpec
<1>1. Init => Relay!Init
  BY TextsEmpty DEF Init, Relay!Init
<1>2. TypeInv /\ HandInv /\ OrderInv /\ [Next]_vars => [Relay!Next]_(Relay!vars)
  <2> SUFFICES ASSUME TypeInv, HandInv, OrderInv, [Next]_vars
               PROVE  [Relay!Next]_(Relay!vars)
    OBVIOUS
  <2>a. AtMostOne(broadcast_msg, String)
    BY DEF TypeInv, TypeOK
  <2>b. /\ published \in Seq(String) /\ m_receivedMessages \in Seq(String)
        /\ broadcast_msg \in Seq(String) /\ recv_str \in Seq(String)
    BY DEF TypeInv, TypeOK, AtMostOne
  <2> DEFINE Goal == [Relay!Next]_(Relay!vars)
  <2> USE DEF Relay!Next, Relay!Close, Relay!vars
  <2>1. CASE Start
    BY <2>1 DEF Start, sockets, history
  <2>2. CASE Spawn
    <3>1. UNCHANGED <<accepted, published>>
      BY <2>2 DEF Spawn, history
    <3>2. CASE mainPc' = "open"
      BY <2>2, <3>1, <3>2 DEF Spawn
    <3>3. CASE mainPc' = "stop"
      BY <2>2, <3>1, <3>3 DEF Spawn
    <3>4. QED
      BY <2>2, <3>2, <3>3 DEF Spawn
  <2>3. CASE OpenSend
    <3>1. UNCHANGED <<accepted, published>>
      BY <2>3 DEF OpenSend, history
    <3>2. CASE mainPc' = "loop"
      BY <2>3, <3>1, <3>2 DEF OpenSend
    <3>3. CASE mainPc' = "stop"
      BY <2>3, <3>1, <3>3 DEF OpenSend
    <3>4. QED
      BY <2>3, <3>2, <3>3 DEF OpenSend
  <2>4. CASE SendLoop
    BY <2>4 DEF SendLoop, sockets, history
  <2>5. CASE SendLock
    BY <2>5 DEF SendLock, Acquire, MutexFree, sockets, history
  <2>6. CASE SendNothing
    BY <2>6 DEF SendNothing, Release, sockets, history
  <2>7. CASE SendPrefix
    BY <2>7 DEF SendPrefix, sockets, history
  <2>8. CASE SendPop
    BY <2>8 DEF SendPop, sockets, history
  <2>9. CASE SendPublish
    <3>1. mainPc = "send" /\ lost = <<>>
      BY <2>9 DEF SendPublish, OrderInv, RelayedInOrder
    <3>2. PICK e \in String : broadcast_msg = <<e>>
      <4>1. broadcast_msg # <<>>
        BY <3>1 DEF HandInv
      <4>2. QED
        BY <2>a, <4>1, AtMostOneCases
    <3> DEFINE P == Texts(published)
               B == Texts(broadcast_msg)
               X == Texts(m_receivedMessages) \o Texts(recv_str)
    <3>3. e.text \in Message /\ B = <<e.text>>
      BY <3>2 DEF String, Texts
    <3>4. P \in Line /\ B \in Line /\ X \in Line
      <4>1. Texts(m_receivedMessages) \in Line /\ Texts(recv_str) \in Line
        BY <2>b, TextsType DEF Line
      <4>2. QED
        BY <2>b, <4>1, TextsType, Closed DEF Line
    <3>5. accepted = Append(P, e.text) \o X
      <4>1. accepted = P \o <<>> \o (B \o Texts(m_receivedMessages) \o Texts(recv_str))
        BY <3>1, <2>b, InFlightTexts DEF OrderInv, RelayedInOrder, InFlight
      <4>2. Texts(m_receivedMessages) \in Line /\ Texts(recv_str) \in Line
        BY <2>b, TextsType DEF Line
      <4>3. Associates(B, Texts(m_receivedMessages), Texts(recv_str))
        BY <3>4, <4>2, Associative
      <4>4. Associates(P, B, X)
        BY <3>4, Associative
      <4>5. P \o <<>> = P
        BY <3>4, Neutral
      <4>6. P \o B = Append(P, e.text)
        BY <3>3, <3>4, AppendIsConcat DEF Line
      <4>7. QED
        BY <4>1, <4>3, <4>4, <4>5, <4>6 DEF Associates
    <3>6. Len(P) < Len(accepted) /\ accepted[Len(P) + 1] = e.text
      <4> DEFINE A == Append(P, e.text)
      <4>1. A \in Line /\ Len(A) = Len(P) + 1 /\ A[Len(P) + 1] = e.text
        BY <3>3, <3>4, AppendProperties DEF Line
      <4>2. Len(P) \in Nat /\ Len(X) \in Nat
        BY <3>4, LenProperties DEF Line
      <4> HIDE DEF A, P, X
      <4>3. /\ Len(A \o X) = Len(A) + Len(X)
            /\ \A i \in 1 .. Len(A) + Len(X) :
                 (A \o X)[i] = IF i <= Len(A) THEN A[i] ELSE X[i - Len(A)]
        BY <3>4, <4>1, ConcatProperties DEF Line
      <4>4. accepted = A \o X
        BY <3>5 DEF A
      <4>5. QED
        BY <4>1, <4>2, <4>3, <4>4
    <3>7. Texts(published') = Append(P, e.text)
      <4>1. published' = published \o broadcast_msg
        BY <2>9 DEF SendPublish
      <4>2. Texts(published') = P \o B
        BY <2>b, <4>1, TextsConcat
      <4>3. QED
        BY <3>3, <3>4, <4>2, AppendIsConcat DEF Line
    <3>8. UNCHANGED accepted /\ mainPc' = "loop"
      BY <2>9 DEF SendPublish
    <3>9. Relay!Relay
      BY <3>1, <3>6, <3>7, <3>8 DEF Relay!Relay
    <3>10. QED
      BY <3>9
  <2>10. CASE SendThrows
    BY <2>10 DEF SendThrows, Release
  <2>11. CASE CloseSend
    BY <2>11 DEF CloseSend, sockets, history
  <2>12. CASE Stop
    BY <2>12 DEF Stop, sockets, history
  <2>13. CASE Join
    BY <2>13 DEF Join, sockets, history
  <2>14. CASE OpenRecv
    <3>1. UNCHANGED <<accepted, published>>
      BY <2>14 DEF OpenRecv, history
    <3>2. CASE UNCHANGED mainPc
      BY <3>1, <3>2
    <3>3. CASE Terminate
      BY <3>1, <3>3 DEF Terminate
    <3>4. QED
      BY <2>14, <3>2, <3>3 DEF OpenRecv
  <2>15. CASE RecvLoop
    BY <2>15 DEF RecvLoop, sockets, history
  <2>16. CASE RecvFrame
    <3>1. UNCHANGED <<mainPc, published>>
      BY <2>16 DEF RecvFrame
    <3>2. CASE Head(pull) = Empty
      BY <2>16, <3>1, <3>2 DEF RecvFrame
    <3>3. CASE Head(pull) # Empty
      <4>1. Head(pull) \in Message
        BY <2>16, <3>3, HeadTailProperties DEF RecvFrame, TypeInv, TypeOK
      <4>2. accepted' = Append(accepted, Head(pull))
        BY <2>16, <3>3 DEF RecvFrame
      <4>3. QED
        BY <3>1, <4>1, <4>2 DEF Relay!Accept
    <3>4. QED
      BY <3>2, <3>3
  <2>17. CASE RecvNothing
    BY <2>17 DEF RecvNothing, history
  <2>18. CASE RecvThrows
    BY <2>18 DEF RecvThrows, Terminate, sockets, history
  <2>19. CASE RecvLock
    BY <2>19 DEF RecvLock, Acquire, MutexFree, sockets, history
  <2>20. CASE RecvPush
    BY <2>20 DEF RecvPush, Release, sockets, history
  <2>21. CASE Arrive
    BY <2>21 DEF Arrive, history
  <2>22. CASE Flush
    BY <2>22 DEF Flush, history
  <2>23. ASSUME NEW t \in Threads, Signal(t)
         PROVE  Goal
    BY <2>23 DEF Signal
  <2>24. CASE UNCHANGED vars
    BY <2>24 DEF vars, sockets, history
  <2>25. QED
    BY <2>1, <2>2, <2>3, <2>4, <2>5, <2>6, <2>7, <2>8, <2>9, <2>10, <2>11,
       <2>12, <2>13, <2>14, <2>15, <2>16, <2>17, <2>18, <2>19, <2>20, <2>21,
       <2>22, <2>23, <2>24
       DEF Next, MainThread, RecvThread, Finished
<1>3. QED
  BY <1>1, <1>2, TypeInvariant, HandInvariant, OrderInvariant, PTL
     DEF Spec, Relay!SafeSpec

=============================================================================
