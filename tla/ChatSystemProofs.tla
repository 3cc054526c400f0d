-------------------------- MODULE ChatSystemProofs --------------------------
(***************************************************************************)
(* The safety of ChatSystem for any number of clients, lines, faults and   *)
(* frames in flight, and that it implements BroadcastLog.                  *)
(***************************************************************************)
EXTENDS ChatSystem, SequenceTheorems, TLAPS

-----------------------------------------------------------------------------
(* Queues between two threads.                                             *)

\* An element moves from the head of a queue to the end of the sequence of the
\* elements taken out: the two together stay the same.
LEMMA TakeKeeps ==
  ASSUME NEW S, NEW w \in Seq(S), NEW p \in Seq(S), p # <<>>
  PROVE  Append(w, Head(p)) \o Tail(p) = w \o p
<1>1. Len(p) \in Nat \ {0} /\ Head(p) \in S /\ Head(p) = p[1]
  BY EmptySeq, HeadTailProperties
<1>2. PICK h, t : h = <<p[1]>> /\ t = SubSeq(p, 1 + 1, Len(p))
  OBVIOUS
<1>3. p = h \o t /\ Tail(p) = t
  BY <1>1, <1>2, SubSeqRecursiveFirst, SubSeqFull, TailIsSubSeq
<1>4. h \in Seq(S) /\ t \in Seq(S)
  BY <1>1, <1>2, <1>3, HeadTailProperties
<1>5. (w \o h) \o t = w \o (h \o t)
  BY <1>4, ConcatAssociative
<1>6. Append(w, Head(p)) = w \o h
  BY <1>1, <1>2, AppendIsConcat
<1>7. QED
  BY <1>3, <1>5, <1>6

\* An element put into the queue comes after all the others.
LEMMA PutAppends ==
  ASSUME NEW S, NEW w \in Seq(S), NEW p \in Seq(S), NEW e \in S
  PROVE  w \o Append(p, e) = Append(w \o p, e)
<1>1. PICK c, d : c = <<e>> /\ d = w \o p
  OBVIOUS
<1>2. c \in Seq(S) /\ d \in Seq(S)
  BY <1>1, ConcatProperties
<1>3. Append(d, e) = d \o c /\ Append(p, e) = p \o c
  BY <1>1, <1>2, AppendIsConcat
<1>4. (w \o p) \o c = w \o (p \o c)
  BY <1>2, ConcatAssociative, SMTT(30)
<1>5. QED
  BY <1>1, <1>3, <1>4

-----------------------------------------------------------------------------
(* What is left of a queue that is cut.                                    *)

LEMMA KeepProperties ==
  ASSUME NEW S, NEW s \in Seq(S), NEW k \in 0 .. Len(s)
  PROVE  /\ KeepFirst(s, k) \in Seq(S) /\ Len(KeepFirst(s, k)) = k
         /\ \A i \in 1 .. k : KeepFirst(s, k)[i] = s[i]
  BY DEF KeepFirst

LEMMA LoseProperties ==
  ASSUME NEW S, NEW s \in Seq(S), NEW k \in 0 .. Len(s)
  PROVE  /\ LoseFirst(s, k) \in Seq(S) /\ Len(LoseFirst(s, k)) = Len(s) - k
         /\ \A i \in 1 .. Len(s) - k : LoseFirst(s, k)[i] = s[i + k]
  BY DEF LoseFirst

\* One more at the end, and one more lost in front.
LEMMA LosePut ==
  ASSUME NEW S, NEW s \in Seq(S), NEW e \in S, NEW k \in 0 .. Len(s)
  PROVE  LoseFirst(Append(s, e), k) = Append(LoseFirst(s, k), e)
<1> DEFINE w == LoseFirst(s, k)
           t == Append(s, e)
           v == LoseFirst(t, k)
           u == Append(w, e)
<1>1. /\ k \in Nat /\ Len(s) \in Nat /\ w \in Seq(S) /\ Len(w) = Len(s) - k
      /\ \A i \in 1 .. Len(s) - k : w[i] = s[i + k]
  BY LoseProperties
<1>2. /\ t \in Seq(S) /\ Len(t) = Len(s) + 1 /\ t[Len(s) + 1] = e
      /\ \A i \in 1 .. Len(s) : t[i] = s[i]
  BY AppendProperties
<1> HIDE DEF w, t
<1>3. k \in 0 .. Len(t)
  BY <1>1, <1>2
<1>4. /\ v \in Seq(S) /\ Len(v) = Len(t) - k
      /\ \A i \in 1 .. Len(t) - k : v[i] = t[i + k]
  BY <1>2, <1>3, LoseProperties
<1>5. /\ u \in Seq(S) /\ Len(u) = Len(w) + 1 /\ u[Len(w) + 1] = e
      /\ \A i \in 1 .. Len(w) : u[i] = w[i]
  BY <1>1, AppendProperties
<1> HIDE DEF v, u
<1>6. ASSUME NEW i \in 1 .. Len(u)  PROVE u[i] = v[i]
  <2>1. i + k \in 1 .. Len(t) /\ i \in 1 .. Len(t) - k /\ v[i] = t[i + k]
    BY <1>1, <1>2, <1>4, <1>5
  <2>2. CASE i = Len(w) + 1
    <3>1. i + k = Len(s) + 1
      BY <1>1, <2>2
    <3> QED  BY <1>2, <1>5, <2>1, <2>2, <3>1
  <2>3. CASE i # Len(w) + 1
    <3>1. i \in 1 .. Len(w) /\ i + k \in 1 .. Len(s)
      BY <1>1, <1>5, <2>3
    <3> QED  BY <1>1, <1>2, <1>5, <2>1, <3>1
  <2> QED  BY <2>2, <2>3
<1>7. u = v
  BY <1>1, <1>2, <1>4, <1>5, <1>6, SeqEqual
<1> QED  BY <1>7 DEF u, v, w, t

LEMMA LoseTake ==
  ASSUME NEW S, NEW s \in Seq(S), NEW k \in Nat, k < Len(s)
  PROVE  /\ LoseFirst(s, k) # <<>> /\ Head(LoseFirst(s, k)) = s[k + 1]
         /\ Tail(LoseFirst(s, k)) = LoseFirst(s, k + 1)
<1> DEFINE w == LoseFirst(s, k)
           v == LoseFirst(s, k + 1)
           t == Tail(w)
<1>1. Len(s) \in Nat /\ k \in 0 .. Len(s) /\ k + 1 \in 0 .. Len(s)
  OBVIOUS
<1>2. /\ w \in Seq(S) /\ Len(w) = Len(s) - k
      /\ \A i \in 1 .. Len(s) - k : w[i] = s[i + k]
  BY <1>1, LoseProperties
<1>3. /\ v \in Seq(S) /\ Len(v) = Len(s) - (k + 1)
      /\ \A i \in 1 .. Len(s) - (k + 1) : v[i] = s[i + (k + 1)]
  BY <1>1, LoseProperties
<1> HIDE DEF w, v
<1>4. w # <<>> /\ Len(w) >= 1
  BY <1>1, <1>2
<1>5. /\ Head(w) = w[1] /\ t \in Seq(S) /\ Len(t) = Len(w) - 1
      /\ \A i \in 1 .. Len(t) : t[i] = w[i + 1]
  BY <1>2, <1>4, HeadTailProperties
<1> HIDE DEF t
<1>6. Len(t) = Len(v)
  BY <1>1, <1>2, <1>3, <1>5
<1>7. ASSUME NEW i \in 1 .. Len(t)  PROVE t[i] = v[i]
  BY <1>1, <1>2, <1>3, <1>5
<1>8. t = v
  BY <1>3, <1>5, <1>6, <1>7, SeqEqual
<1>9. Head(w) = s[k + 1]
  BY <1>1, <1>2, <1>5
<1> QED  BY <1>4, <1>8, <1>9 DEF t, v, w

-----------------------------------------------------------------------------
(* The types.                                                              *)

\* What the relay does to its three variables.
LEMMA RelayFacts ==
  ASSUME TypeOK, Server!Relay
  PROVE  /\ ~closed /\ closed' = closed /\ accepted' = accepted
         /\ accepted[Len(relayed) + 1] \in Line
         /\ relayed' = Append(relayed, accepted[Len(relayed) + 1])
         /\ relayed' \in Seq(Line) /\ Len(relayed') = Len(relayed) + 1
         /\ Len(relayed) < Len(accepted)
         /\ relayed'[Len(relayed')] = accepted[Len(relayed) + 1]
<1> DEFINE m == accepted[Len(relayed) + 1]
<1>1. /\ accepted \in Seq(Line) /\ relayed \in Seq(Line)
      /\ Len(relayed) < Len(accepted) /\ relayed' = Append(relayed, m)
      /\ ~closed /\ closed' = closed /\ accepted' = accepted
  BY DEF TypeOK, Server!Relay
<1>2. m \in Line
  <2>1. Len(relayed) + 1 \in 1 .. Len(accepted)
    BY <1>1
  <2> QED  BY <1>1, <2>1, ElementOfSeq
<1> HIDE DEF m
<1>3. relayed' \in Seq(Line) /\ Len(relayed') = Len(relayed) + 1
      /\ relayed'[Len(relayed')] = m
  BY <1>1, <1>2, AppendProperties
<1> QED  BY <1>1, <1>2, <1>3 DEF m

LEMMA InitType == Init => TypeOK
<1> SUFFICES ASSUME Init  PROVE TypeOK
  OBVIOUS
<1>1. <<>> \in Seq(Line) /\ <<>> \in Seq(Nat) /\ Len(<<>>) = 0
  OBVIOUS
<1>2. /\ client \in [Client -> {"new", "on", "left"}]
      /\ said \in [Client -> Nat] /\ \A c \in Client : said[c] <= MaxLines[c]
      /\ pipe \in [Client -> Seq(Line)] /\ out \in [Client -> Seq(Nat)]
      /\ heard \in [Client -> Seq(Nat)] /\ since \in [Client -> 0 .. Len(log)]
      /\ faults \in 0 .. MaxFaults
  BY <1>1, SystemAssumption DEF Init
<1>3. /\ \A c \in Client : Len(pipe[c]) <= SndHwm /\ Len(out[c]) <= SubHwm
      /\ pull \in Seq(Line) /\ Len(pull) <= PullHwm
  BY <1>1, SystemAssumption DEF Init
<1>4. /\ accepted \in Seq(Line) /\ relayed \in Seq(Line)
      /\ Len(relayed) <= Len(accepted) /\ log \in Seq(Line)
  BY <1>1 DEF Init, Server!Init
<1>5. up \in BOOLEAN /\ closed \in BOOLEAN
  BY Zenon DEF Init, Server!Init
<1> QED  BY <1>2, <1>3, <1>4, <1>5 DEF TypeOK, Init

LEMMA NextType == TypeOK /\ [Next]_vars => TypeOK'
<1> SUFFICES ASSUME TypeOK, [Next]_vars  PROVE TypeOK'
  OBVIOUS
<1>1. ASSUME NEW c \in Client, Start(c)  PROVE TypeOK'
  BY <1>1 DEF TypeOK, Start, relay
<1>2. ASSUME NEW c \in Client, Say(c)  PROVE TypeOK'
  <2> DEFINE l == [from |-> c, n |-> said[c] + 1]
  <2>1. said[c] \in Nat /\ said[c] + 1 <= MaxLines[c]
    <3>1. MaxLines[c] \in Nat
      BY SystemAssumption
    <3> QED  BY <1>2, <3>1 DEF Say, TypeOK
  <2>2. l \in Line
    BY <2>1 DEF Line
  <2>3. said' \in [Client -> Nat] /\ \A d \in Client : said'[d] <= MaxLines[d]
    BY <1>2, <2>1, SMTT(30) DEF Say, TypeOK
  <2> HIDE DEF l
  <2>4. pipe[c] \in Seq(Line)
    BY DEF TypeOK
  <2>5. Append(pipe[c], l) \in Seq(Line) /\ Len(Append(pipe[c], l)) = Len(pipe[c]) + 1
    BY <2>2, <2>4, AppendProperties
  <2>6. pipe' \in [Client -> Seq(Line)] /\ \A d \in Client : Len(pipe'[d]) <= SndHwm
    <3>1. CASE Len(pipe[c]) < SndHwm
      <4>1. pipe' = [pipe EXCEPT ![c] = Append(@, l)]
        BY <1>2, <3>1 DEF Say, l
      <4>2. Len(pipe[c]) + 1 <= SndHwm
        BY <2>4, <3>1, SystemAssumption
      <4> QED  BY <2>5, <4>1, <4>2 DEF TypeOK
    <3>2. CASE ~(Len(pipe[c]) < SndHwm)
      BY <1>2, <3>2 DEF Say, TypeOK
    <3> QED  BY <3>1, <3>2
  <2> QED  BY <1>2, <2>3, <2>6 DEF TypeOK, Say, relay
<1>3. ASSUME NEW c \in Client, Show(c)  PROVE TypeOK'
  <2>1. /\ out[c] \in Seq(Nat) /\ out[c] # <<>> /\ heard[c] \in Seq(Nat)
        /\ Len(out[c]) \in Nat /\ Len(out[c]) <= SubHwm
    BY <1>3 DEF TypeOK, Show
  <2>2. Head(out[c]) \in Nat /\ Tail(out[c]) \in Seq(Nat)
        /\ Len(Tail(out[c])) = Len(out[c]) - 1
    BY <2>1, HeadTailProperties
  <2>3. Append(heard[c], Head(out[c])) \in Seq(Nat)
    BY <2>1, <2>2, AppendProperties
  <2>4. Len(Tail(out[c])) <= SubHwm
    BY <2>1, <2>2, SystemAssumption
  <2>5. heard' \in [Client -> Seq(Nat)] /\ out' \in [Client -> Seq(Nat)]
        /\ \A d \in Client : Len(out'[d]) <= SubHwm
    BY <1>3, <2>2, <2>3, <2>4 DEF Show, TypeOK
  <2> QED  BY <1>3, <2>5 DEF TypeOK, Show, relay
<1>4. ASSUME NEW c \in Client, Leave(c)  PROVE TypeOK'
  <2>1. <<>> \in Seq(Nat) /\ Len(<<>>) <= SubHwm
    BY SystemAssumption
  <2>2. out' \in [Client -> Seq(Nat)] /\ \A d \in Client : Len(out'[d]) <= SubHwm
    BY <1>4, <2>1 DEF Leave, TypeOK
  <2> QED  BY <1>4, <2>2 DEF TypeOK, Leave, relay
<1>5. ASSUME NEW c \in Client, Subscribe(c)  PROVE TypeOK'
  <2>1. Len(log) \in 0 .. Len(log)
    BY DEF TypeOK
  <2>2. since' \in [Client -> 0 .. Len(log)]
    BY <1>5, <2>1 DEF Subscribe, TypeOK
  <2> QED  BY <1>5, <2>2 DEF TypeOK, Subscribe, relay, clients
<1>6. ASSUME NEW c \in Client, Deliver(c)  PROVE TypeOK'
  <2>1. pipe[c] \in Seq(Line) /\ pipe[c] # <<>> /\ Len(pipe[c]) \in Nat
        /\ Len(pipe[c]) <= SndHwm /\ pull \in Seq(Line) /\ Len(pull) \in Nat
    BY <1>6 DEF TypeOK, Deliver
  <2>2. Head(pipe[c]) \in Line /\ Tail(pipe[c]) \in Seq(Line)
        /\ Len(Tail(pipe[c])) = Len(pipe[c]) - 1
    BY <2>1, HeadTailProperties
  <2>3. pull' \in Seq(Line) /\ Len(pull') = Len(pull) + 1
    BY <1>6, <2>1, <2>2, AppendProperties DEF Deliver
  <2>4. Len(Tail(pipe[c])) <= SndHwm /\ Len(pull') <= PullHwm
    BY <1>6, <2>1, <2>2, <2>3, SystemAssumption DEF Deliver
  <2>5. pipe' \in [Client -> Seq(Line)] /\ \A d \in Client : Len(pipe'[d]) <= SndHwm
    BY <1>6, <2>2, <2>4 DEF Deliver, TypeOK
  <2> QED  BY <1>6, <2>3, <2>4, <2>5 DEF TypeOK, Deliver, relay, clients
<1>7. ASSUME NEW c \in Client, Disconnect(c)  PROVE TypeOK'
  <2>1. PICK k \in 0 .. Len(pipe[c]) : pipe' = [pipe EXCEPT ![c] = LoseFirst(@, k)]
    BY <1>7 DEF Disconnect
  <2>2. PICK j \in 0 .. Len(out[c]) : out' = [out EXCEPT ![c] = KeepFirst(@, j)]
    BY <1>7 DEF Disconnect
  <2>3. /\ pipe[c] \in Seq(Line) /\ out[c] \in Seq(Nat)
        /\ Len(pipe[c]) \in Nat /\ Len(pipe[c]) <= SndHwm
        /\ Len(out[c]) \in Nat /\ Len(out[c]) <= SubHwm
    BY DEF TypeOK
  <2>4. LoseFirst(pipe[c], k) \in Seq(Line) /\ Len(LoseFirst(pipe[c], k)) <= SndHwm
    <3>1. Len(LoseFirst(pipe[c], k)) = Len(pipe[c]) - k
          /\ LoseFirst(pipe[c], k) \in Seq(Line)
      BY <2>3, LoseProperties
    <3> QED  BY <2>3, <3>1, SystemAssumption
  <2>5. KeepFirst(out[c], j) \in Seq(Nat) /\ Len(KeepFirst(out[c], j)) <= SubHwm
    <3>1. Len(KeepFirst(out[c], j)) = j /\ KeepFirst(out[c], j) \in Seq(Nat)
      BY <2>3, KeepProperties
    <3> QED  BY <2>3, <3>1, SystemAssumption
  <2>6. /\ pipe' \in [Client -> Seq(Line)] /\ \A d \in Client : Len(pipe'[d]) <= SndHwm
        /\ out' \in [Client -> Seq(Nat)] /\ \A d \in Client : Len(out'[d]) <= SubHwm
    BY <2>1, <2>2, <2>4, <2>5 DEF TypeOK
  <2>7. faults' \in 0 .. MaxFaults
    BY <1>7, SystemAssumption DEF Disconnect, TypeOK
  <2> QED  BY <1>7, <2>6, <2>7 DEF TypeOK, Disconnect, relay, clients
<1>8. CASE Accept
  <2>1. pull \in Seq(Line) /\ pull # <<>> /\ Len(pull) \in Nat /\ Len(pull) <= PullHwm
    BY <1>8 DEF TypeOK, Accept
  <2>2. Head(pull) \in Line /\ Tail(pull) \in Seq(Line) /\ Len(Tail(pull)) = Len(pull) - 1
    BY <2>1, HeadTailProperties
  <2>3. pull' \in Seq(Line) /\ Len(pull') <= PullHwm
    BY <1>8, <2>1, <2>2, SystemAssumption DEF Accept
  <2>4. accepted' = Append(accepted, Head(pull)) /\ relayed' = relayed /\ closed' = closed
    BY <1>8 DEF Accept, Server!Accept
  <2>5. accepted' \in Seq(Line) /\ Len(accepted') = Len(accepted) + 1
    BY <2>2, <2>4, AppendProperties DEF TypeOK
  <2>6. Len(relayed') <= Len(accepted')
    BY <2>4, <2>5 DEF TypeOK
  <2> QED  BY <1>8, <2>3, <2>4, <2>5, <2>6 DEF TypeOK, Accept, clients
<1>9. CASE Publish
  <2> DEFINE m == accepted[Len(relayed) + 1]
  <2>1. /\ m \in Line /\ relayed' \in Seq(Line) /\ closed' = closed
        /\ accepted' = accepted /\ Len(relayed') <= Len(accepted)
        /\ relayed'[Len(relayed')] = m
    <3>1. Server!Relay
      BY <1>9 DEF Publish
    <3>2. /\ Len(relayed) \in Nat /\ Len(accepted) \in Nat
          /\ Len(relayed) < Len(accepted) /\ Len(relayed') = Len(relayed) + 1
      BY <3>1, RelayFacts, SMTT(30) DEF TypeOK
    <3> QED  BY <3>1, <3>2, RelayFacts
  <2> HIDE DEF m
  <2>2. log' = Append(log, m) /\ log \in Seq(Line)
    BY <1>9, <2>1 DEF Publish, TypeOK
  <2>3. log' \in Seq(Line) /\ Len(log') = Len(log) + 1 /\ Len(log) \in Nat
    BY <2>1, <2>2, AppendProperties
  <2>4. ASSUME NEW c \in Client
        PROVE  out'[c] \in Seq(Nat) /\ Len(out'[c]) <= SubHwm
    <3>1. out[c] \in Seq(Nat) /\ Len(out[c]) \in Nat /\ Len(out[c]) <= SubHwm
      BY DEF TypeOK
    <3>2. CASE out'[c] = out[c]
      BY <3>1, <3>2
    <3>3. CASE out'[c] = Append(out[c], Len(log')) /\ ~(Len(out[c]) >= SubHwm)
      <4>1. Len(log') \in Nat
        BY <2>3
      <4>2. out'[c] \in Seq(Nat) /\ Len(out'[c]) = Len(out[c]) + 1
        BY <3>1, <3>3, <4>1, AppendProperties
      <4> QED  BY <3>1, <3>3, <4>2, SystemAssumption
    <3> QED  BY <1>9, <3>2, <3>3 DEF Publish
  <2>5. out' \in [Client -> Seq(Nat)]
    BY <1>9, <2>4 DEF Publish
  <2>6. since' \in [Client -> 0 .. Len(log')]
    BY <1>9, <2>3 DEF Publish, TypeOK
  <2>7. missed' \in SUBSET Client
    BY <1>9 DEF Publish, TypeOK
  <2> QED  BY <1>9, <2>1, <2>3, <2>4, <2>5, <2>6, <2>7 DEF TypeOK, Publish, clients
<1>10. CASE Stop
  BY <1>10 DEF TypeOK, Stop, Server!Close, clients
<1>11. CASE Restart
  <2>1. /\ accepted' \in Seq(Line) /\ relayed' \in Seq(Line)
        /\ Len(relayed') <= Len(accepted')
    BY <1>11 DEF Restart
  <2>2. up' \in BOOLEAN /\ closed' \in BOOLEAN
    BY <1>11, Zenon DEF Restart
  <2> QED  BY <1>11, <2>1, <2>2 DEF TypeOK, Restart, clients
<1>12. CASE Down
  <2>1. PICK k \in [Client -> 0 .. SndHwm] :
          /\ \A c \in Client : k[c] <= Len(pipe[c])
          /\ pipe' = [c \in Client |-> LoseFirst(pipe[c], k[c])]
    BY <1>12 DEF Down
  <2>2. PICK j \in [Client -> 0 .. SubHwm] :
          /\ \A c \in Client : j[c] <= Len(out[c])
          /\ out' = [c \in Client |-> KeepFirst(out[c], j[c])]
    BY <1>12 DEF Down
  <2>3. ASSUME NEW c \in Client
        PROVE  /\ pipe'[c] \in Seq(Line) /\ Len(pipe'[c]) <= SndHwm
               /\ out'[c] \in Seq(Nat) /\ Len(out'[c]) <= SubHwm
    <3>1. /\ pipe[c] \in Seq(Line) /\ out[c] \in Seq(Nat)
          /\ Len(pipe[c]) \in Nat /\ Len(pipe[c]) <= SndHwm
          /\ Len(out[c]) \in Nat /\ Len(out[c]) <= SubHwm
      BY DEF TypeOK
    <3>2. k[c] \in 0 .. Len(pipe[c]) /\ j[c] \in 0 .. Len(out[c])
      BY <2>1, <2>2, <3>1
    <3>3. /\ Len(LoseFirst(pipe[c], k[c])) = Len(pipe[c]) - k[c]
          /\ LoseFirst(pipe[c], k[c]) \in Seq(Line)
      BY <3>1, <3>2, LoseProperties
    <3>4. /\ Len(KeepFirst(out[c], j[c])) = j[c]
          /\ KeepFirst(out[c], j[c]) \in Seq(Nat)
      BY <3>1, <3>2, KeepProperties
    <3>5. Len(pipe[c]) - k[c] <= SndHwm /\ j[c] <= SubHwm
      BY <3>1, <3>2, SystemAssumption
    <3> QED  BY <2>1, <2>2, <3>3, <3>4, <3>5
  <2>4. pipe' \in [Client -> Seq(Line)] /\ out' \in [Client -> Seq(Nat)]
    BY <2>1, <2>2, <2>3
  <2>5. faults' \in 0 .. MaxFaults
    BY <1>12, SystemAssumption DEF Down, TypeOK
  <2>6. pull' \in Seq(Line) /\ Len(pull') <= PullHwm
    BY <1>12, SystemAssumption DEF Down
  <2>7. up' \in BOOLEAN /\ subscribed' \in SUBSET Client
    BY <1>12 DEF Down
  <2> QED  BY <1>12, <2>3, <2>4, <2>5, <2>6, <2>7 DEF TypeOK, Down, relay, clients
<1>13. CASE UNCHANGED vars
  BY <1>13 DEF TypeOK, vars, clients, relay
<1> QED  BY <1>1, <1>2, <1>3, <1>4, <1>5, <1>6, <1>7, <1>8, <1>9, <1>10,
            <1>11, <1>12, <1>13 DEF Next

\* Every queue of the chat keeps its type and its limit.
THEOREM SystemTypeCorrect == Spec => []TypeOK
  BY InitType, NextType, PTL DEF Spec

-----------------------------------------------------------------------------
(* What a subscriber that keeps up is shown.                               *)

\* The places shown to c or on their way to it are a sequence of numbers.
LEMMA ShownType ==
  ASSUME TypeOK, NEW c \in Client
  PROVE  /\ heard[c] \in Seq(Nat) /\ out[c] \in Seq(Nat) /\ Shown(c) \in Seq(Nat)
         /\ Len(Shown(c)) \in Nat
<1>1. heard[c] \in Seq(Nat) /\ out[c] \in Seq(Nat)
  BY DEF TypeOK
<1>2. Shown(c) \in Seq(Nat)
  BY <1>1, ConcatProperties DEF Shown
<1> QED  BY <1>1, <1>2

\* The last lines of the log, without a gap, are the last places shown to c.
Follows(c) ==
  LET new == Len(log) - since[c]
  IN /\ Len(Shown(c)) >= new
     /\ \A i \in 1 .. new : Shown(c)[Len(Shown(c)) - new + i] = since[c] + i

LEMMA FollowsSame ==
  ASSUME NEW c \in Client, Follows(c), Shown(c)' = Shown(c),
         log' = log, since'[c] = since[c]
  PROVE  Follows(c)'
  BY DEF Follows

\* Publishing a line to c puts its place at the end.
LEMMA FollowsPublish ==
  ASSUME TypeOK, NEW c \in Client, Follows(c), since'[c] = since[c],
         log' \in Seq(Line), Len(log') = Len(log) + 1,
         Shown(c)' = Append(Shown(c), Len(log'))
  PROVE  Follows(c)'
<1> DEFINE s == Shown(c)
           t == Append(s, Len(log'))
           new == Len(log) - since[c]
<1>1. s \in Seq(Nat) /\ Len(s) \in Nat /\ Len(log) \in Nat /\ since[c] \in 0 .. Len(log)
  BY ShownType, SMTT(30) DEF TypeOK
<1>2. new \in Nat /\ Len(log') - since'[c] = new + 1 /\ since[c] + (new + 1) = Len(log')
  BY <1>1
<1>3. Len(s) >= new /\ \A i \in 1 .. new : s[Len(s) - new + i] = since[c] + i
  BY DEF Follows
<1> HIDE DEF s, new
<1>4. Len(log') \in Nat
  BY <1>1
<1>5. /\ Len(t) = Len(s) + 1 /\ t[Len(s) + 1] = Len(log')
      /\ \A i \in 1 .. Len(s) : t[i] = s[i]
  BY <1>1, <1>4, AppendProperties
<1> HIDE DEF t
<1>6. Len(t) >= new + 1
  BY <1>1, <1>2, <1>3, <1>5
<1>7. ASSUME NEW i \in 1 .. new + 1
      PROVE  t[Len(t) - (new + 1) + i] = since[c] + i
  <2>1. CASE i = new + 1
    <3>1. Len(t) - (new + 1) + i = Len(s) + 1
      BY <1>1, <1>2, <1>5, <2>1
    <3> QED  BY <1>2, <1>5, <2>1, <3>1
  <2>2. CASE i # new + 1
    <3>1. /\ i \in 1 .. new /\ Len(t) - (new + 1) + i = Len(s) - new + i
          /\ Len(s) - new + i \in 1 .. Len(s)
      BY <1>1, <1>2, <1>3, <1>5, <2>2
    <3> QED  BY <1>3, <1>5, <3>1
  <2> QED  BY <2>1, <2>2
<1>8. Shown(c)' = t
  BY DEF t, s
<1> QED  BY <1>2, <1>6, <1>7, <1>8 DEF Follows

NoGapInv == TypeOK /\ NoGapSinceSubscribed

LEMMA NoGapIsFollows ==
  /\ NoGapSinceSubscribed <=> \A c \in subscribed \ missed : Follows(c)
  /\ NoGapSinceSubscribed' <=> \A c \in subscribed' \ missed' : Follows(c)'
  BY DEF NoGapSinceSubscribed, Follows

LEMMA NextNoGap == NoGapInv /\ [Next]_vars => NoGapSinceSubscribed'
<1> SUFFICES ASSUME NoGapInv, [Next]_vars,
                    NEW d \in subscribed' \ missed'
             PROVE  Follows(d)'
  BY NoGapIsFollows
<1> USE DEF NoGapInv
<1>0. TypeOK /\ TypeOK'
  BY NextType
<1>1. d \in Client
  BY <1>0 DEF TypeOK
<1>2. d \in subscribed \ missed => Follows(d)
  BY NoGapIsFollows
\* Most steps touch nothing this client's lines depend on.
<1>3. ASSUME d \in subscribed \ missed, UNCHANGED <<log, since, heard, out>>
      PROVE  Follows(d)'
  BY <1>1, <1>2, <1>3, FollowsSame DEF Shown
<1>4. ASSUME NEW c \in Client, Start(c) \/ Say(c) \/ Deliver(c)  PROVE Follows(d)'
  BY <1>3, <1>4 DEF Start, Say, Deliver, clients
<1>5. ASSUME NEW c \in Client, Show(c)  PROVE Follows(d)'
  <2>1. d \in subscribed \ missed /\ log' = log /\ since' = since
    BY <1>5 DEF Show
  <2>2. Shown(d)' = Shown(d)
    <3>1. CASE d = c
      <4>1. out[c] \in Seq(Nat) /\ heard[c] \in Seq(Nat) /\ out[c] # <<>>
        BY <1>0, <1>5, ShownType DEF Show
      <4>2. heard'[c] = Append(heard[c], Head(out[c])) /\ out'[c] = Tail(out[c])
        BY <1>0, <1>5 DEF Show, TypeOK
      <4> QED  BY <3>1, <4>1, <4>2, TakeKeeps DEF Shown
    <3>2. CASE d # c
      BY <1>0, <1>1, <1>5, <3>2 DEF Show, TypeOK, Shown
    <3> QED  BY <3>1, <3>2
  <2> QED  BY <1>1, <1>2, <2>1, <2>2, FollowsSame
<1>6. ASSUME NEW c \in Client, Leave(c) \/ Disconnect(c)  PROVE Follows(d)'
  <2>1. /\ d \in subscribed \ missed /\ d # c
        /\ log' = log /\ since' = since /\ heard' = heard
    BY <1>6 DEF Leave, Disconnect, clients
  <2>2. out'[d] = out[d]
    <3>1. CASE Leave(c)
      BY <1>0, <1>1, <2>1, <3>1 DEF Leave, TypeOK
    <3>2. CASE Disconnect(c)
      BY <1>0, <1>1, <2>1, <3>2 DEF Disconnect, TypeOK
    <3> QED  BY <1>6, <3>1, <3>2
  <2> QED  BY <1>1, <1>2, <2>1, <2>2, FollowsSame DEF Shown
<1>7. ASSUME NEW c \in Client, Subscribe(c)  PROVE Follows(d)'
  <2>1. CASE d = c
    <3>1. since'[d] = Len(log) /\ log' = log
      BY <1>0, <1>1, <1>7, <2>1 DEF Subscribe, TypeOK
    <3>2. Len(log') - since'[d] = 0
      BY <1>0, <3>1 DEF TypeOK
    <3>3. Shown(d)' \in Seq(Nat)
      BY <1>0, <1>1, <1>7, ShownType DEF Subscribe, clients, Shown
    <3>4. Len(Shown(d)') >= 0
      BY <3>3
    <3> QED  BY <3>2, <3>4 DEF Follows
  <2>2. CASE d # c
    <3>1. d \in subscribed \ missed
      BY <1>7, <2>2 DEF Subscribe
    <3>2. log' = log /\ since'[d] = since[d] /\ Shown(d)' = Shown(d)
      BY <1>0, <1>1, <1>7, <2>2 DEF Subscribe, TypeOK, clients, Shown
    <3> QED  BY <1>1, <1>2, <3>1, <3>2, FollowsSame
  <2> QED  BY <2>1, <2>2
<1>8. CASE Accept \/ Stop \/ Restart
  BY <1>3, <1>8 DEF Accept, Stop, Restart, clients
<1>9. CASE Publish
  <2>1. /\ d \in subscribed \ missed
        /\ d \in subscribed \ {c \in subscribed : Len(out[c]) >= SubHwm}
        /\ since' = since /\ heard' = heard
    BY <1>9 DEF Publish, clients
  <2>2. out'[d] = Append(out[d], Len(log'))
    BY <1>1, <1>9, <2>1 DEF Publish
  <2>3. log' \in Seq(Line) /\ Len(log') = Len(log) + 1
    <3>1. Server!Relay
      BY <1>9 DEF Publish
    <3>2. relayed'[Len(relayed')] \in Line
      BY <1>0, <3>1, RelayFacts
    <3>3. log' = Append(log, relayed'[Len(relayed')]) /\ log \in Seq(Line)
      BY <1>0, <1>9 DEF Publish, TypeOK
    <3> QED  BY <3>2, <3>3, AppendProperties
  <2>4. Shown(d)' = Append(Shown(d), Len(log'))
    <3>1. Len(log') \in Nat
      BY <2>3
    <3>2. heard[d] \in Seq(Nat) /\ out[d] \in Seq(Nat)
      BY <1>0, <1>1, ShownType
    <3> DEFINE h == heard[d]
               o == out[d]
               e == Len(log')
    <3>3. Shown(d)' = h \o Append(o, e) /\ Shown(d) = h \o o
      BY <2>1, <2>2 DEF Shown
    <3>4. h \in Seq(Nat) /\ o \in Seq(Nat) /\ e \in Nat
      BY <3>1, <3>2
    <3> HIDE DEF h, o, e
    <3>5. h \o Append(o, e) = Append(h \o o, e)
      BY <3>4, PutAppends
    <3> QED  BY <3>3, <3>5 DEF e
  <2> QED  BY <1>0, <1>1, <1>2, <2>1, <2>3, <2>4, FollowsPublish
<1>10. CASE Down
  BY <1>10 DEF Down
<1>11. CASE UNCHANGED vars
  BY <1>3, <1>11 DEF vars, clients
<1> QED  BY <1>4, <1>5, <1>6, <1>7, <1>8, <1>9, <1>10, <1>11 DEF Next

\* Whatever happens to the others, a subscriber that keeps up has no gap.
THEOREM NoGapCorrect == Spec => []NoGapSinceSubscribed
<1>1. Init => NoGapInv
  <2>1. Init => NoGapSinceSubscribed
    BY DEF Init, NoGapSinceSubscribed
  <2> QED  BY <2>1, InitType DEF NoGapInv
<1>2. NoGapInv /\ [Next]_vars => NoGapInv'
  BY NextType, NextNoGap DEF NoGapInv
<1>3. NoGapInv => NoGapSinceSubscribed
  BY DEF NoGapInv
<1> QED  BY <1>1, <1>2, <1>3, PTL DEF Spec

-----------------------------------------------------------------------------
(* The order of the lines on their way to the log.                         *)

Before(a, b) == a.from = b.from => a.n < b.n

\* e comes later than all of s; s earlier than all of t; s is in order.
Ends(s, e) == \A i \in 1 .. Len(s) : Before(s[i], e)
Begins(e, s) == \A i \in 1 .. Len(s) : Before(e, s[i])
Precedes(s, t) == \A i \in 1 .. Len(s), j \in 1 .. Len(t) : Before(s[i], t[j])
Ascends(s) == \A i, j \in 1 .. Len(s) : i < j => Before(s[i], s[j])

LEMMA PrecedesPut ==
  ASSUME NEW s \in Seq(Line), NEW t \in Seq(Line), NEW e \in Line,
         Precedes(s, t), Ends(s, e)
  PROVE  Precedes(s, Append(t, e))
  BY AppendProperties DEF Precedes, Ends

LEMMA PutPrecedes ==
  ASSUME NEW s \in Seq(Line), NEW t \in Seq(Line), NEW e \in Line,
         Precedes(s, t), Begins(e, t)
  PROVE  Precedes(Append(s, e), t)
  BY AppendProperties DEF Precedes, Begins

LEMMA AscendsPut ==
  ASSUME NEW s \in Seq(Line), NEW e \in Line, Ascends(s), Ends(s, e)
  PROVE  Ascends(Append(s, e))
  BY AppendProperties DEF Ascends, Ends

\* The first line of a queue and the others.
LEMMA RestProperties ==
  ASSUME NEW s \in Seq(Line), s # <<>>
  PROVE  /\ Head(s) \in Line /\ Tail(s) \in Seq(Line) /\ Head(s) = s[1]
         /\ Len(s) \in Nat \ {0} /\ Len(Tail(s)) = Len(s) - 1
         /\ \A i \in 1 .. Len(Tail(s)) : Tail(s)[i] = s[i + 1]
  BY HeadTailProperties, EmptySeq

LEMMA PrecedesTake ==
  ASSUME NEW s \in Seq(Line), NEW t \in Seq(Line), t # <<>>, Precedes(s, t)
  PROVE  Ends(s, Head(t)) /\ Precedes(s, Tail(t))
  BY RestProperties DEF Precedes, Ends

LEMMA TakePrecedes ==
  ASSUME NEW s \in Seq(Line), NEW t \in Seq(Line), s # <<>>, Precedes(s, t)
  PROVE  Begins(Head(s), t) /\ Precedes(Tail(s), t)
  BY RestProperties DEF Precedes, Begins

LEMMA AscendsTake ==
  ASSUME NEW s \in Seq(Line), s # <<>>, Ascends(s)
  PROVE  Begins(Head(s), Tail(s)) /\ Ascends(Tail(s))
  BY RestProperties DEF Ascends, Begins

LEMMA PrecedesLose ==
  ASSUME NEW s \in Seq(Line), NEW t \in Seq(Line), NEW k \in 0 .. Len(t),
         Precedes(s, t), Ascends(t)
  PROVE  Precedes(s, LoseFirst(t, k)) /\ Ascends(LoseFirst(t, k))
<1> DEFINE u == LoseFirst(t, k)
<1>1. /\ Len(u) = Len(t) - k /\ Len(t) \in Nat /\ k \in Nat /\ k <= Len(t)
      /\ \A i \in 1 .. Len(t) - k : u[i] = t[i + k]
  BY LoseProperties
<1> HIDE DEF u
<1>2. \A i \in 1 .. Len(u) : i + k \in 1 .. Len(t) /\ u[i] = t[i + k]
  BY <1>1
<1>3. Precedes(s, u)
  BY <1>2 DEF Precedes
<1>4. Ascends(u)
  <2>1. ASSUME NEW i \in 1 .. Len(u), NEW j \in 1 .. Len(u), i < j
        PROVE  Before(u[i], u[j])
    <3>1. i + k \in 1 .. Len(t) /\ j + k \in 1 .. Len(t) /\ i + k < j + k
      BY <1>1, <1>2, <2>1
    <3>2. Before(t[i + k], t[j + k])
      BY <3>1 DEF Ascends
    <3> QED  BY <1>2, <3>2
  <2> QED  BY <2>1 DEF Ascends
<1> QED  BY <1>3, <1>4 DEF u

\* The lines that wait inside the relay, and how its steps change them.
LEMMA WaitingIs ==
  /\ Waiting = LoseFirst(accepted, Len(relayed))
  /\ Waiting' = LoseFirst(accepted', Len(relayed'))
  BY DEF Waiting, LoseFirst

LEMMA WaitingType == TypeOK => Waiting \in Seq(Line)
<1> SUFFICES ASSUME TypeOK  PROVE Waiting \in Seq(Line)
  OBVIOUS
<1>1. accepted \in Seq(Line) /\ Len(relayed) \in 0 .. Len(accepted)
  BY DEF TypeOK
<1> QED  BY <1>1, WaitingIs, LoseProperties

LEMMA WaitingAccept ==
  ASSUME TypeOK, NEW e \in Line, Server!Accept(e)
  PROVE  Waiting' = Append(Waiting, e)
<1>1. accepted \in Seq(Line) /\ Len(relayed) \in 0 .. Len(accepted)
  BY DEF TypeOK
<1>2. accepted' = Append(accepted, e) /\ relayed' = relayed
  BY DEF Server!Accept
<1>3. LoseFirst(Append(accepted, e), Len(relayed))
        = Append(LoseFirst(accepted, Len(relayed)), e)
  BY <1>1, LosePut
<1> QED  BY <1>2, <1>3, WaitingIs

LEMMA WaitingRelay ==
  ASSUME TypeOK, Server!Relay
  PROVE  /\ Waiting # <<>> /\ Waiting' = Tail(Waiting)
         /\ relayed'[Len(relayed')] = Head(Waiting)
<1>1. accepted \in Seq(Line) /\ Len(relayed) \in Nat /\ Len(relayed) < Len(accepted)
  BY RelayFacts DEF TypeOK
<1>2. /\ accepted' = accepted /\ Len(relayed') = Len(relayed) + 1
      /\ relayed'[Len(relayed')] = accepted[Len(relayed) + 1]
  BY RelayFacts
<1> DEFINE k == Len(relayed)
<1>3. /\ LoseFirst(accepted, k) # <<>>
      /\ Head(LoseFirst(accepted, k)) = accepted[k + 1]
      /\ Tail(LoseFirst(accepted, k)) = LoseFirst(accepted, k + 1)
  <2> HIDE DEF k
  <2>1. k \in Nat /\ k < Len(accepted)
    BY <1>1 DEF k
  <2> QED  BY <1>1, <2>1, LoseTake
<1> QED  BY <1>2, <1>3, WaitingIs

\* The lines of a queue were typed: f gives how many each client has typed.
Typed(s, f) == \A i \in 1 .. Len(s) : s[i].n <= f[s[i].from]

LEMMA TypedPut ==
  ASSUME NEW f, NEW s \in Seq(Line), NEW e \in Line, Typed(s, f), e.n <= f[e.from]
  PROVE  Typed(Append(s, e), f)
  BY AppendProperties DEF Typed

LEMMA TypedTake ==
  ASSUME NEW f, NEW s \in Seq(Line), s # <<>>, Typed(s, f)
  PROVE  Typed(Tail(s), f) /\ Head(s).n <= f[Head(s).from]
  BY RestProperties DEF Typed

LEMMA TypedLose ==
  ASSUME NEW f, NEW s \in Seq(Line), NEW k \in 0 .. Len(s), Typed(s, f)
  PROVE  Typed(LoseFirst(s, k), f)
<1> DEFINE u == LoseFirst(s, k)
<1>1. /\ Len(u) = Len(s) - k /\ Len(s) \in Nat /\ k \in Nat /\ k <= Len(s)
      /\ \A i \in 1 .. Len(s) - k : u[i] = s[i + k]
  BY LoseProperties
<1> HIDE DEF u
<1>2. \A i \in 1 .. Len(u) : i + k \in 1 .. Len(s) /\ u[i] = s[i + k]
  BY <1>1
<1>3. Typed(u, f)
  BY <1>2 DEF Typed
<1> QED  BY <1>3 DEF u

\* A client that types a line changes nothing for those it typed before, and the
\* new one is later than all of them.
LEMMA TypedGrows ==
  ASSUME NEW f \in [Client -> Nat], NEW c \in Client, NEW s \in Seq(Line),
         Typed(s, f)
  PROVE  /\ Typed(s, [f EXCEPT ![c] = @ + 1])
         /\ Ends(s, [from |-> c, n |-> f[c] + 1])
<1>1. ASSUME NEW i \in 1 .. Len(s)
      PROVE  /\ s[i].n <= [f EXCEPT ![c] = @ + 1][s[i].from]
             /\ Before(s[i], [from |-> c, n |-> f[c] + 1])
  <2>1. s[i] \in Line
    BY ElementOfSeq
  <2>2. s[i].from \in Client /\ s[i].n \in Nat /\ s[i].n <= f[s[i].from]
    BY <2>1 DEF Typed, Line
  <2> QED  BY <2>2 DEF Before
<1> QED  BY <1>1 DEF Typed, Ends

\* Whatever was lost on the way, what is left is as it was typed and in that
\* order: first the log, then what the server has accepted, what is in its
\* socket, and what each client has on its way there.
OnItsWay(c) ==
  /\ Typed(pipe[c], said) /\ Ascends(pipe[c])
  /\ \A i \in 1 .. Len(pipe[c]) : pipe[c][i].from = c
  /\ Precedes(log, pipe[c]) /\ Precedes(Waiting, pipe[c]) /\ Precedes(pull, pipe[c])
LinesInOrder ==
  /\ Typed(log, said) /\ Typed(Waiting, said) /\ Typed(pull, said)
  /\ Ascends(Waiting) /\ Ascends(pull)
  /\ Precedes(log, Waiting) /\ Precedes(log, pull) /\ Precedes(Waiting, pull)
  /\ \A c \in Client : OnItsWay(c)

\* Nothing that is empty is out of order.
LEMMA NothingInOrder ==
  /\ Ascends(<<>>) /\ \A f : Typed(<<>>, f)
  /\ \A s : Precedes(s, <<>>) /\ Precedes(<<>>, s)
  BY DEF Ascends, Typed, Precedes

LEMMA InitLines == Init => LinesInOrder
<1> SUFFICES ASSUME Init  PROVE LinesInOrder
  OBVIOUS
<1>1. log = <<>> /\ pull = <<>> /\ \A c \in Client : pipe[c] = <<>>
  BY DEF Init
<1>2. Waiting = <<>>
  <2>1. accepted = <<>> /\ relayed = <<>>
    BY DEF Init, Server!Init
  <2> QED  BY <2>1 DEF Waiting
<1>3. \A c \in Client : \A i \in 1 .. Len(pipe[c]) : pipe[c][i].from = c
  BY <1>1
<1> QED  BY <1>1, <1>2, <1>3, NothingInOrder DEF LinesInOrder, OnItsWay

\* What a proof about a queue needs of the types.
LEMMA QueueTypes ==
  ASSUME TypeOK
  PROVE  /\ log \in Seq(Line) /\ Waiting \in Seq(Line) /\ pull \in Seq(Line)
         /\ said \in [Client -> Nat] /\ pipe \in [Client -> Seq(Line)]
         /\ \A c \in Client : pipe[c] \in Seq(Line)
  BY WaitingType DEF TypeOK

\* A step that leaves the lines alone.
LEMMA LinesSame ==
  ASSUME LinesInOrder, UNCHANGED <<said, log, pull, accepted, relayed, pipe>>
  PROVE  LinesInOrder'
  BY DEF LinesInOrder, OnItsWay, Waiting

LEMMA SayLines ==
  ASSUME TypeOK, LinesInOrder, NEW c \in Client, Say(c)
  PROVE  LinesInOrder'
<1> DEFINE e == [from |-> c, n |-> said[c] + 1]
<1>1. /\ said' = [said EXCEPT ![c] = @ + 1] /\ Waiting' = Waiting
      /\ UNCHANGED <<log, pull>>
  BY DEF Say, Waiting, relay
<1>2. e \in Line /\ e.from = c /\ e.n <= said'[c]
  BY <1>1, QueueTypes DEF Line
<1>3. pipe'[c] = pipe[c] \/ pipe'[c] = Append(pipe[c], e)
  BY QueueTypes DEF Say
<1>4. \A d \in Client \ {c} : pipe'[d] = pipe[d]
  BY QueueTypes DEF Say
<1> HIDE DEF e
<1>5. ASSUME NEW s \in Seq(Line), Typed(s, said)
      PROVE  Typed(s, said') /\ Ends(s, e)
  BY <1>1, <1>5, QueueTypes, TypedGrows DEF e
<1>6. ASSUME NEW d \in Client  PROVE OnItsWay(d)'
  <2>1. /\ Typed(pipe[d], said') /\ Ends(pipe[d], e) /\ Ends(log, e)
        /\ Ends(Waiting, e) /\ Ends(pull, e)
    BY <1>5, QueueTypes DEF LinesInOrder, OnItsWay
  <2>2. CASE pipe'[d] = pipe[d]
    BY <1>1, <2>1, <2>2 DEF LinesInOrder, OnItsWay
  <2>3. CASE d = c /\ pipe'[c] = Append(pipe[c], e)
    <3>1. /\ pipe[c] \in Seq(Line) /\ log \in Seq(Line) /\ Waiting \in Seq(Line)
          /\ pull \in Seq(Line)
      BY QueueTypes
    <3>2. /\ Ascends(pipe[c]) /\ \A i \in 1 .. Len(pipe[c]) : pipe[c][i].from = c
          /\ Precedes(log, pipe[c]) /\ Precedes(Waiting, pipe[c])
          /\ Precedes(pull, pipe[c])
      BY DEF LinesInOrder, OnItsWay
    <3>3. Typed(pipe'[c], said')
      BY <1>2, <2>1, <2>3, <3>1, TypedPut
    <3>4. Ascends(pipe'[c])
      BY <1>2, <2>1, <2>3, <3>1, <3>2, AscendsPut
    <3>5. Precedes(log, pipe'[c]) /\ Precedes(Waiting, pipe'[c]) /\ Precedes(pull, pipe'[c])
      BY <1>2, <2>1, <2>3, <3>1, <3>2, PrecedesPut
    <3>6. \A i \in 1 .. Len(pipe'[c]) : pipe'[c][i].from = c
      BY <1>2, <2>3, <3>1, <3>2, AppendProperties
    <3> QED  BY <1>1, <2>3, <3>3, <3>4, <3>5, <3>6 DEF OnItsWay
  <2> QED  BY <1>3, <1>4, <2>2, <2>3
<1>7. Typed(log, said') /\ Typed(Waiting, said') /\ Typed(pull, said')
  BY <1>5, QueueTypes DEF LinesInOrder
<1> QED  BY <1>1, <1>6, <1>7 DEF LinesInOrder

LEMMA DeliverLines ==
  ASSUME TypeOK, LinesInOrder, NEW c \in Client, Deliver(c)
  PROVE  LinesInOrder'
<1> DEFINE e == Head(pipe[c])
           p == pipe[c]
<1>1. /\ pull' = Append(pull, e) /\ p # <<>> /\ pipe'[c] = Tail(p)
      /\ Waiting' = Waiting /\ UNCHANGED <<log, said>>
      /\ \A d \in Client \ {c} : pipe'[d] = pipe[d]
  BY QueueTypes DEF Deliver, Waiting, relay, clients
<1>2. p \in Seq(Line) /\ log \in Seq(Line) /\ Waiting \in Seq(Line) /\ pull \in Seq(Line)
  BY QueueTypes
<1>3. /\ Typed(p, said) /\ Ascends(p) /\ \A i \in 1 .. Len(p) : p[i].from = c
      /\ Precedes(log, p) /\ Precedes(Waiting, p) /\ Precedes(pull, p)
  BY DEF LinesInOrder, OnItsWay
<1>4. e \in Line /\ e.from = c /\ Tail(p) \in Seq(Line)
  BY <1>1, <1>2, <1>3, RestProperties
<1>5. Typed(Tail(p), said) /\ e.n <= said[e.from]
  BY <1>1, <1>2, <1>3, TypedTake
<1>6. Begins(e, Tail(p)) /\ Ascends(Tail(p))
  BY <1>1, <1>2, <1>3, AscendsTake
<1>7. /\ Ends(log, e) /\ Ends(Waiting, e) /\ Ends(pull, e) /\ Precedes(log, Tail(p))
      /\ Precedes(Waiting, Tail(p)) /\ Precedes(pull, Tail(p))
  BY <1>1, <1>2, <1>3, PrecedesTake
<1>8. \A i \in 1 .. Len(Tail(p)) : Tail(p)[i].from = c
  BY <1>1, <1>2, <1>3, RestProperties
<1> HIDE DEF e, p
<1>9. OnItsWay(c)'
  <2>1. Precedes(pull', Tail(p))
    BY <1>1, <1>2, <1>4, <1>6, <1>7, PutPrecedes
  <2> QED  BY <1>1, <1>5, <1>6, <1>7, <1>8, <2>1 DEF OnItsWay
<1>10. ASSUME NEW d \in Client, d # c  PROVE OnItsWay(d)'
  <2>1. OnItsWay(d) /\ pipe[d] \in Seq(Line) /\ pipe'[d] = pipe[d]
    BY <1>1, <1>10, QueueTypes DEF LinesInOrder
  <2>2. Begins(e, pipe[d])
    BY <1>4, <1>10, <2>1 DEF Begins, Before, OnItsWay
  <2>3. Precedes(pull', pipe[d])
    BY <1>1, <1>2, <1>4, <2>1, <2>2, PutPrecedes DEF OnItsWay
  <2> QED  BY <1>1, <2>1, <2>3 DEF OnItsWay
<1>11. Typed(pull', said) /\ Ascends(pull') /\ Precedes(log, pull') /\ Precedes(Waiting, pull')
  BY <1>1, <1>2, <1>4, <1>5, <1>7, TypedPut, AscendsPut, PrecedesPut DEF LinesInOrder
<1> QED  BY <1>1, <1>9, <1>10, <1>11 DEF LinesInOrder

LEMMA AcceptLines ==
  ASSUME TypeOK, LinesInOrder, Accept
  PROVE  LinesInOrder'
<1> DEFINE e == Head(pull)
           t == Tail(pull)
<1>1. /\ pull # <<>> /\ pull' = t /\ Server!Accept(e)
      /\ UNCHANGED <<log, said, pipe>>
  BY DEF Accept, clients
<1>2. log \in Seq(Line) /\ Waiting \in Seq(Line) /\ pull \in Seq(Line)
  BY QueueTypes
<1>3. e \in Line /\ t \in Seq(Line)
  BY <1>1, <1>2, RestProperties
<1>4. Waiting' = Append(Waiting, e)
  BY <1>1, <1>3, WaitingAccept
<1>5. Typed(t, said) /\ e.n <= said[e.from] /\ Begins(e, t) /\ Ascends(t)
  BY <1>1, <1>2, TypedTake, AscendsTake DEF LinesInOrder
<1>6. Ends(log, e) /\ Ends(Waiting, e) /\ Precedes(log, t) /\ Precedes(Waiting, t)
  BY <1>1, <1>2, PrecedesTake DEF LinesInOrder
<1>7. ASSUME NEW c \in Client  PROVE OnItsWay(c)'
  <2>1. OnItsWay(c) /\ pipe[c] \in Seq(Line)
    BY QueueTypes DEF LinesInOrder
  <2>2. Begins(e, pipe[c]) /\ Precedes(t, pipe[c])
    BY <1>1, <1>2, <2>1, TakePrecedes DEF OnItsWay
  <2>3. Precedes(Waiting', pipe[c])
    BY <1>2, <1>3, <1>4, <2>1, <2>2, PutPrecedes DEF OnItsWay
  <2> QED  BY <1>1, <2>1, <2>2, <2>3 DEF OnItsWay
<1> HIDE DEF e, t
<1>8. Typed(Waiting', said) /\ Ascends(Waiting') /\ Precedes(log, Waiting') /\ Precedes(Waiting', t)
  BY <1>2, <1>3, <1>4, <1>5, <1>6, TypedPut, AscendsPut, PrecedesPut, PutPrecedes
     DEF LinesInOrder
<1> QED  BY <1>1, <1>5, <1>6, <1>7, <1>8 DEF LinesInOrder

\* Publishing takes the first line that waits; it is later than all of the log.
LEMMA PublishTakes ==
  ASSUME TypeOK, LinesInOrder, Publish
  PROVE  /\ Waiting # <<>> /\ Waiting' = Tail(Waiting)
         /\ Head(Waiting) \in Line /\ log' = Append(log, Head(Waiting))
         /\ Ends(log, Head(Waiting)) /\ Head(Waiting).n <= said[Head(Waiting).from]
<1>1. Server!Relay /\ log' = Append(log, relayed'[Len(relayed')])
  BY DEF Publish
<1>2. /\ Waiting # <<>> /\ Waiting' = Tail(Waiting)
      /\ relayed'[Len(relayed')] = Head(Waiting)
  BY <1>1, WaitingRelay
<1>3. log \in Seq(Line) /\ Waiting \in Seq(Line)
  BY QueueTypes
<1>4. Head(Waiting) \in Line
  BY <1>2, <1>3, RestProperties
<1>5. Ends(log, Head(Waiting)) /\ Head(Waiting).n <= said[Head(Waiting).from]
  BY <1>2, <1>3, PrecedesTake, TypedTake DEF LinesInOrder
<1> QED  BY <1>1, <1>2, <1>4, <1>5

LEMMA PublishLines ==
  ASSUME TypeOK, LinesInOrder, Publish
  PROVE  LinesInOrder'
<1> DEFINE w == Waiting
           e == Head(w)
           t == Tail(w)
<1>1. /\ w # <<>> /\ Waiting' = t /\ e \in Line /\ log' = Append(log, e)
      /\ Ends(log, e) /\ e.n <= said[e.from]
  BY PublishTakes
<1>2. UNCHANGED <<pull, said, pipe>>
  BY DEF Publish, clients
<1>3. log \in Seq(Line) /\ w \in Seq(Line) /\ pull \in Seq(Line)
  BY QueueTypes
<1>4. /\ Typed(w, said) /\ Ascends(w) /\ Precedes(log, w) /\ Precedes(w, pull)
      /\ Precedes(log, pull) /\ Typed(log, said)
  BY DEF LinesInOrder
<1>5. ASSUME NEW c \in Client
      PROVE  OnItsWay(c) /\ pipe[c] \in Seq(Line) /\ Precedes(w, pipe[c])
  BY QueueTypes DEF LinesInOrder, OnItsWay
<1> HIDE DEF w
<1>6. t \in Seq(Line)
  BY <1>1, <1>3, RestProperties
<1>7. /\ Typed(t, said) /\ Begins(e, t) /\ Ascends(t) /\ Precedes(log, t)
      /\ Begins(e, pull) /\ Precedes(t, pull)
  BY <1>1, <1>3, <1>4, TypedTake, AscendsTake, PrecedesTake, TakePrecedes
<1>8. ASSUME NEW c \in Client  PROVE OnItsWay(c)'
  <2>1. Begins(e, pipe[c]) /\ Precedes(t, pipe[c])
    BY <1>1, <1>3, <1>5, TakePrecedes
  <2>2. Precedes(log', pipe[c])
    BY <1>1, <1>3, <1>5, <2>1, PutPrecedes DEF OnItsWay
  <2> QED  BY <1>1, <1>2, <1>5, <2>1, <2>2 DEF OnItsWay
<1> HIDE DEF e, t
<1>9. Typed(log', said) /\ Precedes(log', t) /\ Precedes(log', pull)
  BY <1>1, <1>3, <1>4, <1>6, <1>7, TypedPut, PutPrecedes
<1> QED  BY <1>1, <1>2, <1>7, <1>8, <1>9 DEF LinesInOrder

\* What a fault leaves of the lines between two sockets is still in order.
LEMMA LoseLines ==
  ASSUME TypeOK, LinesInOrder, NEW c \in Client, NEW k \in 0 .. Len(pipe[c]),
         pipe'[c] = LoseFirst(pipe[c], k), said' = said, log' = log,
         Waiting' = Waiting, pull' = pull \/ pull' = <<>>
  PROVE  OnItsWay(c)'
<1> DEFINE p == pipe[c]
           u == LoseFirst(p, k)
<1>1. /\ p \in Seq(Line) /\ log \in Seq(Line) /\ Waiting \in Seq(Line)
      /\ pull \in Seq(Line)
  BY QueueTypes
<1>2. /\ Typed(p, said) /\ Ascends(p) /\ \A i \in 1 .. Len(p) : p[i].from = c
      /\ Precedes(log, p) /\ Precedes(Waiting, p) /\ Precedes(pull, p)
  BY DEF LinesInOrder, OnItsWay
<1>3. k \in 0 .. Len(p)
  OBVIOUS
<1> HIDE DEF p
<1>4. /\ Typed(u, said) /\ Ascends(u) /\ Precedes(log, u) /\ Precedes(Waiting, u)
      /\ Precedes(pull, u)
  BY <1>1, <1>2, <1>3, TypedLose, PrecedesLose
<1>5. \A i \in 1 .. Len(u) : u[i].from = c
  <2>1. /\ Len(u) = Len(p) - k /\ Len(p) \in Nat /\ k \in Nat /\ k <= Len(p)
        /\ \A i \in 1 .. Len(p) - k : u[i] = p[i + k]
    <3>1. Len(p) \in Nat
      BY <1>1
    <3>2. k \in Nat /\ k <= Len(p)
      BY <1>3, <3>1
    <3>3. /\ Len(u) = Len(p) - k /\ \A i \in 1 .. Len(p) - k : u[i] = p[i + k]
      BY <1>1, <1>3, LoseProperties, Zenon
    <3> QED  BY <3>1, <3>2, <3>3
  <2> HIDE DEF u
  <2>2. \A i \in 1 .. Len(u) : i + k \in 1 .. Len(p) /\ u[i] = p[i + k]
    BY <2>1
  <2> QED  BY <1>2, <2>2
<1>6. Precedes(pull', u)
  BY <1>4, NothingInOrder
<1> HIDE DEF u
<1>7. pipe'[c] = u
  BY DEF u, p
<1> QED  BY <1>4, <1>5, <1>6, <1>7 DEF OnItsWay

LEMMA NextLines == TypeOK /\ LinesInOrder /\ [Next]_vars => LinesInOrder'
<1> SUFFICES ASSUME TypeOK, LinesInOrder, [Next]_vars  PROVE LinesInOrder'
  OBVIOUS
<1>1. ASSUME NEW c \in Client, Start(c) \/ Show(c) \/ Leave(c) \/ Subscribe(c)
      PROVE  LinesInOrder'
  BY <1>1, LinesSame DEF Start, Show, Leave, Subscribe, clients, relay
<1>2. ASSUME NEW c \in Client, Disconnect(c)  PROVE LinesInOrder'
  <2>1. UNCHANGED <<said, log, pull, accepted, relayed>> /\ Waiting' = Waiting
    BY <1>2 DEF Disconnect, clients, relay, Waiting
  <2>2. PICK k \in 0 .. Len(pipe[c]) : pipe' = [pipe EXCEPT ![c] = LoseFirst(@, k)]
    BY <1>2 DEF Disconnect
  <2>3. OnItsWay(c)'
    <3>1. pipe'[c] = LoseFirst(pipe[c], k)
      BY <2>2, QueueTypes
    <3> QED  BY <2>1, <3>1, LoseLines
  <2>4. ASSUME NEW d \in Client, d # c  PROVE OnItsWay(d)'
    <3>1. pipe'[d] = pipe[d] /\ OnItsWay(d)
      BY <2>2, <2>4, QueueTypes DEF LinesInOrder
    <3> QED  BY <2>1, <3>1 DEF OnItsWay
  <2> QED  BY <2>1, <2>3, <2>4 DEF LinesInOrder
<1>3. CASE Stop
  BY <1>3, LinesSame DEF Stop, Server!Close, clients
<1>4. CASE Restart
  <2>1. /\ UNCHANGED <<said, log, pull, pipe>>
        /\ accepted' = <<>> /\ relayed' = <<>>
    BY <1>4 DEF Restart, clients
  <2>2. Waiting' = <<>>
    BY <2>1 DEF Waiting
  <2> QED  BY <2>1, <2>2, NothingInOrder DEF LinesInOrder, OnItsWay
<1>5. CASE Down
  <2>1. UNCHANGED <<said, log, accepted, relayed>> /\ pull' = <<>> /\ Waiting' = Waiting
    BY <1>5 DEF Down, clients, relay, Waiting
  <2>2. PICK k \in [Client -> 0 .. SndHwm] :
          /\ \A c \in Client : k[c] <= Len(pipe[c])
          /\ pipe' = [c \in Client |-> LoseFirst(pipe[c], k[c])]
    BY <1>5 DEF Down
  <2>3. ASSUME NEW c \in Client  PROVE OnItsWay(c)'
    <3>1. Len(pipe[c]) \in Nat /\ k[c] \in 0 .. SndHwm
      BY <2>2, QueueTypes
    <3>2. k[c] \in 0 .. Len(pipe[c]) /\ pipe'[c] = LoseFirst(pipe[c], k[c])
      BY <2>2, <3>1, SystemAssumption
    <3> QED  BY <2>1, <3>2, LoseLines
  <2> QED  BY <2>1, <2>3, NothingInOrder DEF LinesInOrder
<1>6. CASE UNCHANGED vars
  BY <1>6, LinesSame DEF vars, clients, relay
<1> QED  BY <1>1, <1>2, <1>3, <1>4, <1>5, <1>6, SayLines, DeliverLines,
            AcceptLines, PublishLines DEF Next

-----------------------------------------------------------------------------
(* The order in which the lines are shown.                                 *)

\* The places of the log that a client was shown, or will be, go up.
Climbs(s, n) ==
  \A i \in 1 .. Len(s) :
    /\ s[i] \in 1 .. n
    /\ \A j \in 1 .. Len(s) : i < j => s[i] < s[j]
PlacesInOrder == \A c \in Client : Climbs(Shown(c), Len(log))

LEMMA ClimbsPut ==
  ASSUME NEW s \in Seq(Nat), NEW n \in Nat, Climbs(s, n)
  PROVE  Climbs(Append(s, n + 1), n + 1)
<1> DEFINE t == Append(s, n + 1)
<1>1. /\ Len(s) \in Nat /\ Len(t) = Len(s) + 1 /\ t[Len(s) + 1] = n + 1
      /\ \A i \in 1 .. Len(s) : t[i] = s[i]
  BY AppendProperties
<1> HIDE DEF t
<1>2. ASSUME NEW i \in 1 .. Len(t)
      PROVE  /\ t[i] \in 1 .. n + 1
             /\ \A j \in 1 .. Len(t) : i < j => t[i] < t[j]
  BY <1>1, SMTT(30) DEF Climbs
<1>3. Climbs(t, n + 1)
  BY <1>2 DEF Climbs
<1> QED  BY <1>3 DEF t

LEMMA ClimbsFurther ==
  ASSUME NEW s \in Seq(Nat), NEW n \in Nat, Climbs(s, n)
  PROVE  Climbs(s, n + 1)
  BY DEF Climbs

\* What is left of h followed by o if o is cut behind its first k.
LEMMA ClimbsKeep ==
  ASSUME NEW h \in Seq(Nat), NEW o \in Seq(Nat), NEW k \in 0 .. Len(o),
         NEW n \in Nat, Climbs(h \o o, n)
  PROVE  Climbs(h \o KeepFirst(o, k), n)
<1> DEFINE q == KeepFirst(o, k)
           s == h \o o
           t == h \o q
<1>1. /\ k \in Nat /\ k <= Len(o) /\ Len(o) \in Nat /\ Len(h) \in Nat
  OBVIOUS
<1>2. /\ q \in Seq(Nat) /\ Len(q) = k
      /\ \A i \in 1 .. k : q[i] = o[i]
  BY KeepProperties
<1>3. /\ Len(s) = Len(h) + Len(o)
      /\ \A i \in 1 .. Len(h) + Len(o) : s[i] = IF i <= Len(h) THEN h[i] ELSE o[i - Len(h)]
  BY ConcatProperties
<1> HIDE DEF q
<1>4. /\ Len(t) = Len(h) + Len(q)
      /\ \A i \in 1 .. Len(h) + Len(q) : t[i] = IF i <= Len(h) THEN h[i] ELSE q[i - Len(h)]
  BY <1>2, ConcatProperties
<1> HIDE DEF s, t
<1>5. ASSUME NEW i \in 1 .. Len(t)  PROVE i \in 1 .. Len(s) /\ t[i] = s[i]
  <2>1. i \in 1 .. Len(s) /\ i \in 1 .. Len(h) + Len(o) /\ i \in 1 .. Len(h) + Len(q)
    BY <1>1, <1>2, <1>3, <1>4
  <2>2. CASE i <= Len(h)
    BY <1>3, <1>4, <2>1, <2>2
  <2>3. CASE ~(i <= Len(h))
    <3>1. i - Len(h) \in 1 .. k
      BY <1>1, <1>2, <1>4, <2>3
    <3> QED  BY <1>2, <1>3, <1>4, <2>1, <2>3, <3>1
  <2> QED  BY <2>2, <2>3
<1>6. Climbs(s, n)
  BY DEF s
<1>7. Climbs(t, n)
  BY <1>5, <1>6 DEF Climbs
<1> QED  BY <1>7 DEF t, q

\* The next place is beyond all those shown before.
LEMMA ClimbsNext ==
  ASSUME NEW h \in Seq(Nat), NEW o \in Seq(Nat), o # <<>>, NEW n \in Nat,
         Climbs(h \o o, n)
  PROVE  /\ Head(o) \in 1 .. n
         /\ \A k \in 1 .. Len(h) : h[k] < Head(o)
<1> DEFINE s == h \o o
<1>1. Len(h) \in Nat /\ Len(o) \in Nat \ {0} /\ Head(o) = o[1]
  BY EmptySeq
<1>2. /\ Len(s) = Len(h) + Len(o)
      /\ \A i \in 1 .. Len(h) + Len(o) : s[i] = IF i <= Len(h) THEN h[i] ELSE o[i - Len(h)]
  BY ConcatProperties
<1>3. Climbs(s, n)
  OBVIOUS
<1> HIDE DEF s
<1>4. Len(h) + 1 \in 1 .. Len(s) /\ s[Len(h) + 1] = Head(o)
  <2>1. /\ Len(h) + 1 \in 1 .. Len(h) + Len(o) /\ ~(Len(h) + 1 <= Len(h))
        /\ Len(h) + 1 - Len(h) = 1
    BY <1>1
  <2> QED  BY <1>1, <1>2, <2>1
<1>5. ASSUME NEW k \in 1 .. Len(h)  PROVE h[k] < Head(o)
  <2>1. k \in 1 .. Len(s) /\ s[k] = h[k] /\ k < Len(h) + 1
    BY <1>1, <1>2
  <2> QED  BY <1>3, <1>4, <2>1 DEF Climbs
<1> QED  BY <1>3, <1>4, <1>5 DEF Climbs

LEMMA InitPlaces == Init => PlacesInOrder
<1> SUFFICES ASSUME Init, NEW c \in Client  PROVE Climbs(Shown(c), Len(log))
  BY DEF PlacesInOrder
<1>1. Len(Shown(c)) = 0
  <2>1. heard[c] = <<>> /\ out[c] = <<>>
    BY DEF Init
  <2> QED  BY <2>1 DEF Shown
<1> QED  BY <1>1 DEF Climbs

LEMMA NextPlaces ==
  TypeOK /\ LinesInOrder /\ PlacesInOrder /\ [Next]_vars => PlacesInOrder'
<1> SUFFICES ASSUME TypeOK, LinesInOrder, PlacesInOrder, [Next]_vars,
                    NEW d \in Client
             PROVE  Climbs(Shown(d)', Len(log'))
  BY DEF PlacesInOrder
<1> DEFINE h == heard[d]
           o == out[d]
           n == Len(log)
<1>1. h \in Seq(Nat) /\ o \in Seq(Nat) /\ n \in Nat /\ Shown(d) \in Seq(Nat)
  BY ShownType DEF TypeOK
<1>2. Climbs(Shown(d), n) /\ Shown(d) = h \o o
  BY DEF PlacesInOrder, Shown
<1> HIDE DEF h, o, n
<1>3. ASSUME Shown(d)' = Shown(d), log' = log  PROVE Climbs(Shown(d)', Len(log'))
  BY <1>2, <1>3 DEF n
<1>4. ASSUME log' = log, heard' = heard, NEW k \in 0 .. Len(o), out'[d] = KeepFirst(o, k)
      PROVE  Climbs(Shown(d)', Len(log'))
  <2>1. Climbs(h \o KeepFirst(o, k), n)
    BY <1>1, <1>2, <1>4, ClimbsKeep
  <2> QED  BY <1>4, <2>1 DEF Shown, h, n
<1>5. ASSUME NEW c \in Client,
             Start(c) \/ Say(c) \/ Subscribe(c) \/ Deliver(c)
      PROVE  Climbs(Shown(d)', Len(log'))
  BY <1>3, <1>5 DEF Start, Say, Subscribe, Deliver, clients, Shown
<1>6. ASSUME NEW c \in Client, Show(c)  PROVE Climbs(Shown(d)', Len(log'))
  <2>1. CASE d = c
    <3>1. o # <<>> /\ heard'[d] = Append(h, Head(o)) /\ out'[d] = Tail(o)
      BY <1>6, <2>1 DEF Show, TypeOK, h, o
    <3>2. Append(h, Head(o)) \o Tail(o) = h \o o
      BY <1>1, <3>1, TakeKeeps
    <3> QED  BY <1>2, <1>3, <1>6, <3>1, <3>2 DEF Shown, Show
  <2>2. CASE d # c
    BY <1>3, <1>6, <2>2 DEF Show, TypeOK, Shown
  <2> QED  BY <2>1, <2>2
<1>7. ASSUME NEW c \in Client, Leave(c)  PROVE Climbs(Shown(d)', Len(log'))
  <2>1. log' = log /\ heard' = heard /\ (out'[d] = out[d] \/ out'[d] = <<>>)
    BY <1>7 DEF Leave, TypeOK
  <2>2. CASE out'[d] = out[d]
    BY <1>3, <2>1, <2>2 DEF Shown
  <2>3. CASE out'[d] = <<>>
    <3>1. 0 \in 0 .. Len(o) /\ KeepFirst(o, 0) = <<>>
      BY <1>1 DEF KeepFirst
    <3> QED  BY <1>4, <2>1, <2>3, <3>1
  <2> QED  BY <2>1, <2>2, <2>3
<1>8. ASSUME NEW c \in Client, Disconnect(c)  PROVE Climbs(Shown(d)', Len(log'))
  <2>1. /\ log' = log /\ heard' = heard
        /\ \E k \in 0 .. Len(out[c]) : out' = [out EXCEPT ![c] = KeepFirst(@, k)]
    BY <1>8 DEF Disconnect, clients
  <2>2. CASE d = c
    <3>1. PICK k \in 0 .. Len(o) : out'[d] = KeepFirst(o, k)
      BY <2>1, <2>2 DEF o, TypeOK
    <3> QED  BY <1>4, <2>1, <3>1
  <2>3. CASE d # c
    BY <1>3, <2>1, <2>3 DEF TypeOK, Shown
  <2> QED  BY <2>2, <2>3
<1>9. CASE Accept \/ Stop \/ Restart
  BY <1>3, <1>9 DEF Accept, Stop, Restart, clients, Shown
<1>10. CASE Publish
  <2>1. heard' = heard /\ (out'[d] = o \/ out'[d] = Append(o, Len(log')))
    BY <1>10 DEF Publish, clients, o
  <2>2. Len(log') = n + 1
    BY <1>10, PublishTakes, QueueTypes, AppendProperties DEF n
  <2>3. CASE out'[d] = o
    <3>1. Shown(d)' = h \o o
      BY <2>1, <2>3 DEF Shown, h
    <3> QED  BY <1>1, <1>2, <2>2, <3>1, ClimbsFurther
  <2>4. CASE out'[d] = Append(o, n + 1)
    <3>1. h \o Append(o, n + 1) = Append(h \o o, n + 1)
      <4>1. n + 1 \in Nat
        BY <1>1
      <4> QED  BY <1>1, <4>1, PutAppends
    <3>2. Shown(d)' = Append(Shown(d), n + 1)
      BY <1>2, <2>1, <2>4, <3>1 DEF Shown, h
    <3> QED  BY <1>1, <1>2, <2>2, <3>2, ClimbsPut
  <2> QED  BY <2>1, <2>2, <2>3, <2>4
<1>11. CASE Down
  <2>1. PICK k \in [Client -> 0 .. SubHwm] :
          /\ \A c \in Client : k[c] <= Len(out[c])
          /\ out' = [c \in Client |-> KeepFirst(out[c], k[c])]
    BY <1>11 DEF Down
  <2>2. log' = log /\ heard' = heard /\ out'[d] = KeepFirst(o, k[d])
    BY <1>11, <2>1 DEF Down, clients, o
  <2>3. k[d] \in 0 .. Len(o)
    <3>1. k[d] \in 0 .. SubHwm /\ k[d] <= Len(o) /\ Len(o) \in Nat
      BY <1>1, <2>1 DEF o
    <3> QED  BY <3>1, SystemAssumption
  <2> QED  BY <1>4, <2>2, <2>3
<1>12. CASE UNCHANGED vars
  BY <1>3, <1>12 DEF vars, clients, Shown
<1> QED  BY <1>5, <1>6, <1>7, <1>8, <1>9, <1>10, <1>11, <1>12 DEF Next

-----------------------------------------------------------------------------
(* One conversation.                                                       *)

OrderInv == TypeOK /\ LinesInOrder /\ PlacesInOrder

\* Every step of the system is one of the conversation, or none of its business.
LEMMA NextConversation ==
  OrderInv /\ [Next]_vars => [Conversation!Next]_(Conversation!vars)
<1> SUFFICES ASSUME OrderInv, [Next]_vars
             PROVE  Conversation!Next \/ UNCHANGED <<said, log, heard>>
  BY DEF Conversation!vars
<1> USE DEF OrderInv
<1>1. ASSUME NEW c \in Client, Say(c)  PROVE Conversation!Next
  <2>1. Conversation!Say(c)
    BY <1>1 DEF Say, Conversation!Say
  <2> QED  BY <2>1 DEF Conversation!Next
<1>2. ASSUME NEW c \in Client, Show(c)  PROVE Conversation!Next
  <2> DEFINE i == Head(out[c])
  <2>1. out[c] # <<>> /\ heard' = [heard EXCEPT ![c] = Append(@, i)] /\ UNCHANGED <<said, log>>
    BY <1>2 DEF Show
  <2>2. /\ heard[c] \in Seq(Nat) /\ out[c] \in Seq(Nat) /\ log \in Seq(Line)
        /\ Len(log) \in Nat /\ Climbs(heard[c] \o out[c], Len(log))
    BY ShownType DEF TypeOK, PlacesInOrder, Shown
  <2>3. i \in 1 .. Len(log) /\ \A k \in 1 .. Len(heard[c]) : heard[c][k] < i
    BY <2>1, <2>2, ClimbsNext
  <2> HIDE DEF i
  <2>4. i \in DOMAIN log /\ \A k \in DOMAIN heard[c] : heard[c][k] < i
    <3>1. DOMAIN log = 1 .. Len(log) /\ DOMAIN heard[c] = 1 .. Len(heard[c])
      BY <2>2
    <3> QED  BY <2>3, <3>1
  <2>5. Conversation!Hear(c, i)
    BY <2>1, <2>4 DEF Conversation!Hear
  <2> QED  BY <2>4, <2>5 DEF Conversation!Next
<1>3. CASE Publish
  <2> DEFINE m == Head(Waiting)
             c == m.from
             n == m.n
  <2>1. /\ m \in Line /\ log' = Append(log, m) /\ Ends(log, m) /\ m.n <= said[m.from]
    BY <1>3, PublishTakes
  <2> HIDE DEF m
  <2>2. /\ c \in Client /\ n \in Nat \ {0} /\ m = [from |-> c, n |-> n]
        /\ n <= said[c]
    BY <2>1 DEF Line
  <2>3. n \in 1 .. said[c]
    BY <2>2, QueueTypes
  <2>4. \A i \in DOMAIN log : Conversation!Before(log[i], m)
    <3>1. DOMAIN log = 1 .. Len(log)
      BY QueueTypes
    <3>2. \A i \in 1 .. Len(log) : Before(log[i], m)
      BY <2>1, Zenon DEF Ends
    <3> QED  BY <3>1, <3>2 DEF Before, Conversation!Before
  <2>5. UNCHANGED <<said, heard>>
    BY <1>3 DEF Publish, clients
  <2> HIDE DEF c, n
  <2>6. Conversation!Publish(c, n)
    BY <2>1, <2>2, <2>3, <2>4, <2>5 DEF Conversation!Publish
  <2> QED  BY <2>2, <2>3, <2>6 DEF Conversation!Next
<1>4. ASSUME NEW c \in Client,
             Start(c) \/ Leave(c) \/ Subscribe(c) \/ Deliver(c) \/ Disconnect(c)
      PROVE  UNCHANGED <<said, log, heard>>
  BY <1>4 DEF Start, Leave, Subscribe, Deliver, Disconnect, clients
<1>5. CASE Accept \/ Stop \/ Restart \/ Down
  BY <1>5 DEF Accept, Stop, Restart, Down, clients
<1>6. CASE UNCHANGED vars
  BY <1>6 DEF vars, clients
<1> QED  BY <1>1, <1>2, <1>3, <1>4, <1>5, <1>6 DEF Next

\* Whatever is lost, and however often the server is stopped or killed, there is
\* one conversation: the system implements BroadcastLog.
THEOREM ConversationCorrect == Spec => ConversationSpec
<1>1. Init => OrderInv
  BY InitType, InitLines, InitPlaces DEF OrderInv
<1>2. OrderInv /\ [Next]_vars => OrderInv'
  BY NextType, NextLines, NextPlaces DEF OrderInv
<1>3. Init => Conversation!Init
  BY DEF Init, Conversation!Init
<1> QED  BY <1>1, <1>2, <1>3, NextConversation, PTL
         DEF Spec, ConversationSpec, Conversation!Spec

=============================================================================
