--------------------------- MODULE SignalLogProofs ---------------------------
(***************************************************************************)
(* That the threads and handlers of SignalLog block each other only where  *)
(* a handler waits for what it interrupted, for every code that keeps to   *)
(* CodeAssumption and every number of signals.                             *)
(***************************************************************************)
EXTENDS SignalLog, SequenceTheorems, TLAPS

\* Handlers, and nothing else, run above the first frame of a thread.
FrameInv ==
  \A t \in Thread : \A i \in DOMAIN stack[t] : stack[t][i].at \in SigLabel <=> i > 1

Inv == TypeOK /\ OneHolder /\ FrameInv

\* An edge changes the label of the running frame of its thread, nothing else.
LEMMA MoveFrames ==
  ASSUME TypeOK, NEW t \in Thread, NEW e \in Code, Move(t, e)
  PROVE  /\ stack' \in [Thread -> Seq(Frame)]
         /\ \A u \in Thread : Len(stack'[u]) = Len(stack[u])
         /\ \A u \in Thread : \A i \in 1 .. Len(stack[u]) :
              stack'[u][i].at =
                IF u = t /\ i = Len(stack[u]) THEN e.to ELSE stack[u][i].at
         /\ stack[t][Len(stack[t])].at = e.from
         /\ Len(stack[t]) \in DOMAIN stack[t]
<1> DEFINE s == stack[t]
           f == [s[Len(s)] EXCEPT !.at = e.to]
<1>1. s \in Seq(Frame) /\ s # <<>> /\ Len(s) \in 1 .. Len(s)
  BY DEF TypeOK
<1>2. s[Len(s)] \in Frame
  BY <1>1
<1>3. e.to \in Label
  BY DEF Label
<1>4. f \in Frame /\ f.at = e.to
  BY <1>2, <1>3 DEF Frame
<1>5. stack' = [stack EXCEPT ![t] = [s EXCEPT ![Len(s)] = f]]
  BY DEF Move, MoveTo
<1>6. /\ [s EXCEPT ![Len(s)] = f] \in Seq(Frame)
      /\ Len([s EXCEPT ![Len(s)] = f]) = Len(s)
      /\ \A i \in 1 .. Len(s) :
           [s EXCEPT ![Len(s)] = f][i] = IF i = Len(s) THEN f ELSE s[i]
  <2> HIDE DEF f
  <2> QED  BY <1>1, <1>4
<1> HIDE DEF f
<1>7. stack' \in [Thread -> Seq(Frame)]
  BY <1>5, <1>6 DEF TypeOK
<1>8. ASSUME NEW u \in Thread
      PROVE  stack'[u] = IF u = t THEN [s EXCEPT ![Len(s)] = f] ELSE stack[u]
  BY <1>5 DEF TypeOK
<1>9. ASSUME NEW u \in Thread
      PROVE  /\ Len(stack'[u]) = Len(stack[u])
             /\ \A i \in 1 .. Len(stack[u]) :
                  stack'[u][i].at =
                    IF u = t /\ i = Len(stack[u]) THEN e.to ELSE stack[u][i].at
  BY <1>4, <1>6, <1>8
<1>10. stack[t][Len(stack[t])].at = e.from
  BY DEF Move, Top
<1> QED  BY <1>1, <1>7, <1>9, <1>10

\* A type-correct stack has its length and its domain in step.
LEMMA StackDomain ==
  ASSUME TypeOK, NEW t \in Thread
  PROVE  /\ stack[t] \in Seq(Frame) /\ Len(stack[t]) \in Nat \ {0}
         /\ DOMAIN stack[t] = 1 .. Len(stack[t])
         /\ Len(stack[t]) \in DOMAIN stack[t]
<1>1. stack[t] \in Seq(Frame) /\ stack[t] # <<>>
  BY DEF TypeOK
<1> QED  BY <1>1

LEMMA MoveType ==
  ASSUME Inv, NEW t \in Thread, NEW e \in Code, Move(t, e),
         owner' \in [Mutex -> Thread \cup {"free"}], g_quit' \in BOOLEAN
  PROVE  TypeOK'
<1>1. TypeOK
  BY DEF Inv
<1>2. ASSUME NEW u \in Thread  PROVE stack'[u] # <<>>
  <2>1. stack'[u] \in Seq(Frame) /\ Len(stack'[u]) = Len(stack[u])
    BY <1>1, MoveFrames
  <2>2. Len(stack[u]) # 0
    BY <1>1, StackDomain
  <2> QED  BY <2>1, <2>2
<1>3. stack' \in [Thread -> Seq(Frame)]
  BY <1>1, MoveFrames
<1> QED  BY <1>1, <1>2, <1>3 DEF TypeOK, Move

LEMMA MoveFrameInv ==
  ASSUME Inv, NEW t \in Thread, NEW e \in Code, Move(t, e)
  PROVE  FrameInv'
<1>1. TypeOK /\ FrameInv
  BY DEF Inv
<1> SUFFICES ASSUME NEW u \in Thread, NEW i \in DOMAIN stack'[u]
             PROVE  stack'[u][i].at \in SigLabel <=> i > 1
  BY DEF FrameInv
<1>2. /\ stack' \in [Thread -> Seq(Frame)]
      /\ Len(stack'[u]) = Len(stack[u])
      /\ \A j \in 1 .. Len(stack[u]) :
              stack'[u][j].at =
                IF u = t /\ j = Len(stack[u]) THEN e.to ELSE stack[u][j].at
      /\ stack[t][Len(stack[t])].at = e.from
  BY <1>1, MoveFrames, ZenonT(40)
<1>3. i \in 1 .. Len(stack[u]) /\ DOMAIN stack[u] = 1 .. Len(stack[u])
  <2>1. stack'[u] \in Seq(Frame)
    BY <1>2
  <2> QED  BY <1>1, <1>2, <2>1, StackDomain
<1>4. stack[u][i].at \in SigLabel <=> i > 1
  BY <1>1, <1>3 DEF FrameInv
<1>5. e.from \in SigLabel <=> e.to \in SigLabel
  BY CodeAssumption
<1> QED  BY <1>2, <1>3, <1>4, <1>5
\* Frame i of thread t holds m.
Holds(t, i, m) == stack[t][i].at \in Holding[m]

\* OneHolder, of one mutex.
HeldByOwner(m) ==
  /\ \A t \in Thread : \A i, j \in DOMAIN stack[t] :
       Holds(t, i, m) /\ Holds(t, j, m) => i = j
  /\ \A t \in Thread :
       owner[m] = t <=> \E i \in DOMAIN stack[t] : Holds(t, i, m)

LEMMA OneHolderSplit ==
  OneHolder <=> \A m \in Mutex : HeldByOwner(m)
  BY DEF OneHolder, HeldByOwner, Holds

LEMMA OneHolderSplitNext ==
  OneHolder' <=> \A m \in Mutex : HeldByOwner(m)'
  BY DEF OneHolder, HeldByOwner, Holds

\* What an edge does to the frames that hold m.
LEMMA MoveHolds ==
  ASSUME Inv, NEW t \in Thread, NEW e \in Code, Move(t, e), NEW m \in Mutex
  PROVE  /\ Len(stack[t]) \in DOMAIN stack[t]
         /\ Holds(t, Len(stack[t]), m) <=> e.from \in Holding[m]
         /\ \A u \in Thread : DOMAIN stack'[u] = DOMAIN stack[u]
         /\ \A u \in Thread : \A i \in DOMAIN stack[u] :
              Holds(u, i, m)' <=>
                IF u = t /\ i = Len(stack[t]) THEN e.to \in Holding[m]
                ELSE Holds(u, i, m)
<1>1. TypeOK
  BY DEF Inv
<1>2. /\ stack' \in [Thread -> Seq(Frame)]
      /\ \A u \in Thread : Len(stack'[u]) = Len(stack[u])
      /\ \A u \in Thread : \A i \in 1 .. Len(stack[u]) :
              stack'[u][i].at =
                IF u = t /\ i = Len(stack[u]) THEN e.to ELSE stack[u][i].at
      /\ stack[t][Len(stack[t])].at = e.from
      /\ Len(stack[t]) \in DOMAIN stack[t]
  BY <1>1, MoveFrames
<1>3. ASSUME NEW u \in Thread
      PROVE  DOMAIN stack'[u] = DOMAIN stack[u] /\ DOMAIN stack[u] = 1 .. Len(stack[u])
  <2>1. stack'[u] \in Seq(Frame)
    BY <1>2
  <2> QED  BY <1>1, <1>2, <2>1, StackDomain
<1> QED  BY <1>2, <1>3 DEF Holds

\* An edge that neither takes nor drops m leaves its holder alone.
LEMMA MoveElsewhere ==
  ASSUME Inv, NEW t \in Thread, NEW e \in Code, Move(t, e), NEW m \in Mutex,
         ~(e.op \in {"take", "drop"} /\ e.arg = m), owner'[m] = owner[m]
  PROVE  HeldByOwner(m)'
<1>1. HeldByOwner(m)
  BY OneHolderSplit DEF Inv
<1>2. e.from \in Holding[m] <=> e.to \in Holding[m]
  BY CodeAssumption DEF Scoped
<1>3. \A u \in Thread : DOMAIN stack'[u] = DOMAIN stack[u]
  BY MoveHolds
<1>4. \A u \in Thread : \A i \in DOMAIN stack[u] : Holds(u, i, m)' <=> Holds(u, i, m)
  BY <1>2, MoveHolds
<1> QED  BY <1>1, <1>3, <1>4 DEF HeldByOwner

\* Taking a free mutex makes the running frame its only holder.
LEMMA MoveTake ==
  ASSUME Inv, NEW t \in Thread, NEW e \in Code, TakeMutex(t, e)
  PROVE  HeldByOwner(e.arg)'
<1> DEFINE m == e.arg
<1>1. Move(t, e) /\ e.op = "take" /\ owner[m] = "free" /\ m \in Mutex
  BY CodeAssumption DEF TakeMutex
<1>2. HeldByOwner(m)
  BY <1>1, OneHolderSplit DEF Inv
<1>3. e.to \in Holding[m]
  BY <1>1, CodeAssumption DEF Scoped
<1>4. \A u \in Thread : \A i \in DOMAIN stack[u] : ~Holds(u, i, m)
  BY <1>1, <1>2 DEF HeldByOwner, Thread
<1>5. \A u \in Thread : \A i \in DOMAIN stack[u] :
        Holds(u, i, m)' <=> u = t /\ i = Len(stack[t])
  BY <1>1, <1>3, <1>4, MoveHolds
<1>6. /\ Len(stack[t]) \in DOMAIN stack[t]
      /\ \A u \in Thread : DOMAIN stack'[u] = DOMAIN stack[u]
  BY <1>1, MoveHolds
<1>7. owner'[m] = t
  BY <1>1 DEF TakeMutex, Inv, TypeOK
<1> HIDE DEF m
<1>8. HeldByOwner(m)'
  BY <1>5, <1>6, <1>7 DEF HeldByOwner
<1> QED  BY <1>8 DEF m

\* Dropping a mutex leaves it without a holder.
LEMMA MoveDrop ==
  ASSUME Inv, NEW t \in Thread, NEW e \in Code, DropMutex(t, e)
  PROVE  HeldByOwner(e.arg)'
<1> DEFINE m == e.arg
<1>1. Move(t, e) /\ e.op = "drop" /\ m \in Mutex
  BY CodeAssumption DEF DropMutex
<1>2. HeldByOwner(m)
  BY <1>1, OneHolderSplit DEF Inv
<1>3. e.from \in Holding[m] /\ e.to \notin Holding[m]
  BY <1>1, CodeAssumption DEF Scoped
<1>4. Len(stack[t]) \in DOMAIN stack[t] /\ Holds(t, Len(stack[t]), m)
  BY <1>1, <1>3, MoveHolds
<1>5. owner[m] = t
  BY <1>2, <1>4 DEF HeldByOwner
<1>6. \A u \in Thread : \A i \in DOMAIN stack[u] :
        Holds(u, i, m) => u = t /\ i = Len(stack[t])
  BY <1>2, <1>4, <1>5 DEF HeldByOwner
<1>7. \A u \in Thread : \A i \in DOMAIN stack[u] : ~Holds(u, i, m)'
  BY <1>1, <1>3, <1>6, MoveHolds
<1>8. \A u \in Thread : DOMAIN stack'[u] = DOMAIN stack[u]
  BY <1>1, MoveHolds
<1>9. owner'[m] = "free"
  BY <1>1 DEF DropMutex, Inv, TypeOK
<1> HIDE DEF m
<1>10. HeldByOwner(m)'
  BY <1>7, <1>8, <1>9 DEF HeldByOwner, Thread
<1> QED  BY <1>10 DEF m

\* The edges keep the invariant, whatever they do.
LEMMA EdgeInv ==
  ASSUME Inv, NEW t \in Thread, NEW e \in Code,
         \/ TakeMutex(t, e) \/ DropMutex(t, e) \/ TestQuit(t, e)
         \/ StoreQuit(t, e) \/ Proceed(t, e)
  PROVE  Inv'
<1>1. Move(t, e)
  BY DEF TakeMutex, DropMutex, TestQuit, StoreQuit, Proceed
<1>2. owner' \in [Mutex -> Thread \cup {"free"}] /\ g_quit' \in BOOLEAN
  BY DEF Inv, TypeOK, TakeMutex, DropMutex, TestQuit, StoreQuit, Proceed
<1>3. TypeOK' /\ FrameInv'
  BY <1>1, <1>2, MoveType, MoveFrameInv
<1>4. ASSUME NEW m \in Mutex  PROVE HeldByOwner(m)'
  <2>1. CASE e.op \in {"take", "drop"} /\ e.arg = m
    <3>1. TakeMutex(t, e) \/ DropMutex(t, e)
      BY <2>1 DEF TestQuit, StoreQuit, Proceed
    <3> QED  BY <2>1, <3>1, MoveTake, MoveDrop
  <2>2. CASE ~(e.op \in {"take", "drop"} /\ e.arg = m)
    <3>1. owner'[m] = owner[m]
      BY <2>2 DEF Inv, TypeOK, TakeMutex, DropMutex, TestQuit, StoreQuit, Proceed
    <3> QED  BY <1>1, <2>2, <3>1, MoveElsewhere
  <2> QED  BY <2>1, <2>2
<1> QED  BY <1>3, <1>4, OneHolderSplitNext DEF Inv

\* Adding or removing a frame that holds nothing leaves the holders alone.
LEMMA OtherFrames ==
  ASSUME Inv, NEW t \in Thread, UNCHANGED owner,
         stack' \in [Thread -> Seq(Frame)],
         \A u \in Thread \ {t} : stack'[u] = stack[u],
         NEW n \in Nat, DOMAIN stack[t] \cap DOMAIN stack'[t] = 1 .. n,
         \A i \in 1 .. n : stack'[t][i] = stack[t][i],
         \A m \in Mutex : \A i \in DOMAIN stack[t] : Holds(t, i, m) => i \in 1 .. n,
         \A m \in Mutex : \A i \in DOMAIN stack'[t] : Holds(t, i, m)' => i \in 1 .. n
  PROVE  OneHolder'
<1> SUFFICES ASSUME NEW m \in Mutex  PROVE HeldByOwner(m)'
  BY OneHolderSplitNext
<1>1. HeldByOwner(m)
  BY OneHolderSplit DEF Inv
<1>2. ASSUME NEW u \in Thread
      PROVE  /\ \A i \in DOMAIN stack'[u] : Holds(u, i, m)' =>
                  i \in DOMAIN stack[u] /\ Holds(u, i, m)
             /\ \A i \in DOMAIN stack[u] : Holds(u, i, m) =>
                  i \in DOMAIN stack'[u] /\ Holds(u, i, m)'
  <2>1. CASE u = t
    BY <2>1 DEF Holds
  <2>2. CASE u # t
    BY <2>2 DEF Holds
  <2> QED  BY <2>1, <2>2
<1>3. owner'[m] = owner[m]
  OBVIOUS
<1> QED  BY <1>1, <1>2, <1>3 DEF HeldByOwner

LEMMA ReturnInv ==
  ASSUME Inv, NEW t \in Thread, Return(t)
  PROVE  Inv'
<1> DEFINE s == stack[t]
           n == Len(s) - 1
           r == SubSeq(s, 1, n)
<1>1. TypeOK /\ FrameInv
  BY DEF Inv
<1>2. s \in Seq(Frame) /\ Len(s) \in Nat \ {0} /\ DOMAIN s = 1 .. Len(s)
  BY <1>1, StackDomain
<1>3. s[Len(s)].at = "sig.return"
  BY DEF Return, Top
<1>4. Len(s) > 1
  <2>1. Len(s) \in DOMAIN s
    BY <1>2
  <2> QED  BY <1>1, <1>3, <2>1 DEF FrameInv, SigLabel
<1>5. n \in Nat \ {0} /\ Len(s) = n + 1
  <2>1. \A k \in Nat : k > 1 => k - 1 \in Nat \ {0} /\ k = (k - 1) + 1
    OBVIOUS
  <2> QED  BY <1>2, <1>4, <2>1
<1>6. /\ r \in Seq(Frame) /\ Len(r) = n /\ DOMAIN r = 1 .. n
      /\ \A i \in 1 .. n : r[i] = s[i]
  BY <1>2, <1>5
<1>7. stack' = [stack EXCEPT ![t] = r]
  BY DEF Return
<1>8. stack'[t] = r /\ \A u \in Thread \ {t} : stack'[u] = stack[u]
  BY <1>1, <1>7 DEF TypeOK
<1> HIDE DEF r
<1>9. stack' \in [Thread -> Seq(Frame)]
  BY <1>1, <1>6, <1>7 DEF TypeOK
<1>10. TypeOK'
  <2>1. r # <<>>
    BY <1>5, <1>6
  <2>2. \A u \in Thread : stack'[u] # <<>>
    BY <1>1, <1>8, <2>1 DEF TypeOK
  <2> QED  BY <1>1, <1>9, <2>2 DEF TypeOK, Return
<1>11. FrameInv'
  <2> SUFFICES ASSUME NEW u \in Thread, NEW i \in DOMAIN stack'[u]
               PROVE  stack'[u][i].at \in SigLabel <=> i > 1
    BY DEF FrameInv
  <2>1. CASE u = t
    <3>1. i \in 1 .. n /\ stack'[u][i] = s[i] /\ i \in DOMAIN s
      BY <1>2, <1>5, <1>6, <1>8, <2>1
    <3> QED  BY <1>1, <2>1, <3>1 DEF FrameInv
  <2>2. CASE u # t
    BY <1>1, <1>8, <2>2 DEF FrameInv
  <2> QED  BY <2>1, <2>2
<1>12. DOMAIN stack[t] \cap DOMAIN stack'[t] = 1 .. n
  BY <1>2, <1>5, <1>6, <1>8
<1>13. \A m \in Mutex : \A i \in DOMAIN stack[t] : Holds(t, i, m) => i \in 1 .. n
  <2> SUFFICES ASSUME NEW m \in Mutex, NEW i \in DOMAIN stack[t], Holds(t, i, m)
               PROVE  i # Len(s)
    BY <1>2, <1>5
  <2>1. "sig.return" \notin Holding[m]
    BY CodeAssumption
  <2> QED  BY <1>3, <2>1 DEF Holds
<1>14. \A m \in Mutex : \A i \in DOMAIN stack'[t] : Holds(t, i, m)' => i \in 1 .. n
  BY <1>6, <1>8
<1>15. \A i \in 1 .. n : stack'[t][i] = stack[t][i]
  BY <1>6, <1>8
<1>16. UNCHANGED owner
  BY DEF Return
<1>17. OneHolder'
  BY <1>5, <1>8, <1>9, <1>12, <1>13, <1>14, <1>15, <1>16, OtherFrames
<1> QED  BY <1>10, <1>11, <1>17 DEF Inv

LEMMA DeliverInv ==
  ASSUME Inv, NEW t \in Thread, NEW g \in Signal, Deliver(t, g)
  PROVE  Inv'
<1> DEFINE s == stack[t]
           n == Len(s)
           f == [sig |-> g, at |-> "sig.log"]
           r == Append(s, f)
<1>1. TypeOK /\ FrameInv
  BY DEF Inv
<1>2. s \in Seq(Frame) /\ n \in Nat \ {0} /\ DOMAIN s = 1 .. n
  BY <1>1, StackDomain
<1>3. f \in Frame /\ f.at = "sig.log"
  BY CodeAssumption DEF Frame
<1>4. stack' = [stack EXCEPT ![t] = r]
  BY DEF Deliver
<1> HIDE DEF f
<1>5. /\ r \in Seq(Frame) /\ Len(r) = n + 1 /\ DOMAIN r = 1 .. n + 1
      /\ r[n + 1] = f /\ \A i \in 1 .. n : r[i] = s[i]
  BY <1>2, <1>3
<1>6. stack'[t] = r /\ \A u \in Thread \ {t} : stack'[u] = stack[u]
  BY <1>1, <1>4 DEF TypeOK
<1> HIDE DEF r
<1>7. stack' \in [Thread -> Seq(Frame)]
  BY <1>1, <1>4, <1>5 DEF TypeOK
<1>8. TypeOK'
  <2>1. r # <<>>
    BY <1>2, <1>5
  <2>2. \A u \in Thread : stack'[u] # <<>>
    BY <1>1, <1>6, <2>1 DEF TypeOK
  <2>3. signals' \in 0 .. MaxSignals
    BY <1>1, CodeAssumption DEF TypeOK, Deliver
  <2> QED  BY <1>1, <1>7, <2>2, <2>3 DEF TypeOK, Deliver
<1>9. FrameInv'
  <2> SUFFICES ASSUME NEW u \in Thread, NEW i \in DOMAIN stack'[u]
               PROVE  stack'[u][i].at \in SigLabel <=> i > 1
    BY DEF FrameInv
  <2>1. CASE u = t /\ i = n + 1
    <3>1. stack'[u][i].at = "sig.log" /\ i > 1
      BY <1>2, <1>3, <1>5, <1>6, <2>1
    <3> QED  BY <3>1 DEF SigLabel
  <2>2. CASE u = t /\ i # n + 1
    <3>1. stack'[u][i] = s[i] /\ i \in DOMAIN s
      BY <1>2, <1>5, <1>6, <2>2
    <3> QED  BY <1>1, <2>2, <3>1 DEF FrameInv
  <2>3. CASE u # t
    BY <1>1, <1>6, <2>3 DEF FrameInv
  <2> QED  BY <2>1, <2>2, <2>3
<1>10. DOMAIN stack[t] \cap DOMAIN stack'[t] = 1 .. n
  BY <1>2, <1>5, <1>6
<1>11. \A m \in Mutex : \A i \in DOMAIN stack[t] : Holds(t, i, m) => i \in 1 .. n
  BY <1>2
<1>12. \A m \in Mutex : \A i \in DOMAIN stack'[t] : Holds(t, i, m)' => i \in 1 .. n
  <2> SUFFICES ASSUME NEW m \in Mutex, NEW i \in DOMAIN stack'[t], Holds(t, i, m)'
               PROVE  i # n + 1
    BY <1>2, <1>5, <1>6
  <2>1. "sig.log" \notin Holding[m]
    BY CodeAssumption
  <2> QED  BY <1>3, <1>5, <1>6, <2>1 DEF Holds
<1>13. \A i \in 1 .. n : stack'[t][i] = stack[t][i]
  BY <1>5, <1>6
<1>14. UNCHANGED owner
  BY DEF Deliver
<1> HIDE DEF n
<1>15. n \in Nat
  BY <1>2
<1>16. OneHolder'
  BY <1>6, <1>7, <1>10, <1>11, <1>12, <1>13, <1>14, <1>15, OtherFrames
<1> QED  BY <1>8, <1>9, <1>16 DEF Inv

LEMMA InitInv == Init => Inv
<1> SUFFICES ASSUME Init  PROVE Inv
  OBVIOUS
<1>0. PICK f \in First : stack = [t \in Thread |-> <<[sig |-> "none", at |-> f[t]]>>]
  BY DEF Init
<1>1. ASSUME NEW t \in Thread
      PROVE  /\ stack[t] \in Seq(Frame) /\ stack[t] # <<>>
             /\ DOMAIN stack[t] = {1} /\ stack[t][1].at = f[t]
  <2>1. stack[t] = <<[sig |-> "none", at |-> f[t]]>>
    BY <1>0
  <2>2. f[t] \in Label
    BY <1>0, CodeAssumption
  <2> QED  BY <2>1, <2>2 DEF Frame
<1>2. stack \in [Thread -> Seq(Frame)]
  BY <1>0, <1>1
<1>3. TypeOK
  <2>1. MaxSignals \in Nat
    BY CodeAssumption
  <2>2. signals \in 0 .. MaxSignals
    <3>1. signals = 0
      BY DEF Init
    <3> QED  BY <2>1, <3>1
  <2>3. g_quit \in BOOLEAN
    BY Zenon DEF Init
  <2>4. owner \in [Mutex -> Thread \cup {"free"}]
    BY DEF Init
  <2> QED  BY <1>1, <1>2, <2>2, <2>3, <2>4 DEF TypeOK
<1>4. FrameInv
  BY <1>0, <1>1, CodeAssumption DEF FrameInv
<1>5. ASSUME NEW t \in Thread, NEW m \in Mutex  PROVE f[t] \notin Holding[m]
  <2>1. f[t] \in {g[u] : g \in First, u \in Thread}
    BY <1>0, <1>5
  <2>2. f[t] \notin UNION {Holding[k] : k \in Mutex}
    BY <2>1, CodeAssumption, SMTT(30)
  <2> QED  BY <1>5, <2>2
<1>6. OneHolder
  BY <1>1, <1>5 DEF OneHolder, Init, Thread
<1> QED  BY <1>3, <1>4, <1>6 DEF Inv

LEMMA NextInv == Inv /\ [Next]_vars => Inv'
<1> SUFFICES ASSUME Inv, [Next]_vars  PROVE Inv'
  OBVIOUS
<1>1. ASSUME NEW t \in Thread, Step(t)  PROVE Inv'
  BY <1>1, EdgeInv, ReturnInv DEF Step
<1>2. ASSUME NEW t \in Thread, NEW g \in Signal, Deliver(t, g)  PROVE Inv'
  BY <1>2, DeliverInv
<1>3. CASE UNCHANGED vars
  BY <1>3 DEF vars, Inv, TypeOK, OneHolder, FrameInv
<1> QED  BY <1>1, <1>2, <1>3 DEF Next

THEOREM InvHolds == Spec => []Inv
  BY InitInv, NextInv, PTL DEF Spec

\* The variables of the two threads keep their types; no stack is ever empty.
THEOREM LogTypeCorrect == Spec => []TypeOK
<1>1. Inv => TypeOK
  BY DEF Inv
<1> QED  BY <1>1, InvHolds, PTL

\* However deep the handlers nest, a mutex has one holder, its owner.
THEOREM OneHolderCorrect == Spec => []OneHolder
<1>1. Inv => OneHolder
  BY DEF Inv
<1> QED  BY <1>1, InvHolds, PTL

\* The holder of a mutex that itself cannot move waits for the log's mutex.
LEMMA HolderWaitsForLog ==
  ASSUME Inv, Stuck, NEW m \in Mutex, NEW u \in Thread, owner[m] = u
  PROVE  /\ Waits(u, "log") /\ owner["log"] # "free"
         /\ m = "log" => HeldBelow(u, "log")
<1>1. TypeOK /\ FrameInv /\ HeldByOwner(m)
  BY OneHolderSplit DEF Inv
<1>2. /\ Len(stack[u]) \in Nat \ {0} /\ DOMAIN stack[u] = 1 .. Len(stack[u])
  BY <1>1, StackDomain
<1>3. PICK i \in DOMAIN stack[u] : Holds(u, i, m)
  BY <1>1 DEF HeldByOwner
<1>4. ~Done(u)
  <2>1. Last[u] \notin Holding[m]
    BY CodeAssumption
  <2> QED  BY <1>2, <1>3, <2>1 DEF Done, Top, Holds
<1>5. PICK n \in Mutex : Waits(u, n) /\ owner[n] # "free"
  BY <1>4 DEF Stuck, Halted
<1>6. PICK e \in Code : e.from = Top(u).at /\ e.op = "take" /\ e.arg = n
  BY <1>5 DEF Waits
<1>7. ASSUME e.from \notin Holding[m]
      PROVE  i < Len(stack[u]) /\ e.from \in SigLabel
  <2>1. i # Len(stack[u])
    BY <1>3, <1>6, <1>7 DEF Holds, Top
  <2>2. i < Len(stack[u])
    BY <1>2, <1>3, <2>1
  <2>3. Len(stack[u]) \in DOMAIN stack[u] /\ Len(stack[u]) > 1
    BY <1>2, <1>3, <2>2
  <2> QED  BY <1>1, <1>6, <2>2, <2>3 DEF FrameInv, Top
<1>8. e.from \in SigLabel => n = "log"
  BY <1>6, CodeAssumption
<1>9. CASE m = n
  <2>1. e.from \notin Holding[m]
    BY <1>6, <1>9, CodeAssumption DEF Scoped
  <2>2. i < Len(stack[u]) /\ n = "log"
    BY <1>7, <1>8, <2>1
  <2>3. HeldBelow(u, "log")
    BY <1>2, <1>3, <1>9, <2>2 DEF HeldBelow, Holds
  <2> QED  BY <1>5, <2>2, <2>3
<1>10. CASE m # n
  <2>1. n = "log"
    <3> SUFFICES ASSUME n # "log"  PROVE FALSE
      OBVIOUS
    <3>1. n = "m_mtx" /\ m = "log"
      BY <1>10 DEF Mutex
    <3>2. e.from \notin Holding[m]
      BY <1>6, <3>1, CodeAssumption
    <3> QED  BY <1>7, <1>8, <3>1, <3>2
  <2> QED  BY <1>5, <1>10, <2>1
<1> QED  BY <1>9, <1>10

\* If nobody can move, a handler waits for what its own thread holds.
THEOREM StuckCorrect == Spec => []StuckOnlyByHandler
<1>1. Inv => StuckOnlyByHandler
  <2> SUFFICES ASSUME Inv, Stuck
               PROVE  \E t \in Thread : Waits(t, "log") /\ HeldBelow(t, "log")
    BY DEF StuckOnlyByHandler
  <2>1. PICK t \in Thread, m \in Mutex : owner[m] # "free"
    BY DEF Stuck, Ended, Halted
  <2>2. PICK u \in Thread : owner[m] = u
    BY <2>1 DEF Inv, TypeOK
  <2>3. owner["log"] # "free"
    BY <2>2, HolderWaitsForLog
  <2>4. PICK v \in Thread : owner["log"] = v
    BY <2>3 DEF Inv, TypeOK, Mutex
  <2> QED  BY <2>4, HolderWaitsForLog DEF Mutex
<1> QED  BY <1>1, InvHolds, PTL

=============================================================================
