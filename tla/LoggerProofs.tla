---------------------------- MODULE LoggerProofs ----------------------------
(***************************************************************************)
(* What the two loggers of Logger promise, for every number of threads,    *)
(* statements and records, every severity limit and every text.            *)
(***************************************************************************)
EXTENDS Logger, SequenceTheorems, WellFoundedInduction, TLAPS

(***************************************************************************)
(* One file (LogRecord).                                                   *)
(***************************************************************************)

\* A record under way is that of the last statement of its thread.
Fields == {"severity", "tid", "time", "func", "message", "n", "operands"}
Fresh(r, t) ==
  /\ DOMAIN r = Fields
  /\ r.tid = t /\ r.n = statements[t] /\ r.n >= 1
  /\ r.time \in Nat /\ r.time <= now
  /\ r.severity # "verbose"
UnderWay(t) == record[t] # NoRecord => Fresh(record[t], t)

\* What is written came before what is under way, and that before what is to come.
Past(r, t) ==
  r.tid = t =>
    /\ r.n <= statements[t]
    /\ record[t] # NoRecord => r.n < record[t].n /\ r.time <= record[t].time
WrittenIs(r) ==
  /\ r.tid \in Thread /\ r.n \in Nat /\ r.time \in Nat /\ r.time <= now
  /\ r.severity # "verbose"
  /\ \A t \in Thread : Past(r, t)
Later(r, q) == r.tid = q.tid => r.n < q.n /\ r.time <= q.time

OrderInv ==
  /\ now \in Nat
  /\ maxSeverity \in {"unset", "debug"}
  /\ DOMAIN record = Thread
  /\ record = [t \in Thread |-> record[t]]
  /\ statements \in [Thread -> Nat]
  /\ \A t \in Thread : UnderWay(t)
  /\ \E S : written \in Seq(S)
  /\ \A i \in 1 .. Len(written) : WrittenIs(written[i])
  /\ \A i, j \in 1 .. Len(written) : i < j => Later(written[i], written[j])

LEMMA InitOrder == Init => OrderInv
<1> SUFFICES ASSUME Init PROVE OrderInv
  OBVIOUS
<1>1. written = <<>> /\ Len(written) = 0 /\ \E S : written \in Seq(S)
  BY EmptySeq DEF Init
<1>2. QED
  BY <1>1 DEF Init, OrderInv, UnderWay, NoRecord

\* Time passes, and a thread takes its next number, or none.
LEMMA PLOGKeeps ==
  ASSUME OrderInv, NEW t \in Thread, NEW s, NEW sig, PLOG(t, s, sig)
  PROVE  OrderInv'
<1>1. /\ UNCHANGED <<now, maxSeverity, written>>
      /\ statements' = [statements EXCEPT ![t] = statements[t] + 1]
      /\ record[t] = NoRecord
  BY DEF PLOG
<1>2. /\ statements' \in [Thread -> Nat] /\ statements'[t] = statements[t] + 1
      /\ \A u \in Thread : u # t => statements'[u] = statements[u]
      /\ \A u \in Thread : statements[u] \in Nat /\ statements'[u] \in Nat
  BY <1>1 DEF OrderInv
<1>3. \/ record' = record
      \/ /\ record' = [record EXCEPT ![t] = NewRecord(t, s, sig, statements'[t])]
         /\ s # "verbose"
  BY DEF PLOG, getInstance, checkSeverity, Severity, OrderInv
<1>4. DOMAIN record' = Thread /\ record' = [u \in Thread |-> record'[u]]
      /\ \A u \in Thread : u # t => record'[u] = record[u]
  BY <1>3 DEF OrderInv
<1>5. \/ record'[t] = NoRecord
      \/ /\ record'[t] = [severity |-> s, tid |-> t, time |-> now, func |-> sig,
                          message |-> <<>>, n |-> statements'[t], operands |-> 0]
         /\ s # "verbose"
  BY <1>1, <1>3 DEF OrderInv, NewRecord, ftime
<1>6. ASSUME NEW u \in Thread PROVE UnderWay(u)'
  <2>1. CASE u = t
    <3>1. statements'[t] >= 1 /\ now \in Nat /\ now <= now
      BY <1>2 DEF OrderInv
    <3>2. record'[t] # NoRecord =>
            /\ DOMAIN record'[t] = Fields
            /\ record'[t].tid = t /\ record'[t].n = statements'[t]
            /\ record'[t].time = now /\ record'[t].severity # "verbose"
      BY <1>5 DEF Fields
    <3>3. QED
      BY <1>1, <2>1, <3>1, <3>2 DEF UnderWay, Fresh
  <2>2. CASE u # t
    <3>1. UnderWay(u) /\ record'[u] = record[u] /\ statements'[u] = statements[u]
      BY <1>2, <1>4, <2>2 DEF OrderInv
    <3>2. QED
      BY <1>1, <3>1 DEF UnderWay, Fresh
  <2>3. QED
    BY <2>1, <2>2
<1>7. ASSUME NEW i \in 1 .. Len(written) PROVE WrittenIs(written[i])'
  <2> DEFINE r == written[i]
  <2>1. WrittenIs(r) /\ r' = r
    BY <1>1 DEF OrderInv
  <2>2. ASSUME NEW u \in Thread, r.tid = u
        PROVE  /\ r.n <= statements'[u]
               /\ record'[u] # NoRecord => r.n < record'[u].n /\ r.time <= record'[u].time
    <3> HIDE DEF r
    <3>1. r.n \in Nat /\ r.n <= statements[u] /\ r.time <= now
      BY <2>1, <2>2 DEF WrittenIs, Past
    <3>2. CASE u = t
      <4>1. record'[t] # NoRecord => record'[t].n = statements'[t] /\ record'[t].time = now
        BY <1>5
      <4>2. statements[t] \in Nat /\ statements'[t] = statements[t] + 1
        BY <1>2
      <4>3. r.n <= statements[t]
        BY <3>1, <3>2
      <4>4. r.n <= statements'[t] /\ r.n < statements'[t]
        BY <3>1, <4>2, <4>3
      <4>5. QED
        BY <3>1, <3>2, <4>1, <4>4
    <3>3. CASE u # t
      BY <1>2, <1>4, <2>1, <2>2, <3>3 DEF WrittenIs, Past
    <3>4. QED
      BY <3>2, <3>3
  <2> HIDE DEF r
  <2>3. WrittenIs(r)'
    BY <1>1, <2>1, <2>2 DEF WrittenIs, Past
  <2>4. QED
    BY <1>1, <2>3 DEF r
<1>8. QED
  BY <1>1, <1>2, <1>4, <1>6, <1>7 DEF OrderInv, Later

LEMMA StreamKeeps ==
  ASSUME OrderInv, NEW t \in Thread, NEW x, Stream(t, x)
  PROVE  OrderInv'
<1>1. /\ UNCHANGED <<now, maxSeverity, statements, written>> /\ record[t] # NoRecord
      /\ record' = [record EXCEPT ![t].message = record[t].message \o Streamed(x),
                                  ![t].operands = record[t].operands + 1]
  BY DEF Stream
<1>2. Fresh(record[t], t)
  BY <1>1 DEF OrderInv, UnderWay
<1> DEFINE m == record[t].message \o Streamed(x)
           o == record[t].operands + 1
<1>3. record' = [record EXCEPT ![t].message = m, ![t].operands = o]
  BY <1>1
<1> HIDE DEF m, o
<1>4. DOMAIN record' = Thread /\ record' = [u \in Thread |-> record'[u]]
      /\ \A u \in Thread : u # t => record'[u] = record[u]
  BY <1>3 DEF OrderInv
<1>5. /\ DOMAIN record'[t] = Fields
      /\ record'[t].tid = record[t].tid /\ record'[t].n = record[t].n
      /\ record'[t].time = record[t].time /\ record'[t].severity = record[t].severity
  BY <1>2, <1>3 DEF OrderInv, Fresh, Fields
<1>6. ASSUME NEW u \in Thread PROVE UnderWay(u)'
  <2>1. CASE u = t
    BY <1>1, <1>2, <1>5, <2>1 DEF UnderWay, Fresh
  <2>2. CASE u # t
    <3>1. UnderWay(u) /\ record'[u] = record[u]
      BY <1>4, <2>2 DEF OrderInv
    <3>2. QED
      BY <1>1, <3>1 DEF UnderWay, Fresh
  <2>3. QED
    BY <2>1, <2>2
<1>7. ASSUME NEW q, NEW u \in Thread, Past(q, u) PROVE Past(q, u)'
  BY <1>1, <1>4, <1>5, <1>7 DEF Past
<1>8. \A i \in 1 .. Len(written) : WrittenIs(written[i])'
  BY <1>1, <1>7 DEF OrderInv, WrittenIs
<1>9. QED
  BY <1>1, <1>4, <1>6, <1>8 DEF OrderInv, Later

LEMMA WriteKeeps ==
  ASSUME OrderInv, NEW t \in Thread, Write(t)
  PROVE  OrderInv'
<1>1. PICK r, w : r = record[t] /\ w = written
  OBVIOUS
<1>2. /\ UNCHANGED <<now, maxSeverity, statements>> /\ r # NoRecord
      /\ written' = Append(w, r)
      /\ record' = [record EXCEPT ![t] = NoRecord]
  BY <1>1 DEF Write
<1>3. PICK S : w \in Seq(S)
  BY <1>1 DEF OrderInv
<1>4. DOMAIN record' = Thread /\ record' = [u \in Thread |-> record'[u]]
      /\ record'[t] = NoRecord /\ \A u \in Thread : u # t => record'[u] = record[u]
  BY <1>2 DEF OrderInv
<1>5. ASSUME NEW u \in Thread PROVE UnderWay(u)'
  <2>1. CASE u = t
    BY <1>4, <2>1 DEF UnderWay
  <2>2. CASE u # t
    <3>1. UnderWay(u) /\ record'[u] = record[u]
      BY <1>4, <2>2 DEF OrderInv
    <3>2. QED
      BY <1>2, <3>1 DEF UnderWay, Fresh
  <2>3. QED
    BY <2>1, <2>2
<1>6. statements \in [Thread -> Nat] /\ now \in Nat
  BY DEF OrderInv
<1>7. /\ r.tid = t /\ r.n = statements[t] /\ r.time \in Nat /\ r.time <= now
      /\ r.severity # "verbose" /\ r.n \in Nat
  BY <1>1, <1>2, <1>6 DEF OrderInv, UnderWay, Fresh
<1>8. /\ \A i \in 1 .. Len(w) : WrittenIs(w[i]) /\ Past(w[i], t)
      /\ \A i, j \in 1 .. Len(w) : i < j => Later(w[i], w[j])
  BY <1>1 DEF OrderInv, WrittenIs
<1>9. \A i \in 1 .. Len(w) : Later(w[i], r)
  BY <1>1, <1>2, <1>7, <1>8 DEF Past, Later
<1>10. /\ written' \in Seq(S \cup {r}) /\ Len(written') = Len(w) + 1 /\ Len(w) \in Nat
       /\ written'[Len(w) + 1] = r
       /\ \A i \in 1 .. Len(w) : written'[i] = w[i]
  <2>1. w \in Seq(S \cup {r})
    BY <1>3
  <2>2. QED
    BY <1>2, <2>1, AppendProperties
<1>11. ASSUME NEW q, WrittenIs(q) PROVE WrittenIs(q)'
  BY <1>2, <1>4, <1>11 DEF WrittenIs, Past
<1>12. WrittenIs(r)'
  <2>1. ASSUME NEW u \in Thread, r.tid = u
        PROVE  r.n <= statements'[u] /\ record'[u] = NoRecord
    BY <1>2, <1>4, <1>6, <1>7, <2>1
  <2>2. QED
    BY <1>2, <1>7, <2>1 DEF WrittenIs, Past
<1>13. ASSUME NEW i \in 1 .. Len(w) + 1
       PROVE  \E q : written'[i] = q /\ WrittenIs(q)'
  <2>1. CASE i = Len(w) + 1
    BY <1>10, <1>12, <2>1
  <2>2. CASE i # Len(w) + 1
    <3>1. i \in 1 .. Len(w)
      BY <1>10, <2>2
    <3>2. WrittenIs(w[i])'
      BY <1>8, <1>11, <3>1
    <3>3. QED
      BY <1>10, <3>1, <3>2
  <2>3. QED
    BY <2>1, <2>2
<1>14. ASSUME NEW i \in 1 .. Len(w) + 1 PROVE WrittenIs(written[i])'
  <2>1. PICK q : written'[i] = q /\ WrittenIs(q)'
    BY <1>13
  <2>2. QED
    BY <2>1 DEF WrittenIs, Past
<1>15. ASSUME NEW i \in 1 .. Len(w) + 1, NEW j \in 1 .. Len(w) + 1, i < j
       PROVE  Later(written[i], written[j])'
  <2>1. i \in 1 .. Len(w) /\ written'[i] = w[i]
    BY <1>10, <1>15
  <2>2. CASE j = Len(w) + 1
    BY <1>9, <1>10, <2>1, <2>2 DEF Later
  <2>3. CASE j # Len(w) + 1
    <3>1. j \in 1 .. Len(w) /\ written'[j] = w[j]
      BY <1>10, <2>3
    <3>2. Later(w[i], w[j])
      BY <1>8, <1>15, <2>1, <3>1
    <3>3. QED
      BY <2>1, <3>1, <3>2 DEF Later
  <2>4. QED
    BY <2>2, <2>3
<1>16. (\E T : written \in Seq(T))' /\ (maxSeverity \in {"unset", "debug"})'
  BY <1>2, <1>10 DEF OrderInv
<1>17. QED
  BY <1>2, <1>4, <1>5, <1>6, <1>10, <1>14, <1>15, <1>16 DEF OrderInv

LEMMA RestKeeps == OrderInv /\ UNCHANGED vars => OrderInv'
BY DEF vars, OrderInv, UnderWay, Fresh, WrittenIs, Past, Later

LEMMA NextOrder == OrderInv /\ [Next]_vars => OrderInv'
<1> SUFFICES ASSUME OrderInv, [Next]_vars PROVE OrderInv'
  OBVIOUS
<1>1. CASE UNCHANGED vars
  BY <1>1, RestKeeps
<1>2. CASE InitLogger
  <2>1. maxSeverity' = "debug" /\ UNCHANGED <<now, record, statements, written>>
    BY <1>2 DEF InitLogger, init
  <2>2. QED
    BY <2>1 DEF OrderInv, UnderWay, Fresh, WrittenIs, Past, Later
<1>3. CASE Tick
  <2>1. now' = now + 1 /\ UNCHANGED <<maxSeverity, record, statements, written>> /\ now \in Nat
    BY <1>3 DEF Tick, OrderInv
  <2>2. \A tm \in Nat : tm <= now => tm <= now'
    BY <2>1
  <2>3. \A t \in Thread : UnderWay(t)'
    BY <2>1, <2>2 DEF OrderInv, UnderWay, Fresh
  <2>4. \A i \in 1 .. Len(written) : WrittenIs(written[i])'
    BY <2>1, <2>2 DEF OrderInv, WrittenIs, Past
  <2>5. now' \in Nat
    BY <2>1
  <2>6. QED
    BY <2>1, <2>3, <2>4, <2>5 DEF OrderInv, Later
<1>4. QED
  BY <1>1, <1>2, <1>3, PLOGKeeps, StreamKeeps, WriteKeeps DEF Next

\* For any threads, statements, clock and texts: the file has the records of a
\* thread in the order of its statements and of their times, none of them twice
\* and no verbose one.
THEOREM ThreadOrderCorrect == LoggerSpec => []ThreadOrder
<1>1. LoggerInit => OrderInv
  BY InitOrder DEF LoggerInit
<1>2. OrderInv /\ [LoggerNext]_<<vars, chain>> => OrderInv'
  BY NextOrder, RestKeeps DEF LoggerNext
<1>3. OrderInv => ThreadOrder
  <2>1. SUFFICES ASSUME OrderInv PROVE ThreadOrder
    OBVIOUS
  <2>2. DOMAIN written = 1 .. Len(written)
    BY <2>1 DEF OrderInv
  <2>3. ASSUME NEW i \in DOMAIN written
        PROVE  /\ written[i].severity # "verbose"
               /\ record[written[i].tid] # NoRecord => written[i].n < record[written[i].tid].n
    BY <2>1, <2>2 DEF OrderInv, WrittenIs, Past
  <2>4. QED
    BY <2>1, <2>2, <2>3 DEF OrderInv, Later, ThreadOrder
<1>4. QED
  BY <1>1, <1>2, <1>3, PTL DEF LoggerSpec

(***************************************************************************)
(* The lines of a CSV file (LogRecord).                                    *)
(***************************************************************************)

\* A set of numbers that reaches up from 0 to the next is all of 0 .. m.
LEMMA Upwards ==
  ASSUME NEW m \in Nat, NEW T, T \subseteq 0 .. m, 0 \in T,
         \A k \in 1 .. m : k - 1 \in T => k \in T
  PROVE  T = 0 .. m
<1> DEFINE R == OpToRel(<, Nat)
           Missed == (0 .. m) \ T
<1>1. IsWellFoundedOn(R, Nat)
  BY NatLessThanWellFounded
<1>2. \A x, y \in Nat : <<y, x>> \in R <=> y < x
  BY DEF OpToRel
<1> HIDE DEF R
<1>3. ASSUME Missed # {} PROVE FALSE
  <2>1. Missed \subseteq Nat
    OBVIOUS
  <2>2. PICK i \in Missed : \A j \in Missed : ~ (<<j, i>> \in R)
    BY <1>1, <1>3, <2>1, WFMin
  <2>3. i \in 1 .. m /\ i \notin T
    OBVIOUS
  <2>4. i - 1 \notin Missed
    <3>1. i \in Nat /\ i - 1 \in Nat /\ i - 1 < i
      BY <2>3
    <3>2. QED
      BY <1>2, <2>2, <3>1
  <2>5. i - 1 \in T
    BY <2>3, <2>4
  <2>6. QED
    BY <2>3, <2>5
<1>4. QED
  BY <1>3

\* A reader that begins to read s as r has it ends as q.
ReadsBy(f, r, s, q) ==
  /\ f[0] = r /\ f[Len(s)] = q
  /\ \A k \in 1 .. Len(s) : f[k] = ReadByte(f[k - 1], s[k])
Reads(r, s, q) == \E f : ReadsBy(f, r, s, q)

LEMMA ReadsConcat ==
  ASSUME NEW S, NEW s \in Seq(S), NEW t \in Seq(S), NEW r, NEW q, NEW z,
         Reads(r, s, q), Reads(q, t, z)
  PROVE  Reads(r, s \o t, z)
<1>1. PICK u, m, n : u = s \o t /\ m = Len(s) /\ n = Len(t)
  OBVIOUS
<1>2. m \in Nat /\ n \in Nat
  BY <1>1
<1>3. /\ Len(u) = m + n
      /\ \A k \in 1 .. m + n : u[k] = IF k <= m THEN s[k] ELSE t[k - m]
  <2>1. /\ Len(s \o t) = Len(s) + Len(t)
        /\ \A i \in 1 .. Len(s) + Len(t) :
             (s \o t)[i] = IF i <= Len(s) THEN s[i] ELSE t[i - Len(s)]
    BY ConcatProperties
  <2>2. QED
    BY <1>1, <2>1
<1>4. PICK f : f[0] = r /\ f[m] = q /\ \A k \in 1 .. m : f[k] = ReadByte(f[k - 1], s[k])
  BY <1>1 DEF Reads, ReadsBy
<1>5. PICK h : h[0] = q /\ h[n] = z /\ \A k \in 1 .. n : h[k] = ReadByte(h[k - 1], t[k])
  BY <1>1 DEF Reads, ReadsBy
<1> DEFINE g == [k \in 0 .. m + n |-> IF k <= m THEN f[k] ELSE h[k - m]]
<1>6. /\ \A k \in 0 .. m : g[k] = f[k]
      /\ \A k \in 0 .. n : g[m + k] = h[k]
  <2>1. \A k \in 0 .. m : k \in 0 .. m + n /\ k <= m
    BY <1>2
  <2>2. \A k \in 1 .. n : m + k \in 0 .. m + n /\ ~ (m + k <= m) /\ (m + k) - m = k
    BY <1>2
  <2>3. \A k \in 0 .. m : g[k] = f[k]
    BY <2>1
  <2>4. \A k \in 1 .. n : g[m + k] = h[k]
    BY <2>2
  <2>5. g[m + 0] = h[0]
    <3>1. m + 0 = m /\ m \in 0 .. m
      BY <1>2
    <3> HIDE DEF g
    <3>2. QED
      BY <1>4, <1>5, <2>3, <3>1
  <2> HIDE DEF g
  <2>6. \A k \in 0 .. n : k = 0 \/ k \in 1 .. n
    BY <1>2
  <2>7. QED
    BY <2>3, <2>4, <2>5, <2>6
<1> HIDE DEF g
<1>7. g[0] = r /\ g[m + n] = z
  BY <1>2, <1>4, <1>5, <1>6
<1>8. ASSUME NEW k \in 1 .. m + n PROVE g[k] = ReadByte(g[k - 1], u[k])
  <2>1. CASE k <= m
    <3>1. k \in 1 .. m /\ k \in 0 .. m /\ k - 1 \in 0 .. m
      BY <1>2, <2>1
    <3>2. g[k] = f[k] /\ g[k - 1] = f[k - 1] /\ u[k] = s[k]
      BY <1>3, <1>6, <2>1, <3>1
    <3>3. QED
      BY <1>4, <3>1, <3>2
  <2>2. CASE ~ (k <= m)
    <3>1. PICK l : l = k - m
      OBVIOUS
    <3>2. l \in 1 .. n /\ l \in 0 .. n /\ l - 1 \in 0 .. n /\ k = m + l /\ k - 1 = m + (l - 1)
      BY <1>2, <2>2, <3>1
    <3>3. g[k] = h[l] /\ g[k - 1] = h[l - 1] /\ u[k] = t[l]
      BY <1>3, <1>6, <2>2, <3>1, <3>2
    <3>4. QED
      BY <1>5, <3>2, <3>3
  <2>3. QED
    BY <2>1, <2>2
<1>9. ReadsBy(g, r, u, z)
  BY <1>3, <1>7, <1>8 DEF ReadsBy
<1>10. QED
  BY <1>1, <1>9 DEF Reads

LEMMA ReadsOne == ASSUME NEW r, NEW c PROVE Reads(r, <<c>>, ReadByte(r, c))
<1> DEFINE g == [k \in 0 .. 1 |-> IF k = 0 THEN r ELSE ReadByte(r, c)]
<1>1. g[0] = r /\ g[1] = ReadByte(r, c)
  OBVIOUS
<1>2. PICK s : s = <<c>>
  OBVIOUS
<1>3. Len(s) = 1 /\ s[1] = c
  BY <1>2
<1> HIDE DEF g
<1>4. \A k \in 1 .. Len(s) : k = 1 /\ k - 1 = 0
  BY <1>3
<1>5. \A k \in 1 .. Len(s) : g[k] = ReadByte(g[k - 1], s[k])
  BY <1>1, <1>3, <1>4
<1>6. ReadsBy(g, r, s, ReadByte(r, c))
  BY <1>1, <1>3, <1>5 DEF ReadsBy
<1>7. QED
  BY <1>2, <1>6 DEF Reads

LEMMA ReadsNothing == ASSUME NEW r PROVE Reads(r, <<>>, r)
<1> DEFINE g == [k \in 0 .. 0 |-> r]
<1>1. g[0] = r
  OBVIOUS
<1>2. PICK s : s = <<>>
  OBVIOUS
<1>3. Len(s) = 0 /\ 1 .. Len(s) = {}
  BY <1>2
<1> HIDE DEF g
<1>4. ReadsBy(g, r, s, r)
  BY <1>1, <1>3 DEF ReadsBy
<1>5. QED
  BY <1>2, <1>4 DEF Reads

\* What one byte more does to a reader.
LEMMA ReadsNext ==
  ASSUME NEW S, NEW s \in Seq(S), NEW c \in S, NEW r, NEW q, Reads(r, s, q)
  PROVE  Reads(r, Append(s, c), ReadByte(q, c))
<1>1. PICK t : t = <<c>>
  OBVIOUS
<1>2. t \in Seq(S) /\ Reads(q, t, ReadByte(q, c))
  BY <1>1, ReadsOne
<1>3. Reads(r, s \o t, ReadByte(q, c))
  BY <1>2, ReadsConcat
<1>4. Append(s, c) = s \o t
  BY <1>1, AppendIsConcat
<1>5. QED
  BY <1>3, <1>4

\* The line a reader has read is all but the line break at its end.
LEMMA ReadCsvIs ==
  ASSUME NEW S, NEW s \in Seq(S), NEW c \in S, NEW q,
         Reads(Reading(<<>>, <<>>, "plain"), s, q)
  PROVE  ReadCsv(Append(s, c)) = q
<1>1. PICK l, m : l = Append(s, c) /\ m = Len(l)
  OBVIOUS
<1>2. m = Len(s) + 1 /\ Len(s) \in Nat /\ m \in Nat /\ \A k \in 1 .. Len(s) : l[k] = s[k]
  BY <1>1, AppendProperties
<1>3. PICK n : n = Len(s) /\ n = m - 1 /\ n \in Nat
  BY <1>2
<1> DEFINE start == Reading(<<>>, <<>>, "plain")
           Is(f) == f = [k \in 0 .. Len(l) |-> IF k = 0 THEN start ELSE ReadByte(f[k - 1], l[k])]
<1>4. PICK f : f[0] = start /\ f[n] = q /\ \A k \in 1 .. n : f[k] = ReadByte(f[k - 1], l[k])
  BY <1>2, <1>3 DEF Reads, ReadsBy
<1>5. \E g : Is(g)
  <2> DEFINE g == [k \in 0 .. m |-> IF k <= n THEN f[k] ELSE ReadByte(f[n], l[m])]
  <2>1. \A k \in 0 .. n : g[k] = f[k]
    <3>1. \A k \in 0 .. n : k \in 0 .. m /\ k <= n
      BY <1>2, <1>3
    <3>2. QED
      BY <3>1
  <2>2. g[m] = ReadByte(f[n], l[m])
    <3>1. m \in 0 .. m /\ ~ (m <= n)
      BY <1>2, <1>3
    <3>2. QED
      BY <3>1
  <2>3. DOMAIN g = 0 .. m /\ g = [k \in 0 .. m |-> g[k]]
    OBVIOUS
  <2> HIDE DEF g
  <2>4. ASSUME NEW k \in 0 .. m
        PROVE  g[k] = IF k = 0 THEN start ELSE ReadByte(g[k - 1], l[k])
    <3> HIDE DEF start
    <3>1. CASE k = 0
      BY <1>3, <1>4, <2>1, <3>1
    <3>2. CASE k \in 1 .. n
      <4>1. k \in 0 .. n /\ k - 1 \in 0 .. n /\ k # 0
        BY <1>3, <3>2
      <4>2. QED
        BY <1>4, <2>1, <3>2, <4>1
    <3>3. CASE k = m
      <4>1. k # 0 /\ k - 1 = n /\ n \in 0 .. n
        BY <1>2, <1>3, <3>3
      <4>2. QED
        BY <2>1, <2>2, <3>3, <4>1
    <3>4. QED
      BY <1>2, <1>3, <3>1, <3>2, <3>3
  <2>5. Is(g)
    <3> HIDE DEF start
    <3>1. QED
      BY <1>1, <2>3, <2>4
  <2>6. QED
    BY <2>5
<1>6. PICK g : Is(g) /\ ReadCsv(l) = g[Len(l) - 1]
  BY <1>5 DEF ReadCsv
<1>7. /\ g[0] = start /\ \A k \in 1 .. n : g[k] = ReadByte(g[k - 1], l[k])
  <2>1. \A k \in 0 .. m : g[k] = IF k = 0 THEN start ELSE ReadByte(g[k - 1], l[k])
    <3> HIDE DEF start
    <3>1. QED
      BY <1>1, <1>6
  <2>2. \A k \in 1 .. n : k \in 0 .. m /\ k # 0
    BY <1>2, <1>3
  <2>3. 0 \in 0 .. m
    BY <1>2
  <2> HIDE DEF start
  <2>4. QED
    BY <2>1, <2>2, <2>3
<1>8. f[n] = g[n]
  <2> DEFINE U == {k \in 0 .. n : f[k] = g[k]}
  <2>1. 0 \in U /\ U \subseteq 0 .. n
    BY <1>3, <1>4, <1>7
  <2>2. ASSUME NEW k \in 1 .. n, k - 1 \in U PROVE k \in U
    BY <1>4, <1>7, <2>2
  <2>3. U = 0 .. n
    <3> HIDE DEF U
    <3>1. QED
      BY <1>3, <2>1, <2>2, Upwards
  <2>4. n \in U
    <3> HIDE DEF U
    <3>1. QED
      BY <1>3, <2>3
  <2>5. QED
    BY <2>4
<1>9. ReadCsv(l) = g[n]
  BY <1>1, <1>3, <1>6
<1>10. QED
  BY <1>1, <1>4, <1>8, <1>9

\* The function Quoted takes its value from, on the first l bytes of m.
Escapes(d, m, l, B) ==
  /\ d \in [0 .. l -> Seq(B)]
  /\ d[0] = <<>>
  /\ \A k \in 1 .. l : d[k] = d[k - 1] \o Escaped(m[k])
EscapesUpTo(m, l, B) == \E d : Escapes(d, m, l, B)
Escaping(d, m) == d = [k \in 0 .. Len(m) |-> IF k = 0 THEN <<>> ELSE d[k - 1] \o Escaped(m[k])]

LEMMA QuotedIs ==
  ASSUME NEW B, Quote \in B, NEW m \in Seq(B)
  PROVE  \E d : Escapes(d, m, Len(m), B) /\ Quoted(m) = <<Quote>> \o d[Len(m)] \o <<Quote>>
<1>1. PICK n : n = Len(m) /\ n \in Nat
  OBVIOUS
<1>2. \A k \in 1 .. n : m[k] \in B /\ Escaped(m[k]) \in Seq(B)
  <2>1. \A k \in 1 .. n : m[k] \in B
    BY <1>1, ElementOfSeq
  <2>2. \A c \in B : <<c>> \in Seq(B) /\ <<c, c>> \in Seq(B)
    OBVIOUS
  <2>3. QED
    BY <2>1, <2>2 DEF Escaped
<1> DEFINE T == {l \in 0 .. n : EscapesUpTo(m, l, B)}
<1>3. 0 \in T
  <2> DEFINE g == [k \in 0 .. 0 |-> <<>>]
  <2>1. g \in [0 .. 0 -> Seq(B)] /\ g[0] = <<>> /\ 1 .. 0 = {}
    OBVIOUS
  <2> HIDE DEF g
  <2>2. Escapes(g, m, 0, B)
    BY <2>1 DEF Escapes
  <2>3. QED
    BY <1>1, <2>2 DEF EscapesUpTo
<1>4. ASSUME NEW l \in 1 .. n, l - 1 \in T PROVE l \in T
  <2>1. PICK d : Escapes(d, m, l - 1, B)
    BY <1>4 DEF EscapesUpTo
  <2> DEFINE e == d[l - 1] \o Escaped(m[l])
             g == [k \in 0 .. l |-> IF k = l THEN e ELSE d[k]]
  <2>2. e \in Seq(B)
    <3>1. d[l - 1] \in Seq(B) /\ Escaped(m[l]) \in Seq(B)
      BY <1>2, <2>1 DEF Escapes
    <3>2. QED
      BY <3>1, ConcatProperties
  <2>3. g \in [0 .. l -> Seq(B)]
    <3> HIDE DEF e
    <3>1. QED
      BY <2>1, <2>2 DEF Escapes
  <2>4. g[l] = e /\ \A k \in 0 .. l - 1 : g[k] = d[k]
    <3> HIDE DEF e
    <3>1. QED
      OBVIOUS
  <2>5. ASSUME NEW k \in 1 .. l PROVE g[k] = g[k - 1] \o Escaped(m[k])
    <3> HIDE DEF g
    <3>1. CASE k = l
      <4>1. l - 1 \in 0 .. l - 1
        BY <1>1
      <4>2. g[l] = e /\ g[l - 1] = d[l - 1]
        <5> HIDE DEF e
        <5>1. QED
          BY <2>4, <4>1
      <4>3. g[l] = g[l - 1] \o Escaped(m[l])
        BY <4>2, Zenon
      <4>4. QED
        BY <3>1, <4>3
    <3>2. CASE k # l
      <4>1. k \in 1 .. l - 1 /\ k \in 0 .. l - 1 /\ k - 1 \in 0 .. l - 1
        BY <3>2
      <4>2. QED
        BY <2>1, <2>4, <4>1 DEF Escapes
    <3>3. QED
      BY <3>1, <3>2
  <2>6. Escapes(g, m, l, B)
    <3>1. g[0] = <<>>
      BY <2>1, <2>4 DEF Escapes
    <3> HIDE DEF g
    <3>2. QED
      BY <2>3, <2>5, <3>1 DEF Escapes
  <2>7. QED
    BY <2>6 DEF EscapesUpTo
<1>5. T = 0 .. n
  <2>1. T \subseteq 0 .. n
    OBVIOUS
  <2> HIDE DEF T
  <2>2. QED
    BY <1>1, <1>3, <1>4, <2>1, Upwards
<1>6. PICK d : Escapes(d, m, n, B)
  <2>1. n \in T
    BY <1>1, <1>5
  <2>2. QED
    BY <2>1 DEF EscapesUpTo
<1>7. Escaping(d, m)
  <2>1. \A k \in 0 .. n : d[k] = IF k = 0 THEN <<>> ELSE d[k - 1] \o Escaped(m[k])
    <3>1. \A k \in 0 .. n : k # 0 => k \in 1 .. n
      BY <1>1
    <3>2. QED
      BY <1>6, <3>1 DEF Escapes
  <2>2. QED
    BY <1>1, <1>6, <2>1 DEF Escaping, Escapes
<1>8. PICK g : Escaping(g, m) /\ Quoted(m) = <<Quote>> \o g[n] \o <<Quote>>
  BY <1>1, <1>7 DEF Escaping, Quoted
<1>9. g[0] = <<>> /\ \A k \in 1 .. n : g[k] = g[k - 1] \o Escaped(m[k])
  <2>1. \A k \in 0 .. n : g[k] = IF k = 0 THEN <<>> ELSE g[k - 1] \o Escaped(m[k])
    BY <1>1, <1>8 DEF Escaping
  <2>2. \A k \in 1 .. n : k \in 0 .. n /\ k # 0
    BY <1>1
  <2>3. 0 \in 0 .. n
    BY <1>1
  <2>4. g[0] = <<>>
    BY <2>1, <2>3
  <2>5. QED
    BY <2>1, <2>2, <2>4
<1>10. g[n] = d[n]
  <2> DEFINE U == {k \in 0 .. n : g[k] = d[k]}
  <2>1. 0 \in U /\ \A k \in 1 .. n : k - 1 \in U => k \in U
    <3>1. d[0] = g[0] /\ 0 \in 0 .. n
      BY <1>1, <1>6, <1>9 DEF Escapes
    <3>2. \A k \in 1 .. n : d[k - 1] = g[k - 1] => d[k] = g[k]
      BY <1>6, <1>9 DEF Escapes
    <3>3. QED
      BY <3>1, <3>2
  <2>2. U = 0 .. n
    <3>1. U \subseteq 0 .. n
      OBVIOUS
    <3> HIDE DEF U
    <3>2. QED
      BY <1>1, <2>1, <3>1, Upwards
  <2>3. n \in U
    <3>1. n \in 0 .. n
      BY <1>1
    <3> HIDE DEF U
    <3>2. QED
      BY <2>2, <3>1
  <2>4. QED
    BY <2>3
<1>11. QED
  BY <1>1, <1>6, <1>8, <1>10

LEMMA AppendTwice ==
  ASSUME NEW C, NEW c \in C
  PROVE  <<c>> \in Seq(C) /\ Append(<<c>>, c) = <<c, c>>
<1>1. PICK s, t : s = <<c>> /\ t = <<c, c>>
  OBVIOUS
<1>2. s \in Seq(C) /\ Len(s) = 1 /\ s[1] = c
  BY <1>1
<1>3. t \in Seq(C) /\ Len(t) = 2 /\ t[1] = c /\ t[2] = c
  BY <1>1
<1>4. /\ Append(s, c) \in Seq(C) /\ Len(Append(s, c)) = Len(s) + 1
      /\ \A i \in 1 .. Len(s) : Append(s, c)[i] = s[i]
      /\ Append(s, c)[Len(s) + 1] = c
  <2>1. s \in Seq(C)
    BY <1>2
  <2>2. QED
    BY <2>1, AppendProperties
<1>5. PICK a : a = Append(s, c)
  OBVIOUS
<1>6. a \in Seq(C) /\ Len(a) = 2 /\ a[1] = c /\ a[2] = c
  <2>1. 1 \in 1 .. Len(s)
    BY <1>2
  <2>2. QED
    BY <1>2, <1>4, <1>5, <2>1
<1>7. \A i \in 1 .. Len(a) : a[i] = t[i]
  <2>1. \A i \in 1 .. Len(a) : i = 1 \/ i = 2
    BY <1>6
  <2>2. QED
    BY <1>3, <1>6, <2>1
<1>8. a = t
  BY <1>3, <1>6, <1>7, SeqEqual
<1>9. QED
  BY <1>1, <1>2, <1>5, <1>8

\* Between quotes, an escaped byte is read as itself.
LEMMA ReadsEscaped ==
  ASSUME NEW fs, NEW fd, NEW c
  PROVE  Reads(Reading(fs, fd, "quoted"), Escaped(c), Reading(fs, Append(fd, c), "quoted"))
<1>1. CASE c # Quote
  <2>1. ReadByte(Reading(fs, fd, "quoted"), c) = Reading(fs, Append(fd, c), "quoted")
    BY <1>1 DEF ReadByte, Reading
  <2>2. Escaped(c) = <<c>>
    BY <1>1 DEF Escaped
  <2>3. QED
    BY <2>1, <2>2, ReadsOne
<1>2. CASE c = Quote
  <2>1. PICK p, q, r : /\ p = Reading(fs, fd, "quoted") /\ q = Reading(fs, fd, "quote")
                       /\ r = Reading(fs, Append(fd, c), "quoted")
    OBVIOUS
  <2>2. ReadByte(p, c) = q
    BY <1>2, <2>1 DEF ReadByte, Reading
  <2>3. ReadByte(q, c) = r
    BY <1>2, <2>1 DEF ReadByte, Reading, Quote, Field
  <2>4. PICK s, t : s = <<c>> /\ t = <<c, c>>
    OBVIOUS
  <2>5. PICK C : C = {c}
    OBVIOUS
  <2>51. c \in C /\ s \in Seq(C) /\ Append(s, c) = t
    <3>1. c \in C
      BY <2>5
    <3>2. QED
      BY <2>4, <3>1, AppendTwice
  <2>6. Reads(p, s, q)
    BY <2>2, <2>4, ReadsOne
  <2>7. Reads(p, t, r)
    BY <2>3, <2>51, <2>6, ReadsNext
  <2>8. Escaped(c) = t
    BY <1>2, <2>4 DEF Escaped
  <2>9. QED
    BY <2>1, <2>7, <2>8
<1>3. QED
  BY <1>1, <1>2

\* A quoted message is read as the message.
LEMMA ReadsQuoted ==
  ASSUME NEW B, Quote \in B, NEW m \in Seq(B), NEW fs
  PROVE  /\ Quoted(m) \in Seq(B)
         /\ Reads(Reading(fs, <<>>, "plain"), Quoted(m), Reading(fs, m, "quote"))
<1>1. PICK n : n = Len(m) /\ n \in Nat
  OBVIOUS
<1>2. PICK d : Escapes(d, m, n, B) /\ Quoted(m) = <<Quote>> \o d[n] \o <<Quote>>
  BY <1>1, QuotedIs
<1> DEFINE r(k) == Reading(fs, SubSeq(m, 1, k), "quoted")
           U == {k \in 0 .. n : Reads(r(0), d[k], r(k))}
<1>3. 0 \in U /\ U \subseteq 0 .. n
  <2>1. d[0] = <<>>
    BY <1>2 DEF Escapes
  <2>2. Reads(r(0), d[0], r(0))
    BY <2>1, ReadsNothing
  <2>3. QED
    BY <1>1, <2>2
<1>4. ASSUME NEW k \in 1 .. n, k - 1 \in U PROVE k \in U
  <2>1. PICK x, y, c : x = d[k - 1] /\ y = Escaped(m[k]) /\ c = m[k]
    OBVIOUS
  <2>2. x \in Seq(B) /\ c \in B /\ d[k] = x \o y
    <3>1. k - 1 \in 0 .. n /\ k \in 1 .. Len(m)
      BY <1>1
    <3>2. d[k - 1] \in Seq(B) /\ d[k] = d[k - 1] \o Escaped(m[k])
      BY <1>2, <3>1 DEF Escapes
    <3>3. m[k] \in B
      BY <3>1, ElementOfSeq
    <3>4. QED
      BY <2>1, <3>2, <3>3, Zenon
  <2>3. y \in Seq(B)
    <3>1. <<c>> \in Seq(B) /\ <<c, c>> \in Seq(B)
      BY <2>2
    <3>2. QED
      BY <2>1, <3>1 DEF Escaped
  <2>4. Append(SubSeq(m, 1, k - 1), c) = SubSeq(m, 1, k)
    <3>1. SubSeq(m, 1, k) = SubSeq(m, 1, k - 1) \o <<m[k]>>
      BY <1>1, SubSeqRecursiveSecond
    <3>2. SubSeq(m, 1, k - 1) \in Seq(B)
      BY <1>1
    <3>3. QED
      BY <2>1, <2>2, <3>1, <3>2, AppendIsConcat
  <2>5. Reads(r(k - 1), y, r(k))
    <3>1. Reads(Reading(fs, SubSeq(m, 1, k - 1), "quoted"), Escaped(c),
                Reading(fs, Append(SubSeq(m, 1, k - 1), c), "quoted"))
      BY ReadsEscaped
    <3>2. QED
      BY <2>1, <2>4, <3>1
  <2>6. Reads(r(0), x, r(k - 1))
    BY <1>4, <2>1
  <2> HIDE DEF r
  <2>7. Reads(r(0), x \o y, r(k))
    BY <2>2, <2>3, <2>5, <2>6, ReadsConcat
  <2>8. Reads(r(0), d[k], r(k)) /\ k \in 0 .. n
    BY <1>1, <2>2, <2>7
  <2>9. QED
    BY <2>8
<1>5. Reads(r(0), d[n], r(n))
  <2>1. U = 0 .. n
    <3> HIDE DEF U
    <3>1. QED
      BY <1>1, <1>3, <1>4, Upwards
  <2>2. n \in U
    <3> HIDE DEF U
    <3>1. QED
      BY <1>1, <2>1
  <2>3. QED
    BY <2>2
<1>6. r(n) = Reading(fs, m, "quoted") /\ r(0) = Reading(fs, <<>>, "quoted")
  <2>1. SubSeq(m, 1, n) = m
    BY <1>1, SubSeqFull
  <2>2. SubSeq(m, 1, 0) = <<>>
    BY SubSeqEmpty
  <2>3. QED
    BY <2>1, <2>2
<1> HIDE DEF r
<1>7. PICK x, a, q : x = <<Quote>> /\ a = d[n] /\ q = x \o a
  OBVIOUS
<1>8. x \in Seq(B) /\ a \in Seq(B) /\ q \in Seq(B)
  <2>1. x \in Seq(B) /\ a \in Seq(B)
    <3>1. <<Quote>> \in Seq(B)
      OBVIOUS
    <3>2. n \in 0 .. n
      BY <1>1
    <3>3. d[n] \in Seq(B)
      BY <1>2, <3>2 DEF Escapes
    <3>4. QED
      BY <1>7, <3>1, <3>3
  <2>2. QED
    BY <1>7, <2>1, ConcatProperties
<1>9. PICK s0, s1, s2, s3 :
        /\ s0 = Reading(fs, <<>>, "plain") /\ s1 = Reading(fs, <<>>, "quoted")
        /\ s2 = Reading(fs, m, "quoted") /\ s3 = Reading(fs, m, "quote")
  OBVIOUS
<1>10. ReadByte(s0, Quote) = s1 /\ ReadByte(s2, Quote) = s3
  BY <1>9 DEF ReadByte, Reading, Quote, Field
<1>11. Reads(s0, x, s1) /\ Reads(s2, x, s3)
  BY <1>7, <1>10, ReadsOne
<1>12. Reads(s1, a, s2)
  BY <1>5, <1>6, <1>7, <1>9
<1>13. Reads(s0, q, s2)
  BY <1>7, <1>8, <1>11, <1>12, ReadsConcat
<1>14. Reads(s0, q \o x, s3) /\ q \o x \in Seq(B)
  BY <1>8, <1>11, <1>13, ReadsConcat, ConcatProperties
<1>15. QED
  BY <1>2, <1>7, <1>9, <1>14

\* Bytes that mean nothing to a reader are read as they are.
LEMMA ReadsPlain ==
  ASSUME NEW B, NEW s \in Seq(B \ {Quote, Field}), NEW fs, NEW fd \in Seq(B)
  PROVE  Reads(Reading(fs, fd, "plain"), s, Reading(fs, fd \o s, "plain"))
<1>1. PICK n : n = Len(s) /\ n \in Nat
  OBVIOUS
<1>2. s \in Seq(B) /\ \A k \in 1 .. n : s[k] \in B /\ s[k] # Quote /\ s[k] # Field
  <2>1. \A k \in 1 .. n : s[k] \in B \ {Quote, Field}
    BY <1>1, ElementOfSeq
  <2>2. QED
    BY <2>1, SeqMonotonic
<1> DEFINE g == [k \in 0 .. n |-> Reading(fs, fd \o SubSeq(s, 1, k), "plain")]
<1>3. \A k \in 0 .. n : g[k] = Reading(fs, fd \o SubSeq(s, 1, k), "plain")
  OBVIOUS
<1> HIDE DEF g
<1>4. g[0] = Reading(fs, fd, "plain") /\ g[n] = Reading(fs, fd \o s, "plain")
  <2>1. SubSeq(s, 1, n) = s
    BY <1>1, <1>2, SubSeqFull
  <2>2. SubSeq(s, 1, 0) = <<>>
    BY <1>2, SubSeqEmpty
  <2>3. fd \o <<>> = fd
    BY ConcatEmptySeq
  <2>4. 0 \in 0 .. n /\ n \in 0 .. n
    BY <1>1
  <2>5. g[0] = Reading(fs, fd \o SubSeq(s, 1, 0), "plain")
    BY <1>3, <2>4
  <2>6. g[n] = Reading(fs, fd \o SubSeq(s, 1, n), "plain")
    BY <1>3, <2>4
  <2>7. QED
    BY <2>1, <2>2, <2>3, <2>5, <2>6, Zenon
<1>5. ASSUME NEW k \in 1 .. n PROVE g[k] = ReadByte(g[k - 1], s[k])
  <2>1. PICK a, b, c : a = SubSeq(s, 1, k - 1) /\ b = SubSeq(s, 1, k) /\ c = <<s[k]>>
    OBVIOUS
  <2>2. a \in Seq(B) /\ c \in Seq(B) /\ b = a \o c
    <3>1. SubSeq(s, 1, k) = SubSeq(s, 1, k - 1) \o <<s[k]>>
      BY <1>1, <1>2, SubSeqRecursiveSecond
    <3>2. SubSeq(s, 1, k - 1) \in Seq(B)
      BY <1>1, <1>2
    <3>3. QED
      BY <1>2, <2>1, <3>1, <3>2
  <2>3. fd \o b = Append(fd \o a, s[k])
    <3>1. (fd \o a) \o c = fd \o (a \o c)
      BY <2>2, ConcatAssociative, SMTT(30)
    <3>2. PICK e : e = fd \o a
      OBVIOUS
    <3>3. Append(e, s[k]) = e \o c
      <4>1. e \in Seq(B)
        BY <2>2, <3>2, ConcatProperties
      <4>2. QED
        BY <1>2, <2>1, <4>1, AppendIsConcat
    <3>4. QED
      BY <2>2, <3>1, <3>2, <3>3
  <2>4. g[k] = Reading(fs, fd \o b, "plain") /\ g[k - 1] = Reading(fs, fd \o a, "plain")
    BY <1>1, <1>3, <2>1
  <2>5. PICK e, f : e = fd \o a /\ f = fd \o b
    OBVIOUS
  <2>6. ReadByte(Reading(fs, e, "plain"), s[k]) = Reading(fs, Append(e, s[k]), "plain")
    BY <1>2 DEF ReadByte, Reading
  <2>7. QED
    BY <2>3, <2>4, <2>5, <2>6
<1>6. ReadsBy(g, Reading(fs, fd, "plain"), s, Reading(fs, fd \o s, "plain"))
  BY <1>1, <1>4, <1>5 DEF ReadsBy
<1>7. QED
  BY <1>6 DEF Reads

\* Some tuples that are built one byte at a time.
LEMMA AppendThird ==
  ASSUME NEW C, NEW a \in C, NEW b \in C, NEW c \in C
  PROVE  <<a, b>> \in Seq(C) /\ Append(<<a, b>>, c) = <<a, b, c>>
<1>1. PICK s, t : s = <<a, b>> /\ t = <<a, b, c>>
  OBVIOUS
<1>2. s \in Seq(C) /\ Len(s) = 2 /\ s[1] = a /\ s[2] = b
  BY <1>1
<1>3. t \in Seq(C) /\ Len(t) = 3 /\ t[1] = a /\ t[2] = b /\ t[3] = c
  BY <1>1
<1>4. /\ Append(s, c) \in Seq(C) /\ Len(Append(s, c)) = Len(s) + 1
      /\ \A i \in 1 .. Len(s) : Append(s, c)[i] = s[i]
      /\ Append(s, c)[Len(s) + 1] = c
  <2>1. s \in Seq(C)
    BY <1>2
  <2>2. QED
    BY <2>1, AppendProperties
<1>5. PICK u : u = Append(s, c)
  OBVIOUS
<1>6. u \in Seq(C) /\ Len(u) = 3 /\ u[1] = a /\ u[2] = b /\ u[3] = c
  <2>1. 1 \in 1 .. Len(s) /\ 2 \in 1 .. Len(s)
    BY <1>2
  <2>2. QED
    BY <1>2, <1>4, <1>5, <2>1
<1>7. \A i \in 1 .. Len(u) : u[i] = t[i]
  <2>1. \A i \in 1 .. Len(u) : i = 1 \/ i = 2 \/ i = 3
    BY <1>6
  <2>2. QED
    BY <1>3, <1>6, <2>1
<1>8. u = t
  BY <1>3, <1>6, <1>7, SeqEqual
<1>9. QED
  BY <1>1, <1>2, <1>5, <1>8

\* A byte alone in its field.
LEMMA ReadsField ==
  ASSUME NEW fs, NEW c, c # Quote, c # Field
  PROVE  ReadByte(ReadByte(Reading(fs, <<>>, "plain"), c), Field)
           = Reading(Append(fs, <<c>>), <<>>, "plain")
<1>1. Append(<<>>, c) = <<c>>
  OBVIOUS
<1>2. ReadByte(Reading(fs, <<>>, "plain"), c) = Reading(fs, <<c>>, "plain")
  BY <1>1 DEF ReadByte, Reading
<1>3. PICK f : f = <<c>>
  OBVIOUS
<1>4. ReadByte(Reading(fs, f, "plain"), Field) = Reading(Append(fs, f), <<>>, "plain")
  BY DEF ReadByte, Reading
<1>5. QED
  BY <1>2, <1>3, <1>4

\* The first five fields of a line hold one byte each.
HeadRead(S, h, q) ==
  \E fs \in Seq(S) : Len(fs) = 5 /\ q = Reading(fs, <<>>, "plain")
                      /\ Reads(Reading(<<>>, <<>>, "plain"), h, q)

LEMMA ReadsHead ==
  ASSUME NEW B, NEW a \in B \ {Quote, Field}, NEW b \in B \ {Quote, Field},
         NEW c \in B \ {Quote, Field}, NEW d \in B \ {Quote, Field}, NEW e \in B \ {Quote, Field}
  PROVE  \E q : HeadRead(Seq(B), <<a, Field, b, Field, c, Field, d, Field, e, Field>>, q)
<1>1. PICK h : h = <<a, Field, b, Field, c, Field, d, Field, e, Field>>
  OBVIOUS
<1>2. PICK q0 : q0 = Reading(<<>>, <<>>, "plain")
  OBVIOUS
<1>3. PICK q1, q2 : q1 = ReadByte(q0, a) /\ q2 = ReadByte(q1, Field)
  OBVIOUS
<1>4. PICK q3, q4 : q3 = ReadByte(q2, b) /\ q4 = ReadByte(q3, Field)
  OBVIOUS
<1>5. PICK q5, q6 : q5 = ReadByte(q4, c) /\ q6 = ReadByte(q5, Field)
  OBVIOUS
<1>6. PICK q7, q8 : q7 = ReadByte(q6, d) /\ q8 = ReadByte(q7, Field)
  OBVIOUS
<1>7. PICK q9, q : q9 = ReadByte(q8, e) /\ q = ReadByte(q9, Field)
  OBVIOUS
<1>8. Reads(q0, h, q)
  <2> DEFINE g == [k \in 0 .. 10 |-> <<q0, q1, q2, q3, q4, q5, q6, q7, q8, q9, q>>[k + 1]]
  <2>1. /\ g[0] = q0 /\ g[1] = q1 /\ g[2] = q2 /\ g[3] = q3 /\ g[4] = q4 /\ g[5] = q5
        /\ g[6] = q6 /\ g[7] = q7 /\ g[8] = q8 /\ g[9] = q9 /\ g[10] = q
    OBVIOUS
  <2>2. /\ Len(h) = 10
        /\ h[1] = a /\ h[3] = b /\ h[5] = c /\ h[7] = d /\ h[9] = e
        /\ h[2] = Field /\ h[4] = Field /\ h[6] = Field /\ h[8] = Field /\ h[10] = Field
    BY <1>1
  <2> HIDE DEF g
  <2>3. ASSUME NEW k \in 1 .. Len(h) PROVE g[k] = ReadByte(g[k - 1], h[k])
    <3>2. \/ k = 1 \/ k = 2 \/ k = 3 \/ k = 4 \/ k = 5
          \/ k = 6 \/ k = 7 \/ k = 8 \/ k = 9 \/ k = 10
      BY <2>2
    <3>3. CASE k = 1 \/ k = 2 \/ k = 3
      BY <1>3, <1>4, <2>1, <2>2, <3>3
    <3>4. CASE k = 4 \/ k = 5 \/ k = 6
      BY <1>4, <1>5, <2>1, <2>2, <3>4
    <3>5. CASE k = 7 \/ k = 8
      BY <1>6, <2>1, <2>2, <3>5
    <3>6. CASE k = 9 \/ k = 10
      BY <1>7, <2>1, <2>2, <3>6
    <3>7. QED
      BY <3>2, <3>3, <3>4, <3>5, <3>6
  <2>4. ReadsBy(g, q0, h, q)
    BY <2>1, <2>2, <2>3 DEF ReadsBy
  <2>5. QED
    BY <2>4 DEF Reads
<1>9. PICK f1, f2, f3, f4, f5 :
        /\ f1 = Append(<<>>, <<a>>) /\ f2 = Append(f1, <<b>>) /\ f3 = Append(f2, <<c>>)
        /\ f4 = Append(f3, <<d>>) /\ f5 = Append(f4, <<e>>)
  OBVIOUS
<1>10. q = Reading(f5, <<>>, "plain")
  <2>1. q2 = Reading(f1, <<>>, "plain")
    BY <1>2, <1>3, <1>9, ReadsField
  <2>2. q4 = Reading(f2, <<>>, "plain")
    BY <1>4, <1>9, <2>1, ReadsField
  <2>3. q6 = Reading(f3, <<>>, "plain")
    BY <1>5, <1>9, <2>2, ReadsField
  <2>4. q8 = Reading(f4, <<>>, "plain")
    BY <1>6, <1>9, <2>3, ReadsField
  <2>5. QED
    BY <1>7, <1>9, <2>4, ReadsField
<1>11. f5 \in Seq(Seq(B)) /\ Len(f5) = 5
  <2>1. \A x \in B : <<x>> \in Seq(B)
    OBVIOUS
  <2>2. PICK S : S = Seq(B)
    OBVIOUS
  <2>3. <<a>> \in S /\ <<b>> \in S /\ <<c>> \in S /\ <<d>> \in S /\ <<e>> \in S
    BY <2>1, <2>2
  <2>4. <<>> \in Seq(S) /\ Len(<<>>) = 0
    OBVIOUS
  <2>5. f1 \in Seq(S) /\ Len(f1) = 1
    BY <1>9, <2>3, <2>4, AppendProperties
  <2>6. f2 \in Seq(S) /\ Len(f2) = 2
    BY <1>9, <2>3, <2>5, AppendProperties
  <2>7. f3 \in Seq(S) /\ Len(f3) = 3
    BY <1>9, <2>3, <2>6, AppendProperties
  <2>8. f4 \in Seq(S) /\ Len(f4) = 4
    BY <1>9, <2>3, <2>7, AppendProperties
  <2>9. f5 \in Seq(S) /\ Len(f5) = 5
    BY <1>9, <2>3, <2>8, AppendProperties
  <2>10. QED
    BY <2>2, <2>9
<1>12. HeadRead(Seq(B), h, q)
  BY <1>2, <1>8, <1>10, <1>11 DEF HeadRead
<1>13. QED
  BY <1>1, <1>12

\* What a record must be for its line to be read back.
Legible(r) ==
  /\ r.severity \in DOMAIN severityToString
  /\ IsPlain(<<r.tid>>) /\ IsPlain(getFunc(r))
  /\ \E B : r.message \in Seq(B)
LineReads(line, r) ==
  LET q == ReadCsv(line)
  IN /\ q.state # "quoted"
     /\ Len(q.fields) = 6
     /\ q.fields[6] = getFunc(r) \o <<"@", "line">>
     /\ q.field = CutMessage(r.message)

\* A message stays a sequence of bytes when it is cut.
LEMMA CutIs ==
  ASSUME NEW B, "." \in B, NEW m \in Seq(B)
  PROVE  CutMessage(m) \in Seq(B)
<1>1. CASE Len(m) > kMaxMessageSize
  <2>1. PICK x, y : x = SubSeq(m, 1, kMaxMessageSize) /\ y = <<".", ".", ".">>
    OBVIOUS
  <2>2. x \in Seq(B)
    BY <1>1, <2>1, RecordAssumption
  <2>3. y \in Seq(B)
    BY <2>1
  <2>4. x \o y \in Seq(B)
    BY <2>2, <2>3, ConcatProperties
  <2>5. QED
    BY <1>1, <2>1, <2>4 DEF CutMessage
<1>2. QED
  BY <1>1 DEF CutMessage

\* From the first field of a line to its last.
LEMMA CsvReads == ASSUME NEW r, Legible(r) PROVE LineReads(CsvFormat(r), r)
<1>1. PICK M : r.message \in Seq(M)
  BY DEF Legible
<1>2. PICK f, m, sev, tid :
        /\ f = getFunc(r) /\ m = CutMessage(r.message)
        /\ sev = severityToString[r.severity] /\ tid = r.tid
  OBVIOUS
<1>3. PICK B : B = M \cup Range(f) \cup {sev, tid, "date", "time", "0", "@", "line", ".", Quote, Field}
  OBVIOUS
<1>4. /\ "date" \in B \ {Quote, Field} /\ "time" \in B \ {Quote, Field}
      /\ "0" \in B \ {Quote, Field} /\ "@" \in B \ {Quote, Field}
      /\ "line" \in B \ {Quote, Field} /\ "." \in B /\ Quote \in B /\ Field \in B
  BY <1>3 DEF Quote, Field
<1>5. sev \in B \ {Quote, Field}
  <2>1. sev \in {"NONE", "FATAL", "ERROR", "WARN", "INFO", "DEBUG", "VERB"}
    BY <1>2 DEF Legible, severityToString
  <2>2. QED
    BY <1>3, <2>1 DEF Quote, Field
<1>6. tid \in B \ {Quote, Field}
  <2>1. PICK t : t = <<tid>>
    OBVIOUS
  <2>2. t \in Seq(Range(t) \ {Quote, Field}) /\ Len(t) = 1 /\ t[1] = tid
    BY <1>2, <2>1 DEF Legible, IsPlain
  <2>3. t[1] \in Range(t) \ {Quote, Field}
    BY <2>2, ElementOfSeq
  <2>4. QED
    BY <1>3, <2>2, <2>3
<1>7. f \in Seq(B \ {Quote, Field})
  <2>1. f \in Seq(Range(f) \ {Quote, Field})
    BY <1>2 DEF Legible, IsPlain
  <2>2. Range(f) \ {Quote, Field} \subseteq B \ {Quote, Field}
    BY <1>3
  <2>3. QED
    BY <2>1, <2>2, SeqMonotonic
<1>8. m \in Seq(B)
  <2>1. r.message \in Seq(B)
    BY <1>1, <1>3, SeqMonotonic
  <2>2. QED
    BY <1>2, <1>4, <2>1, CutIs
<1>9. PICK h : h = <<"date", Field, "time", Field, sev, Field, tid, Field, "0", Field>>
  OBVIOUS
<1>10. PICK q : HeadRead(Seq(B), h, q)
  BY <1>4, <1>5, <1>6, <1>9, ReadsHead
<1>11. PICK fs \in Seq(Seq(B)) :
         /\ Len(fs) = 5 /\ q = Reading(fs, <<>>, "plain")
         /\ Reads(Reading(<<>>, <<>>, "plain"), h, q)
  BY <1>10 DEF HeadRead
<1>12. PICK q0, p : q0 = Reading(<<>>, <<>>, "plain") /\ p = Reading(fs, f, "plain")
  OBVIOUS
<1>13. f \in Seq(B) /\ h \in Seq(B)
  <2>1. f \in Seq(B)
    BY <1>7, SeqMonotonic
  <2>2. h \in Seq(B)
    BY <1>4, <1>5, <1>6, <1>9
  <2>3. QED
    BY <2>1, <2>2
<1>14. Reads(q, f, p)
  <2>1. <<>> \o f = f /\ <<>> \in Seq(B)
    BY <1>13, ConcatEmptySeq
  <2>2. QED
    BY <1>7, <1>11, <1>12, <2>1, ReadsPlain
<1>15. PICK al, a, g, gs, p1, p2 :
         /\ al = <<"@", "line">> /\ a = <<"@", "line", Field>>
         /\ g = f \o al /\ gs = Append(fs, g)
         /\ p1 = Reading(fs, g, "plain") /\ p2 = Reading(gs, <<>>, "plain")
  OBVIOUS
<1>16. al \in Seq(B \ {Quote, Field}) /\ al \in Seq(B) /\ Append(al, Field) = a /\ a \in Seq(B)
  <2>1. al \in Seq(B \ {Quote, Field})
    BY <1>4, <1>15
  <2>2. al \in Seq(B) /\ a \in Seq(B)
    BY <1>4, <1>15
  <2>3. Append(al, Field) = a
    BY <1>4, <1>15, AppendThird
  <2>4. QED
    BY <2>1, <2>2, <2>3
<1>17. Reads(p, a, p2)
  <2>1. Reads(p, al, p1)
    BY <1>12, <1>13, <1>15, <1>16, ReadsPlain
  <2>2. ReadByte(p1, Field) = p2
    BY <1>15 DEF ReadByte, Reading
  <2>3. QED
    BY <1>4, <1>16, <2>1, <2>2, ReadsNext
<1>18. PICK w, p3 : w = Quoted(m) /\ p3 = Reading(gs, m, "quote")
  OBVIOUS
<1>19. w \in Seq(B) /\ Reads(p2, w, p3)
  BY <1>4, <1>8, <1>15, <1>18, ReadsQuoted
<1>20. PICK b1, b2, b3 : b1 = h \o f /\ b2 = b1 \o a /\ b3 = b2 \o w
  OBVIOUS
<1>21. b1 \in Seq(B) /\ Reads(q0, b1, p)
  BY <1>11, <1>12, <1>13, <1>14, <1>20, ReadsConcat, ConcatProperties
<1>22. b2 \in Seq(B) /\ Reads(q0, b2, p2)
  BY <1>16, <1>17, <1>20, <1>21, ReadsConcat, ConcatProperties
<1>23. b3 \in Seq(B) /\ Reads(q0, b3, p3)
  BY <1>19, <1>20, <1>22, ReadsConcat, ConcatProperties
<1>24. ReadCsv(CsvFormat(r)) = p3
  <2>1. CsvFormat(r) = h \o f \o a \o w \o <<NewLine>>
    BY <1>2, <1>9, <1>15, <1>18 DEF CsvFormat
  <2>2. PICK C, c : C = B \cup {NewLine} /\ c = NewLine
    OBVIOUS
  <2>3. b3 \in Seq(C) /\ c \in C
    BY <1>23, <2>2, SeqMonotonic
  <2>4. Append(b3, c) = b3 \o <<NewLine>>
    BY <2>2, <2>3, AppendIsConcat
  <2>5. CsvFormat(r) = Append(b3, c)
    BY <1>20, <2>1, <2>4, Zenon
  <2>6. ReadCsv(Append(b3, c)) = p3
    BY <1>12, <1>23, <2>3, ReadCsvIs
  <2>7. QED
    BY <2>5, <2>6
<1>25. Len(gs) = 6 /\ gs[6] = g
  <2>1. PICK S : S = Seq(B)
    OBVIOUS
  <2>2. g \in S /\ fs \in Seq(S)
    BY <1>13, <1>15, <1>16, <2>1, ConcatProperties
  <2>3. Len(Append(fs, g)) = Len(fs) + 1 /\ Append(fs, g)[Len(fs) + 1] = g
    BY <2>2, AppendProperties
  <2>4. QED
    BY <1>11, <1>15, <2>3
<1>26. p3.state = "quote" /\ p3.fields = gs /\ p3.field = m
  BY <1>18 DEF Reading
<1>27. QED
  BY <1>2, <1>15, <1>24, <1>25, <1>26 DEF LineReads

\* A set of numbers has a least one.
LEMMA MinIs == ASSUME NEW I, I \subseteq Nat, I # {} PROVE Min(I) \in I
<1> DEFINE R == OpToRel(<, Nat)
<1>1. IsWellFoundedOn(R, Nat)
  BY NatLessThanWellFounded
<1>2. \A x, y \in Nat : <<y, x>> \in R <=> y < x
  BY DEF OpToRel
<1> HIDE DEF R
<1>3. PICK i \in I : \A j \in I : ~ (<<j, i>> \in R)
  BY <1>1, WFMin
<1>4. ASSUME NEW j \in I PROVE i <= j
  <2>1. i \in Nat /\ j \in Nat /\ ~ (<<j, i>> \in R)
    BY <1>3
  <2>2. ~ (j < i)
    BY <1>2, <2>1
  <2>3. QED
    BY <2>1, <2>2
<1>5. QED
  BY <1>4 DEF Min

\* What << appends is a sequence of bytes.
LEMMA StreamedIs ==
  ASSUME NEW B, NEW x \in Seq(B)
  PROVE  \E C : Streamed(x) \in Seq(C)
<1>1. CASE x = Null
  <2>1. Streamed(x) \in Seq({"(", "null", ")"})
    BY <1>1 DEF Streamed
  <2>2. QED
    BY <2>1
<1>2. CASE x # Null
  <2>1. Find(x, Zero) \in 1 .. Len(x) + 1
    <3>1. CASE Contains(x, Zero)
      <4> DEFINE I == {i \in 1 .. Len(x) : x[i] = Zero}
      <4>1. I \subseteq Nat /\ I # {} /\ I \subseteq 1 .. Len(x)
        BY <3>1 DEF Contains
      <4>2. Find(x, Zero) = Min(I)
        BY <3>1, <4>1 DEF Find, SelectInSeq
      <4>3. Min(I) \in I
        <5> HIDE DEF I
        <5>1. QED
          BY <4>1, MinIs
      <4>4. QED
        BY <4>1, <4>2, <4>3
    <3>2. QED
      BY <3>1 DEF Find
  <2>2. PICK k : k = Find(x, Zero) - 1 /\ k \in 0 .. Len(x)
    BY <2>1
  <2>3. SubSeq(x, 1, k) \in Seq(B)
    BY <2>2
  <2>4. QED
    BY <1>2, <2>2, <2>3 DEF Streamed
<1>3. QED
  BY <1>1, <1>2

\* The lines of a CSV file go with the records behind them.
Streaming(t) == record[t] # NoRecord => Legible(record[t])
CsvInv ==
  /\ record = [t \in Thread |-> record[t]]
  /\ maxSeverity = "unset" => written = <<>> /\ \A t \in Thread : record[t] = NoRecord
  /\ \A t \in Thread : Streaming(t)
  /\ \E S : written \in Seq(S)
  /\ \E S : file \in Seq(S)
  /\ Len(file) = Len(written)
  /\ formatter = "csv" => \A i \in 1 .. Len(written) : LineReads(file[i], written[i])

LEMMA InitCsv == Init => CsvInv
<1> SUFFICES ASSUME Init PROVE CsvInv
  OBVIOUS
<1>1. /\ written = <<>> /\ file = <<>> /\ Len(written) = 0 /\ Len(file) = 0
      /\ \E S : written \in Seq(S) /\ file \in Seq(S)
  BY EmptySeq DEF Init
<1>2. record = [t \in Thread |-> NoRecord]
  BY DEF Init
<1>3. \A t \in Thread : record[t] = NoRecord
  BY <1>2
<1>4. record = [t \in Thread |-> record[t]]
  BY <1>2
<1>5. \A i \in 1 .. Len(written) : FALSE
  BY <1>1
<1>6. QED
  BY <1>1, <1>3, <1>4, <1>5 DEF CsvInv, Streaming

LEMMA RestCsv == CsvInv /\ UNCHANGED vars => CsvInv'
BY DEF vars, CsvInv, Streaming

LEMMA PLOGCsv ==
  ASSUME CsvInv, NEW t \in Thread, NEW s \in Severities, NEW sig \in Signature[t], PLOG(t, s, sig)
  PROVE  CsvInv'
<1>1. UNCHANGED <<maxSeverity, formatter, file, written>>
  BY DEF PLOG
<1>2. \/ record' = record
      \/ /\ maxSeverity # "unset"
         /\ record' = [record EXCEPT ![t] = NewRecord(t, s, sig, statements'[t])]
  BY DEF PLOG, getInstance
<1>3. Legible(NewRecord(t, s, sig, statements'[t]))
  <2>1. PICK r : r = NewRecord(t, s, sig, statements'[t])
    OBVIOUS
  <2>2. r.severity = s /\ r.tid = t /\ r.func = sig /\ r.message = <<>>
    BY <2>1 DEF NewRecord
  <2>3. s \in DOMAIN severityToString
    BY StatementAssumption DEF Severity, severityToString
  <2>4. IsPlain(<<t>>) /\ IsPlain(processFuncName(sig))
    BY StatementAssumption
  <2>5. IsPlain(<<r.tid>>) /\ IsPlain(getFunc(r))
    BY <2>2, <2>4, Zenon DEF getFunc
  <2>6. \E B : r.message \in Seq(B)
    BY <2>2, EmptySeq
  <2>7. r.severity \in DOMAIN severityToString
    BY <2>2, <2>3
  <2>8. Legible(r)
    BY <2>5, <2>6, <2>7 DEF Legible
  <2>9. QED
    BY <2>1, <2>8
<1>4. PICK r : r = NewRecord(t, s, sig, statements'[t])
  OBVIOUS
<1>5. record' = record \/ (maxSeverity # "unset" /\ record' = [record EXCEPT ![t] = r])
  <2>1. CASE record' = record
    BY <2>1
  <2>2. CASE record' # record
    BY <1>2, <1>4, <2>2, Zenon
  <2>3. QED
    BY <2>1, <2>2
<1>6. Legible(r)
  BY <1>3, <1>4
<1>7. /\ record' = [u \in Thread |-> record'[u]]
      /\ \A u \in Thread : record'[u] = record[u] \/ record'[u] = r
      /\ maxSeverity = "unset" => record' = record
  BY <1>5 DEF CsvInv
<1>8. \A u \in Thread : Streaming(u)'
  BY <1>6, <1>7 DEF CsvInv, Streaming
<1>9. (maxSeverity = "unset" => written = <<>> /\ \A u \in Thread : record[u] = NoRecord)'
  BY <1>1, <1>7 DEF CsvInv
<1>10. QED
  BY <1>1, <1>7, <1>8, <1>9 DEF CsvInv

LEMMA StreamCsv ==
  ASSUME CsvInv, OrderInv, NEW t \in Thread, NEW x \in Operand[t], Stream(t, x)
  PROVE  CsvInv'
<1>1. /\ UNCHANGED <<maxSeverity, formatter, file, written>> /\ record[t] # NoRecord
      /\ record' = [record EXCEPT ![t].message = record[t].message \o Streamed(x),
                                  ![t].operands = record[t].operands + 1]
  BY DEF Stream
<1>2. PICK r, m, o : r = record[t] /\ m = r.message \o Streamed(x) /\ o = r.operands + 1
  OBVIOUS
<1>3. record' = [record EXCEPT ![t].message = m, ![t].operands = o]
  BY <1>1, <1>2
<1>4. DOMAIN r = Fields /\ Legible(r)
  BY <1>1, <1>2 DEF CsvInv, Streaming, OrderInv, UnderWay, Fresh
<1>5. \E B : m \in Seq(B)
  <2>1. PICK A : r.message \in Seq(A)
    BY <1>4 DEF Legible
  <2>2. x \in Seq(Range(x))
    BY RecordAssumption
  <2>3. PICK C : Streamed(x) \in Seq(C)
    BY <2>2, StreamedIs
  <2>4. r.message \in Seq(A \cup C) /\ Streamed(x) \in Seq(A \cup C)
    BY <2>1, <2>3, SeqMonotonic
  <2>5. m \in Seq(A \cup C)
    BY <1>2, <2>4, ConcatProperties
  <2>6. QED
    BY <2>5
<1>6. /\ record' = [u \in Thread |-> record'[u]]
      /\ \A u \in Thread : u # t => record'[u] = record[u]
  BY <1>3 DEF CsvInv
<1>7. /\ record'[t].severity = r.severity /\ record'[t].tid = r.tid
      /\ record'[t].func = r.func /\ record'[t].message = m
  BY <1>2, <1>3, <1>4 DEF CsvInv, Fields
<1>8. Legible(record'[t])
  <2>1. PICK q : q = record'[t]
    OBVIOUS
  <2>2. q.severity = r.severity /\ q.tid = r.tid /\ q.func = r.func /\ q.message = m
    BY <1>7, <2>1
  <2>3. getFunc(q) = getFunc(r)
    BY <2>2 DEF getFunc
  <2>4. Legible(q)
    BY <1>4, <1>5, <2>2, <2>3, Zenon DEF Legible
  <2>5. QED
    BY <2>1, <2>4
<1>9. \A u \in Thread : Streaming(u)'
  <2>1. ASSUME NEW u \in Thread PROVE Streaming(u)'
    <3>1. CASE u = t
      <4>1. Legible(record[u])'
        BY <1>8, <3>1 DEF Legible, IsPlain, getFunc
      <4>2. QED
        BY <4>1 DEF Streaming
    <3>2. CASE u # t
      <4>1. Streaming(u) /\ record'[u] = record[u]
        BY <1>6, <3>2 DEF CsvInv
      <4>2. QED
        BY <4>1 DEF Streaming, Legible, IsPlain, getFunc
    <3>3. QED
      BY <3>1, <3>2
  <2>2. QED
    BY <2>1
<1>10. maxSeverity # "unset"
  BY <1>1 DEF CsvInv
<1>11. QED
  BY <1>1, <1>6, <1>9, <1>10 DEF CsvInv

LEMMA WriteCsv ==
  ASSUME CsvInv, NEW t \in Thread, Write(t)
  PROVE  CsvInv'
<1>1. PICK r, w, f, line : r = record[t] /\ w = written /\ f = file /\ line = Format(r)
  OBVIOUS
<1>2. /\ UNCHANGED <<maxSeverity, formatter>> /\ r # NoRecord
      /\ written' = Append(w, r) /\ file' = Append(f, line)
      /\ record' = [record EXCEPT ![t] = NoRecord]
  BY <1>1 DEF Write
<1>3. maxSeverity # "unset" /\ Legible(r)
  BY <1>1, <1>2 DEF CsvInv, Streaming
<1>4. formatter = "csv" => LineReads(line, r)
  <2>1. SUFFICES ASSUME formatter = "csv" PROVE LineReads(line, r)
    OBVIOUS
  <2>2. line = CsvFormat(r)
    BY <1>1, <2>1 DEF Format
  <2>3. QED
    BY <1>3, <2>2, CsvReads
<1>5. PICK S : w \in Seq(S)
  BY <1>1 DEF CsvInv
<1>6. PICK T : f \in Seq(T)
  BY <1>1 DEF CsvInv
<1>7. /\ written' \in Seq(S \cup {r}) /\ Len(written') = Len(w) + 1
      /\ written'[Len(w) + 1] = r /\ \A i \in 1 .. Len(w) : written'[i] = w[i]
  <2>1. w \in Seq(S \cup {r})
    BY <1>5
  <2>2. QED
    BY <1>2, <2>1, AppendProperties
<1>8. /\ file' \in Seq(T \cup {line}) /\ Len(file') = Len(f) + 1
      /\ file'[Len(f) + 1] = line /\ \A i \in 1 .. Len(f) : file'[i] = f[i]
  <2>1. f \in Seq(T \cup {line})
    BY <1>6
  <2>2. QED
    BY <1>2, <2>1, AppendProperties
<1>9. Len(f) = Len(w) /\ Len(w) \in Nat
  BY <1>1, <1>5 DEF CsvInv
<1>10. ASSUME formatter = "csv", NEW i \in 1 .. Len(w) + 1 PROVE LineReads(file'[i], written'[i])
  <2>1. CASE i = Len(w) + 1
    <3>1. file'[i] = line /\ written'[i] = r
      BY <1>7, <1>8, <1>9, <2>1
    <3>2. QED
      BY <1>4, <1>10, <3>1
  <2>2. CASE i # Len(w) + 1
    <3>1. i \in 1 .. Len(w)
      BY <1>9, <2>2
    <3>2. file'[i] = f[i] /\ written'[i] = w[i]
      BY <1>7, <1>8, <1>9, <3>1
    <3>3. LineReads(f[i], w[i])
      BY <1>1, <1>10, <3>1 DEF CsvInv
    <3>4. QED
      BY <3>2, <3>3
  <2>3. QED
    BY <2>1, <2>2
<1>11. /\ record' = [u \in Thread |-> record'[u]]
       /\ \A u \in Thread : record'[u] = record[u] \/ record'[u] = NoRecord
  BY <1>2 DEF CsvInv
<1>12. \A u \in Thread : Streaming(u)'
  BY <1>11 DEF CsvInv, Streaming
<1>13. (formatter = "csv" => \A i \in 1 .. Len(written) : LineReads(file[i], written[i]))'
  BY <1>2, <1>7, <1>10
<1>14. (\E U : written \in Seq(U))' /\ (\E U : file \in Seq(U))' /\ (Len(file) = Len(written))'
  BY <1>7, <1>8, <1>9
<1>15. QED
  BY <1>2, <1>3, <1>11, <1>12, <1>13, <1>14 DEF CsvInv

LEMMA NextCsv == OrderInv /\ CsvInv /\ [Next]_vars => CsvInv'
<1> SUFFICES ASSUME OrderInv, CsvInv, [Next]_vars PROVE CsvInv'
  OBVIOUS
<1>1. CASE UNCHANGED vars
  BY <1>1, RestCsv
<1>2. CASE InitLogger
  <2>1. maxSeverity' = "debug" /\ UNCHANGED <<record, file, written>> /\ maxSeverity = "unset"
    BY <1>2 DEF InitLogger, init, getInstance
  <2>2. written = <<>> /\ Len(written) = 0
    BY <2>1 DEF CsvInv
  <2>3. \A i \in 1 .. Len(written) : FALSE
    BY <2>2
  <2>4. QED
    BY <2>1, <2>3 DEF CsvInv, Streaming
<1>3. CASE Tick
  BY <1>3 DEF Tick, CsvInv, Streaming
<1>4. QED
  BY <1>1, <1>2, <1>3, PLOGCsv, StreamCsv, WriteCsv DEF Next

\* Whatever is streamed into records and however long they grow: a line of a CSV
\* file reads back as the fields of its record, the message as far as it is kept
\* among them.
THEOREM ReadsBackCorrect == LoggerSpec => []ReadsBack
<1>1. LoggerInit => OrderInv /\ CsvInv
  BY InitOrder, InitCsv DEF LoggerInit
<1>2. OrderInv /\ CsvInv /\ [LoggerNext]_<<vars, chain>> => OrderInv' /\ CsvInv'
  BY NextOrder, RestKeeps, NextCsv, RestCsv DEF LoggerNext
<1>3. CsvInv => ReadsBack
  <2>1. SUFFICES ASSUME CsvInv, formatter = "csv"
                 PROVE  \A i \in DOMAIN file : LineReads(file[i], written[i])
    BY DEF ReadsBack, LineReads
  <2>2. DOMAIN file = 1 .. Len(written)
    BY <2>1 DEF CsvInv
  <2>3. QED
    BY <2>1, <2>2 DEF CsvInv
<1>4. QED
  BY <1>1, <1>2, <1>3, PTL DEF LoggerSpec

(***************************************************************************)
(* Several appenders (LogAppenders).                                       *)
(***************************************************************************)

\* Which appenders a thread's record has still to get to: all, all but the file,
\* those of the second logger, or none.  In the console's critical section a
\* thread has a record in hand.
Ways == {<<>>, <<"file", "second">>, <<"second">>, <<"console">>}
StageInv ==
  /\ given = [t \in Thread |-> given[t]]
  /\ begun \in [Thread -> Nat]
  /\ todo \in [Thread -> Ways]
  /\ pc \in [Thread -> {"idle", "writestr", "resetColor"}]
  /\ \A t \in Thread :
       /\ given[t] # Chain!NoRecord =>
            given[t].by = t /\ given[t].n = begun[t] /\ begun[t] >= 1
       /\ given[t] = Chain!NoRecord => todo[t] = <<>>
       /\ pc[t] # "idle" => todo[t] = <<"console">>

\* How a thread's steps take its record along.
Starts(t) ==
  /\ given[t] = Chain!NoRecord /\ todo[t] = <<>> /\ pc[t] = "idle"
  /\ \E s : given' = [given EXCEPT ![t] = [by |-> t, n |-> begun[t] + 1, severity |-> s]]
  /\ begun' = [begun EXCEPT ![t] = begun[t] + 1]
  /\ todo' = [todo EXCEPT ![t] = <<"file", "second">>]
  /\ UNCHANGED <<pc, m_mutex, color, inFile, console>>
ToFile(t) ==
  /\ todo[t] = <<"file", "second">> /\ pc[t] = "idle"
  /\ inFile' = Append(inFile, given[t])
  /\ todo' = [todo EXCEPT ![t] = <<"second">>]
  /\ UNCHANGED <<given, pc, m_mutex, color, console, begun>>
Passes(r) == Chain!checkSeverity("second", r.severity)
ToSecond(t) ==
  /\ todo[t] = <<"second">> /\ pc[t] = "idle"
  /\ todo' = [todo EXCEPT ![t] = IF Passes(given[t]) THEN <<"console">> ELSE <<>>]
  /\ UNCHANGED <<given, pc, m_mutex, color, inFile, console, begun>>
Ends(t) ==
  /\ todo[t] = <<>> /\ pc[t] = "idle"
  /\ given' = [given EXCEPT ![t] = Chain!NoRecord]
  /\ UNCHANGED <<todo, pc, m_mutex, color, inFile, console, begun>>
Color(r) == Chain!Color(r.severity)
Sets(t) ==
  /\ todo[t] = <<"console">> /\ pc[t] = "idle"
  /\ m_mutex = "free" /\ m_mutex' = t
  /\ color' = IF m_isatty /\ Color(given[t]) # "plain" THEN Color(given[t]) ELSE color
  /\ pc' = [pc EXCEPT ![t] = "writestr"]
  /\ UNCHANGED <<given, todo, inFile, console, begun>>
Shows(t) ==
  /\ todo[t] = <<"console">> /\ pc[t] = "writestr"
  /\ console' = Append(console, [record |-> given[t], color |-> color])
  /\ pc' = [pc EXCEPT ![t] = "resetColor"]
  /\ UNCHANGED <<given, todo, m_mutex, color, inFile, begun>>
Resets(t) ==
  /\ todo[t] = <<"console">> /\ pc[t] = "resetColor"
  /\ color' = IF m_isatty THEN "plain" ELSE color
  /\ m_mutex' = "free"
  /\ todo' = [todo EXCEPT ![t] = <<>>]
  /\ pc' = [pc EXCEPT ![t] = "idle"]
  /\ UNCHANGED <<given, inFile, console, begun>>

Steps(t) ==
  \/ Starts(t) \/ ToFile(t) \/ ToSecond(t) \/ Ends(t)
  \/ Sets(t) \/ Shows(t) \/ Resets(t)

LEMMA StepsAre ==
  ASSUME StageInv, [Chain!Next]_chain PROVE UNCHANGED chain \/ \E t \in Thread : Steps(t)
<1>1. SUFFICES ASSUME Chain!Next PROVE \E t \in Thread : Steps(t)
  OBVIOUS
<1>2. /\ Tail(<<"file", "second">>) = <<"second">> /\ Tail(<<"second">>) = <<>>
      /\ Tail(<<"console">>) = <<>> /\ <<"console">> \o <<>> = <<"console">>
      /\ Head(<<"file", "second">>) = "file" /\ Head(<<"second">>) = "second"
      /\ Head(<<"console">>) = "console"
      /\ <<"file", "second">> # <<>> /\ <<"second">> # <<>> /\ <<"console">> # <<>>
  OBVIOUS
<1>3. Chain!m_appenders["first"] = <<"file", "second">>
      /\ Chain!m_appenders["second"] = <<"console">>
  BY DEF Chain!m_appenders
<1>4. ASSUME NEW t \in Thread
      PROVE  /\ Chain!Turn(t, "file") => todo[t] = <<"file", "second">> /\ pc[t] = "idle"
             /\ Chain!Turn(t, "second") => todo[t] = <<"second">> /\ pc[t] = "idle"
             /\ Chain!Turn(t, "console") => todo[t] = <<"console">> /\ pc[t] = "idle"
  BY <1>2 DEF StageInv, Ways, Chain!Turn
<1>5. ASSUME NEW t \in Thread, NEW s \in ChainLevels, Chain!Log(t, s) PROVE Steps(t)
  <2>1. /\ given[t] = Chain!NoRecord /\ begun' = [begun EXCEPT ![t] = begun[t] + 1]
        /\ given' = [given EXCEPT ![t] = [by |-> t, n |-> begun'[t], severity |-> s]]
        /\ todo' = [todo EXCEPT ![t] = <<"file", "second">>]
        /\ UNCHANGED <<pc, m_mutex, color, inFile, console>>
    BY <1>3, <1>5 DEF Chain!Log
  <2>2. begun'[t] = begun[t] + 1 /\ todo[t] = <<>> /\ pc[t] = "idle"
    BY <1>2, <2>1 DEF StageInv
  <2>3. Starts(t)
    BY <2>1, <2>2 DEF Starts
  <2>4. QED
    BY <2>3 DEF Steps
<1>6. ASSUME NEW t \in Thread, Chain!WriteFile(t) PROVE Steps(t)
  <2>1. ToFile(t)
    BY <1>2, <1>4, <1>6 DEF Chain!WriteFile, ToFile
  <2>2. QED
    BY <2>1 DEF Steps
<1>7. ASSUME NEW t \in Thread, Chain!WriteSecond(t) PROVE Steps(t)
  <2>1. ToSecond(t)
    <3>1. todo[t] = <<"second">> /\ pc[t] = "idle"
      BY <1>4, <1>7 DEF Chain!WriteSecond
    <3>2. /\ todo' = [todo EXCEPT ![t] = IF Passes(given[t]) THEN <<"console">> \o Tail(todo[t])
                                         ELSE Tail(todo[t])]
          /\ UNCHANGED <<given, pc, m_mutex, color, inFile, console, begun>>
      BY <1>3, <1>7 DEF Chain!WriteSecond, Passes
    <3>3. QED
      BY <1>2, <3>1, <3>2 DEF ToSecond
  <2>2. QED
    BY <2>1 DEF Steps
<1>8. ASSUME NEW t \in Thread, Chain!Finish(t) PROVE Steps(t)
  <2>1. Ends(t)
    BY <1>2, <1>8 DEF Chain!Finish, Ends, StageInv
  <2>2. QED
    BY <2>1 DEF Steps
<1>9. ASSUME NEW t \in Thread, Chain!setColor(t) PROVE Steps(t)
  <2>1. Sets(t)
    BY <1>4, <1>9 DEF Chain!setColor, Chain!Acquire, Sets, Color
  <2>2. QED
    BY <2>1 DEF Steps
<1>10. ASSUME NEW t \in Thread, Chain!writestr(t) PROVE Steps(t)
  <2>1. Shows(t)
    BY <1>10 DEF Chain!writestr, Shows, StageInv
  <2>2. QED
    BY <2>1 DEF Steps
<1>11. ASSUME NEW t \in Thread, Chain!resetColor(t) PROVE Steps(t)
  <2>1. pc[t] = "resetColor" /\ todo[t] = <<"console">>
    BY <1>11 DEF Chain!resetColor, StageInv
  <2>2. Resets(t)
    BY <1>2, <1>11, <2>1 DEF Chain!resetColor, Chain!Release, Resets
  <2>3. QED
    BY <2>2 DEF Steps
<1>12. QED
  BY <1>1, <1>5, <1>6, <1>7, <1>8, <1>9, <1>10, <1>11 DEF Chain!Next

LEMMA InitStage == Chain!Init => StageInv
BY DEF Chain!Init, StageInv, Ways

LEMMA NextStage == StageInv /\ [Chain!Next]_chain => StageInv'
<1> SUFFICES ASSUME StageInv, [Chain!Next]_chain PROVE StageInv'
  OBVIOUS
<1>1. CASE UNCHANGED chain
  BY <1>1 DEF chain, StageInv, Chain!NoRecord
<1>2. ASSUME NEW t \in Thread, Starts(t) PROVE StageInv'
  <2>1. PICK s : given' = [given EXCEPT ![t] = [by |-> t, n |-> begun[t] + 1, severity |-> s]]
    BY <1>2 DEF Starts
  <2>2. /\ given'[t].by = t /\ given'[t].n = begun'[t] /\ begun'[t] \in Nat /\ begun'[t] >= 1
        /\ given' = [u \in Thread |-> given'[u]]
        /\ begun' \in [Thread -> Nat] /\ todo' \in [Thread -> Ways]
    <3>1. begun[t] \in Nat /\ begun'[t] = begun[t] + 1 /\ begun' \in [Thread -> Nat]
      BY <1>2 DEF Starts, StageInv
    <3>2. given'[t] = [by |-> t, n |-> begun[t] + 1, severity |-> s]
          /\ given' = [u \in Thread |-> given'[u]]
      BY <2>1 DEF StageInv
    <3>3. <<"file", "second">> \in Ways
      BY DEF Ways
    <3>4. todo' \in [Thread -> Ways]
      BY <1>2, <3>3 DEF Starts, StageInv
    <3>5. QED
      BY <3>1, <3>2, <3>4
  <2>3. given'[t] # Chain!NoRecord
    BY <2>2 DEF Chain!NoRecord
  <2>4. /\ \A u \in Thread : u # t => /\ given'[u] = given[u] /\ begun'[u] = begun[u]
                                      /\ todo'[u] = todo[u]
        /\ pc' = pc /\ pc[t] = "idle"
    BY <1>2, <2>1 DEF Starts, StageInv
  <2>5. QED
    BY <2>2, <2>3, <2>4, ZenonT(40) DEF StageInv, Chain!NoRecord
<1>3. ASSUME NEW t \in Thread, ToFile(t) \/ ToSecond(t) \/ Resets(t) PROVE StageInv'
  <2>1. /\ UNCHANGED <<given, begun>> /\ todo[t] # <<>>
        /\ \E w \in Ways : todo' = [todo EXCEPT ![t] = w]
        /\ pc' = [pc EXCEPT ![t] = "idle"]
    <3>1. UNCHANGED <<given, begun>> /\ todo[t] # <<>>
      <4>1. <<"file", "second">> # <<>> /\ <<"second">> # <<>> /\ <<"console">> # <<>>
        OBVIOUS
      <4>2. QED
        BY <1>3, <4>1 DEF ToFile, ToSecond, Resets
    <3>2. <<>> \in Ways /\ <<"second">> \in Ways /\ <<"console">> \in Ways
      BY DEF Ways
    <3>3. \E w \in Ways : todo' = [todo EXCEPT ![t] = w]
      <4>1. CASE ToFile(t)
        BY <3>2, <4>1 DEF ToFile
      <4>2. CASE ToSecond(t)
        BY <3>2, <4>2 DEF ToSecond
      <4>3. CASE Resets(t)
        BY <3>2, <4>3 DEF Resets
      <4>4. QED
        BY <1>3, <4>1, <4>2, <4>3
    <3>4. pc' = [pc EXCEPT ![t] = "idle"]
      <4>1. CASE Resets(t)
        BY <4>1 DEF Resets
      <4>2. CASE ToFile(t) \/ ToSecond(t)
        <5>1. pc' = pc /\ pc[t] = "idle"
          BY <4>2 DEF ToFile, ToSecond
        <5>2. QED
          BY <5>1 DEF StageInv
      <4>3. QED
        BY <1>3, <4>1, <4>2
    <3>5. QED
      BY <3>1, <3>3, <3>4
  <2>2. QED
    BY <2>1 DEF StageInv, Chain!NoRecord
<1>4. ASSUME NEW t \in Thread, Ends(t) PROVE StageInv'
  BY <1>4 DEF Ends, StageInv, Chain!NoRecord
<1>5. ASSUME NEW t \in Thread, Sets(t) \/ Shows(t) PROVE StageInv'
  <2>1. /\ UNCHANGED <<given, begun, todo>> /\ todo[t] = <<"console">>
        /\ \E l \in {"writestr", "resetColor"} : pc' = [pc EXCEPT ![t] = l]
    BY <1>5 DEF Sets, Shows
  <2>2. QED
    BY <2>1 DEF StageInv, Chain!NoRecord
<1>6. QED
  BY <1>1, <1>2, <1>3, <1>4, <1>5, StepsAre DEF Steps

\* Who holds the console's mutex.
ConsoleInv ==
  /\ m_mutex \in Thread \cup {"free"}
  /\ \A t \in Thread : pc[t] # "idle" <=> m_mutex = t

\* The terminal is plain but between setColor and resetColor, where it has the
\* colour of the record that the holder of the mutex has in hand.
ColorInv ==
  /\ m_mutex = "free" => color = "plain"
  /\ ~m_isatty => color = "plain"
  /\ \A t \in Thread : pc[t] = "writestr" /\ m_isatty => color = Color(given[t])
  /\ \E S : console \in Seq(S)
  /\ \A i \in 1 .. Len(console) :
       console[i].color = IF m_isatty THEN Color(console[i].record) ELSE "plain"

LEMMA InitColor == Chain!Init => ConsoleInv /\ ColorInv
<1> SUFFICES ASSUME Chain!Init PROVE ConsoleInv /\ ColorInv
  OBVIOUS
<1>1. console = <<>> /\ Len(console) = 0 /\ \E S : console \in Seq(S)
  BY EmptySeq DEF Chain!Init
<1>2. QED
  BY <1>1, LoggerAssumption DEF Chain!Init, ConsoleInv, ColorInv

LEMMA RestColor == ConsoleInv /\ ColorInv /\ UNCHANGED chain => ConsoleInv' /\ ColorInv'
BY DEF chain, ConsoleInv, ColorInv, Color, Chain!Color

LEMMA NextColor ==
  StageInv /\ ConsoleInv /\ ColorInv /\ [Chain!Next]_chain => ConsoleInv' /\ ColorInv'
<1> SUFFICES ASSUME StageInv, ConsoleInv, ColorInv, [Chain!Next]_chain
             PROVE  ConsoleInv' /\ ColorInv'
  OBVIOUS
<1>1. CASE UNCHANGED chain
  BY <1>1, RestColor
<1>2. ASSUME NEW t \in Thread, Starts(t) \/ ToFile(t) \/ ToSecond(t) \/ Ends(t)
      PROVE  ConsoleInv' /\ ColorInv'
  <2>1. pc[t] = "idle" /\ UNCHANGED <<pc, m_mutex, color, console>>
        /\ \A u \in Thread : u # t => given'[u] = given[u]
    BY <1>2 DEF Starts, ToFile, ToSecond, Ends, StageInv
  <2>2. QED
    BY <2>1 DEF ConsoleInv, ColorInv, Color, Chain!Color
<1>3. ASSUME NEW t \in Thread, Sets(t) PROVE ConsoleInv' /\ ColorInv'
  <2>1. /\ pc[t] = "idle" /\ m_mutex = "free" /\ m_mutex' = t
        /\ color' = IF m_isatty /\ Color(given[t]) # "plain" THEN Color(given[t]) ELSE color
        /\ pc' = [pc EXCEPT ![t] = "writestr"]
        /\ UNCHANGED <<given, console>>
    BY <1>3 DEF Sets
  <2>2. \A u \in Thread : pc[u] = "idle"
    BY <2>1, LoggerAssumption DEF ConsoleInv, StageInv
  <2>3. ConsoleInv'
    BY <2>1, <2>2, LoggerAssumption DEF ConsoleInv, StageInv
  <2>4. color = "plain"
    BY <2>1 DEF ColorInv
  <2>5. m_isatty => color' = Color(given[t])
    BY <2>1, <2>4
  <2>6. ~m_isatty => color' = "plain"
    BY <2>1, <2>4
  <2>7. \A u \in Thread : pc'[u] = "writestr" => u = t
    BY <2>1, <2>2 DEF ConsoleInv, StageInv
  <2>8. m_mutex' # "free"
    BY <2>1, LoggerAssumption
  <2>9. QED
    BY <2>1, <2>3, <2>5, <2>6, <2>7, <2>8 DEF ColorInv, Color, Chain!Color
<1>4. ASSUME NEW t \in Thread, Shows(t) PROVE ConsoleInv' /\ ColorInv'
  <2>1. PICK line, w :
          /\ line = [record |-> given[t], color |-> color] /\ w = console
          /\ console' = Append(w, line)
    BY <1>4 DEF Shows
  <2>2. /\ pc[t] = "writestr" /\ pc' = [pc EXCEPT ![t] = "resetColor"]
        /\ UNCHANGED <<given, m_mutex, color>>
    BY <1>4 DEF Shows
  <2>3. ConsoleInv'
    BY <2>2 DEF ConsoleInv, StageInv
  <2>4. line.color = IF m_isatty THEN Color(line.record) ELSE "plain"
    BY <2>1, <2>2 DEF ColorInv, Color
  <2>5. PICK S : w \in Seq(S)
    BY <2>1 DEF ColorInv
  <2>6. /\ console' \in Seq(S \cup {line}) /\ Len(console') = Len(w) + 1 /\ Len(w) \in Nat
        /\ console'[Len(w) + 1] = line
        /\ \A i \in 1 .. Len(w) : console'[i] = w[i]
    <3>1. w \in Seq(S \cup {line})
      BY <2>5
    <3>2. QED
      BY <2>1, <3>1, AppendProperties
  <2>7. ASSUME NEW i \in 1 .. Len(w) + 1
        PROVE  console'[i].color = IF m_isatty THEN Color(console'[i].record) ELSE "plain"
    <3>1. CASE i = Len(w) + 1
      BY <2>4, <2>6, <3>1
    <3>2. CASE i # Len(w) + 1
      <4>1. i \in 1 .. Len(w)
        BY <2>6, <3>2
      <4>2. QED
        BY <2>1, <2>6, <4>1 DEF ColorInv, Color
    <3>3. QED
      BY <3>1, <3>2
  <2>8. \A u \in Thread : pc'[u] = "writestr" => pc[u] = "writestr"
    BY <2>2 DEF ConsoleInv, StageInv
  <2>9. QED
    BY <2>2, <2>3, <2>6, <2>7, <2>8 DEF ColorInv, Color, Chain!Color
<1>5. ASSUME NEW t \in Thread, Resets(t) PROVE ConsoleInv' /\ ColorInv'
  <2>1. /\ pc[t] = "resetColor" /\ pc' = [pc EXCEPT ![t] = "idle"]
        /\ m_mutex' = "free" /\ color' = IF m_isatty THEN "plain" ELSE color
        /\ UNCHANGED <<given, console>>
    BY <1>5 DEF Resets
  <2>2. \A u \in Thread : u # t => pc[u] = "idle"
    BY <2>1 DEF ConsoleInv, StageInv
  <2>3. \A u \in Thread : pc'[u] = "idle"
    BY <2>1, <2>2 DEF ConsoleInv, StageInv
  <2>4. ConsoleInv'
    BY <2>1, <2>3, LoggerAssumption DEF ConsoleInv, StageInv
  <2>5. color' = "plain"
    BY <2>1, LoggerAssumption DEF ColorInv
  <2>6. QED
    BY <2>1, <2>3, <2>4, <2>5 DEF ColorInv, Color, Chain!Color
<1>6. QED
  BY <1>1, <1>2, <1>3, <1>4, <1>5, StepsAre DEF Steps

\* Whatever else is being written, and whichever limits and severities there
\* are: a record is on a terminal in the colour of its own severity, and nothing
\* is coloured where the console is no terminal.
THEOREM OwnColorCorrect == LoggerSpec => []OwnColor
<1>1. LoggerInit => StageInv /\ ConsoleInv /\ ColorInv
  BY InitStage, InitColor DEF LoggerInit
<1>2. StageInv /\ ConsoleInv /\ ColorInv /\ [LoggerNext]_<<vars, chain>>
        => StageInv' /\ ConsoleInv' /\ ColorInv'
  <2>1. [LoggerNext]_<<vars, chain>> => [Chain!Next]_chain
    BY DEF LoggerNext
  <2>2. QED
    BY <2>1, NextStage, NextColor
<1>3. StageInv /\ ConsoleInv /\ ColorInv => OwnColor
  <2>1. SUFFICES ASSUME StageInv, ConsoleInv, ColorInv PROVE OwnColor
    OBVIOUS
  <2>2. DOMAIN console = 1 .. Len(console)
    BY <2>1 DEF ColorInv
  <2>3. \A i \in DOMAIN console :
          console[i].color = IF m_isatty THEN Chain!Color(console[i].record.severity) ELSE "plain"
    BY <2>1, <2>2 DEF ColorInv, Color
  <2>4. (\A t \in Thread : pc[t] = "idle") => color = "plain"
    BY <2>1 DEF ConsoleInv, ColorInv
  <2>5. QED
    BY <2>3, <2>4 DEF OwnColor, Chain!OwnColor
<1>4. QED
  BY <1>1, <1>2, <1>3, PTL DEF LoggerSpec

-----------------------------------------------------------------------------
(* File and console show the same records.                                 *)

\* A thread whose record is not yet in the file, or not yet on the console.
AtFile(t) == todo[t] = <<"file", "second">>
Ahead(t) ==
  \/ todo[t] \in {<<"file", "second">>, <<"second">>}
  \/ todo[t] = <<"console">> /\ pc[t] # "resetColor"

\* A record that was written came before the one that is still to be written.
Numbered(r) == r.by \in Thread /\ r.n \in Nat /\ r.n <= begun[r.by]
InFile(r) == Numbered(r) /\ (AtFile(r.by) => r.n < begun[r.by])
Shown(r) == Numbered(r) /\ Passes(r) /\ (Ahead(r.by) => r.n < begun[r.by])
Missing(r) == r = given[r.by] /\ Ahead(r.by)

Has(s, r) == \E i \in 1 .. Len(s) : s[i] = r
Displays(c, r) == \E i \in 1 .. Len(c) : c[i].record = r
Follows(q, r) == q.by = r.by => q.n < r.n

GivenInv == \A t \in Thread :
  /\ todo[t] = <<"console">> => Passes(given[t])
  /\ todo[t] # <<>> /\ ~AtFile(t) => Has(inFile, given[t])
FileInv ==
  /\ \E S : inFile \in Seq(S)
  /\ \A i \in 1 .. Len(inFile) : InFile(inFile[i])
  /\ \A i, j \in 1 .. Len(inFile) : i < j => Follows(inFile[i], inFile[j])
ShownInv ==
  /\ \E S : console \in Seq(S)
  /\ \A i \in 1 .. Len(console) : Shown(console[i].record) /\ Has(inFile, console[i].record)
  /\ \A i, j \in 1 .. Len(console) : i < j => Follows(console[i].record, console[j].record)
  /\ \A i \in 1 .. Len(inFile) :
       Passes(inFile[i]) => Displays(console, inFile[i]) \/ Missing(inFile[i])
SameInv == GivenInv /\ FileInv /\ ShownInv

LEMMA InitSame == Chain!Init => SameInv
<1> SUFFICES ASSUME Chain!Init PROVE SameInv
  OBVIOUS
<1>1. /\ inFile = <<>> /\ Len(inFile) = 0 /\ \E S : inFile \in Seq(S)
      /\ console = <<>> /\ Len(console) = 0 /\ \E S : console \in Seq(S)
      /\ \A t \in Thread : todo[t] = <<>>
  BY EmptySeq DEF Chain!Init
<1>2. <<"console">> # <<>>
  OBVIOUS
<1>3. QED
  BY <1>1, <1>2 DEF SameInv, GivenInv, FileInv, ShownInv

LEMMA PassesRests == ASSUME NEW r PROVE Passes(r)' <=> Passes(r)
BY DEF Passes, Chain!checkSeverity, Chain!Severity

\* The ways differ.
LEMMA WaysDiffer ==
  /\ <<"file", "second">> # <<>> /\ <<"second">> # <<>> /\ <<"console">> # <<>>
  /\ <<"file", "second">> # <<"second">> /\ <<"file", "second">> # <<"console">>
  /\ <<"second">> # <<"console">>
<1>1. /\ Len(<<"file", "second">>) = 2 /\ Len(<<"second">>) = 1 /\ Len(<<"console">>) = 1
      /\ <<"second">>[1] = "second" /\ <<"console">>[1] = "console" /\ Len(<<>>) = 0
  OBVIOUS
<1>2. QED
  BY <1>1

\* A step that writes nothing.
Keeps(r) ==
  /\ InFile(r) => InFile(r)'
  /\ Shown(r) => Shown(r)'
  /\ Passes(r) /\ r.by \in Thread /\ Missing(r) => Missing(r)'

LEMMA QuietSame ==
  ASSUME SameInv, UNCHANGED <<inFile, console>>, GivenInv',
         \A r : Keeps(r)
  PROVE  SameInv'
<1>1. FileInv'
  BY DEF SameInv, FileInv, Keeps
<1>2. ShownInv'
  <2>1. ASSUME NEW i \in 1 .. Len(console)
        PROVE  Shown(console[i].record)' /\ Has(inFile, console[i].record)'
    BY DEF SameInv, ShownInv, Keeps, Has
  <2>2. ASSUME NEW i \in 1 .. Len(inFile), Passes(inFile[i])
        PROVE  Displays(console, inFile[i])' \/ Missing(inFile[i])'
    <3>1. PICK r : r = inFile[i]
      OBVIOUS
    <3>2. InFile(r) /\ (Displays(console, r) \/ Missing(r)) /\ Passes(r)
      BY <2>2, <3>1 DEF SameInv, FileInv, ShownInv
    <3>3. r.by \in Thread
      BY <3>2 DEF InFile, Numbered
    <3>4. Displays(console, r)' \/ Missing(r)'
      BY <3>2, <3>3 DEF Keeps, Displays
    <3>5. QED
      BY <3>1, <3>4 DEF Displays, Missing, Ahead
  <2>3. QED
    BY <2>1, <2>2, PassesRests DEF SameInv, ShownInv
<1>3. QED
  BY <1>1, <1>2 DEF SameInv

LEMMA RestSame == SameInv /\ UNCHANGED chain => SameInv'
<1> SUFFICES ASSUME SameInv, UNCHANGED chain PROVE SameInv'
  OBVIOUS
<1>1. UNCHANGED <<given, todo, pc, inFile, console, begun>>
  BY DEF chain
<1>2. \A r : Keeps(r)
  BY <1>1, PassesRests DEF Keeps, InFile, Shown, Missing, Numbered, AtFile, Ahead
<1>3. GivenInv'
  <2>1. ASSUME NEW t \in Thread
        PROVE  /\ todo'[t] = <<"console">> => Passes(given[t])'
               /\ todo'[t] # <<>> /\ ~AtFile(t)' => Has(inFile, given[t])'
    <3>1. Passes(given[t])' <=> Passes(given[t])
      BY <1>1 DEF Passes, Chain!checkSeverity, Chain!Severity
    <3>2. QED
      BY <1>1, <3>1 DEF SameInv, GivenInv, AtFile, Has
  <2>2. QED
    BY <2>1 DEF GivenInv
<1>4. QED
  BY <1>1, <1>2, <1>3, QuietSame

LEMMA QuietNext ==
  ASSUME StageInv, SameInv, NEW t \in Thread,
         Starts(t) \/ ToSecond(t) \/ Ends(t) \/ Sets(t) \/ Resets(t)
  PROVE  SameInv'
<1>1. UNCHANGED <<inFile, console>>
  BY DEF Starts, ToSecond, Ends, Sets, Resets
\* Others are as they were.
<1>2. /\ \A u \in Thread : u # t =>
          /\ given'[u] = given[u] /\ todo'[u] = todo[u] /\ pc'[u] = pc[u]
          /\ begun'[u] = begun[u]
      /\ \A u \in Thread : begun[u] \in Nat
  BY DEF Starts, ToSecond, Ends, Sets, Resets, StageInv
\* And so is t, or it has begun another one, or is further with the one it has.
<1>3. /\ begun'[t] = begun[t] + 1 /\ todo[t] = <<>> /\ todo'[t] = <<"file", "second">>
      \/ /\ begun'[t] = begun[t] /\ todo'[t] # <<"file", "second">>
         /\ Ahead(t)' => Ahead(t)
  <2>1. CASE Starts(t)
    BY <2>1 DEF Starts, StageInv
  <2>2. CASE ToSecond(t)
    BY <2>2, WaysDiffer DEF ToSecond, StageInv, Ahead
  <2>3. CASE Ends(t) \/ Resets(t)
    BY <2>3, WaysDiffer DEF Ends, Resets, StageInv, Ahead
  <2>4. CASE Sets(t)
    BY <2>4, WaysDiffer DEF Sets, StageInv, Ahead
  <2>5. QED
    BY <2>1, <2>2, <2>3, <2>4
<1>4. ASSUME NEW r, InFile(r) PROVE InFile(r)'
  <2>1. CASE r.by = t
    <3>1. begun[t] \in Nat /\ r.n \in Nat /\ r.n <= begun[t]
      BY <1>2, <1>4, <2>1 DEF InFile, Numbered
    <3>2. QED
      BY <1>3, <1>4, <2>1, <3>1 DEF InFile, Numbered, AtFile
  <2>2. CASE r.by # t
    BY <1>2, <1>4, <2>2 DEF InFile, Numbered, AtFile
  <2>3. QED
    BY <2>1, <2>2
<1>5. ASSUME NEW r, Shown(r) PROVE Shown(r)'
  <2>1. CASE r.by = t
    <3>1. begun[t] \in Nat /\ r.n \in Nat /\ r.n <= begun[t]
      BY <1>2, <1>5, <2>1 DEF Shown, Numbered
    <3>2. QED
      BY <1>3, <1>5, <2>1, <3>1, PassesRests DEF Shown, Numbered
  <2>2. CASE r.by # t
    BY <1>2, <1>5, <2>2, PassesRests DEF Shown, Numbered, Ahead
  <2>3. QED
    BY <2>1, <2>2
<1>6. ASSUME NEW r, Passes(r), r.by \in Thread, Missing(r) PROVE Missing(r)'
  <2>1. CASE r.by # t
    BY <1>2, <1>6, <2>1 DEF Missing, Ahead
  <2>2. CASE r.by = t
    <3>1. r = given[t] /\ Ahead(t)
      BY <1>6, <2>2 DEF Missing
    <3>2. ~Starts(t) /\ ~Ends(t) /\ ~Resets(t)
      BY <3>1, WaysDiffer DEF Ahead, Starts, Ends, Resets
    <3>3. CASE ToSecond(t)
      BY <1>6, <2>2, <3>1, <3>3, WaysDiffer DEF ToSecond, Missing, Ahead, StageInv
    <3>4. CASE Sets(t)
      BY <2>2, <3>1, <3>4, WaysDiffer DEF Sets, Missing, Ahead, StageInv
    <3>5. QED
      BY <3>2, <3>3, <3>4
  <2>3. QED
    BY <2>1, <2>2
<1>7. GivenInv'
  <2>1. ASSUME NEW u \in Thread
        PROVE  /\ todo'[u] = <<"console">> => Passes(given[u])'
               /\ todo'[u] # <<>> /\ ~AtFile(u)' => Has(inFile, given[u])'
    <3>1. CASE given'[u] = given[u] /\ todo'[u] = todo[u]
      <4>1. Passes(given[u])' <=> Passes(given[u])
        BY <3>1 DEF Passes, Chain!checkSeverity, Chain!Severity
      <4>2. QED
        BY <1>1, <3>1, <4>1 DEF SameInv, GivenInv, AtFile, Has
    <3>2. CASE u = t /\ (Starts(t) \/ Ends(t) \/ Resets(t))
      <4>1. todo'[t] = <<"file", "second">> \/ todo'[t] = <<>>
        BY <3>2 DEF Starts, Ends, Resets, StageInv
      <4>2. QED
        BY <3>2, <4>1, WaysDiffer DEF AtFile
    <3>3. CASE u = t /\ ToSecond(t)
      <4>1. /\ todo'[t] = IF Passes(given[t]) THEN <<"console">> ELSE <<>>
            /\ given' = given /\ todo[t] = <<"second">>
        BY <3>3 DEF ToSecond, StageInv
      <4>2. Passes(given[t])' <=> Passes(given[t])
        BY <4>1 DEF Passes, Chain!checkSeverity, Chain!Severity
      <4>3. Has(inFile, given[t])
        BY <4>1, WaysDiffer DEF SameInv, GivenInv, AtFile
      <4>4. Has(inFile, given[t])'
        BY <1>1, <4>1, <4>3 DEF Has
      <4>5. QED
        BY <3>3, <4>1, <4>2, <4>4, WaysDiffer
    <3>4. CASE u # t \/ Sets(t)
      BY <1>2, <3>1, <3>4 DEF Sets
    <3>5. QED
      BY <3>2, <3>3, <3>4
  <2>2. QED
    BY <2>1 DEF GivenInv
<1>8. QED
  BY <1>1, <1>4, <1>5, <1>6, <1>7, QuietSame DEF Keeps

\* A record is written to the file.
LEMMA ToFileSame == ASSUME StageInv, SameInv, NEW t \in Thread, ToFile(t) PROVE SameInv'
<1>1. PICK f, r : f = inFile /\ r = given[t]
  OBVIOUS
<1>2. /\ todo[t] = <<"file", "second">> /\ pc[t] = "idle"
      /\ inFile' = Append(f, r)
      /\ UNCHANGED <<given, pc, console, begun>>
      /\ todo'[t] = <<"second">> /\ \A u \in Thread : u # t => todo'[u] = todo[u]
  BY <1>1 DEF ToFile, StageInv
<1>3. r.by = t /\ r.n = begun[t] /\ r.n \in Nat
  <2>1. given[t] # Chain!NoRecord /\ begun[t] \in Nat
    BY <1>2, WaysDiffer DEF StageInv
  <2>2. QED
    BY <1>1, <2>1 DEF StageInv
<1>4. PICK S : f \in Seq(S)
  BY <1>1 DEF SameInv, FileInv
<1>5. /\ inFile' \in Seq(S \cup {r}) /\ Len(inFile') = Len(f) + 1 /\ Len(f) \in Nat
      /\ inFile'[Len(f) + 1] = r
      /\ \A i \in 1 .. Len(f) : inFile'[i] = f[i]
  <2>1. f \in Seq(S \cup {r})
    BY <1>4
  <2>2. QED
    BY <1>2, <2>1, AppendProperties
<1>6. ASSUME NEW q, Has(f, q) \/ q = r PROVE Has(inFile, q)'
  BY <1>5, <1>6 DEF Has
<1>7. Ahead(t) /\ Ahead(t)' /\ AtFile(t) /\ ~AtFile(t)'
      /\ \A u \in Thread : u # t => (Ahead(u)' <=> Ahead(u)) /\ (AtFile(u)' <=> AtFile(u))
  BY <1>2, WaysDiffer DEF Ahead, AtFile
<1>8. ASSUME NEW q, InFile(q) PROVE InFile(q)'
  BY <1>2, <1>7, <1>8 DEF InFile, Numbered
<1>9. ASSUME NEW q, Shown(q) PROVE Shown(q)'
  BY <1>2, <1>7, <1>9, PassesRests DEF Shown, Numbered
<1>10. InFile(r)'
  <2>1. begun'[r.by] = r.n /\ ~AtFile(r.by)' /\ r.n <= r.n
    BY <1>2, <1>3, <1>7
  <2>2. QED
    BY <1>3, <2>1 DEF InFile, Numbered
<1>11. \A i \in 1 .. Len(f) : InFile(f[i]) /\ Follows(f[i], r)
  <2>1. ASSUME NEW i \in 1 .. Len(f) PROVE InFile(f[i]) /\ Follows(f[i], r)
    <3>1. InFile(f[i])
      BY <1>1 DEF SameInv, FileInv
    <3>2. QED
      BY <1>3, <1>7, <3>1 DEF InFile, Follows
  <2>2. QED
    BY <2>1
<1>12. \A i, j \in 1 .. Len(f) : i < j => Follows(f[i], f[j])
  BY <1>1 DEF SameInv, FileInv
<1>13. FileInv'
  <2>1. ASSUME NEW i \in 1 .. Len(f) + 1 PROVE InFile(inFile[i])'
    <3>1. PICK q : q = inFile'[i] /\ InFile(q)'
      <4>1. CASE i = Len(f) + 1
        BY <1>5, <1>10, <4>1
      <4>2. CASE i # Len(f) + 1
        <5>1. i \in 1 .. Len(f)
          BY <1>5, <4>2
        <5>2. InFile(f[i])'
          BY <1>8, <1>11, <5>1
        <5>3. QED
          BY <1>5, <5>1, <5>2
      <4>3. QED
        BY <4>1, <4>2
    <3>2. QED
      BY <3>1 DEF InFile, Numbered, AtFile
  <2>2. ASSUME NEW i \in 1 .. Len(f) + 1, NEW j \in 1 .. Len(f) + 1, i < j
        PROVE  Follows(inFile'[i], inFile'[j])
    <3>1. i \in 1 .. Len(f)
      BY <1>5, <2>2
    <3>2. CASE j = Len(f) + 1
      BY <1>5, <1>11, <3>1, <3>2
    <3>3. CASE j # Len(f) + 1
      <4>1. j \in 1 .. Len(f)
        BY <1>5, <3>3
      <4>2. QED
        BY <1>5, <1>12, <2>2, <3>1, <4>1
    <3>4. QED
      BY <3>2, <3>3
  <2>3. QED
    BY <1>5, <2>1, <2>2 DEF FileInv, Follows
<1>14. GivenInv'
  <2>1. ASSUME NEW u \in Thread
        PROVE  /\ todo'[u] = <<"console">> => Passes(given[u])'
               /\ todo'[u] # <<>> /\ ~AtFile(u)' => Has(inFile, given[u])'
    <3>1. PICK q : q = given[u]
      OBVIOUS
    <3>2. CASE u = t
      <4>1. Has(inFile, q)' /\ given'[u] = q
        BY <1>1, <1>2, <1>6, <3>1, <3>2
      <4>2. Has(inFile, given[u])'
        BY <4>1 DEF Has
      <4>3. QED
        BY <1>2, <3>2, <4>2, WaysDiffer
    <3>3. CASE u # t
      <4>1. /\ todo[u] = <<"console">> => Passes(q)
            /\ todo[u] # <<>> /\ ~AtFile(u) => Has(f, q)
        BY <1>1, <3>1 DEF SameInv, GivenInv
      <4>2. todo'[u] = todo[u] /\ (AtFile(u)' <=> AtFile(u)) /\ given'[u] = q
        BY <1>2, <1>7, <3>1, <3>3
      <4>3. /\ todo'[u] = <<"console">> => Passes(q)'
            /\ todo'[u] # <<>> /\ ~AtFile(u)' => Has(inFile, q)'
        BY <1>6, <4>1, <4>2, PassesRests
      <4>4. QED
        BY <4>2, <4>3 DEF Has, Passes, Chain!checkSeverity, Chain!Severity
    <3>4. QED
      BY <3>2, <3>3
  <2>2. QED
    BY <2>1 DEF GivenInv
<1>15. ShownInv'
  <2>1. ASSUME NEW i \in 1 .. Len(console)
        PROVE  Shown(console[i].record)' /\ Has(inFile, console[i].record)'
    <3>1. PICK q : q = console[i].record
      OBVIOUS
    <3>2. Shown(q) /\ Has(f, q)
      BY <1>1, <3>1 DEF SameInv, ShownInv
    <3>3. Shown(q)' /\ Has(inFile, q)' /\ q = console'[i].record
      BY <1>2, <1>6, <1>9, <3>1, <3>2
    <3>4. QED
      BY <3>3 DEF Shown, Numbered, Passes, Chain!checkSeverity, Chain!Severity, Ahead, Has
  <2>2. ASSUME NEW i \in 1 .. Len(f) + 1, Passes(inFile[i])'
        PROVE  Displays(console, inFile[i])' \/ Missing(inFile[i])'
    <3>1. PICK q : q = inFile'[i]
      OBVIOUS
    <3>2. Passes(q)
      BY <2>2, <3>1 DEF Passes, Chain!checkSeverity, Chain!Severity
    <3>3. Displays(console, q)' \/ Missing(q)'
      <4>1. CASE i = Len(f) + 1
        BY <1>1, <1>2, <1>3, <1>5, <1>7, <3>1, <4>1 DEF Missing
      <4>2. CASE i # Len(f) + 1
        <5>1. i \in 1 .. Len(f) /\ q = f[i]
          BY <1>5, <3>1, <4>2
        <5>2. (Displays(console, q) \/ Missing(q)) /\ q.by \in Thread
          BY <1>1, <1>11, <3>2, <5>1 DEF SameInv, ShownInv, InFile, Numbered
        <5>3. QED
          BY <1>2, <1>7, <5>2 DEF Displays, Missing
      <4>3. QED
        BY <4>1, <4>2
    <3>4. QED
      BY <3>1, <3>3 DEF Displays, Missing, Ahead
  <2>3. \A i, j \in 1 .. Len(console') : i < j => Follows(console[i].record, console[j].record)'
    BY <1>2 DEF SameInv, ShownInv, Follows
  <2>4. (\E T : console \in Seq(T))'
    BY <1>2 DEF SameInv, ShownInv
  <2>5. QED
    BY <1>2, <1>5, <2>1, <2>2, <2>3, <2>4 DEF ShownInv
<1>16. QED
  BY <1>13, <1>14, <1>15 DEF SameInv

\* A record is written to the console.
LEMMA ShowsSame == ASSUME StageInv, SameInv, NEW t \in Thread, Shows(t) PROVE SameInv'
<1>1. PICK c, r, line :
        c = console /\ r = given[t] /\ line = [record |-> r, color |-> color]
  OBVIOUS
<1>2. /\ todo[t] = <<"console">> /\ pc[t] = "writestr"
      /\ console' = Append(c, line)
      /\ UNCHANGED <<given, todo, inFile, begun>>
      /\ pc'[t] = "resetColor" /\ \A u \in Thread : u # t => pc'[u] = pc[u]
  BY <1>1 DEF Shows, StageInv
<1>3. r.by = t /\ r.n = begun[t] /\ r.n \in Nat /\ Passes(r) /\ Has(inFile, r) /\ line.record = r
  <2>1. given[t] # Chain!NoRecord /\ begun[t] \in Nat
    BY <1>2, WaysDiffer DEF StageInv
  <2>2. r.by = t /\ r.n = begun[t]
    BY <1>1, <2>1 DEF StageInv
  <2>3. Passes(r) /\ Has(inFile, r)
    BY <1>1, <1>2, WaysDiffer DEF SameInv, GivenInv, AtFile
  <2>4. QED
    BY <1>1, <2>1, <2>2, <2>3
<1>4. PICK S : c \in Seq(S)
  BY <1>1 DEF SameInv, ShownInv
<1>5. /\ console' \in Seq(S \cup {line}) /\ Len(console') = Len(c) + 1 /\ Len(c) \in Nat
      /\ console'[Len(c) + 1] = line
      /\ \A i \in 1 .. Len(c) : console'[i] = c[i]
  <2>1. c \in Seq(S \cup {line})
    BY <1>4
  <2>2. QED
    BY <1>2, <2>1, AppendProperties
<1>6. Ahead(t) /\ ~Ahead(t)' /\ (\A u \in Thread : u # t => (Ahead(u)' <=> Ahead(u)))
      /\ \A u \in Thread : AtFile(u)' <=> AtFile(u)
  BY <1>2, WaysDiffer DEF Ahead, AtFile
<1>7. ASSUME NEW q, InFile(q) PROVE InFile(q)'
  BY <1>2, <1>6, <1>7 DEF InFile, Numbered
<1>8. ASSUME NEW q, Shown(q) PROVE Shown(q)'
  BY <1>2, <1>6, <1>8, PassesRests DEF Shown, Numbered
<1>9. Shown(r)'
  <2>1. begun'[r.by] = r.n /\ ~Ahead(r.by)' /\ r.n <= r.n
    BY <1>2, <1>3, <1>6
  <2>2. QED
    BY <1>3, <2>1, PassesRests DEF Shown, Numbered
<1>10. \A i \in 1 .. Len(c) : /\ Shown(c[i].record) /\ Has(inFile, c[i].record)
                              /\ Follows(c[i].record, r)
  <2>1. ASSUME NEW i \in 1 .. Len(c)
        PROVE  Shown(c[i].record) /\ Has(inFile, c[i].record) /\ Follows(c[i].record, r)
    <3>1. Shown(c[i].record) /\ Has(inFile, c[i].record)
      BY <1>1 DEF SameInv, ShownInv
    <3>2. QED
      BY <1>3, <1>6, <3>1 DEF Shown, Follows
  <2>2. QED
    BY <2>1
<1>11. \A i, j \in 1 .. Len(c) : i < j => Follows(c[i].record, c[j].record)
  BY <1>1 DEF SameInv, ShownInv
<1>12. ASSUME NEW q, Displays(c, q) \/ q = r PROVE Displays(console, q)'
  BY <1>3, <1>5, <1>12 DEF Displays
<1>13. FileInv'
  BY <1>2, <1>7 DEF SameInv, FileInv
<1>14. GivenInv'
  <2>1. ASSUME NEW u \in Thread
        PROVE  /\ todo'[u] = <<"console">> => Passes(given[u])'
               /\ todo'[u] # <<>> /\ ~AtFile(u)' => Has(inFile, given[u])'
    <3>1. Passes(given[u])' <=> Passes(given[u])
      BY <1>2 DEF Passes, Chain!checkSeverity, Chain!Severity
    <3>2. QED
      BY <1>2, <3>1 DEF SameInv, GivenInv, AtFile, Has
  <2>2. QED
    BY <2>1 DEF GivenInv
<1>15. ShownInv'
  <2>1. ASSUME NEW i \in 1 .. Len(c) + 1
        PROVE  Shown(console[i].record)' /\ Has(inFile, console[i].record)'
    <3>1. PICK q : q = console'[i].record
      OBVIOUS
    <3>2. Shown(q)' /\ Has(inFile, q)
      <4>1. CASE i = Len(c) + 1
        BY <1>3, <1>5, <1>9, <3>1, <4>1
      <4>2. CASE i # Len(c) + 1
        <5>1. i \in 1 .. Len(c) /\ q = c[i].record
          BY <1>5, <3>1, <4>2
        <5>2. QED
          BY <1>8, <1>10, <5>1
      <4>3. QED
        BY <4>1, <4>2
    <3>3. Has(inFile, q)'
      BY <1>2, <3>2 DEF Has
    <3>4. QED
      BY <3>1, <3>2, <3>3
         DEF Shown, Numbered, Passes, Chain!checkSeverity, Chain!Severity, Ahead, Has
  <2>2. ASSUME NEW i \in 1 .. Len(c) + 1, NEW j \in 1 .. Len(c) + 1, i < j
        PROVE  Follows(console'[i].record, console'[j].record)
    <3>1. i \in 1 .. Len(c)
      BY <1>5, <2>2
    <3>2. CASE j = Len(c) + 1
      BY <1>3, <1>5, <1>10, <3>1, <3>2
    <3>3. CASE j # Len(c) + 1
      <4>1. j \in 1 .. Len(c)
        BY <1>5, <3>3
      <4>2. QED
        BY <1>5, <1>11, <2>2, <3>1, <4>1
    <3>4. QED
      BY <3>2, <3>3
  <2>3. ASSUME NEW i \in 1 .. Len(inFile), Passes(inFile[i])'
        PROVE  Displays(console, inFile[i])' \/ Missing(inFile[i])'
    <3>1. PICK q : q = inFile[i]
      OBVIOUS
    <3>2. q = inFile'[i] /\ Passes(q)
      BY <1>2, <2>3, <3>1 DEF Passes, Chain!checkSeverity, Chain!Severity
    <3>3. (Displays(c, q) \/ Missing(q)) /\ q.by \in Thread
      BY <1>1, <3>1, <3>2 DEF SameInv, ShownInv, FileInv, InFile, Numbered
    <3>4. Displays(console, q)' \/ Missing(q)'
      <4>1. CASE Displays(c, q) \/ q = r
        BY <1>12, <4>1
      <4>2. CASE Missing(q) /\ q # r
        <5>1. q.by # t
          BY <1>1, <4>2 DEF Missing
        <5>2. QED
          BY <1>2, <1>6, <3>3, <4>2, <5>1 DEF Missing
      <4>3. QED
        BY <3>3, <4>1, <4>2
    <3>5. QED
      BY <3>2, <3>4 DEF Displays, Missing, Ahead
  <2>4. QED
    BY <1>2, <1>5, <2>1, <2>2, <2>3 DEF ShownInv, Follows
<1>16. QED
  BY <1>13, <1>14, <1>15 DEF SameInv

LEMMA NextSame == StageInv /\ SameInv /\ [Chain!Next]_chain => SameInv'
BY RestSame, QuietNext, ToFileSame, ShowsSame, StepsAre DEF Steps

\* Whichever limits, severities and records there are, and whoever writes when:
\* the console shows each record that is in the file and that the second logger
\* lets pass, once and in the order of its thread, up to one per thread that is
\* under way.
THEOREM SameRecordsCorrect == LoggerSpec => []SameRecords
<1>1. LoggerInit => StageInv /\ SameInv
  BY InitStage, InitSame DEF LoggerInit
<1>2. StageInv /\ SameInv /\ [LoggerNext]_<<vars, chain>> => StageInv' /\ SameInv'
  <2>1. [LoggerNext]_<<vars, chain>> => [Chain!Next]_chain
    BY DEF LoggerNext
  <2>2. QED
    BY <2>1, NextStage, NextSame
<1>3. StageInv /\ SameInv => SameRecords
  <2>1. SUFFICES ASSUME StageInv, SameInv PROVE SameRecords
    OBVIOUS
  <2>2. DOMAIN inFile = 1 .. Len(inFile) /\ DOMAIN console = 1 .. Len(console)
    BY <2>1 DEF SameInv, FileInv, ShownInv
  <2> DEFINE on == [i \in DOMAIN console |-> console[i].record]
  <2>3. DOMAIN on = 1 .. Len(console) /\ \A i \in 1 .. Len(console) : on[i] = console[i].record
    BY <2>2
  <2> HIDE DEF on
  <2>4. Chain!InOrder(inFile)
    BY <2>1, <2>2 DEF Chain!InOrder, SameInv, FileInv, Follows
  <2>5. Chain!InOrder(on)
    BY <2>1, <2>3 DEF Chain!InOrder, SameInv, ShownInv, Follows
  <2> DEFINE due == {r \in Chain!Range(inFile) : Passes(r)}
  <2>6. Chain!Range(on) \subseteq due
    <3>1. SUFFICES ASSUME NEW i \in 1 .. Len(console) PROVE on[i] \in due
      BY <2>3 DEF Chain!Range
    <3>2. Passes(on[i]) /\ Has(inFile, on[i])
      BY <2>1, <2>3 DEF SameInv, ShownInv, Shown
    <3>3. QED
      BY <2>2, <3>2 DEF Chain!Range, Has
  <2>7. ASSUME NEW r \in due \ Chain!Range(on) PROVE r = given[r.by]
    <3>1. PICK i \in 1 .. Len(inFile) : r = inFile[i]
      BY <2>2 DEF Chain!Range
    <3>2. Displays(console, r) \/ Missing(r)
      BY <2>1, <3>1 DEF SameInv, ShownInv
    <3>3. ~Displays(console, r)
      BY <2>3, <2>7 DEF Chain!Range, Displays
    <3>4. QED
      BY <3>2, <3>3 DEF Missing
  <2>8. Chain!OnConsole = on
    BY DEF Chain!OnConsole, on
  <2>9. due = {r \in Chain!Range(inFile) : Chain!checkSeverity("second", r.severity)}
    BY DEF Passes
  <2> HIDE DEF due
  <2>10. QED
    BY <2>4, <2>5, <2>6, <2>7, <2>8, <2>9 DEF SameRecords, Chain!SameRecords
<1>4. QED
  BY <1>1, <1>2, <1>3, PTL DEF LoggerSpec

=============================================================================
