-------------------------- MODULE ClientTextProofs --------------------------
(***************************************************************************)
(* What becomes of the texts a user enters: the addresses that checkIp     *)
(* accepts, and the names and lines that a receiver is shown, whatever     *)
(* their length.                                                           *)
(***************************************************************************)
EXTENDS ClientText, SequenceTheorems, WellFoundedInduction, TLAPS

-----------------------------------------------------------------------------
(* Addresses.                                                              *)

\* What the digits of an octet add up to.
LEMMA ValueIs ==
  ASSUME NEW o \in Seq(0 .. 9), NEW l \in 1 .. 3, Len(o) = l
  PROVE  Address!Value(o) = IF l = 1 THEN o[1]
                            ELSE IF l = 2 THEN 10 * o[1] + o[2]
                            ELSE 10 * (10 * o[1] + o[2]) + o[3]
<1> DEFINE N == 0 .. l
           Is(f) == f = [n \in N |-> IF n = 0 THEN 0 ELSE 10 * f[n - 1] + o[n]]
           g == [n \in N |-> IF n = 0 THEN 0
                             ELSE IF n = 1 THEN o[1]
                             ELSE IF n = 2 THEN 10 * o[1] + o[2]
                             ELSE 10 * (10 * o[1] + o[2]) + o[3]]
<1>1. \A n \in 1 .. l : o[n] \in 0 .. 9
  BY ElementOfSeq
<1>2. \A n \in N : g[n] = IF n = 0 THEN 0 ELSE 10 * g[n - 1] + o[n]
  <2>1. g[0] = 0 /\ g[1] = o[1]
    OBVIOUS
  <2>2. l >= 2 => g[2] = 10 * o[1] + o[2]
    OBVIOUS
  <2>3. l = 3 => g[3] = 10 * (10 * o[1] + o[2]) + o[3]
    OBVIOUS
  <2>4. o[1] \in Nat /\ N \subseteq {0, 1, 2, 3}
    BY <1>1
  <2> HIDE DEF g
  <2>5. ASSUME NEW n \in N PROVE g[n] = IF n = 0 THEN 0 ELSE 10 * g[n - 1] + o[n]
    <3>1. CASE n = 0
      BY <2>1, <3>1
    <3>2. CASE n = 1
      <4>1. n - 1 = 0 /\ 10 * 0 + o[1] = o[1]
        BY <2>4, <3>2
      <4>2. QED
        BY <2>1, <3>2, <4>1
    <3>3. CASE n = 2
      <4>1. n - 1 = 1 /\ l >= 2
        BY <3>3
      <4>2. QED
        BY <2>1, <2>2, <3>3, <4>1
    <3>4. CASE n = 3
      <4>1. n - 1 = 2 /\ l = 3
        BY <3>4
      <4>2. QED
        BY <2>2, <2>3, <3>4, <4>1
    <3>5. QED
      BY <2>4, <3>1, <3>2, <3>3, <3>4
  <2>6. QED
    BY <2>5
<1>3. Is(g)
  BY <1>2
<1>4. PICK f : Is(f) /\ Address!Value(o) = f[l]
  <2>1. Is(CHOOSE f : Is(f))
    BY <1>3
  <2>2. Address!Value(o) = (CHOOSE f : Is(f))[l]
    BY DEF Address!Value
  <2>3. QED
    BY <2>1, <2>2
<1> HIDE DEF g
<1>5. \A n \in N : f[n] = IF n = 0 THEN 0 ELSE 10 * f[n - 1] + o[n]
  BY <1>4
<1>6. f[0] = 0 /\ f[1] = 10 * f[0] + o[1]
  <2>1. 0 \in N /\ 1 \in N /\ 1 - 1 = 0
    OBVIOUS
  <2>2. QED
    BY <1>5, <2>1
<1>7. f[1] = o[1]
  BY <1>1, <1>6
<1>8. l >= 2 => f[2] = 10 * o[1] + o[2]
  <2>1. l >= 2 => 2 \in N /\ 2 - 1 = 1
    OBVIOUS
  <2>2. QED
    BY <1>5, <1>7, <2>1
<1>9. l = 3 => f[3] = 10 * (10 * o[1] + o[2]) + o[3]
  <2>1. l = 3 => 3 \in N /\ 3 - 1 = 2
    OBVIOUS
  <2>2. QED
    BY <1>5, <1>8, <2>1
<1>10. QED
  BY <1>4, <1>7, <1>8, <1>9

\* The pattern for an octet matches the numbers up to 255, of one to three
\* digits.
LEMMA RangeIsOctet ==
  ASSUME NEW o \in Seq(0 .. 9)
  PROVE  Address!ipRange(o) <=> Len(o) \in 1 .. 3 /\ Address!Value(o) <= 255
<1>1. \A n \in 1 .. Len(o) : o[n] \in 0 .. 9
  BY ElementOfSeq
<1>2. CASE Len(o) \in 1 .. 2
  <2>1. Address!Value(o) \in Nat /\ Address!Value(o) <= 99
    <3>1. PICK l \in 1 .. 3 : Len(o) = l /\ l # 3
      BY <1>2
    <3>2. Address!Value(o) = IF l = 1 THEN o[1]
                             ELSE IF l = 2 THEN 10 * o[1] + o[2]
                             ELSE 10 * (10 * o[1] + o[2]) + o[3]
      BY <3>1, ValueIs
    <3>3. o[1] \in 0 .. 9 /\ (l = 2 => o[2] \in 0 .. 9)
      BY <1>1, <3>1
    <3>4. QED
      BY <3>1, <3>2, <3>3, SMTT(30)
  <2>2. QED
    BY <1>2, <2>1 DEF Address!ipRange
<1>3. CASE Len(o) = 3
  <2>1. PICK a \in 0 .. 9, b \in 0 .. 9, c \in 0 .. 9 : a = o[1] /\ b = o[2] /\ c = o[3]
    BY <1>1, <1>3
  <2>2. Address!Value(o) = 10 * (10 * a + b) + c
    <3>1. PICK l \in 1 .. 3 : Len(o) = l /\ l = 3
      BY <1>3
    <3>2. Address!Value(o) = 10 * (10 * o[1] + o[2]) + o[3]
      BY <3>1, ValueIs
    <3>3. QED
      BY <2>1, <3>2
  <2>3. Address!ipRange(o) <=>
          a \in 0 .. 1 \/ (a = 2 /\ b \in 0 .. 4) \/ (a = 2 /\ b = 5 /\ c \in 0 .. 5)
    BY <1>3, <2>1 DEF Address!ipRange
  <2>4. 10 * (10 * a + b) + c <= 255 <=>
          a \in 0 .. 1 \/ (a = 2 /\ b \in 0 .. 4) \/ (a = 2 /\ b = 5 /\ c \in 0 .. 5)
    OBVIOUS
  <2>5. QED
    BY <1>3, <2>2, <2>3, <2>4
<1>4. CASE Len(o) \notin 1 .. 3
  BY <1>4 DEF Address!ipRange
<1>5. QED
  BY <1>2, <1>3, <1>4

\* As many octets as have been typed are to the pattern what they are to a
\* reader, and the verdict is about them.
AddressInv ==
  /\ octet \in Seq(Address!Digit)
  /\ before \in Address!Octet /\ (before.matched <=> before.decimal)
  /\ AcceptsExactlyAddresses

LEMMA AnswerIs ==
  AddressInv =>
    Address!Answer \in Address!Octet /\ (Address!Answer.matched <=> Address!Answer.decimal)
<1> SUFFICES ASSUME AddressInv
             PROVE  /\ Address!Answer \in Address!Octet
                    /\ Address!Answer.matched <=> Address!Answer.decimal
  OBVIOUS
<1> DEFINE r == Address!Reading(octet)
<1>1. /\ r.matched = Address!ipRange(octet)
      /\ r.decimal = (Len(octet) \in 1 .. 3 /\ Address!Value(octet) <= 255)
  BY DEF Address!Reading
<1>2. r.matched \in BOOLEAN /\ r.decimal \in BOOLEAN
  BY <1>1 DEF Address!ipRange
<1>3. r.matched <=> r.decimal
  BY <1>1, RangeIsOctet DEF AddressInv, Address!Digit
<1> HIDE DEF r
<1>4. Address!Answer = [k \in DOMAIN before |-> before[k] /\ r[k]]
  BY DEF Address!Answer, Address!Both, r
<1>5. DOMAIN before = {"matched", "decimal"}
  BY DEF AddressInv, Address!Octet
<1>6. QED
  BY <1>2, <1>3, <1>4, <1>5 DEF AddressInv, Address!Octet

LEMMA InitAddress == Address!Init => AddressInv
<1> SUFFICES ASSUME Address!Init PROVE AddressInv
  OBVIOUS
<1>1. octet = <<>> /\ before = Address!All /\ ipVerdict = "none"
  BY DEF Address!Init
<1>2. octet \in Seq(Address!Digit)
  BY <1>1
<1>3. before \in Address!Octet /\ (before.matched <=> before.decimal)
  BY <1>1 DEF Address!All, Address!Octet
<1>4. QED
  BY <1>1, <1>2, <1>3 DEF AddressInv, AcceptsExactlyAddresses, Address!AcceptsExactlyAddresses

\* The verdict stays right while the answer is what it was.
LEMMA RestAddress ==
  AddressInv /\ UNCHANGED <<octet, dots, before, ipVerdict>> => AddressInv'
BY DEF AddressInv, AcceptsExactlyAddresses, Address!AcceptsExactlyAddresses,
       Address!EmptyLine, Address!Answer

LEMMA NextAddress == AddressInv /\ [Address!Next]_address => AddressInv'
<1> SUFFICES ASSUME AddressInv, [Address!Next]_address PROVE AddressInv'
  OBVIOUS
<1> USE DEF AcceptsExactlyAddresses, Address!AcceptsExactlyAddresses
<1>1. CASE Address!GoOn \/ Address!Signal \/ UNCHANGED address
  <2>1. UNCHANGED <<octet, dots, before, ipVerdict>>
    BY <1>1 DEF Address!GoOn, Address!Signal, Address!line, address
  <2>2. QED
    BY <2>1, RestAddress
<1>2. ASSUME NEW d \in Address!Digit, Address!TypeDigit(d) PROVE AddressInv'
  <2>1. octet' = Append(octet, d) /\ before' = before /\ ipVerdict' = "none"
    BY <1>2 DEF Address!TypeDigit
  <2>2. octet' \in Seq(Address!Digit)
    BY <2>1, AppendProperties DEF AddressInv
  <2>3. QED
    BY <2>1, <2>2 DEF AddressInv
<1>3. CASE Address!TypeDot
  <2>1. octet' = <<>> /\ before' = Address!Answer /\ ipVerdict' = "none"
    BY <1>3 DEF Address!TypeDot
  <2>2. QED
    BY <2>1, AnswerIs DEF AddressInv
<1>4. CASE Address!Enter
  <2>1. /\ UNCHANGED <<octet, dots, before>>
        /\ ipVerdict' = IF Address!EmptyLine \/ (dots = 3 /\ Address!Answer.matched)
                        THEN "valid" ELSE "invalid"
    BY <1>4 DEF Address!Enter, Address!line
  <2>2. (Address!EmptyLine' <=> Address!EmptyLine) /\ Address!Answer' = Address!Answer
    BY <2>1 DEF Address!EmptyLine, Address!Answer
  <2>3. ipVerdict' = "valid" <=> Address!EmptyLine \/ (dots = 3 /\ Address!Answer.decimal)
    BY <2>1, AnswerIs
  <2>4. QED
    BY <2>1, <2>2, <2>3 DEF AddressInv
<1>5. CASE Address!AskAgain
  <2>1. octet' = <<>> /\ before' = Address!All /\ ipVerdict' = "none"
    BY <1>5 DEF Address!AskAgain
  <2>2. octet' \in Seq(Address!Digit)
    BY <2>1
  <2>3. before' \in Address!Octet /\ (before'.matched <=> before'.decimal)
    BY <2>1 DEF Address!All, Address!Octet
  <2>4. QED
    BY <2>1, <2>2, <2>3 DEF AddressInv
<1>6. QED
  BY <1>1, <1>2, <1>3, <1>4, <1>5 DEF Address!Next

\* checkIp accepts just the empty answer and four numbers up to 255, of one to
\* three digits each, however long the answer is and whatever was asked before.
THEOREM AddressesCorrect == TextSpec => []AcceptsExactlyAddresses
<1>1. TextInit => AddressInv
  BY InitAddress DEF TextInit
<1>2. AddressInv /\ [TextNext]_<<messageVars, address>> => AddressInv'
  <2>1. SUFFICES ASSUME AddressInv, [TextNext]_<<messageVars, address>> PROVE AddressInv'
    OBVIOUS
  <2>2. [Address!Next]_address
    BY <2>1 DEF TextNext
  <2>3. QED
    BY <2>1, <2>2, NextAddress
<1>3. AddressInv => AcceptsExactlyAddresses
  BY DEF AddressInv
<1>4. QED
  BY <1>1, <1>2, <1>3, PTL DEF TextSpec

-----------------------------------------------------------------------------
(* Finding a byte.                                                         *)

Byte == Letter \cup White \cup {Zero} \cup Range(User) \cup Range(g_serverFilter)
Dark == Byte \ White   \* bytes that are no white space
Sound == Byte \ {Zero} \* bytes that do not end a string

LEMMA BytesAre ==
  /\ User \in Seq(Dark \cap Sound) /\ User # <<>>
  /\ g_serverFilter \in Seq(Dark \cap Sound) /\ g_serverFilter # <<>>
  /\ Visible \subseteq Dark \cap Sound
  /\ White \subseteq Sound /\ Sound \subseteq Byte /\ Dark \subseteq Byte
  /\ Space \in White /\ Tab \in White /\ NewLine \in White
  /\ Space # NewLine /\ Tab # NewLine /\ Zero \in Dark
<1>1. /\ Zero \notin White /\ Space \in White /\ Tab \in White /\ NewLine \in White
      /\ Space # NewLine /\ Tab # NewLine
  BY DEF White, Space, Tab, NewLine, Zero
<1>2. User \in Seq(Dark \cap Sound) /\ User # <<>>
  <2>1. "User" \in Range(User) /\ "User" \notin White /\ "User" # Zero
    BY DEF User, White, Space, Tab, NewLine, Zero, Range
  <2>2. "User" \in Dark \cap Sound
    BY <2>1 DEF Dark, Sound, Byte
  <2>3. QED
    BY <2>2 DEF User
<1>3. g_serverFilter \in Seq(Dark \cap Sound) /\ g_serverFilter # <<>>
  <2>1. /\ "_from_server_" \in Range(g_serverFilter)
        /\ "_from_server_" \notin White /\ "_from_server_" # Zero
    BY DEF g_serverFilter, White, Space, Tab, NewLine, Zero, Range
  <2>2. "_from_server_" \in Dark \cap Sound
    BY <2>1 DEF Dark, Sound, Byte
  <2>3. QED
    BY <2>2 DEF g_serverFilter
<1>4. Visible \subseteq Dark \cap Sound
  BY DEF Visible, Dark, Sound, Byte
<1>5. White \subseteq Sound /\ Sound \subseteq Byte /\ Dark \subseteq Byte /\ Zero \in Dark
  BY <1>1 DEF Dark, Sound, Byte
<1>6. QED
  BY <1>1, <1>2, <1>3, <1>4, <1>5

\* A set of numbers that reaches up from 0 to the next is all of 0 .. m.
LEMMA Upwards ==
  ASSUME NEW m \in Nat, NEW T, T \subseteq 0 .. m, 0 \in T,
         \A k \in 1 .. m : k - 1 \in T => k \in T
  PROVE  T = 0 .. m
<1> DEFINE R == OpToRel(<, Nat)
           Missing == (0 .. m) \ T
<1>1. IsWellFoundedOn(R, Nat)
  BY NatLessThanWellFounded
<1>2. \A x, y \in Nat : <<y, x>> \in R <=> y < x
  BY DEF OpToRel
<1> HIDE DEF R
<1>3. ASSUME Missing # {} PROVE FALSE
  <2>1. Missing \subseteq Nat
    OBVIOUS
  <2>2. PICK i \in Missing : \A j \in Missing : ~ (<<j, i>> \in R)
    BY <1>1, <1>3, <2>1, WFMin
  <2>3. i \in 1 .. m /\ i \notin T
    OBVIOUS
  <2>4. i - 1 \notin Missing
    <3>1. i \in Nat /\ i - 1 \in Nat /\ i - 1 < i
      BY <2>3
    <3>2. QED
      BY <1>2, <2>2, <3>1
  <2>5. i - 1 \in T
    BY <2>3, <2>4
  <2>6. QED
    BY <2>3, <2>5
<1>4. QED
  BY <1>3

\* k is the first place of a byte of B in s, or the place behind s.
First(s, B, k) ==
  /\ k \in 1 .. Len(s) + 1
  /\ \A j \in 1 .. k - 1 : s[j] \notin B
  /\ k <= Len(s) => s[k] \in B

LEMMA OneFirst ==
  ASSUME NEW S, NEW s \in Seq(S), NEW B, NEW k, NEW l, First(s, B, k), First(s, B, l)
  PROVE  k = l
<1>1. Len(s) \in Nat
  OBVIOUS
<1>2. k \in Nat /\ l \in Nat /\ k <= Len(s) + 1 /\ l <= Len(s) + 1 /\ k >= 1 /\ l >= 1
  BY <1>1 DEF First
<1>3. ~ (k < l)
  <2>1. SUFFICES ASSUME k < l PROVE FALSE
    OBVIOUS
  <2>2. k \in 1 .. l - 1 /\ k <= Len(s)
    BY <1>1, <1>2, <2>1
  <2>3. QED
    BY <2>2 DEF First
<1>4. ~ (l < k)
  <2>1. SUFFICES ASSUME l < k PROVE FALSE
    OBVIOUS
  <2>2. l \in 1 .. k - 1 /\ l <= Len(s)
    BY <1>1, <1>2, <2>1
  <2>3. QED
    BY <2>2 DEF First
<1>5. QED
  BY <1>2, <1>3, <1>4

LEMMA FirstInIs ==
  ASSUME NEW S, NEW s \in Seq(S), NEW B PROVE First(s, B, FirstIn(s, B))
<1>1. DOMAIN s = 1 .. Len(s) /\ Len(s) \in Nat
  OBVIOUS
<1>2. CASE \E i \in DOMAIN s : s[i] \in B
  <2> DEFINE T == {k \in 0 .. Len(s) : \A j \in 1 .. k : s[j] \notin B}
  <2>1. \E i \in DOMAIN s : s[i] \in B /\ \A j \in 1 .. i - 1 : s[j] \notin B
    <3>1. SUFFICES ASSUME \A i \in 1 .. Len(s) : s[i] \in B =>
                            \E j \in 1 .. i - 1 : s[j] \in B
                   PROVE  FALSE
      BY <1>1
    <3>2. 0 \in T /\ T \subseteq 0 .. Len(s)
      BY <1>1
    <3>3. ASSUME NEW k \in 1 .. Len(s), k - 1 \in T PROVE k \in T
      <4>1. \A j \in 1 .. k - 1 : s[j] \notin B
        BY <3>3
      <4>2. s[k] \notin B
        BY <3>1, <4>1
      <4>3. QED
        BY <1>1, <4>1, <4>2
    <3>4. T = 0 .. Len(s)
      <4> HIDE DEF T
      <4>1. QED
        BY <1>1, <3>2, <3>3, Upwards
    <3>5. Len(s) \in T
      BY <1>1, <3>4
    <3>6. QED
      BY <1>1, <1>2, <3>5
  <2>2. FirstIn(s, B) = CHOOSE i \in DOMAIN s : s[i] \in B /\ \A j \in 1 .. i - 1 : s[j] \notin B
    BY <1>2 DEF FirstIn
  <2>3. /\ FirstIn(s, B) \in DOMAIN s /\ s[FirstIn(s, B)] \in B
        /\ \A j \in 1 .. FirstIn(s, B) - 1 : s[j] \notin B
    BY <2>1, <2>2
  <2>4. QED
    BY <1>1, <2>3 DEF First
<1>3. CASE ~ \E i \in DOMAIN s : s[i] \in B
  <2>1. FirstIn(s, B) = Len(s) + 1
    BY <1>3 DEF FirstIn
  <2>2. \A j \in 1 .. Len(s) : s[j] \notin B
    BY <1>1, <1>3
  <2>3. QED
    BY <1>1, <2>1, <2>2 DEF First
<1>4. QED
  BY <1>2, <1>3

\* A sequence falls apart in front of any place.
LEMMA Apart ==
  ASSUME NEW S, NEW s \in Seq(S), NEW k \in 1 .. Len(s) + 1
  PROVE  /\ SubSeq(s, 1, k - 1) \in Seq(S) /\ Len(SubSeq(s, 1, k - 1)) = k - 1
         /\ \A i \in 1 .. k - 1 : SubSeq(s, 1, k - 1)[i] = s[i]
         /\ SubSeq(s, k, Len(s)) \in Seq(S) /\ Len(SubSeq(s, k, Len(s))) = Len(s) + 1 - k
         /\ \A i \in 1 .. Len(s) + 1 - k : SubSeq(s, k, Len(s))[i] = s[k + i - 1]
         /\ s = SubSeq(s, 1, k - 1) \o SubSeq(s, k, Len(s))
<1>1. Len(s) \in Nat /\ k \in Nat /\ \A i \in 1 .. Len(s) : s[i] \in S
  BY ElementOfSeq
<1>2. /\ SubSeq(s, 1, k - 1) \in Seq(S) /\ Len(SubSeq(s, 1, k - 1)) = k - 1
      /\ \A i \in 1 .. k - 1 : SubSeq(s, 1, k - 1)[i] = s[i]
  BY <1>1
<1>3. /\ SubSeq(s, k, Len(s)) \in Seq(S) /\ Len(SubSeq(s, k, Len(s))) = Len(s) + 1 - k
      /\ \A i \in 1 .. Len(s) + 1 - k : SubSeq(s, k, Len(s))[i] = s[k + i - 1]
  BY <1>1
<1>4. s = SubSeq(s, 1, k - 1) \o SubSeq(s, k, Len(s))
  <2>1. 1 \in 1 .. Len(s) + 1 /\ k - 1 \in 1 - 1 .. Len(s) /\ Len(s) \in k - 1 .. Len(s)
        /\ (k - 1) + 1 = k
    BY <1>1
  <2>2. SubSeq(s, 1, k - 1) \o SubSeq(s, (k - 1) + 1, Len(s)) = SubSeq(s, 1, Len(s))
    BY <2>1, ConcatAdjacentSubSeq
  <2>3. QED
    BY <2>1, <2>2, SubSeqFull
<1>5. QED
  BY <1>2, <1>3, <1>4

-----------------------------------------------------------------------------
(* What the formatted input reads.                                         *)

\* White space is skipped, and what follows is a word and the rest.
LEMMA ReadsWord ==
  ASSUME NEW s \in Seq(Byte)
  PROVE  \E u \in Seq(White) :
           /\ SkipWhite(s) \in Seq(Byte) /\ s = u \o SkipWhite(s)
           /\ SkipWhite(s) # <<>> => SkipWhite(s)[1] \in Dark
           /\ Word(s) \in Seq(Dark) /\ AfterWord(s) \in Seq(Byte)
           /\ SkipWhite(s) = Word(s) \o AfterWord(s)
           /\ AfterWord(s) # <<>> => AfterWord(s)[1] \in White
<1>1. PICK k : k = FirstIn(s, Range(s) \ White)
  OBVIOUS
<1>2. First(s, Range(s) \ White, k)
  BY <1>1, FirstInIs
<1>3. PICK t, u : t = SkipWhite(s) /\ u = SubSeq(s, 1, k - 1)
  OBVIOUS
<1>4. t = SubSeq(s, k, Len(s)) /\ k \in 1 .. Len(s) + 1
  BY <1>1, <1>2, <1>3 DEF SkipWhite, First
<1>5. /\ u \in Seq(Byte) /\ Len(u) = k - 1 /\ \A i \in 1 .. k - 1 : u[i] = s[i]
      /\ t \in Seq(Byte) /\ s = u \o t /\ Len(t) = Len(s) + 1 - k
      /\ \A i \in 1 .. Len(s) + 1 - k : t[i] = s[k + i - 1]
  <2>1. /\ SubSeq(s, 1, k - 1) \in Seq(Byte) /\ Len(SubSeq(s, 1, k - 1)) = k - 1
        /\ \A i \in 1 .. k - 1 : SubSeq(s, 1, k - 1)[i] = s[i]
        /\ SubSeq(s, k, Len(s)) \in Seq(Byte) /\ Len(SubSeq(s, k, Len(s))) = Len(s) + 1 - k
        /\ \A i \in 1 .. Len(s) + 1 - k : SubSeq(s, k, Len(s))[i] = s[k + i - 1]
        /\ s = SubSeq(s, 1, k - 1) \o SubSeq(s, k, Len(s))
    BY <1>4, Apart
  <2>2. QED
    BY <1>3, <1>4, <2>1
<1>6. u \in Seq(White)
  <2>1. ASSUME NEW i \in 1 .. k - 1 PROVE u[i] \in White
    <3>1. Len(s) \in Nat /\ i \in 1 .. Len(s) /\ DOMAIN s = 1 .. Len(s)
      BY <1>4
    <3>2. s[i] \in Range(s)
      BY <3>1 DEF Range
    <3>3. QED
      BY <1>2, <1>5, <3>2 DEF First
  <2>2. Len(u) \in Nat
    BY <1>5
  <2>3. QED
    BY <1>5, <2>1, <2>2
<1>7. PICK l : l = FirstIn(t, White)
  OBVIOUS
<1>8. First(t, White, l) /\ l \in 1 .. Len(t) + 1
  BY <1>5, <1>7, FirstInIs DEF First
<1>9. PICK w, r : w = Word(s) /\ r = AfterWord(s)
  OBVIOUS
<1>10. w = SubSeq(t, 1, l - 1) /\ r = SubSeq(t, l, Len(t))
  BY <1>3, <1>7, <1>9 DEF Word, AfterWord
<1>11. /\ w \in Seq(Byte) /\ Len(w) = l - 1 /\ \A i \in 1 .. l - 1 : w[i] = t[i]
       /\ r \in Seq(Byte) /\ Len(r) = Len(t) + 1 - l
       /\ \A i \in 1 .. Len(t) + 1 - l : r[i] = t[l + i - 1]
       /\ t = w \o r
  BY <1>5, <1>8, <1>10, Apart, ZenonT(40)
<1>12. w \in Seq(Dark)
  <2>1. ASSUME NEW i \in 1 .. l - 1 PROVE w[i] \in Dark
    <3>1. w[i] \in Byte
      BY <1>11, ElementOfSeq
    <3>2. QED
      BY <1>8, <1>11, <3>1 DEF First, Dark
  <2>2. Len(w) \in Nat
    BY <1>11
  <2>3. QED
    BY <1>11, <2>1, <2>2
<1>13. r # <<>> => r[1] \in White
  <2>1. SUFFICES ASSUME r # <<>> PROVE r[1] \in White
    OBVIOUS
  <2>2. Len(r) \in Nat \ {0} /\ Len(t) \in Nat
    BY <1>5, <1>11, <2>1, EmptySeq
  <2>3. l <= Len(t) /\ r[1] = t[l]
    BY <1>8, <1>11, <2>2
  <2>4. QED
    BY <1>8, <2>3 DEF First
<1>14. t # <<>> => t[1] \in Dark
  <2>1. SUFFICES ASSUME t # <<>> PROVE t[1] \in Dark
    OBVIOUS
  <2>2. Len(s) \in Nat /\ Len(t) \in Nat \ {0}
    BY <1>5, <2>1, EmptySeq
  <2>3. k <= Len(s) /\ t[1] = s[k] /\ k \in 1 .. Len(s)
    BY <1>4, <1>5, <2>2
  <2>4. s[k] \in Byte
    BY <2>3, ElementOfSeq
  <2>5. QED
    BY <1>2, <2>3, <2>4 DEF First, Dark
<1>15. QED
  BY <1>3, <1>5, <1>6, <1>9, <1>11, <1>12, <1>13, <1>14

\* Two ways to divide a text.
SameText(q, c, h, a) == q \o c = h \o a

\* A text that begins with a byte of B, if it has any.
Begins(s, B) == s # <<>> => s[1] \in B

\* Where the two parts of a text meet is where the first byte of B stands.
LEMMA SplitsOnce ==
  ASSUME NEW B, NEW a \in Seq(Byte \ B), NEW c \in Seq(Byte \ B),
         NEW b \in Seq(Byte), NEW d \in Seq(Byte),
         Begins(b, B), Begins(d, B), SameText(a, b, c, d)
  PROVE  a = c /\ b = d
<1>1. a \in Seq(Byte) /\ c \in Seq(Byte)
  BY SeqMonotonic
<1>2. PICK s : s = a \o b /\ s = c \o d
  BY DEF SameText
<1>3. s \in Seq(Byte)
  BY <1>1, <1>2, ConcatProperties
<1>4. ASSUME NEW p \in Seq(Byte \ B), NEW q \in Seq(Byte), Begins(q, B), s = p \o q
      PROVE  First(s, B, Len(p) + 1) /\ Len(p) \in Nat
             /\ \A i \in 1 .. Len(p) : s[i] = p[i]
  <2>1. p \in Seq(Byte) /\ Len(p) \in Nat /\ Len(q) \in Nat
    BY SeqMonotonic
  <2>2. /\ Len(s) = Len(p) + Len(q)
        /\ \A i \in 1 .. Len(p) + Len(q) : s[i] = IF i <= Len(p) THEN p[i] ELSE q[i - Len(p)]
    BY <1>4, <2>1, ConcatProperties
  <2>3. \A i \in 1 .. Len(p) : s[i] = p[i] /\ p[i] \notin B
    <3>1. \A i \in 1 .. Len(p) : p[i] \in Byte \ B
      BY ElementOfSeq
    <3>2. \A i \in 1 .. Len(p) : i \in 1 .. Len(p) + Len(q) /\ i <= Len(p)
      BY <2>1
    <3>3. QED
      BY <2>2, <3>1, <3>2
  <2>4. Len(p) + 1 <= Len(s) => s[Len(p) + 1] \in B
    <3>1. SUFFICES ASSUME Len(p) + 1 <= Len(s) PROVE s[Len(p) + 1] \in B
      OBVIOUS
    <3>2. Len(q) # 0 /\ s[Len(p) + 1] = q[1]
      BY <2>1, <2>2, <3>1
    <3>3. q # <<>>
      BY <3>2, EmptySeq
    <3>4. QED
      BY <1>4, <3>2, <3>3 DEF Begins
  <2>5. Len(p) + 1 \in 1 .. Len(s) + 1 /\ (Len(p) + 1) - 1 = Len(p)
    BY <2>1, <2>2
  <2>6. QED
    BY <2>1, <2>3, <2>4, <2>5 DEF First
<1>5. /\ First(s, B, Len(a) + 1) /\ Len(a) \in Nat /\ \A i \in 1 .. Len(a) : s[i] = a[i]
      /\ First(s, B, Len(c) + 1) /\ Len(c) \in Nat /\ \A i \in 1 .. Len(c) : s[i] = c[i]
  BY <1>2, <1>4
<1>6. Len(a) = Len(c)
  <2>1. Len(a) + 1 = Len(c) + 1
    BY <1>3, <1>5, OneFirst
  <2>2. QED
    BY <1>5, <2>1
<1>7. a = c
  BY <1>1, <1>5, <1>6, SeqEqual
<1>8. QED
  <2>1. \A s1, s2, v \in Seq(Byte) : v \o s1 = v \o s2 => s1 = s2
    BY ConcatSimplifications, Zenon
  <2>2. QED
    BY <1>1, <1>2, <1>7, <2>1

\* A word with white space in front and at its end is read as it is.
LEMMA OneWord ==
  ASSUME NEW u \in Seq(White), NEW w \in Seq(Dark), w # <<>>,
         NEW r \in Seq(Byte), Begins(r, White)
  PROVE  Word(u \o (w \o r)) = w /\ AfterWord(u \o (w \o r)) = r
<1>1. /\ Byte \ Dark = White /\ Byte \ White = Dark
      /\ u \in Seq(Byte) /\ w \in Seq(Byte)
  BY BytesAre, SeqMonotonic DEF Dark
<1>2. PICK p, s : p = w \o r /\ s = u \o p
  OBVIOUS
<1>3. p \in Seq(Byte) /\ s \in Seq(Byte) /\ p # <<>> /\ p[1] \in Dark
  <2>1. /\ p \in Seq(Byte) /\ Len(p) = Len(w) + Len(r)
        /\ \A i \in 1 .. Len(w) + Len(r) : p[i] = IF i <= Len(w) THEN w[i] ELSE r[i - Len(w)]
    BY <1>1, <1>2, ConcatProperties
  <2>2. Len(w) \in Nat \ {0} /\ Len(r) \in Nat
    BY EmptySeq
  <2>3. p[1] = w[1] /\ 1 \in 1 .. Len(w) /\ Len(p) # 0
    BY <2>1, <2>2
  <2>4. p[1] \in Dark /\ p # <<>>
    BY <2>3, ElementOfSeq, EmptySeq
  <2>5. QED
    BY <1>1, <1>2, <2>1, <2>4, ConcatProperties
<1>4. PICK v \in Seq(White) :
        /\ SkipWhite(s) \in Seq(Byte) /\ s = v \o SkipWhite(s)
        /\ SkipWhite(s) # <<>> => SkipWhite(s)[1] \in Dark
        /\ Word(s) \in Seq(Dark) /\ AfterWord(s) \in Seq(Byte)
        /\ SkipWhite(s) = Word(s) \o AfterWord(s)
        /\ AfterWord(s) # <<>> => AfterWord(s)[1] \in White
  BY <1>3, ReadsWord
<1>5. PICK t, x, y : t = SkipWhite(s) /\ x = Word(s) /\ y = AfterWord(s)
  OBVIOUS
<1>6. p = t
  <2>1. SameText(u, p, v, t) /\ t \in Seq(Byte) /\ p \in Seq(Byte)
        /\ Begins(t, Dark) /\ Begins(p, Dark)
    BY <1>2, <1>3, <1>4, <1>5 DEF Begins, SameText
  <2>2. u \in Seq(Byte \ Dark) /\ v \in Seq(Byte \ Dark)
    BY <1>1, <1>4
  <2>3. QED
    BY <2>1, <2>2, SplitsOnce
<1>7. w = x /\ r = y
  <2>1. SameText(w, r, x, y) /\ y \in Seq(Byte) /\ Begins(y, White)
    BY <1>2, <1>4, <1>5, <1>6 DEF Begins, SameText
  <2>2. w \in Seq(Byte \ White) /\ x \in Seq(Byte \ White)
    BY <1>1, <1>4, <1>5
  <2>3. QED
    BY <2>1, <2>2, SplitsOnce
<1>8. QED
  BY <1>2, <1>5, <1>7

\* A text is cut in front of the first byte x.
Cut(s, x) == SubSeq(s, 1, FirstIn(s, {x}) - 1)

LEMMA CutsAt ==
  ASSUME NEW s \in Seq(Byte), NEW x
  PROVE  \E c \in Seq(Byte) : /\ Cut(s, x) \in Seq(Byte \ {x}) /\ s = Cut(s, x) \o c
                              /\ Begins(c, {x})
<1>1. PICK k : k = FirstIn(s, {x})
  OBVIOUS
<1>2. First(s, {x}, k) /\ k \in 1 .. Len(s) + 1
  BY <1>1, FirstInIs DEF First
<1>3. PICK q, c : q = Cut(s, x) /\ c = SubSeq(s, k, Len(s))
  OBVIOUS
<1>4. q = SubSeq(s, 1, k - 1)
  BY <1>1, <1>3 DEF Cut
<1>5. /\ q \in Seq(Byte) /\ c \in Seq(Byte) /\ s = q \o c
      /\ Len(q) = k - 1 /\ \A i \in 1 .. k - 1 : q[i] = s[i]
      /\ Len(c) = Len(s) + 1 - k /\ \A i \in 1 .. Len(s) + 1 - k : c[i] = s[k + i - 1]
  <2>1. /\ SubSeq(s, 1, k - 1) \in Seq(Byte) /\ SubSeq(s, k, Len(s)) \in Seq(Byte)
        /\ s = SubSeq(s, 1, k - 1) \o SubSeq(s, k, Len(s))
        /\ Len(SubSeq(s, 1, k - 1)) = k - 1
        /\ \A i \in 1 .. k - 1 : SubSeq(s, 1, k - 1)[i] = s[i]
        /\ Len(SubSeq(s, k, Len(s))) = Len(s) + 1 - k
        /\ \A i \in 1 .. Len(s) + 1 - k : SubSeq(s, k, Len(s))[i] = s[k + i - 1]
    BY <1>2, Apart, ZenonT(40)
  <2>2. QED
    BY <1>3, <1>4, <2>1
<1>6. c # <<>> => c[1] = x
  <2>1. SUFFICES ASSUME c # <<>> PROVE c[1] = x
    OBVIOUS
  <2>2. Len(s) \in Nat /\ Len(c) \in Nat \ {0}
    BY <1>5, <2>1, EmptySeq
  <2>3. k <= Len(s) /\ c[1] = s[k]
    BY <1>2, <1>5, <2>2
  <2>4. QED
    BY <1>2, <2>3 DEF First
<1>7. q \in Seq(Byte \ {x})
  <2>1. ASSUME NEW i \in 1 .. k - 1 PROVE q[i] \in Byte \ {x}
    <3>1. q[i] \in Byte
      BY <1>5, ElementOfSeq
    <3>2. QED
      BY <1>2, <1>5, <3>1 DEF First
  <2>2. Len(q) \in Nat
    BY <1>5
  <2>3. QED
    BY <1>5, <2>1, <2>2
<1>8. QED
  BY <1>3, <1>5, <1>6, <1>7 DEF Begins

\* What has no x in it is what is cut from a text that goes on with x.
LEMMA CutIs ==
  ASSUME NEW x, NEW q \in Seq(Byte \ {x}), NEW c \in Seq(Byte), Begins(c, {x})
  PROVE  Cut(q \o c, x) = q
<1>1. q \in Seq(Byte)
  BY SeqMonotonic
<1>2. PICK s : s = q \o c /\ s \in Seq(Byte)
  BY <1>1, ConcatProperties
<1>3. PICK d \in Seq(Byte) : /\ Cut(s, x) \in Seq(Byte \ {x}) /\ s = Cut(s, x) \o d
                            /\ Begins(d, {x})
  BY <1>2, CutsAt
<1>4. PICK r : r = Cut(s, x)
  OBVIOUS
<1>5. SameText(q, c, r, d)
  BY <1>2, <1>3, <1>4 DEF SameText
<1>6. q = r
  BY <1>3, <1>4, <1>5, SplitsOnce
<1>7. QED
  BY <1>2, <1>4, <1>6

\* A line is read up to the line break.
LEMMA ReadsLine ==
  ASSUME NEW s \in Seq(Byte)
  PROVE  \E c \in Seq(Byte) : /\ ReadLine(s) \in Seq(Byte) /\ s = ReadLine(s) \o c
                              /\ Begins(c, {NewLine})
<1>1. ReadLine(s) = Cut(s, NewLine)
  BY DEF ReadLine, Cut
<1>2. PICK c \in Seq(Byte) : /\ Cut(s, NewLine) \in Seq(Byte \ {NewLine})
                            /\ s = Cut(s, NewLine) \o c /\ Begins(c, {NewLine})
  BY CutsAt
<1>3. Cut(s, NewLine) \in Seq(Byte)
  BY <1>2, SeqMonotonic
<1>4. QED
  BY <1>1, <1>2, <1>3

Without(s, B) == \A i \in 1 .. Len(s) : s[i] \notin B

\* q begins with h, followed by x.
Follows(q, h, x, a) == q = h \o x /\ (a = <<>> => x = <<>>)

\* What stands in front of the first byte of B, or is all there is, begins with
\* everything without such a byte that the whole begins with.
LEMMA BeginsWith ==
  ASSUME NEW B, NEW q \in Seq(Byte), NEW c \in Seq(Byte), NEW h \in Seq(Byte), NEW a \in Seq(Byte),
         SameText(q, c, h, a), Begins(c, B), Without(h, B)
  PROVE  \E x \in Seq(Byte) : Follows(q, h, x, a)
<1>1. PICK s, m, n, lc, la : s = q \o c /\ m = Len(h) /\ n = Len(q) /\ lc = Len(c) /\ la = Len(a)
                       /\ s = h \o a
  BY DEF SameText
<1>2. m \in Nat /\ n \in Nat /\ lc \in Nat /\ la \in Nat
  BY <1>1
<1>3. /\ Len(s) = n + lc
      /\ \A i \in 1 .. n + lc : s[i] = IF i <= n THEN q[i] ELSE c[i - n]
  <2>1. /\ Len(q \o c) = Len(q) + Len(c)
        /\ \A i \in 1 .. Len(q) + Len(c) :
             (q \o c)[i] = IF i <= Len(q) THEN q[i] ELSE c[i - Len(q)]
    BY ConcatProperties
  <2>2. QED
    BY <1>1, <2>1
<1>4. /\ Len(s) = m + la
      /\ \A i \in 1 .. m + la : s[i] = IF i <= m THEN h[i] ELSE a[i - m]
  <2>1. /\ Len(h \o a) = Len(h) + Len(a)
        /\ \A i \in 1 .. Len(h) + Len(a) :
             (h \o a)[i] = IF i <= Len(h) THEN h[i] ELSE a[i - Len(h)]
    BY ConcatProperties
  <2>2. QED
    BY <1>1, <2>1
<1>5. m <= n
  <2>1. SUFFICES ASSUME n < m PROVE FALSE
    BY <1>2
  <2>2. lc # 0 /\ n + 1 \in 1 .. m + la /\ n + 1 \in 1 .. m /\ n + 1 \in 1 .. n + lc /\ (n + 1) - n = 1
        /\ n + 1 <= m /\ ~ (n + 1 <= n)
    BY <1>2, <1>3, <1>4, <2>1
  <2>3. s[n + 1] = h[n + 1] /\ s[n + 1] = c[1]
    BY <1>3, <1>4, <2>2
  <2>4. c # <<>>
    BY <1>1, <2>2, EmptySeq
  <2>5. QED
    BY <1>1, <2>2, <2>3, <2>4 DEF Begins, Without
<1>6. PICK y, x : y = SubSeq(q, 1, (m + 1) - 1) /\ x = SubSeq(q, m + 1, Len(q))
  OBVIOUS
<1>7. /\ y \in Seq(Byte) /\ Len(y) = m /\ \A i \in 1 .. m : y[i] = q[i]
      /\ x \in Seq(Byte) /\ Len(x) = n - m /\ q = y \o x
  <2>1. m + 1 \in 1 .. Len(q) + 1 /\ (m + 1) - 1 = m /\ Len(q) + 1 - (m + 1) = n - m
    BY <1>1, <1>2, <1>5
  <2>2. /\ SubSeq(q, 1, (m + 1) - 1) \in Seq(Byte) /\ Len(SubSeq(q, 1, (m + 1) - 1)) = (m + 1) - 1
        /\ \A i \in 1 .. (m + 1) - 1 : SubSeq(q, 1, (m + 1) - 1)[i] = q[i]
        /\ SubSeq(q, m + 1, Len(q)) \in Seq(Byte)
        /\ Len(SubSeq(q, m + 1, Len(q))) = Len(q) + 1 - (m + 1)
        /\ q = SubSeq(q, 1, (m + 1) - 1) \o SubSeq(q, m + 1, Len(q))
    BY <2>1, Apart
  <2>3. QED
    BY <1>6, <2>1, <2>2
<1>8. y = h
  <2>1. \A i \in 1 .. m : i \in 1 .. n + lc /\ i \in 1 .. m + la /\ i <= n /\ i <= m
    BY <1>2, <1>5
  <2>2. \A i \in 1 .. m : y[i] = h[i]
    BY <1>3, <1>4, <1>7, <2>1
  <2>3. QED
    BY <1>1, <1>7, <2>2, SeqEqual
<1>9. a = <<>> => x = <<>>
  <2>1. SUFFICES ASSUME a = <<>> PROVE x = <<>>
    OBVIOUS
  <2>2. la = 0
    BY <1>1, <2>1, EmptySeq
  <2>3. Len(x) = 0
    BY <1>2, <1>3, <1>4, <1>5, <1>7, <2>2
  <2>4. QED
    BY <1>7, <2>3, EmptySeq
<1>10. QED
  BY <1>7, <1>8, <1>9 DEF Follows

\* get takes b, one byte if there is one.
TakesByte(r, b) ==
  /\ AfterByte(r) \in Seq(Byte) /\ r = b \o AfterByte(r)
  /\ r # <<>> => b = <<r[1]>>

\* That byte is white space behind a word.
LEMMA ReadsByte ==
  ASSUME NEW r \in Seq(Byte), Begins(r, White)
  PROVE  \E b \in Seq(White) : TakesByte(r, b)
<1>1. CASE r = <<>>
  <2>1. PICK b \in Seq(White) : b = <<>>
    BY EmptySeq
  <2>2. AfterByte(r) = <<>> /\ b \o r = r
    BY <1>1, <2>1, ConcatEmptySeq DEF AfterByte
  <2>3. TakesByte(r, b)
    BY <1>1, <2>2 DEF TakesByte
  <2>4. QED
    BY <2>3
<1>2. CASE r # <<>>
  <2>1. PICK b, d : b = SubSeq(r, 1, 2 - 1) /\ d = SubSeq(r, 2, Len(r))
    OBVIOUS
  <2>2. Len(r) \in Nat \ {0}
    BY <1>2, EmptySeq
  <2>3. /\ b \in Seq(Byte) /\ Len(b) = 1 /\ b[1] = r[1] /\ d \in Seq(Byte) /\ r = b \o d
    <3>1. 2 \in 1 .. Len(r) + 1 /\ 1 \in 1 .. 2 - 1 /\ 2 - 1 = 1
      BY <2>2
    <3>2. /\ SubSeq(r, 1, 2 - 1) \in Seq(Byte) /\ Len(SubSeq(r, 1, 2 - 1)) = 2 - 1
          /\ \A i \in 1 .. 2 - 1 : SubSeq(r, 1, 2 - 1)[i] = r[i]
          /\ SubSeq(r, 2, Len(r)) \in Seq(Byte)
          /\ r = SubSeq(r, 1, 2 - 1) \o SubSeq(r, 2, Len(r))
      BY <3>1, Apart
    <3>3. QED
      BY <2>1, <3>1, <3>2
  <2>4. b \in Seq(White) /\ b = <<r[1]>>
    <3>1. r[1] \in White
      BY <1>2 DEF Begins
    <3>2. b = <<r[1]>>
      BY <2>3
    <3>3. QED
      BY <3>1, <3>2
  <2>5. AfterByte(r) = d
    BY <1>2, <2>1, TailIsSubSeq DEF AfterByte
  <2>6. TakesByte(r, b)
    BY <2>3, <2>4, <2>5 DEF TakesByte
  <2>7. QED
    BY <2>4, <2>6
<1>3. QED
  BY <1>1, <1>2

-----------------------------------------------------------------------------
(* What a receiver is shown.                                               *)

\* The bytes of names and lines.
Plain == Visible \cup {Space, Tab, Zero} \cup Range(User)

LEMMA PlainIs ==
  /\ Plain \subseteq Byte /\ Plain \ {Space, Tab} \subseteq Dark /\ Plain \ {Zero} \subseteq Sound
  /\ NewLine \notin Plain
  /\ User \in Seq(Plain) /\ User # <<>>
  /\ <<Space>> \in Seq(Plain) /\ <<Space>> \in Seq(White) /\ <<Space>> \in Seq(Sound)
<1>1. /\ Range(User) = {"User"}
      /\ "User" # Space /\ "User" # Tab /\ "User" # NewLine /\ "User" # Zero
  <2>1. DOMAIN User = {1} /\ User[1] = "User"
    BY DEF User
  <2>2. QED
    BY <2>1 DEF Range, Space, Tab, NewLine, Zero
<1>2. "User" \in Byte /\ Zero \in Byte /\ Tab \in Byte /\ Space \in Byte /\ Visible \subseteq Byte
  BY <1>1, BytesAre DEF Byte
<1>3. Plain \subseteq Byte
  BY <1>1, <1>2 DEF Plain
<1>4. NewLine \notin Plain
  BY <1>1 DEF Plain, Visible, White, Space, Tab, NewLine, Zero
<1>5. Plain \ {Space, Tab} \subseteq Dark
  BY <1>3, <1>4 DEF Dark, White
<1>6. User \in Seq(Plain) /\ User # <<>>
  <2>1. "User" \in Plain
    BY <1>1 DEF Plain
  <2>2. QED
    BY <2>1 DEF User
<1>7. <<Space>> \in Seq(Plain) /\ <<Space>> \in Seq(White) /\ <<Space>> \in Seq(Sound)
  <2>1. Space \in Plain /\ Space \in White /\ Space \in Sound
    BY BytesAre DEF Plain
  <2>2. QED
    BY <2>1
<1>8. Plain \ {Zero} \subseteq Sound
  BY <1>3 DEF Sound
<1>9. QED
  BY <1>3, <1>4, <1>5, <1>6, <1>7, <1>8

\* The equation has a name so that the provers instantiate it as a whole.
Associates(x, y, z) == (x \o y) \o z = x \o (y \o z)

LEMMA Associate ==
  ASSUME NEW S, NEW x \in Seq(S), NEW y \in Seq(S), NEW z \in Seq(S)
  PROVE  Associates(x, y, z)
<1>1. (x \o y) \o z = x \o (y \o z)
  BY ConcatAssociative
<1>2. QED
  BY <1>1 DEF Associates

\* The bytes of a sequence are in the set that it is a sequence of.
LEMMA RangeIn ==
  ASSUME NEW S, NEW s \in Seq(S) PROVE Range(s) \subseteq S
<1>1. DOMAIN s = 1 .. Len(s) /\ \A i \in 1 .. Len(s) : s[i] \in S
  BY ElementOfSeq
<1>2. QED
  BY <1>1 DEF Range

\* A concatenation starts as its first part does.
LEMMA StartsWith ==
  ASSUME NEW x \in Seq(Byte), NEW y \in Seq(Byte), x # <<>>
  PROVE  (x \o y)[1] = x[1] /\ x \o y # <<>>
<1>1. PICK s : s = x \o y
  OBVIOUS
<1>2. /\ s \in Seq(Byte) /\ Len(s) = Len(x) + Len(y)
      /\ \A i \in 1 .. Len(x) + Len(y) : s[i] = IF i <= Len(x) THEN x[i] ELSE y[i - Len(x)]
  BY <1>1, ConcatProperties
<1>3. Len(x) \in Nat \ {0} /\ Len(y) \in Nat
  BY EmptySeq
<1>4. s[1] = x[1] /\ Len(s) # 0
  BY <1>2, <1>3
<1>5. QED
  BY <1>1, <1>4, EmptySeq

\* A text divides where its first white space stands.
LEMMA Divides ==
  ASSUME NEW s \in Seq(Byte)
  PROVE  \E w \in Seq(Dark), k \in Seq(Byte) : s = w \o k /\ Begins(k, White)
<1>1. PICK l : l = FirstIn(s, White)
  OBVIOUS
<1>2. First(s, White, l) /\ l \in 1 .. Len(s) + 1
  BY <1>1, FirstInIs DEF First
<1>3. PICK w, k : w = SubSeq(s, 1, l - 1) /\ k = SubSeq(s, l, Len(s))
  OBVIOUS
<1>4. /\ w \in Seq(Byte) /\ Len(w) = l - 1 /\ \A i \in 1 .. l - 1 : w[i] = s[i]
      /\ k \in Seq(Byte) /\ Len(k) = Len(s) + 1 - l
      /\ \A i \in 1 .. Len(s) + 1 - l : k[i] = s[l + i - 1]
      /\ s = w \o k
  BY <1>2, <1>3, Apart, ZenonT(40)
<1>5. w \in Seq(Dark)
  <2>1. ASSUME NEW i \in 1 .. l - 1 PROVE w[i] \in Dark
    <3>1. w[i] \in Byte
      BY <1>4, ElementOfSeq
    <3>2. QED
      BY <1>2, <1>4, <3>1 DEF First, Dark
  <2>2. Len(w) \in Nat
    BY <1>4
  <2>3. QED
    BY <1>4, <2>1, <2>2
<1>6. Begins(k, White)
  <2>1. SUFFICES ASSUME k # <<>> PROVE k[1] \in White
    BY DEF Begins
  <2>2. Len(k) \in Nat \ {0} /\ Len(s) \in Nat
    BY <1>4, <2>1, EmptySeq
  <2>3. l <= Len(s) /\ k[1] = s[l]
    BY <1>2, <1>4, <2>2
  <2>4. QED
    BY <1>2, <2>3 DEF First
<1>7. QED
  BY <1>4, <1>5, <1>6

\* What is in a set from end to end is in it in both parts.
LEMMA PartsOf ==
  ASSUME NEW S, NEW x \in Seq(Byte), NEW y \in Seq(Byte), NEW u \in Seq(S), u = x \o y
  PROVE  x \in Seq(S) /\ y \in Seq(S)
<1>1. Range(x \o y) = Range(x) \cup Range(y)
  BY RangeConcatenation
<1>2. Range(u) \subseteq S
  BY RangeIn
<1>3. Range(x) \subseteq S /\ Range(y) \subseteq S
  BY <1>1, <1>2
<1>4. QED
  BY <1>3, SeqOfRange, SeqMonotonic

\* d is what getData makes of the frame of a name and a text, and the bytes a.
DataOf(d, n, t, a) ==
  d = getData((g_serverFilter \o <<Space>> \o (n \o <<Space>> \o t)) \o a)

\* d is read from r, which is what is left behind the filter.
ReadFrom(d, r) == d.username = Word(r) /\ d.message = ReadLine(AfterByte(AfterWord(r)))

\* Nothing of what is behind the frame is read when a zero byte ends it.
Ended(n, t, a, z) == Zero \in Range(n \o t) \/ a = <<>> => z = <<>>

\* What getData makes of a frame that passed the server: e is left of what was
\* entered, and then z of what is behind the frame.
LEMMA DataIs ==
  ASSUME NEW n \in Seq(Plain), NEW t \in Seq(Plain), NEW a \in Seq(Sound),
         NEW d, DataOf(d, n, t, a)
  PROVE  \E e \in Seq(Plain), z \in Seq(Sound) :
           /\ e = CString((n \o <<Space>>) \o t) /\ e \in Seq(Sound)
           /\ Ended(n, t, a, z) /\ ReadFrom(d, <<Space>> \o (e \o z))
<1>1. PICK f, p, g, e0, s : /\ f = g_serverFilter /\ p = <<Space>> /\ g = f \o p
                            /\ e0 = (n \o p) \o t /\ s = (g \o e0) \o a
  OBVIOUS
<1>2. /\ f \in Seq(Sound) /\ f \in Seq(Dark) /\ f # <<>> /\ f \in Seq(Byte)
      /\ p \in Seq(Sound) /\ p \in Seq(Byte) /\ p \in Seq(Plain) /\ p \in Seq(White)
      /\ n \in Seq(Byte) /\ t \in Seq(Byte) /\ a \in Seq(Byte)
  <2>1. f \in Seq(Dark \cap Sound)
    BY <1>1, BytesAre
  <2>2. QED
    BY <1>1, <2>1, BytesAre, PlainIs, SeqMonotonic
<1>3. /\ g \in Seq(Sound) /\ g \in Seq(Byte) /\ e0 \in Seq(Plain) /\ e0 \in Seq(Byte)
  <2>1. \A x, y \in Seq(Sound) : x \o y \in Seq(Sound)
    BY ConcatProperties
  <2>2. \A x, y \in Seq(Plain) : x \o y \in Seq(Plain)
    BY ConcatProperties
  <2>3. QED
    BY <1>1, <1>2, <2>1, <2>2, PlainIs, BytesAre, SeqMonotonic
<1>4. PICK c0 \in Seq(Byte) : /\ Cut(e0, Zero) \in Seq(Byte \ {Zero})
                              /\ e0 = Cut(e0, Zero) \o c0 /\ Begins(c0, {Zero})
  BY <1>3, CutsAt
<1>5. PICK e : e = Cut(e0, Zero)
  OBVIOUS
<1>6. e \in Seq(Sound) /\ e0 = e \o c0
  BY <1>4, <1>5 DEF Sound
<1>7. e \in Seq(Byte) /\ e \in Seq(Plain)
  <2>1. e \in Seq(Byte)
    BY <1>6, BytesAre, SeqMonotonic
  <2>2. QED
    BY <1>3, <1>6, <2>1, PartsOf
<1>8. e = CString((n \o <<Space>>) \o t)
  BY <1>1, <1>5 DEF CString, Cut
<1>9. PICK z, y : /\ z = (IF c0 = <<>> THEN a ELSE <<>>)
                  /\ y = (IF c0 = <<>> THEN <<>> ELSE c0 \o a)
  OBVIOUS
<1>10. z \in Seq(Sound) /\ z \in Seq(Byte) /\ y \in Seq(Byte) /\ Begins(y, {Zero})
  <2>1. z \in Seq(Sound) /\ z \in Seq(Byte)
    BY <1>2, <1>9, EmptySeq
  <2>2. CASE c0 = <<>>
    <3>1. y = <<>>
      BY <1>9, <2>2
    <3>2. y \in Seq(Byte) /\ Begins(y, {Zero})
      BY <3>1, EmptySeq DEF Begins
    <3>3. QED
      BY <2>1, <3>2
  <2>3. CASE c0 # <<>>
    <3>1. y \in Seq(Byte)
      BY <1>2, <1>9, <2>3, ConcatProperties
    <3>2. y[1] = c0[1]
      BY <1>2, <1>9, <2>3, StartsWith
    <3>3. QED
      BY <1>4, <2>1, <2>3, <3>1, <3>2 DEF Begins
  <2>4. QED
    BY <2>1, <2>2, <2>3
<1>11. Ended(n, t, a, z)
  <2>1. SUFFICES ASSUME Zero \in Range(n \o t) \/ a = <<>>, z # <<>> PROVE FALSE
    BY DEF Ended
  <2>2. c0 = <<>> /\ a # <<>>
    BY <1>9, <2>1
  <2>3. e0 = e
    BY <1>6, <1>7, <2>2, ConcatEmptySeq
  <2>4. Range(e0) = Range(n \o p) \cup Range(t) /\ Range(n \o p) = Range(n) \cup Range(p)
    <3>1. n \o p \in Seq(Byte)
      BY <1>2, ConcatProperties
    <3>2. Range(n \o p) = Range(n) \cup Range(p)
      BY <1>2, RangeConcatenation
    <3>3. PICK m : m \in Seq(Byte) /\ m = n \o p
      BY <3>1
    <3>4. Range(m \o t) = Range(m) \cup Range(t)
      <4>1. m \in Seq(Byte) /\ t \in Seq(Byte)
        BY <1>2, <3>3
      <4>2. QED
        BY <4>1, RangeConcatenation
    <3>5. QED
      BY <1>1, <3>2, <3>3, <3>4
  <2>5. Range(n \o t) = Range(n) \cup Range(t)
    BY <1>2, RangeConcatenation
  <2>6. Range(e) \subseteq Sound
    BY <1>6, RangeIn
  <2>7. QED
    BY <2>1, <2>2, <2>3, <2>4, <2>5, <2>6 DEF Sound
<1>12. PICK v, r : v = e \o z /\ r = p \o v
  OBVIOUS
<1>13. v \in Seq(Sound) /\ v \in Seq(Byte) /\ r \in Seq(Byte)
  <2>1. v \in Seq(Sound)
    BY <1>6, <1>10, <1>12, ConcatProperties
  <2>2. v \in Seq(Byte)
    BY <2>1, BytesAre, SeqMonotonic
  <2>3. QED
    BY <1>2, <1>12, <2>1, <2>2, ConcatProperties
<1>14. s = (g \o v) \o y
  <2>1. CASE c0 = <<>>
    <3>1. e0 = e /\ z = a /\ y = <<>>
      BY <1>6, <1>7, <1>9, <2>1, ConcatEmptySeq
    <3>2. Associates(g, e, a)
      BY <1>2, <1>3, <1>7, Associate
    <3>3. s = g \o v
      BY <1>1, <1>12, <3>1, <3>2, Zenon DEF Associates
    <3>4. g \o v \in Seq(Byte)
      BY <1>3, <1>13, ConcatProperties
    <3>5. QED
      BY <3>1, <3>3, <3>4, ConcatEmptySeq
  <2>2. CASE c0 # <<>>
    <3>1. v = e /\ y = c0 \o a
      BY <1>7, <1>9, <1>12, <2>2, ConcatEmptySeq
    <3>2. PICK h : h = g \o e /\ h \in Seq(Byte)
      BY <1>3, <1>7, ConcatProperties
    <3>3. Associates(g, e, c0) /\ Associates(h, c0, a)
      BY <1>2, <1>3, <1>7, <3>2, Associate
    <3>4. s = h \o (c0 \o a)
      BY <1>1, <1>6, <3>2, <3>3, Zenon DEF Associates
    <3>5. QED
      BY <3>1, <3>2, <3>4, Zenon
  <2>3. QED
    BY <2>1, <2>2
<1>15. CString(s) = f \o r
  <2>1. PICK h : h = g \o v /\ h \in Seq(Byte \ {Zero})
    <3>1. g \o v \in Seq(Sound)
      BY <1>3, <1>13, ConcatProperties
    <3>2. QED
      BY <3>1 DEF Sound
  <2>2. Cut(h \o y, Zero) = h
    BY <1>10, <2>1, CutIs
  <2>3. Associates(f, p, v)
    BY <1>2, <1>13, Associate
  <2>4. h = f \o r
    BY <1>1, <1>12, <2>1, <2>3, Zenon DEF Associates
  <2>5. CString(s) = Cut(s, Zero)
    BY DEF CString, Cut
  <2>6. QED
    BY <1>14, <2>1, <2>2, <2>4, <2>5
<1>16. Begins(r, White)
  <2>1. r[1] = p[1] /\ p[1] = Space
    <3>1. p # <<>> /\ p[1] = Space
      BY <1>1
    <3>2. QED
      BY <1>2, <1>12, <1>13, <3>1, StartsWith
  <2>2. QED
    BY <2>1, BytesAre DEF Begins
<1>17. AfterWord(f \o r) = r
  <2>1. PICK o \in Seq(White) : o = <<>>
    BY EmptySeq
  <2>2. AfterWord(o \o (f \o r)) = r
    BY <1>2, <1>13, <1>16, OneWord
  <2>3. f \o r \in Seq(Byte)
    BY <1>2, <1>13, ConcatProperties
  <2>4. o \o (f \o r) = f \o r
    BY <2>1, <2>3, ConcatEmptySeq
  <2>5. QED
    BY <2>2, <2>4
<1>18. ReadFrom(d, r)
  <2>1. d = getData(s)
    BY <1>1 DEF DataOf
  <2>2. d.username = Word(AfterWord(CString(s)))
        /\ d.message = ReadLine(AfterByte(AfterWord(AfterWord(CString(s)))))
    BY <2>1 DEF getData
  <2>3. QED
    BY <1>15, <1>17, <2>2 DEF ReadFrom
<1>19. QED
  BY <1>1, <1>6, <1>7, <1>8, <1>10, <1>11, <1>12, <1>18

\* A sequence is a prefix of every longer one that begins with it.
LEMMA Prefixed ==
  ASSUME NEW S, NEW s \in Seq(S), NEW x \in Seq(S) PROVE IsPrefix(s, s \o x)
<1>1. PICK t, m, n : t = s \o x /\ m = Len(s) /\ n = Len(x)
  OBVIOUS
<1>2. m \in Nat /\ n \in Nat
  BY <1>1
<1>3. /\ t \in Seq(S) /\ Len(t) = m + n
      /\ \A i \in 1 .. m + n : t[i] = IF i <= m THEN s[i] ELSE x[i - m]
  BY <1>1, ConcatProperties
<1>4. m + 1 \in 1 .. Len(t) + 1 /\ (m + 1) - 1 = m /\ m <= Len(t)
  BY <1>2, <1>3
<1>5. /\ SubSeq(t, 1, m) \in Seq(S) /\ Len(SubSeq(t, 1, m)) = m
      /\ \A i \in 1 .. m : SubSeq(t, 1, m)[i] = t[i]
  <2>1. /\ SubSeq(t, 1, (m + 1) - 1) \in Seq(S) /\ Len(SubSeq(t, 1, (m + 1) - 1)) = (m + 1) - 1
        /\ \A i \in 1 .. (m + 1) - 1 : SubSeq(t, 1, (m + 1) - 1)[i] = t[i]
    BY <1>3, <1>4, Apart
  <2>2. QED
    BY <1>4, <2>1
<1>6. SubSeq(t, 1, m) = s
  <2>1. \A i \in 1 .. m : i \in 1 .. m + n /\ i <= m
    BY <1>2
  <2>2. \A i \in 1 .. m : SubSeq(t, 1, m)[i] = s[i]
    BY <1>3, <1>5, <2>1
  <2>3. QED
    BY <1>1, <1>5, <2>2, SeqEqual
<1>7. SubSeq(s, 1, m) = s
  BY <1>1, SubSeqFull
<1>8. QED
  BY <1>1, <1>4, <1>6, <1>7 DEF IsPrefix

\* A name of one word is read as it was entered, and then the text.
LEMMA NameRead ==
  ASSUME NEW n \in Seq(Plain), n # <<>>, Range(n) \cap {Space, Tab, Zero} = {},
         NEW t \in Seq(Plain), NEW a \in Seq(Sound), NEW d, DataOf(d, n, t, a)
  PROVE  /\ d.username = n /\ IsPrefix(CString(t), d.message)
         /\ Zero \in Range(t) \/ a = <<>> => d.message = CString(t)
<1>1. PICK e \in Seq(Plain), z \in Seq(Sound) :
        /\ e = CString((n \o <<Space>>) \o t) /\ e \in Seq(Sound)
        /\ Ended(n, t, a, z) /\ ReadFrom(d, <<Space>> \o (e \o z))
  BY DataIs
<1>2. PICK p, l0 : p = <<Space>> /\ l0 = CString(t)
  OBVIOUS
<1>3. /\ p \in Seq(White) /\ p \in Seq(Byte) /\ p \in Seq(Sound) /\ p # <<>> /\ p[1] = Space
      /\ t \in Seq(Byte) /\ z \in Seq(Byte) /\ n \in Seq(Byte)
  BY <1>2, PlainIs, BytesAre, SeqMonotonic
<1>4. Range(n) \subseteq Plain /\ Range(n) \subseteq Dark \cap Sound
  <2>1. Range(n) \subseteq Plain
    BY RangeIn
  <2>2. QED
    BY <2>1, PlainIs
<1>5. n \in Seq(Dark) /\ n \in Seq(Sound)
  BY <1>4, SeqOfRange, SeqMonotonic
<1>6. PICK ct \in Seq(Byte) : l0 \in Seq(Sound) /\ t = l0 \o ct /\ Begins(ct, {Zero})
  <2>1. l0 = Cut(t, Zero)
    BY <1>2 DEF CString, Cut
  <2>2. QED
    BY <1>3, <2>1, CutsAt DEF Sound
<1>7. l0 \in Seq(Byte) /\ l0 \in Seq(Plain)
  <2>1. l0 \in Seq(Byte)
    BY <1>6, BytesAre, SeqMonotonic
  <2>2. QED
    BY <1>6, <2>1, PartsOf
<1>8. PICK g, h : g = n \o p /\ h = g \o l0
  OBVIOUS
<1>9. g \in Seq(Sound) /\ g \in Seq(Byte) /\ h \in Seq(Sound) /\ h \in Seq(Byte)
  <2>1. \A x, y \in Seq(Sound) : x \o y \in Seq(Sound)
    BY ConcatProperties
  <2>2. QED
    BY <1>3, <1>5, <1>6, <1>8, <2>1, BytesAre, SeqMonotonic
<1>10. e = h
  <2>1. Associates(g, l0, ct)
    BY <1>7, <1>9, Associate
  <2>2. g \o t = h \o ct
    BY <1>6, <1>8, <2>1, Zenon DEF Associates
  <2>3. CString(g \o t) = Cut(g \o t, Zero)
    BY DEF CString, Cut
  <2>4. Cut(h \o ct, Zero) = h
    BY <1>6, <1>9, CutIs DEF Sound
  <2>5. QED
    BY <1>1, <1>2, <1>8, <2>2, <2>3, <2>4
<1>11. PICK l, w, r : l = l0 \o z /\ w = p \o l /\ r = p \o (e \o z)
  OBVIOUS
<1>12. l \in Seq(Byte) /\ w \in Seq(Byte)
  BY <1>3, <1>7, <1>11, ConcatProperties
<1>13. r = p \o (n \o w)
  <2>1. Associates(g, l0, z) /\ Associates(n, p, l)
    BY <1>3, <1>7, <1>9, <1>12, Associate
  <2>2. e \o z = n \o w
    BY <1>8, <1>10, <1>11, <2>1, Zenon DEF Associates
  <2>3. QED
    BY <1>11, <2>2
<1>14. w # <<>> /\ w[1] = Space
  BY <1>3, <1>11, <1>12, StartsWith
<1>15. Word(r) = n /\ AfterWord(r) = w
  <2>1. Begins(w, White)
    BY <1>14, BytesAre DEF Begins
  <2>2. Word(p \o (n \o w)) = n /\ AfterWord(p \o (n \o w)) = w
    BY <1>3, <1>5, <1>12, <2>1, OneWord
  <2>3. QED
    BY <1>13, <2>2
<1>16. AfterByte(w) = l
  <2>1. PICK b : /\ AfterByte(w) \in Seq(Byte) /\ w = b \o AfterByte(w)
                 /\ w # <<>> => b = <<w[1]>>
    <3>1. Begins(w, White) /\ w \in Seq(Byte)
      BY <1>12, <1>14, BytesAre DEF Begins
    <3>2. \E b \in Seq(White) : TakesByte(w, b)
      BY <3>1, ReadsByte
    <3>3. QED
      BY <3>2 DEF TakesByte
  <2>2. b = p
    BY <1>2, <1>14, <2>1
  <2>3. \A s1, s2, v \in Seq(Byte) : v \o s1 = v \o s2 => s1 = s2
    BY ConcatSimplifications, Zenon
  <2>4. QED
    BY <1>3, <1>11, <1>12, <2>1, <2>2, <2>3
<1>17. PICK q, c : /\ q = ReadLine(l) /\ c \in Seq(Byte) /\ q \in Seq(Byte) /\ l = q \o c
                   /\ Begins(c, {NewLine})
  BY <1>12, ReadsLine
<1>18. PICK x \in Seq(Byte) : q = l0 \o x /\ (z = <<>> => x = <<>>)
  <2>1. Without(l0, {NewLine})
    <3>1. \A i \in 1 .. Len(l0) : l0[i] \in Plain
      BY <1>7, ElementOfSeq
    <3>2. QED
      BY <3>1, PlainIs DEF Without
  <2>2. SameText(q, c, l0, z)
    BY <1>11, <1>17 DEF SameText
  <2>3. \E x \in Seq(Byte) : Follows(q, l0, x, z)
    BY <1>3, <1>7, <1>17, <2>1, <2>2, BeginsWith
  <2>4. QED
    BY <2>3 DEF Follows
<1>19. d.username = n /\ d.message = q
  BY <1>1, <1>2, <1>11, <1>15, <1>16, <1>17 DEF ReadFrom
<1>20. IsPrefix(l0, q)
  BY <1>7, <1>18, Prefixed
<1>21. Zero \in Range(t) \/ a = <<>> => q = l0
  <2>1. Range(n \o t) = Range(n) \cup Range(t)
    BY <1>3, RangeConcatenation
  <2>2. l0 \o <<>> = l0
    BY <1>7, ConcatEmptySeq
  <2>3. QED
    BY <1>1, <1>18, <2>1, <2>2 DEF Ended
<1>22. QED
  BY <1>2, <1>19, <1>20, <1>21

\* Of the bytes e, the name and message of d show all behind the first k, with
\* a byte b between them, and nothing else if they have an end.
Reads(e, d, ends, k, b) ==
  LET words == SubSeq(e, k + 1, Len(e))
      shown == d.username \o <<b>> \o d.message
  IN /\ \A i \in 1 .. k : e[i] \in White
     /\ words = <<>> \/ words[1] \notin White
     /\ Range(d.username) \cap White = {}
     /\ IsPrefix(words, shown)
     /\ ends => shown = words \/ shown = words \o <<b>>

\* The same of the words themselves.
Shows(w, b, q, rest, ends) ==
  /\ IsPrefix(rest, (w \o <<b>>) \o q)
  /\ ends => (w \o <<b>>) \o q = rest \/ (w \o <<b>>) \o q = rest \o <<b>>

\* r is read as the word w, the rest k, one byte of which is taken, and the
\* line q in front of c.
Taken(r, w, k, l, q, c) ==
  /\ w = Word(r) /\ k = AfterWord(r) /\ l = AfterByte(k) /\ q = ReadLine(l)
  /\ w \in Seq(Dark) /\ w \in Seq(Byte) /\ k \in Seq(Byte) /\ l \in Seq(Byte)
  /\ q \in Seq(Byte) /\ c \in Seq(Byte)
  /\ Begins(k, White) /\ l = q \o c /\ Begins(c, {NewLine})
  /\ k = <<>> => l = <<>>
  /\ k # <<>> => k[1] \in White /\ k = <<k[1]>> \o l

LEMMA TakesApart ==
  ASSUME NEW r \in Seq(Byte)
  PROVE  \E w, k, l, q, c : /\ Taken(r, w, k, l, q, c) /\ SkipWhite(r) = w \o k
                            /\ SkipWhite(r) \in Seq(Byte) /\ Begins(SkipWhite(r), Dark)
                            /\ \E u \in Seq(White) : r = u \o SkipWhite(r)
<1>1. PICK w, k, l, q : w = Word(r) /\ k = AfterWord(r) /\ l = AfterByte(k) /\ q = ReadLine(l)
  OBVIOUS
<1>2. PICK u \in Seq(White) :
        /\ SkipWhite(r) \in Seq(Byte) /\ r = u \o SkipWhite(r)
        /\ Begins(SkipWhite(r), Dark) /\ SkipWhite(r) = w \o k
        /\ w \in Seq(Dark) /\ k \in Seq(Byte) /\ Begins(k, White)
  BY <1>1, ReadsWord DEF Begins
<1>3. PICK b \in Seq(White) : /\ l \in Seq(Byte) /\ k = b \o l
                              /\ k # <<>> => b = <<k[1]>>
  <2>1. \E b \in Seq(White) : TakesByte(k, b)
    BY <1>2, ReadsByte
  <2>2. QED
    BY <1>1, <2>1 DEF TakesByte
<1>4. PICK c \in Seq(Byte) : q \in Seq(Byte) /\ l = q \o c /\ Begins(c, {NewLine})
  BY <1>1, <1>3, ReadsLine
<1>5. w \in Seq(Byte)
  BY <1>2, BytesAre, SeqMonotonic
<1>6. k = <<>> => l = <<>>
  BY <1>1 DEF AfterByte
<1>7. k # <<>> => k[1] \in White /\ k = <<k[1]>> \o l
  BY <1>2, <1>3 DEF Begins
<1>8. Taken(r, w, k, l, q, c)
  BY <1>1, <1>2, <1>3, <1>4, <1>5, <1>6, <1>7 DEF Taken
<1>9. QED
  BY <1>2, <1>8

\* Nothing but white space: nothing is shown.
LEMMA ShowsNothing ==
  ASSUME NEW r, NEW w, NEW k, NEW l, NEW q, NEW c, Taken(r, w, k, l, q, c),
         SameText(w, k, <<>>, <<>>)
  PROVE  (w \o <<Space>>) \o q = <<Space>>
<1>1. /\ w \in Seq(Byte) /\ k \in Seq(Byte) /\ q \in Seq(Byte) /\ c \in Seq(Byte) /\ l = q \o c
      /\ k = <<>> => l = <<>>
  BY DEF Taken
<1>2. w = <<>> /\ k = <<>>
  <2>1. <<>> \in Seq(Byte) /\ <<>> \o <<>> = <<>>
    BY EmptySeq, ConcatEmptySeq
  <2>2. w \o k = <<>>
    BY <2>1 DEF SameText
  <2>3. QED
    BY <1>1, <2>2, ConcatSimplifications
<1>3. q = <<>>
  BY <1>1, <1>2, ConcatSimplifications
<1>4. <<Space>> \in Seq(Byte)
  BY PlainIs, BytesAre, SeqMonotonic
<1>5. QED
  BY <1>2, <1>3, <1>4, ConcatEmptySeq

\* One word of what was entered, and perhaps more of it behind the frame: all
\* of it is in the name.
LEMMA ShowsWord ==
  ASSUME NEW r, NEW w, NEW k, NEW l, NEW q, NEW c, Taken(r, w, k, l, q, c),
         NEW rest \in Seq(Dark), NEW z \in Seq(Byte), SameText(w, k, rest, z)
  PROVE  Shows(w, Space, q, rest, z = <<>>)
<1>1. /\ w \in Seq(Byte) /\ k \in Seq(Byte) /\ q \in Seq(Byte) /\ c \in Seq(Byte) /\ l = q \o c
      /\ Begins(k, White) /\ (k = <<>> => l = <<>>)
      /\ rest \in Seq(Byte) /\ <<Space>> \in Seq(Byte)
  BY PlainIs, BytesAre, SeqMonotonic DEF Taken
<1>2. Without(rest, White)
  <2>1. \A i \in 1 .. Len(rest) : rest[i] \in Dark
    BY ElementOfSeq
  <2>2. QED
    BY <2>1 DEF Without, Dark
<1>3. PICK x \in Seq(Byte) : w = rest \o x /\ (z = <<>> => x = <<>>)
  <2>1. \E x \in Seq(Byte) : Follows(w, rest, x, z)
    BY <1>1, <1>2, BeginsWith
  <2>2. QED
    BY <2>1 DEF Follows
<1>4. PICK o, v, y : o = <<Space>> /\ v = o \o q /\ y = x \o v
  OBVIOUS
<1>5. o \in Seq(Byte) /\ v \in Seq(Byte) /\ y \in Seq(Byte)
  BY <1>1, <1>4, ConcatProperties
<1>6. (w \o o) \o q = rest \o y
  <2>1. Associates(w, o, q) /\ Associates(rest, x, v)
    BY <1>1, <1>5, Associate
  <2>2. QED
    BY <1>3, <1>4, <2>1, Zenon DEF Associates
<1>7. IsPrefix(rest, (w \o o) \o q)
  BY <1>1, <1>5, <1>6, Prefixed
<1>8. z = <<>> => (w \o o) \o q = rest \o o
  <2>1. SUFFICES ASSUME z = <<>> PROVE (w \o o) \o q = rest \o o
    OBVIOUS
  <2>2. w = rest
    BY <1>1, <1>3, <2>1, ConcatEmptySeq
  <2>3. rest \o k = rest \o <<>>
    BY <2>1, <2>2 DEF SameText
  <2>4. \A s1, s2, u \in Seq(Byte) : u \o s1 = u \o s2 => s1 = s2
    BY ConcatSimplifications, Zenon
  <2>5. k = <<>>
    BY <1>1, <2>3, <2>4, EmptySeq
  <2>6. q = <<>>
    BY <1>1, <2>5, ConcatSimplifications
  <2>7. w \o o \in Seq(Byte)
    BY <1>1, <1>5, ConcatProperties
  <2>8. QED
    BY <2>2, <2>6, <2>7, ConcatEmptySeq
<1>9. QED
  BY <1>4, <1>7, <1>8 DEF Shows

\* White space in what was entered: its first word is the name, and the byte
\* behind it stands between the name and the line.
LEMMA ShowsLine ==
  ASSUME NEW r, NEW w, NEW k, NEW l, NEW q, NEW c, Taken(r, w, k, l, q, c),
         NEW w1 \in Seq(Dark), NEW k1 \in Seq(Byte), Begins(k1, White), k1 # <<>>,
         NEW rest \in Seq(Plain), rest = w1 \o k1, NEW z \in Seq(Byte), SameText(w, k, rest, z)
  PROVE  \E b \in White : Shows(w, b, q, rest, z = <<>>)
<1>1. /\ w \in Seq(Byte) /\ w \in Seq(Dark) /\ k \in Seq(Byte) /\ l \in Seq(Byte)
      /\ q \in Seq(Byte) /\ c \in Seq(Byte)
      /\ l = q \o c /\ Begins(k, White) /\ Begins(c, {NewLine})
      /\ k # <<>> => k[1] \in White /\ k = <<k[1]>> \o l
  BY DEF Taken
<1>2. rest \in Seq(Byte) /\ w1 \in Seq(Byte)
  BY PlainIs, BytesAre, SeqMonotonic
<1>3. PICK m : m = k1 \o z /\ m \in Seq(Byte) /\ m # <<>> /\ Begins(m, White)
  <2>1. k1 \o z \in Seq(Byte) /\ k1 \o z # <<>> /\ (k1 \o z)[1] = k1[1]
    BY ConcatProperties, StartsWith
  <2>2. QED
    BY <2>1 DEF Begins
<1>4. w = w1 /\ k = m
  <2>1. Associates(w1, k1, z)
    BY <1>2, Associate
  <2>2. SameText(w, k, w1, m)
    BY <1>3, <2>1, Zenon DEF SameText, Associates
  <2>3. Byte \ White = Dark
    BY DEF Dark
  <2>4. QED
    BY <1>1, <1>3, <2>2, <2>3, SplitsOnce
<1>5. PICK b, o : b = k[1] /\ o = <<b>> /\ b \in White /\ k = o \o l /\ o \in Seq(Byte)
  <2>1. k[1] \in White /\ k = <<k[1]>> \o l
    BY <1>1, <1>3, <1>4
  <2>2. <<k[1]>> \in Seq(Byte)
    BY <2>1, BytesAre
  <2>3. QED
    BY <2>1, <2>2
<1>6. PICK v, s : v = w \o o /\ s = v \o q /\ v \in Seq(Byte) /\ s \in Seq(Byte)
  BY <1>1, <1>5, ConcatProperties
<1>7. SameText(s, c, rest, z)
  <2>1. Associates(w, o, l) /\ Associates(v, q, c)
    BY <1>1, <1>5, <1>6, Associate
  <2>2. w \o k = v \o l
    BY <1>5, <1>6, <2>1, Zenon DEF Associates
  <2>3. v \o l = s \o c
    BY <1>1, <1>6, <2>1, Zenon DEF Associates
  <2>4. QED
    BY <2>2, <2>3, Zenon DEF SameText
<1>8. Without(rest, {NewLine})
  <2>1. \A i \in 1 .. Len(rest) : rest[i] \in Plain
    BY ElementOfSeq
  <2>2. QED
    BY <2>1, PlainIs DEF Without
<1>9. PICK x \in Seq(Byte) : s = rest \o x /\ (z = <<>> => x = <<>>)
  <2>1. \E x \in Seq(Byte) : Follows(s, rest, x, z)
    BY <1>1, <1>2, <1>6, <1>7, <1>8, BeginsWith
  <2>2. QED
    BY <2>1 DEF Follows
<1>10. IsPrefix(rest, s) /\ (z = <<>> => s = rest)
  BY <1>2, <1>9, Prefixed, ConcatEmptySeq
<1>11. QED
  BY <1>5, <1>6, <1>10 DEF Shows

\* Of e and what follows it, no word of e is lost.
LEMMA WordsShown ==
  ASSUME NEW e \in Seq(Plain), NEW z \in Seq(Sound), NEW d,
         ReadFrom(d, <<Space>> \o (e \o z))
  PROVE  \E k \in 0 .. Len(e), b \in White : Reads(e, d, z = <<>>, k, b)
<1>1. ReadFrom(d, <<Space>> \o (e \o z)) /\ e \in Seq(Plain)
  OBVIOUS
<1>2. e \in Seq(Byte) /\ z \in Seq(Byte) /\ <<Space>> \in Seq(White) /\ <<Space>> \in Seq(Byte)
  BY <1>1, PlainIs, BytesAre, SeqMonotonic
<1>3. PICK kk : kk = FirstIn(e, Dark)
  OBVIOUS
<1>4. First(e, Dark, kk) /\ kk \in 1 .. Len(e) + 1 /\ Len(e) \in Nat
  BY <1>2, <1>3, FirstInIs DEF First
<1>5. PICK lead, rest : lead = SubSeq(e, 1, kk - 1) /\ rest = SubSeq(e, kk, Len(e))
  OBVIOUS
<1>6. /\ lead \in Seq(Byte) /\ Len(lead) = kk - 1 /\ \A i \in 1 .. kk - 1 : lead[i] = e[i]
      /\ rest \in Seq(Byte) /\ Len(rest) = Len(e) + 1 - kk
      /\ \A i \in 1 .. Len(e) + 1 - kk : rest[i] = e[kk + i - 1]
      /\ e = lead \o rest
  <2>1. e \in Seq(Byte) /\ kk \in 1 .. Len(e) + 1
    BY <1>2, <1>4
  <2>2. /\ SubSeq(e, 1, kk - 1) \in Seq(Byte) /\ Len(SubSeq(e, 1, kk - 1)) = kk - 1
        /\ \A i \in 1 .. kk - 1 : SubSeq(e, 1, kk - 1)[i] = e[i]
        /\ SubSeq(e, kk, Len(e)) \in Seq(Byte) /\ Len(SubSeq(e, kk, Len(e))) = Len(e) + 1 - kk
        /\ \A i \in 1 .. Len(e) + 1 - kk : SubSeq(e, kk, Len(e))[i] = e[kk + i - 1]
        /\ e = SubSeq(e, 1, kk - 1) \o SubSeq(e, kk, Len(e))
    BY <2>1, Apart, Zenon
  <2>3. QED
    BY <1>5, <2>2
<1>7. \A i \in 1 .. kk - 1 : e[i] \in White
  <2>1. \A i \in 1 .. kk - 1 : i \in 1 .. Len(e)
    BY <1>4
  <2>2. \A i \in 1 .. kk - 1 : e[i] \in Byte /\ e[i] \notin Dark
    BY <1>2, <1>4, <2>1, ElementOfSeq DEF First
  <2>3. QED
    BY <2>2 DEF Dark
<1>8. lead \in Seq(White)
  <2>1. ASSUME NEW i \in 1 .. kk - 1 PROVE lead[i] \in White
    BY <1>6, <1>7
  <2>2. Len(lead) \in Nat
    BY <1>6
  <2>3. QED
    BY <1>6, <2>1, <2>2
<1>9. Begins(rest, Dark)
  <2>1. SUFFICES ASSUME rest # <<>> PROVE rest[1] \in Dark
    BY DEF Begins
  <2>2. Len(rest) \in Nat \ {0} /\ Len(e) \in Nat /\ kk \in 1 .. Len(e) + 1
    BY <1>4, <1>6, <2>1, EmptySeq
  <2>3. kk <= Len(e) /\ rest[1] = e[kk]
    <3>1. kk <= Len(e) /\ 1 \in 1 .. Len(e) + 1 - kk /\ kk + 1 - 1 = kk
      BY <1>6, <2>2
    <3>2. QED
      BY <1>6, <3>1
  <2>4. QED
    BY <1>4, <2>3 DEF First
<1>10. PICK o, u, s, r : o = <<Space>> /\ u = o \o lead /\ s = rest \o z /\ r = o \o (e \o z)
  OBVIOUS
<1>11. u \in Seq(White) /\ s \in Seq(Byte) /\ r = u \o s /\ r \in Seq(Byte)
  <2>1. u \in Seq(White)
    BY <1>2, <1>8, <1>10, ConcatProperties
  <2>2. s \in Seq(Byte)
    BY <1>2, <1>6, <1>10, ConcatProperties
  <2>3. Associates(lead, rest, z) /\ Associates(o, lead, s)
    BY <1>2, <1>6, <1>10, <2>2, Associate
  <2>4. r = u \o s
    BY <1>6, <1>10, <2>3, Zenon DEF Associates
  <2>5. u \in Seq(Byte)
    BY <2>1, BytesAre, SeqMonotonic
  <2>6. QED
    BY <2>1, <2>2, <2>4, <2>5, ConcatProperties
<1>12. PICK w, k, l, q, c : /\ Taken(r, w, k, l, q, c) /\ SkipWhite(r) = w \o k
                            /\ SkipWhite(r) \in Seq(Byte) /\ Begins(SkipWhite(r), Dark)
                            /\ \E x \in Seq(White) : r = x \o SkipWhite(r)
  BY <1>11, TakesApart
<1>13. d.username = w /\ d.message = q
  BY <1>1, <1>10, <1>12 DEF ReadFrom, Taken
<1>14. Range(w) \cap White = {}
  <2>1. w \in Seq(Dark)
    BY <1>12 DEF Taken
  <2>2. Range(w) \subseteq Dark
    BY <2>1, RangeIn
  <2>3. QED
    BY <2>2 DEF Dark
<1>15. Begins(s, Dark) => w \o k = s
  <2>1. SUFFICES ASSUME Begins(s, Dark) PROVE w \o k = s
    OBVIOUS
  <2>2. PICK x, y : y = SkipWhite(r) /\ x \in Seq(White) /\ r = x \o y
    BY <1>12
  <2>3. SameText(x, y, u, s)
    BY <1>11, <2>2 DEF SameText
  <2>4. White = Byte \ Dark
    BY BytesAre DEF Dark
  <2>5. y = s
    BY <1>11, <1>12, <2>1, <2>2, <2>3, <2>4, SplitsOnce
  <2>6. QED
    BY <1>12, <2>2, <2>5
<1>16. \E b \in White : Shows(w, b, q, rest, z = <<>>)
  <2>1. CASE rest = <<>>
    <3>1. IsPrefix(rest, (w \o <<Space>>) \o q)
      <4>1. w \in Seq(Byte) /\ q \in Seq(Byte)
        BY <1>12 DEF Taken
      <4>2. (w \o <<Space>>) \o q \in Seq(Byte)
        BY <1>2, <4>1, ConcatProperties
      <4>3. rest \o ((w \o <<Space>>) \o q) = (w \o <<Space>>) \o q
        BY <2>1, <4>2, ConcatEmptySeq
      <4>4. QED
        BY <1>6, <4>2, <4>3, Prefixed
    <3>2. ASSUME z = <<>> PROVE (w \o <<Space>>) \o q = rest \o <<Space>>
      <4>1. s = <<>>
        BY <1>6, <1>10, <2>1, <3>2, ConcatEmptySeq
      <4>2. w \o k = <<>>
        BY <1>15, <4>1 DEF Begins
      <4>3. (w \o <<Space>>) \o q = <<Space>>
        <5>1. Taken(r, w, k, l, q, c)
          BY <1>12
        <5>2. SameText(w, k, <<>>, <<>>)
          BY <1>6, <2>1, <4>2, ConcatEmptySeq DEF SameText
        <5>3. QED
          BY <5>1, <5>2, ShowsNothing
      <4>4. QED
        BY <1>2, <2>1, <4>3, ConcatEmptySeq
    <3>3. QED
      BY <3>1, <3>2, BytesAre DEF Shows
  <2>2. CASE rest # <<>>
    <3>1. SameText(w, k, rest, z)
      <4>1. s[1] = rest[1]
        BY <1>2, <1>6, <1>10, <2>2, StartsWith
      <4>2. Begins(s, Dark)
        BY <1>9, <2>2, <4>1 DEF Begins
      <4>3. QED
        BY <1>10, <1>15, <4>2 DEF SameText
    <3>2. rest \in Seq(Plain)
      BY <1>1, <1>6, PartsOf
    <3>3. PICK w1 \in Seq(Dark), k1 \in Seq(Byte) : rest = w1 \o k1 /\ Begins(k1, White)
      BY <1>6, Divides
    <3>4. CASE k1 = <<>>
      <4>1. rest = w1
        <5>1. w1 \in Seq(Byte)
          BY BytesAre, SeqMonotonic
        <5>2. QED
          BY <3>3, <3>4, <5>1, ConcatEmptySeq
      <4>2. Shows(w, Space, q, rest, z = <<>>)
        BY <1>2, <1>12, <3>1, <3>3, <4>1, ShowsWord
      <4>3. QED
        BY <4>2, BytesAre
    <3>5. CASE k1 # <<>>
      BY <1>2, <1>12, <3>1, <3>2, <3>3, <3>5, ShowsLine
    <3>6. QED
      BY <3>4, <3>5
  <2>3. QED
    BY <2>1, <2>2
<1>17. PICK b \in White : Shows(w, b, q, rest, z = <<>>)
  BY <1>16
<1>18. kk - 1 \in 0 .. Len(e) /\ (kk - 1) + 1 = kk
  BY <1>4
<1>19. Reads(e, d, z = <<>>, kk - 1, b)
  <2>1. rest = <<>> \/ rest[1] \notin White
    BY <1>9 DEF Begins, Dark
  <2>2. IsPrefix(rest, (w \o <<b>>) \o q)
    BY <1>17 DEF Shows
  <2>3. z = <<>> => (w \o <<b>>) \o q = rest \/ (w \o <<b>>) \o q = rest \o <<b>>
    BY <1>17 DEF Shows
  <2>4. SubSeq(e, (kk - 1) + 1, Len(e)) = rest
    BY <1>5, <1>18
  <2>5. QED
    BY <1>7, <1>13, <1>14, <2>1, <2>2, <2>3, <2>4 DEF Reads
<1>20. QED
  BY <1>18, <1>19

\* Whatever the name, no word of it and of the text is lost.
LEMMA WordsRead ==
  ASSUME NEW n \in Seq(Plain), NEW t \in Seq(Plain), NEW a \in Seq(Sound), NEW d,
         DataOf(d, n, t, a), NEW e, e = CString((n \o <<Space>>) \o t),
         NEW ends, ends = (Zero \in Range(n \o t) \/ a = <<>>)
  PROVE  \E k \in 0 .. Len(e), b \in White : Reads(e, d, ends, k, b)
<1>1. PICK e1 \in Seq(Plain), z \in Seq(Sound) :
        /\ e1 = CString((n \o <<Space>>) \o t)
        /\ Ended(n, t, a, z) /\ ReadFrom(d, <<Space>> \o (e1 \o z))
  BY DataIs
<1>2. PICK k \in 0 .. Len(e1), b \in White : Reads(e1, d, z = <<>>, k, b)
  BY <1>1, WordsShown
<1>3. e1 = e /\ (ends => z = <<>>)
  BY <1>1 DEF Ended
<1>4. Reads(e1, d, ends, k, b)
  BY <1>2, <1>3 DEF Reads
<1>5. QED
  BY <1>2, <1>3, <1>4

-----------------------------------------------------------------------------
(* The conversation.                                                       *)

\* What was entered has no line break in it, and the frame is made of it.
MessageInv ==
  /\ at \in {"name", "text", "sent", "relayed", "shown"}
  /\ at # "name" => name \in Seq(Plain) /\ name # <<>>
  /\ at \in {"sent", "relayed", "shown"} => text \in Seq(Plain)
  /\ at = "sent" => frame = name \o <<Space>> \o text
  /\ at \in {"relayed", "shown"} =>
       frame = g_serverFilter \o <<Space>> \o (name \o <<Space>> \o text)
  /\ at = "shown" => after \in Seq(Sound) /\ data = getData(frame \o after)

LEMMA LinesArePlain ==
  ASSUME NEW n, NEW s \in Line(n) PROVE s \in Seq(Plain)
<1>1. PICK m \in 0 .. n : s \in [1 .. m -> Visible \cup {Space, Tab, Zero}]
  BY DEF Line, BoundedSeq, SeqOf
<1>2. s \in Seq(Visible \cup {Space, Tab, Zero})
  BY <1>1
<1>3. Visible \cup {Space, Tab, Zero} \subseteq Plain
  BY DEF Plain
<1>4. QED
  BY <1>2, <1>3, SeqMonotonic

LEMMA InitMessage == MessageInit => MessageInv
BY DEF MessageInit, MessageInv

LEMMA NextMessage == MessageInv /\ [MessageNext]_messageVars => MessageInv'
<1>1. SUFFICES ASSUME MessageInv, [MessageNext]_messageVars PROVE MessageInv'
  OBVIOUS
<1>2. ASSUME NEW s \in Line(MaxName + 1), EnterName(s) PROVE MessageInv'
  <2>1. s \in Seq(Plain)
    BY LinesArePlain
  <2>2. name' \in Seq(Plain) /\ name' # <<>>
    BY <1>2, <2>1, PlainIs DEF EnterName
  <2>3. QED
    BY <1>2, <2>2 DEF EnterName, MessageInv
<1>3. ASSUME NEW s \in Line(MaxName + 1), RejectName(s) PROVE MessageInv'
  BY <1>1, <1>3 DEF RejectName, MessageInv, messageVars
<1>4. ASSUME NEW s \in Line(MaxText), EnterText(s) PROVE MessageInv'
  <2>1. s \in Seq(Plain)
    BY LinesArePlain
  <2>2. QED
    BY <1>1, <1>4, <2>1 DEF EnterText, MessageInv
<1>5. CASE Relay
  BY <1>1, <1>5 DEF Relay, MessageInv
<1>6. ASSUME NEW s \in BoundedSeq(Visible \cup White, MaxAfter), Show(s) PROVE MessageInv'
  <2>1. PICK m \in 0 .. MaxAfter : s \in [1 .. m -> Visible \cup White]
    BY DEF BoundedSeq, SeqOf
  <2>2. s \in Seq(Sound)
    <3>1. s \in Seq(Visible \cup White)
      BY <2>1
    <3>2. Visible \cup White \subseteq Sound
      BY BytesAre
    <3>3. QED
      BY <3>1, <3>2, SeqMonotonic
  <2>3. QED
    BY <1>1, <1>6, <2>2 DEF Show, MessageInv
<1>7. CASE Again
  BY <1>1, <1>7 DEF Again, MessageInv
<1>8. CASE UNCHANGED messageVars
  BY <1>1, <1>8 DEF MessageInv, messageVars
<1>9. QED
  BY <1>1, <1>2, <1>3, <1>4, <1>5, <1>6, <1>7, <1>8 DEF MessageNext

LEMMA MessageHolds == TextSpec => []MessageInv
<1>1. TextInit => MessageInv
  BY InitMessage DEF TextInit
<1>2. MessageInv /\ [TextNext]_<<messageVars, address>> => MessageInv'
  <2>1. SUFFICES ASSUME MessageInv, [TextNext]_<<messageVars, address>> PROVE MessageInv'
    OBVIOUS
  <2>2. [MessageNext]_messageVars
    BY <2>1 DEF TextNext
  <2>3. QED
    BY <2>1, <2>2, NextMessage
<1>3. QED
  BY <1>1, <1>2, PTL DEF TextSpec

\* A name of one word is shown as it was entered, and its text up to the first
\* zero byte in it, the text's own white space included, however long they are;
\* getData finds the text behind the one space that the sender put between.
THEOREM NamesCorrect == TextSpec => []OneWordNameShown
<1>1. MessageInv => OneWordNameShown
  <2>1. SUFFICES ASSUME MessageInv, at = "shown", Range(name) \cap {Space, Tab, Zero} = {}
                 PROVE  /\ data.username = name /\ IsPrefix(CString(text), data.message)
                        /\ Zero \in Range(text) \/ after = <<>> => data.message = CString(text)
    BY DEF OneWordNameShown
  <2>2. /\ name \in Seq(Plain) /\ name # <<>> /\ text \in Seq(Plain) /\ after \in Seq(Sound)
        /\ DataOf(data, name, text, after)
    BY <2>1 DEF MessageInv, DataOf
  <2>3. QED
    BY <2>1, <2>2, NameRead
<1>2. QED
  BY <1>1, MessageHolds, PTL

\* No word of a name and a text is lost, changes its place or runs into another
\* on the way through sender, server and receiver, as far as the first zero byte
\* in them, with names of several words too.
THEOREM WordsCorrect == TextSpec => []NoWordLost
<1>1. MessageInv => NoWordLost
  <2>1. SUFFICES ASSUME MessageInv, at = "shown" PROVE NoWordLost
    BY DEF NoWordLost
  <2>2. /\ name \in Seq(Plain) /\ text \in Seq(Plain) /\ after \in Seq(Sound)
        /\ DataOf(data, name, text, after)
    BY <2>1 DEF MessageInv, DataOf
  <2>3. PICK e, z : /\ e = CString(name \o <<Space>> \o text)
                    /\ z = (Zero \in Range(name \o text) \/ after = <<>>)
    OBVIOUS
  <2>4. \E k \in 0 .. Len(e), b \in White : Reads(e, data, z, k, b)
    BY <2>2, <2>3, WordsRead
  <2>5. QED
    BY <2>3, <2>4 DEF NoWordLost, Reads
<1>2. QED
  BY <1>1, MessageHolds, PTL

=============================================================================
