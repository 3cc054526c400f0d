----------------------------- MODULE ChatMessage ----------------------------
(***************************************************************************)
(* What becomes of a name and a line of text on the way from one user to   *)
(* another: the sender joins them into a frame with a space between, the   *)
(* server puts its filter in front, and the receiver takes the frame apart *)
(* again with the formatted input of a stringstream.  The stringstream is  *)
(* made from a char pointer: it holds what is in memory up to the first    *)
(* zero byte, which may be one that the user typed, inside the frame, or   *)
(* the first one somewhere behind the frame.                               *)
(*                                                                         *)
(* A frame is a sequence of bytes; the filter, a word, counts as one byte, *)
(* and so does the name "User".                                            *)
(***************************************************************************)
EXTENDS Bytes, Naturals, Sequences, SequencesExt

CONSTANTS Letter,    \* bytes to make words of
          MaxName,   \* the longest name that checkName accepts
          MaxText,   \* bound: length of a line
          MaxAfter   \* bound: bytes behind a frame before a zero byte

\* std::isspace.
White == {Space, Tab, NewLine}
Visible == Letter \ (White \cup {Zero})

g_serverFilter == <<"_from_server_">>
User == <<"User">>

\* std::getline gives lines: any bytes but a line break, zero bytes too.
Line(n) == BoundedSeq(Visible \cup {Space, Tab, Zero}, n)

VARIABLES
  at,         \* "name", "text", "sent", "relayed" or "shown"
  name, text, \* what the sender's user entered
  frame,      \* the frame on its way
  after,      \* what is in memory behind the frame, up to the next zero byte
  data        \* what getData returned

messageVars == <<at, name, text, frame, after, data>>

Nothing == [filter |-> <<>>, username |-> <<>>, message |-> <<>>]

-----------------------------------------------------------------------------
(* Formatted input.  What is left of a stream is a sequence; an operation  *)
(* at its end fails, and so do all that follow.                            *)

\* Where the first byte of s in set B is, or the place behind s.
FirstIn(s, B) ==
  IF \E i \in DOMAIN s : s[i] \in B
  THEN CHOOSE i \in DOMAIN s : s[i] \in B /\ \A j \in 1 .. i - 1 : s[j] \notin B
  ELSE Len(s) + 1

\* stream >> word: white space is skipped and the next run of other bytes taken.
SkipWhite(s) == SubSeq(s, FirstIn(s, Range(s) \ White), Len(s))
Word(s) == LET t == SkipWhite(s) IN SubSeq(t, 1, FirstIn(t, White) - 1)
AfterWord(s) == LET t == SkipWhite(s) IN SubSeq(t, FirstIn(t, White), Len(t))

\* stream.get() and std::getline.
AfterByte(s) == IF s = <<>> THEN <<>> ELSE Tail(s)
ReadLine(s) == SubSeq(s, 1, FirstIn(s, {NewLine}) - 1)

\* A stringstream made from a char pointer.
CString(bytes) == SubSeq(bytes, 1, FirstIn(bytes, {Zero}) - 1)

\* CChatMessage::getData.
getData_ForgetsGet(bytes) ==
  LET stream == CString(bytes)
  IN [filter |-> Word(stream), username |-> Word(AfterWord(stream)),
      message |-> ReadLine(AfterWord(AfterWord(stream)))]
getData_Words(bytes) ==
  LET stream == CString(bytes)
  IN [filter |-> Word(stream), username |-> Word(AfterWord(stream)),
      message |-> Word(AfterByte(AfterWord(AfterWord(stream))))]
getData(bytes) ==
  LET stream == CString(bytes)
  IN [filter |-> Word(stream), username |-> Word(AfterWord(stream)),
      message |-> ReadLine(AfterByte(AfterWord(AfterWord(stream))))]

-----------------------------------------------------------------------------

MessageInit ==
  /\ at = "name"
  /\ name = <<>> /\ text = <<>> /\ frame = <<>> /\ after = <<>>
  /\ data = Nothing

\* checkName: an empty answer stands for "User", a long one is asked for again.
EnterName(s) ==
  /\ at = "name"
  /\ Len(s) <= MaxName
  /\ name' = IF s = <<>> THEN User ELSE s
  /\ at' = "text"
  /\ UNCHANGED <<text, frame, after, data>>
RejectName(s) ==
  /\ at = "name"
  /\ Len(s) > MaxName
  /\ UNCHANGED messageVars

\* sendMessage and the constructor of CChatMessage.
EnterText(s) ==
  /\ at = "text"
  /\ s # <<>>
  /\ text' = s
  /\ frame' = name \o <<Space>> \o s
  /\ at' = "sent"
  /\ UNCHANGED <<name, after, data>>

\* recvMsg and sendMsg.
Relay ==
  /\ at = "sent"
  /\ frame' = g_serverFilter \o <<Space>> \o frame
  /\ at' = "relayed"
  /\ UNCHANGED <<name, text, after, data>>

\* receiveMessage and displayMessage: nobody wrote the bytes behind the frame.
Show(bytes) ==
  /\ at = "relayed"
  /\ after' = bytes
  /\ data' = getData(frame \o bytes)
  /\ at' = "shown"
  /\ UNCHANGED <<name, text, frame>>

\* The next line of the same user; each frame has a CChatMessage of its own.
Again ==
  /\ at = "shown"
  /\ at' = "text"
  /\ text' = <<>> /\ frame' = <<>> /\ after' = <<>> /\ data' = Nothing
  /\ UNCHANGED name

MessageNext ==
  \/ \E s \in Line(MaxName + 1) : EnterName(s) \/ RejectName(s)
  \/ \E s \in Line(MaxText) : EnterText(s)
  \/ Relay
  \/ \E s \in BoundedSeq(Visible \cup White, MaxAfter) : Show(s)
  \/ Again

MessageSpec == MessageInit /\ [][MessageNext]_messageVars

-----------------------------------------------------------------------------
(* Properties.                                                             *)

\* A name of one word is shown as it was entered, and the text behind it as far
\* as its first zero byte, its own spaces included, wherever they are.  It is
\* all there is, unless neither the text nor the byte behind the frame ends it.
OneWordNameShown ==
  LET line == CString(text) IN
  at = "shown" /\ Range(name) \cap {Space, Tab, Zero} = {} =>
    /\ data.username = name
    /\ IsPrefix(line, data.message)
    /\ Zero \in Range(text) \/ after = <<>> => data.message = line

\* Of any name and text, as far as the first zero byte in them, nothing is lost
\* but white space in front of the first word and one byte of it behind that
\* word, which is the name that is shown: no word disappears, changes its place
\* or runs into the next, only the border between name and text moves.
NoWordLost ==
  at = "shown" =>
    LET entered == CString(name \o <<Space>> \o text)
        ends == Zero \in Range(name \o text) \/ after = <<>>
    IN \E k \in 0 .. Len(entered), b \in White :
         LET words == SubSeq(entered, k + 1, Len(entered))
             shown == data.username \o <<b>> \o data.message
         IN /\ \A i \in 1 .. k : entered[i] \in White
            /\ words = <<>> \/ words[1] \notin White
            /\ Range(data.username) \cap White = {}
            /\ IsPrefix(words, shown)
            /\ ends => shown = words \/ shown = words \o <<b>>

=============================================================================
