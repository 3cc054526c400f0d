------------------------- MODULE DaemonStartProofs --------------------------
(***************************************************************************)
(* The safety of DaemonStart for any number of descriptors.  What it says  *)
(* of types and of the detached server holds whatever the server was       *)
(* started with; what it says of the log and of the console, if the three  *)
(* standard descriptors were open.                                         *)
(***************************************************************************)
EXTENDS DaemonStart, FiniteSetTheorems, WellFoundedInduction, TLAPS

-----------------------------------------------------------------------------
(* The lowest free descriptor.                                             *)

\* A set of numbers that is not empty has a least element.
LEMMA LeastNumber ==
  ASSUME NEW T, T \subseteq Nat, T # {}
  PROVE  \E x \in T : \A y \in T : x <= y
<1> DEFINE R == OpToRel(<, Nat)
<1>1. IsWellFoundedOn(R, Nat)
  BY NatLessThanWellFounded
<1>2. \A x, y \in Nat : <<y, x>> \in R <=> y < x
  BY DEF OpToRel
<1> HIDE DEF R
<1>3. PICK x \in T : \A y \in T : ~ (<<y, x>> \in R)
  BY <1>1, WFMin
<1>4. ASSUME NEW y \in T  PROVE x <= y
  <2>1. x \in Nat /\ y \in Nat
    OBVIOUS
  <2>2. ~ (y < x)
    BY <1>2, <1>3, <2>1
  <2> QED  BY <2>1, <2>2
<1> QED  BY <1>4

LEMMA LowestIsFree ==
  ASSUME NEW p \in Process, Free(p) # {}
  PROVE  /\ Lowest(p) \in Fd /\ table[p][Lowest(p)] = "closed"
         /\ \A g \in Fd : table[p][g] = "closed" => Lowest(p) <= g
<1>1. Free(p) \subseteq Nat
  BY StartAssumption DEF Free, Fd
<1>2. \E f \in Free(p) : \A g \in Free(p) : f <= g
  BY <1>1, LeastNumber
<1>3. Lowest(p) \in Free(p) /\ \A g \in Free(p) : Lowest(p) <= g
  BY <1>2 DEF Lowest
<1> QED  BY <1>3 DEF Free

-----------------------------------------------------------------------------
(* Where the two processes can be.                                         *)

\* Only the child detaches itself, and only when the parent is about to end.
Route ==
  /\ arg \in Argument
  /\ pc \in [Process -> {"absent", "init", "args", "fork", "setsid", "chdir",
                         "close", "serve", "caught", "exit", "ended"}]
  /\ pc["parent"] \in {"init", "args", "fork", "serve", "caught", "exit", "ended"}
  /\ pc["child"] \notin {"init", "args", "fork"}
  /\ pc["child"] # "absent" => pc["parent"] \in {"exit", "ended"}
  /\ pc["parent"] \in {"serve", "caught"} => arg = "-i"
  /\ cwd \in [Process -> {"start", "root"}] /\ cwd["parent"] = "start"
  /\ session \subseteq Process
  /\ pc["child"] = "absent" => cwd["child"] = "start"
  /\ pc["child"] \in {"chdir", "close", "serve"} => "child" \in session
  /\ pc["child"] \in {"close", "serve"} => cwd["child"] = "root"

LEMMA InitRoute == Init => Route
  BY DEF Init, Route, Process, Argument

LEMMA NextRoute == Route /\ [Next]_vars => Route'
<1> SUFFICES ASSUME Route, [Next]_vars  PROVE Route'
  OBVIOUS
<1> USE DEF Route, Process, Argument
<1>1. ASSUME NEW p \in Process, Banner(p) \/ Interactive(p) \/ Daemon(p)
      PROVE  Route'
  BY <1>1, ZenonT(40) DEF Banner, Interactive, Daemon, Goto
<1>2. ASSUME NEW p \in Process,
             Usage(p) \/ Return(p) \/ Catch(p) \/ BadExit(p) \/ Exit(p)
      PROVE  Route'
  <2>1. /\ UNCHANGED <<arg, cwd, session>>
        /\ \/ pc[p] \in {"args", "serve", "caught"} /\ pc' = [pc EXCEPT ![p] = "exit"]
           \/ pc[p] = "serve" /\ pc' = [pc EXCEPT ![p] = "caught"]
           \/ pc[p] = "exit" /\ pc' = [pc EXCEPT ![p] = "ended"]
    BY <1>2 DEF Usage, Return, Catch, BadExit, Exit, Goto
  <2> QED  BY <2>1
<1>3. ASSUME NEW p \in Process, Fork(p)  PROVE Route'
  <2>1. p = "parent" /\ pc["child"] = "absent"
    BY <1>3 DEF Fork
  <2>2. pc' = [pc EXCEPT !["parent"] = "exit", !["child"] = "setsid"]
    BY <1>3 DEF Fork
  <2>3. pc'["parent"] = "exit" /\ pc'["child"] = "setsid"
    BY <2>2
  <2> QED  BY <1>3, <2>1, <2>2, <2>3 DEF Fork
<1>4. ASSUME NEW p \in Process, Fails(p)  PROVE Route'
  BY <1>4 DEF Fails, Goto
<1>5. ASSUME NEW p \in Process, Setsid(p) \/ Chdir(p) \/ CloseStandard(p)
      PROVE  Route'
  BY <1>5, ZenonT(40) DEF Setsid, Chdir, CloseStandard, Goto
<1>6. ASSUME NEW p \in Process, Report(p) \/ OpenSocket(p) \/ Flush(p)
      PROVE  Route'
  BY <1>6 DEF Report, OpenSocket, Flush
<1>7. CASE UNCHANGED vars
  BY <1>7 DEF vars
<1> QED  BY <1>1, <1>2, <1>3, <1>4, <1>5, <1>6, <1>7 DEF Next

-----------------------------------------------------------------------------
(* What is open.                                                           *)

LogFile == {LogIn[d] : d \in DOMAIN LogIn}

\* Where a record may have gone.
Places == SUBSET (Thing \cup {"nowhere"})

Types ==
  /\ table \in [Process -> [Fd -> Thing]]
  /\ m_file \in [Process -> Fd \cup {-1}]
  /\ m_firstWrite \in [Process -> BOOLEAN]
  /\ logger \in BOOLEAN /\ buffered \subseteq Process
  /\ stored \in [Process -> Places] /\ shown \in [Process -> SUBSET Thing]

\* The log is opened by the first record, before the fork, in the directory the
\* server was started in; a log in a table is the one m_file speaks of.
Opened(p) ==
  /\ m_firstWrite[p] <=> pc[p] \in {"absent", "init"}
  /\ m_firstWrite[p] => m_file[p] = -1
  /\ \A f \in Fd : table[p][f] \in LogFile =>
       table[p][f] = "sever.log" /\ f = m_file[p]

\* The console has the descriptors it was given, but none of a child that serves.
Attached(p) ==
  /\ pc[p] = "init" => \A f \in Given : table[p][f] = "console"
  /\ \A f \in Fd : table[p][f] = "console" =>
       f \in Given /\ ~ (p = "child" /\ pc[p] \in {"serve", "caught"})

StartInv ==
  /\ Route /\ Types
  /\ \A p \in Process : Opened(p) /\ Attached(p)

LEMMA InitStart == Init => StartInv
<1> SUFFICES ASSUME Init  PROVE StartInv
  OBVIOUS
<1>1. Types
  BY DEF Init, Types, Thing, Places
<1>2. ASSUME NEW p \in Process  PROVE Opened(p) /\ Attached(p)
  <2>1. /\ m_firstWrite[p] = TRUE /\ m_file[p] = -1 /\ pc[p] \in {"absent", "init"}
        /\ \A f \in Fd : table[p][f] = IF f \in Given THEN "console" ELSE "closed"
    BY <1>2 DEF Init
  <2>2. Given \subseteq Fd /\ "console" \notin LogFile /\ "closed" \notin LogFile
    BY StartAssumption DEF Fd, LogFile, LogIn
  <2>3. pc[p] \notin {"serve", "caught"}
    BY <2>1
  <2> QED  BY <2>1, <2>2, <2>3 DEF Opened, Attached
<1> QED  BY <1>1, <1>2, InitRoute DEF StartInv

\* Where the records of a process go once the log was tried to be opened.
Where(p) == IF m_file[p] = -1 THEN "nowhere" ELSE table[p][m_file[p]]

\* After the first record a log statement opens nothing: it stores a record
\* where m_file leads.
LEMMA StatementFacts ==
  ASSUME StartInv, NEW p \in Process, NEW s, pc[p] \notin {"absent", "init"}, PLOG(p, s)
  PROVE  /\ UNCHANGED <<plog, table>>
         /\ stored' = stored \/ stored' = [stored EXCEPT ![p] = @ \cup {Where(p)}]
<1>1. m_firstWrite[p] = FALSE /\ m_firstWrite \in [Process -> BOOLEAN]
  <2>1. ~ m_firstWrite[p] /\ m_firstWrite \in [Process -> BOOLEAN]
    BY DEF StartInv, Types, Opened
  <2> QED  BY <2>1
<1>2. CASE ~ (getInstance /\ checkSeverity(s))
  BY <1>2 DEF PLOG
<1>3. CASE write(p)
  <2>1. UNCHANGED <<m_file, table>>
    BY <1>1, <1>3 DEF write
  <2>2. m_firstWrite' = m_firstWrite
    BY <1>1, <1>3 DEF write
  <2>3. stored' = [stored EXCEPT ![p] = @ \cup {Where(p)}]
    BY <1>3, <2>1 DEF write, File_write, Where
  <2> QED  BY <2>1, <2>2, <2>3 DEF plog
<1> QED  BY <1>2, <1>3 DEF PLOG

\* What a statement stores is a thing.
LEMMA StoredType ==
  ASSUME Types, NEW p \in Process,
         stored' = stored \/ stored' = [stored EXCEPT ![p] = @ \cup {Where(p)}]
  PROVE  stored' \in [Process -> Places]
<1>1. CASE stored' = stored
  BY <1>1 DEF Types
<1>2. CASE stored' = [stored EXCEPT ![p] = @ \cup {Where(p)}]
  <2>1. m_file[p] \in Fd \cup {-1} /\ stored[p] \in Places
    BY DEF Types
  <2>2. Where(p) \in Thing \cup {"nowhere"}
    BY <2>1 DEF Types, Where
  <2>3. stored[p] \cup {Where(p)} \in Places
    BY <2>1, <2>2 DEF Places
  <2> QED  BY <1>2, <2>3 DEF Types
<1> QED  BY <1>1, <1>2

LEMMA ShownType ==
  ASSUME Types, NEW p \in Process, Written(p) \/ shown' = shown
  PROVE  shown' \in [Process -> SUBSET Thing]
<1>1. 1 \in Fd /\ table[p][1] \in Thing
  BY StartAssumption DEF Types, Fd
<1> QED  BY <1>1 DEF Types, Written

\* The first record: the log, if it can be opened, gets a descriptor that was free.
LEMMA BannerStart ==
  ASSUME StartInv, NEW p \in Process, Banner(p)
  PROVE  /\ p = "parent" /\ pc' = [pc EXCEPT ![p] = "args"]
         /\ m_firstWrite' = [m_firstWrite EXCEPT ![p] = FALSE]
         /\ m_file[p] = -1
         /\ \/ /\ UNCHANGED <<m_file, table>>
               /\ stored' = [stored EXCEPT ![p] = @ \cup {"nowhere"}]
            \/ \E f \in Fd : /\ table[p][f] = "closed"
                             /\ m_file' = [m_file EXCEPT ![p] = f]
                             /\ table' = [table EXCEPT ![p][f] = "sever.log"]
                             /\ stored' = [stored EXCEPT ![p] = @ \cup {"sever.log"}]
<1>1. p = "parent" /\ pc' = [pc EXCEPT ![p] = "args"] /\ write(p) /\ cwd[p] = "start"
  BY DEF Banner, Goto, StartInv, Route, Process
<1>2. m_firstWrite[p] /\ m_file[p] = -1
  BY DEF Banner, StartInv, Opened
<1>3. openLogFile(p) /\ m_firstWrite' = [m_firstWrite EXCEPT ![p] = FALSE]
  BY <1>1, <1>2 DEF write
<1>4. stored' = [stored EXCEPT ![p] =
        @ \cup {IF m_file'[p] = -1 THEN "nowhere" ELSE table'[p][m_file'[p]]}]
  BY <1>1 DEF write, File_write
<1>5. File_open(p, "sever.log")
  BY <1>1, <1>3 DEF openLogFile, LogIn
<1>6. CASE UNCHANGED <<m_file, table>>
  <2>1. stored' = [stored EXCEPT ![p] = @ \cup {"nowhere"}]
    BY <1>2, <1>4, <1>6
  <2> QED  BY <1>1, <1>2, <1>3, <1>6, <2>1
<1>7. CASE /\ Free(p) # {}
           /\ m_file' = [m_file EXCEPT ![p] = Lowest(p)]
           /\ table' = [table EXCEPT ![p][Lowest(p)] = "sever.log"]
  <2> DEFINE f == Lowest(p)
  <2>1. f \in Fd /\ table[p][f] = "closed"
    BY <1>7, LowestIsFree
  <2> HIDE DEF f
  <2>2. m_file'[p] = f /\ table'[p][f] = "sever.log"
    BY <1>7, <2>1 DEF StartInv, Types, f
  <2>3. f # -1
    BY <2>1, StartAssumption DEF Fd
  <2>4. stored' = [stored EXCEPT ![p] = @ \cup {"sever.log"}]
    BY <1>4, <2>2, <2>3
  <2> QED  BY <1>1, <1>2, <1>3, <1>7, <2>1, <2>4 DEF f
<1> QED  BY <1>5, <1>6, <1>7 DEF File_open

LEMMA NextTypes == StartInv /\ [Next]_vars => Types'
<1> SUFFICES ASSUME StartInv, [Next]_vars  PROVE Types'
  OBVIOUS
<1>0. Types /\ Route
  BY DEF StartInv
<1>1. ASSUME NEW p \in Process, Banner(p)  PROVE Types'
  <2>1. /\ UNCHANGED <<buffered, shown>> /\ logger' = TRUE
    BY <1>1 DEF Banner, init
  <2>2. /\ m_file' \in [Process -> Fd \cup {-1}]
        /\ table' \in [Process -> [Fd -> Thing]]
        /\ stored' \in [Process -> Places]
    <3>1. "sever.log" \in Thing
      BY DEF Thing, LogIn
    <3>2. CASE /\ UNCHANGED <<m_file, table>>
               /\ stored' = [stored EXCEPT ![p] = @ \cup {"nowhere"}]
      <4>1. stored[p] \cup {"nowhere"} \in Places
        BY <1>0 DEF Types, Places
      <4> QED  BY <1>0, <3>2, <4>1 DEF Types
    <3>3. CASE \E f \in Fd :
                 /\ table[p][f] = "closed"
                 /\ m_file' = [m_file EXCEPT ![p] = f]
                 /\ table' = [table EXCEPT ![p][f] = "sever.log"]
                 /\ stored' = [stored EXCEPT ![p] = @ \cup {"sever.log"}]
      <4>1. stored[p] \cup {"sever.log"} \in Places
        BY <1>0, <3>1 DEF Types, Places
      <4> QED  BY <1>0, <3>1, <3>3, <4>1 DEF Types
    <3> QED  BY <1>1, <3>2, <3>3, BannerStart
  <2>3. m_firstWrite' \in [Process -> BOOLEAN]
    <3>1. m_firstWrite' = [m_firstWrite EXCEPT ![p] = FALSE]
      BY <1>1, BannerStart
    <3> QED  BY <1>0, <3>1 DEF Types
  <2> QED  BY <1>0, <2>1, <2>2, <2>3 DEF Types
<1>2. ASSUME NEW p \in Process,
             Interactive(p) \/ Daemon(p) \/ Fails(p) \/ Report(p) \/ BadExit(p)
      PROVE  Types'
  <2>1. /\ \E s : PLOG(p, s)
        /\ pc[p] \notin {"absent", "init"} /\ UNCHANGED <<logger, shown>>
        /\ buffered' \subseteq Process
    BY <1>0, <1>2 DEF Interactive, Daemon, Fails, Report, BadExit, print, Types
  <2>2. UNCHANGED <<plog, table>> /\ stored' \in [Process -> Places]
    BY <1>0, <2>1, StatementFacts, StoredType
  <2> QED  BY <1>0, <2>1, <2>2 DEF Types, plog
<1>3. ASSUME NEW p \in Process, Usage(p) \/ Setsid(p) \/ Chdir(p)  PROVE Types'
  BY <1>0, <1>3 DEF Usage, Setsid, Chdir, Types, plog
<1>4. ASSUME NEW p \in Process, Fork(p)  PROVE Types'
  BY <1>0, <1>4 DEF Fork, Types, Process
<1>5. ASSUME NEW p \in Process, CloseStandard(p)  PROVE Types'
  BY <1>0, <1>5 DEF CloseStandard, Types, Thing, plog
<1>6. ASSUME NEW p \in Process, OpenSocket(p)  PROVE Types'
  BY <1>0, <1>6, LowestIsFree DEF OpenSocket, Types, Thing, plog
<1>7. ASSUME NEW p \in Process, Return(p) \/ Catch(p)  PROVE Types'
  <2>1. /\ buffered' = buffered \cup {p} /\ UNCHANGED <<logger, m_firstWrite, m_file, stored, shown>>
        /\ table' = [table EXCEPT ![p] = Without(p, "socket")]
    BY <1>7 DEF Return, Catch, plog
  <2>2. Without(p, "socket") \in [Fd -> Thing]
    BY <1>0 DEF Types, Without, Thing
  <2>3. table' \in [Process -> [Fd -> Thing]]
    BY <1>0, <2>1, <2>2 DEF Types
  <2> QED  BY <1>0, <2>1, <2>3 DEF Types
<1>8. ASSUME NEW p \in Process, Exit(p) \/ Flush(p)  PROVE Types'
  <2>1. shown' \in [Process -> SUBSET Thing]
    BY <1>0, <1>8, ShownType DEF Exit, Flush
  <2>2. table' \in [Process -> [Fd -> Thing]]
    BY <1>0, <1>8 DEF Exit, Flush, Types, Thing
  <2> QED  BY <1>0, <1>8, <2>1, <2>2 DEF Exit, Flush, Types, plog
<1>9. CASE UNCHANGED vars
  BY <1>0, <1>9 DEF vars, Types, plog
<1> QED  BY <1>1, <1>2, <1>3, <1>4, <1>5, <1>6, <1>7, <1>8, <1>9 DEF Next

\* Nothing changes for a process that keeps its place, its file and its table.
LEMMA SameStart ==
  ASSUME StartInv, NEW q \in Process, pc'[q] = pc[q], m_firstWrite'[q] = m_firstWrite[q],
         m_file'[q] = m_file[q], table'[q] = table[q]
  PROVE  Opened(q)' /\ Attached(q)'
  BY DEF StartInv, Opened, Attached

\* Nor for one that moves on, if it does not become the first to serve.
LEMMA MovedStart ==
  ASSUME StartInv, NEW q \in Process, m_firstWrite'[q] = m_firstWrite[q],
         m_file'[q] = m_file[q],
         \A f \in Fd : table'[q][f] \in {table[q][f], "closed", "socket"},
         pc[q] \notin {"absent", "init"}, pc'[q] \notin {"absent", "init"},
         q = "child" /\ pc'[q] \in {"serve", "caught"} =>
           pc[q] \in {"serve", "caught"} \/ \A f \in Fd : table'[q][f] # "console"
  PROVE  Opened(q)' /\ Attached(q)'
<1>1. Opened(q) /\ Attached(q)
  BY DEF StartInv
<1>2. "closed" \notin LogFile /\ "socket" \notin LogFile
  BY DEF LogFile, LogIn
<1>3. Opened(q)'
  <2>1. \A f \in Fd : table'[q][f] \in LogFile => table'[q][f] = table[q][f]
    BY <1>2
  <2> QED  BY <1>1, <2>1 DEF Opened
<1>4. Attached(q)'
  BY <1>1 DEF Attached
<1> QED  BY <1>3, <1>4

LEMMA NextStart == StartInv /\ [Next]_vars => StartInv'
<1> SUFFICES ASSUME StartInv, [Next]_vars, NEW q \in Process
             PROVE  Opened(q)' /\ Attached(q)'
  BY NextRoute, NextTypes DEF StartInv
<1>0. Types /\ Route
  BY DEF StartInv
<1> DEFINE Goal == Opened(q)' /\ Attached(q)'
<1>1. ASSUME NEW p \in Process, Banner(p)  PROVE Goal
  <2>1. /\ p = "parent" /\ pc' = [pc EXCEPT ![p] = "args"]
        /\ m_firstWrite' = [m_firstWrite EXCEPT ![p] = FALSE] /\ m_file[p] = -1
    BY <1>1, BannerStart
  <2>2. CASE q # p
    <3>1. m_file'[q] = m_file[q] /\ table'[q] = table[q]
      BY <1>0, <1>1, <2>2, BannerStart DEF Types
    <3>2. pc'[q] = pc[q] /\ m_firstWrite'[q] = m_firstWrite[q]
      BY <1>0, <2>1, <2>2 DEF Types, Route
    <3> QED  BY <3>1, <3>2, SameStart
  <2>3. CASE q = p
    <3>1. pc'[q] = "args" /\ ~ m_firstWrite'[q]
      BY <1>0, <2>1, <2>3 DEF Types, Route
    <3>2. \A f \in Fd : table[q][f] \notin LogFile
      <4>1. \A f \in Fd : f # -1
        BY StartAssumption DEF Fd
      <4> QED  BY <2>1, <2>3, <4>1 DEF StartInv, Opened
    <3>3. /\ \A f \in Fd : table'[q][f] \in LogFile =>
               table'[q][f] = "sever.log" /\ f = m_file'[q]
          /\ \A f \in Fd : table'[q][f] = "console" => table[q][f] = "console"
      <4>1. CASE UNCHANGED <<m_file, table>>
        BY <3>2, <4>1
      <4>2. CASE \E f \in Fd : /\ m_file' = [m_file EXCEPT ![p] = f]
                               /\ table' = [table EXCEPT ![p][f] = "sever.log"]
        BY <1>0, <2>3, <3>2, <4>2 DEF Types
      <4> QED  BY <1>1, <4>1, <4>2, BannerStart
    <3>4. Opened(q)'
      <4>1. /\ m_firstWrite'[q] <=> pc'[q] \in {"absent", "init"}
            /\ m_firstWrite'[q] => m_file'[q] = -1
        BY <3>1
      <4> QED  BY <3>3, <4>1 DEF Opened
    <3>5. Attached(q)'
      <4>1. \A f \in Fd : table[q][f] = "console" => f \in Given
        BY DEF StartInv, Attached
      <4>2. ~ (pc'[q] \in {"serve", "caught"}) /\ pc'[q] # "init"
        BY <3>1
      <4> QED  BY <3>3, <4>1, <4>2 DEF Attached
    <3> QED  BY <3>4, <3>5
  <2> QED  BY <2>2, <2>3
<1>2. ASSUME NEW p \in Process,
             Interactive(p) \/ Daemon(p) \/ Fails(p) \/ Report(p) \/ BadExit(p)
      PROVE  Goal
  <2>1. /\ \E s : PLOG(p, s)
        /\ pc[p] \notin {"absent", "init"}
        /\ \/ pc' = pc
           \/ pc' = [pc EXCEPT ![p] = "serve"] /\ pc[p] = "args"
           \/ pc' = [pc EXCEPT ![p] = "fork"] \/ pc' = [pc EXCEPT ![p] = "exit"]
    BY <1>2 DEF Interactive, Daemon, Fails, Report, BadExit, print, Goto
  <2>2. UNCHANGED <<plog, table>>
    BY <2>1, StatementFacts
  <2>3. pc[p] = "args" => p = "parent"
    BY <1>0 DEF Route, Process
  <2>4. CASE q = p
    BY <1>0, <2>1, <2>2, <2>3, <2>4, MovedStart DEF Route, plog
  <2>5. CASE q # p
    BY <1>0, <2>1, <2>2, <2>5, SameStart DEF Route, plog
  <2> QED  BY <2>4, <2>5
<1>3. ASSUME NEW p \in Process, Usage(p) \/ Setsid(p) \/ Chdir(p)  PROVE Goal
  <2>1. /\ UNCHANGED <<plog, table>> /\ pc[p] \notin {"absent", "init"}
        /\ \E l \in {"exit", "chdir", "close"} : pc' = [pc EXCEPT ![p] = l]
    BY <1>3 DEF Usage, Setsid, Chdir, Goto
  <2>2. CASE q = p
    BY <1>0, <2>1, <2>2, MovedStart DEF Route, plog
  <2>3. CASE q # p
    BY <1>0, <2>1, <2>3, SameStart DEF Route, plog
  <2> QED  BY <2>2, <2>3
<1>4. ASSUME NEW p \in Process, Fork(p)  PROVE Goal
  <2>1. /\ pc' = [pc EXCEPT !["parent"] = "exit", !["child"] = "setsid"]
        /\ table' = [table EXCEPT !["child"] = table["parent"]]
        /\ m_file' = [m_file EXCEPT !["child"] = m_file["parent"]]
        /\ m_firstWrite' = [m_firstWrite EXCEPT !["child"] = m_firstWrite["parent"]]
        /\ pc["parent"] = "fork"
    BY <1>0, <1>4 DEF Fork, Route, Process
  <2>2. Opened("parent") /\ Attached("parent") /\ "parent" \in Process /\ "child" \in Process
    BY DEF StartInv, Process
  <2>3. CASE q = "parent"
    <3>1. /\ pc'[q] = "exit" /\ table'[q] = table[q] /\ m_file'[q] = m_file[q]
          /\ m_firstWrite'[q] = m_firstWrite[q]
      BY <1>0, <2>1, <2>2, <2>3 DEF Types, Route
    <3> QED  BY <2>1, <2>2, <2>3, <3>1 DEF Opened, Attached
  <2>4. CASE q = "child"
    <3>1. /\ pc'[q] = "setsid" /\ table'[q] = table["parent"] /\ m_file'[q] = m_file["parent"]
          /\ m_firstWrite'[q] = m_firstWrite["parent"]
      BY <1>0, <2>1, <2>2, <2>4 DEF Types, Route
    <3>2. Opened(q)'
      <4>1. ~ m_firstWrite["parent"]
        BY <2>1, <2>2 DEF Opened
      <4>2. /\ m_firstWrite'[q] <=> pc'[q] \in {"absent", "init"}
            /\ m_firstWrite'[q] => m_file'[q] = -1
        BY <3>1, <4>1
      <4> QED  BY <2>2, <3>1, <4>2 DEF Opened
    <3>3. Attached(q)'
      BY <2>2, <3>1 DEF Attached
    <3> QED  BY <3>2, <3>3
  <2> QED  BY <2>3, <2>4 DEF Process
<1>5. ASSUME NEW p \in Process, CloseStandard(p)  PROVE Goal
  <2>1. /\ UNCHANGED plog /\ pc[p] = "close" /\ pc' = [pc EXCEPT ![p] = "serve"]
        /\ table' = [table EXCEPT ![p] = [f \in Fd |-> IF f <= 2 THEN "closed" ELSE @[f]]]
    BY <1>5 DEF CloseStandard, Goto
  <2>2. CASE q = p
    <3>1. \A f \in Fd : table'[q][f] = IF f <= 2 THEN "closed" ELSE table[q][f]
      BY <1>0, <2>1, <2>2 DEF Types
    <3>2. \A f \in Fd : table'[q][f] # "console"
      <4>1. \A f \in Given : f <= 2
        BY StartAssumption
      <4>2. \A f \in Fd : table[q][f] = "console" => f \in Given
        BY DEF StartInv, Attached
      <4> QED  BY <3>1, <4>1, <4>2
    <3>3. \A f \in Fd : table'[q][f] \in {table[q][f], "closed", "socket"}
      BY <3>1
    <3>4. /\ m_firstWrite'[q] = m_firstWrite[q] /\ m_file'[q] = m_file[q]
          /\ pc[q] \notin {"absent", "init"} /\ pc'[q] \notin {"absent", "init"}
      BY <1>0, <2>1, <2>2 DEF Route, plog
    <3> QED  BY <3>2, <3>3, <3>4, MovedStart
  <2>3. CASE q # p
    BY <1>0, <2>1, <2>3, SameStart DEF Types, Route, plog
  <2> QED  BY <2>2, <2>3
<1>6. ASSUME NEW p \in Process, OpenSocket(p)  PROVE Goal
  <2>1. /\ UNCHANGED <<plog, pc>> /\ pc[p] = "serve" /\ Lowest(p) \in Fd
        /\ table' = [table EXCEPT ![p][Lowest(p)] = "socket"]
    BY <1>6, LowestIsFree DEF OpenSocket
  <2>2. CASE q = p
    <3>1. \A f \in Fd : table'[q][f] \in {table[q][f], "closed", "socket"}
      BY <1>0, <2>1, <2>2 DEF Types
    <3> QED  BY <2>1, <2>2, <3>1, MovedStart DEF plog
  <2>3. CASE q # p
    BY <1>0, <2>1, <2>3, SameStart DEF Types, plog
  <2> QED  BY <2>2, <2>3
<1>7. ASSUME NEW p \in Process, Return(p) \/ Catch(p)  PROVE Goal
  <2>1. /\ UNCHANGED plog /\ pc[p] = "serve"
        /\ \E l \in {"exit", "caught"} : pc' = [pc EXCEPT ![p] = l]
        /\ table' = [table EXCEPT ![p] = Without(p, "socket")]
    BY <1>7 DEF Return, Catch, Goto
  <2>2. CASE q = p
    <3>1. \A f \in Fd : table'[q][f] \in {table[q][f], "closed", "socket"}
      BY <1>0, <2>1, <2>2 DEF Types, Without
    <3> QED  BY <1>0, <2>1, <2>2, <3>1, MovedStart DEF Route, plog
  <2>3. CASE q # p
    BY <1>0, <2>1, <2>3, SameStart DEF Types, Route, plog
  <2> QED  BY <2>2, <2>3
<1>8. ASSUME NEW p \in Process, Exit(p)  PROVE Goal
  <2>1. /\ UNCHANGED plog /\ pc[p] = "exit" /\ pc' = [pc EXCEPT ![p] = "ended"]
        /\ table' = [table EXCEPT ![p] = [f \in Fd |-> "closed"]]
    BY <1>8 DEF Exit, Goto
  <2>2. CASE q = p
    <3>1. \A f \in Fd : table'[q][f] \in {table[q][f], "closed", "socket"}
      BY <1>0, <2>1, <2>2 DEF Types
    <3> QED  BY <1>0, <2>1, <2>2, <3>1, MovedStart DEF Route, plog
  <2>3. CASE q # p
    BY <1>0, <2>1, <2>3, SameStart DEF Types, Route, plog
  <2> QED  BY <2>2, <2>3
<1>9. ASSUME NEW p \in Process, Flush(p)  PROVE Goal
  BY <1>9, SameStart DEF Flush, plog
<1>10. CASE UNCHANGED vars
  BY <1>10, SameStart DEF vars, plog
<1> QED  BY <1>1, <1>2, <1>3, <1>4, <1>5, <1>6, <1>7, <1>8, <1>9, <1>10 DEF Next

LEMMA StartCorrect == Spec => []StartInv
  BY InitStart, NextStart, PTL DEF Spec

\* Every variable keeps its type, and no process ever has two logs open.
THEOREM StartTypeCorrect == Spec => []TypeOK
<1>1. StartInv => TypeOK
  <2> SUFFICES ASSUME StartInv, NEW p \in Process
               PROVE  Cardinality({f \in Fd : table[p][f] \in LogFile}) <= 1
    BY DEF StartInv, Types, Places, Route, TypeOK, LogFile
  <2> DEFINE opened == {f \in Fd : table[p][f] \in LogFile}
             one == {m_file[p]}
  <2>1. opened \subseteq one
    BY DEF StartInv, Opened
  <2>2. IsFiniteSet(one) /\ Cardinality(one) = 1
    BY FS_Singleton
  <2> HIDE DEF opened, one
  <2>3. Cardinality(opened) <= Cardinality(one) /\ Cardinality(opened) \in Nat
    BY <2>1, <2>2, FS_Subset, FS_CardinalityType
  <2> QED  BY <2>2, <2>3 DEF opened
<1> QED  BY <1>1, StartCorrect, PTL

\* A server that serves as a daemon serves alone, leads its session, is in the
\* root directory, and has let go of the console.
THEOREM DetachedCorrect == Spec => []ServesDetached
<1>1. StartInv => ServesDetached
  <2> SUFFICES ASSUME StartInv, NEW p \in Process, pc[p] = "serve", arg = "-d"
               PROVE  /\ pc["parent"] \in {"exit", "ended"}
                      /\ p \in session /\ cwd[p] = "root"
                      /\ \A f \in Fd : table[p][f] # "console"
    BY DEF ServesDetached
  <2>1. p = "child"
    BY DEF StartInv, Route, Process
  <2> QED  BY <2>1 DEF StartInv, Route, Attached
<1> QED  BY <1>1, StartCorrect, PTL

-----------------------------------------------------------------------------
(* Started from a terminal: the records.                                   *)

\* Before the first record of a process.
Early(p) == pc[p] \in {"absent", "init"}

\* The log has a descriptor that a daemon does not close, and keeps it to the
\* end of the process; the child has one if the parent has.
KeepsLog(p) ==
  /\ m_file[p] # -1 =>
       m_file[p] > 2 /\ (pc[p] # "ended" => table[p][m_file[p]] = "sever.log")
  /\ ~ Early(p) => (m_file[p] = -1 <=> m_file["parent"] = -1)
  /\ Early(p) => stored[p] = {}
  /\ stored[p] \subseteq {IF m_file["parent"] = -1 THEN "nowhere" ELSE "sever.log"}
LogInv == StartInv /\ \A p \in Process : KeepsLog(p)

LEMMA SameLog ==
  ASSUME LogInv, NEW q \in Process, m_file'[q] = m_file[q], stored'[q] = stored[q],
         m_file'["parent"] = m_file["parent"], pc[q] = "ended" => pc'[q] = "ended",
         Early(q)' <=> Early(q),
         \A f \in Fd : f > 2 /\ table[q][f] = "sever.log" /\ pc'[q] # "ended" =>
           table'[q][f] = "sever.log"
  PROVE  KeepsLog(q)'
<1>1. KeepsLog(q) /\ m_file[q] \in Fd \cup {-1}
  BY DEF LogInv, StartInv, Types
<1> QED  BY <1>1 DEF KeepsLog, Early

LEMMA NextLog == Given = 0 .. 2 => (LogInv /\ [Next]_vars => LogInv')
<1> SUFFICES ASSUME Given = 0 .. 2, LogInv, [Next]_vars, NEW q \in Process
             PROVE  KeepsLog(q)'
  BY NextStart DEF LogInv
<1>0. Types /\ Route /\ StartInv
  BY DEF LogInv, StartInv
<1>1. ASSUME NEW p \in Process, Banner(p)  PROVE KeepsLog(q)'
  <2>1. /\ p = "parent" /\ pc[p] = "init" /\ pc' = [pc EXCEPT ![p] = "args"]
        /\ "parent" \in Process /\ "child" \in Process
    BY <1>0, <1>1, BannerStart DEF Banner, Process
  <2>2. pc'["parent"] = "args" /\ pc'["child"] = "absent"
    BY <1>0, <2>1 DEF Route
  <2>3. stored["parent"] = {} /\ stored["child"] = {} /\ m_file["child"] = -1
    <3>1. Early("parent") /\ Early("child") /\ m_firstWrite["child"]
      BY <1>0, <2>1 DEF Route, Early, StartInv, Opened
    <3> QED  BY <1>0, <2>1, <3>1 DEF LogInv, KeepsLog, StartInv, Opened
  <2>4. CASE /\ UNCHANGED <<m_file, table>>
             /\ stored' = [stored EXCEPT ![p] = @ \cup {"nowhere"}]
    <3>1. m_file'["parent"] = -1 /\ m_file'["child"] = -1
      BY <1>0, <1>1, <2>1, <2>3, <2>4, BannerStart
    <3>2. stored'["parent"] = {"nowhere"} /\ stored'["child"] = {}
      BY <1>0, <2>1, <2>3, <2>4 DEF Types
    <3> QED  BY <2>2, <3>1, <3>2 DEF KeepsLog, Early, Process
  <2>5. CASE \E f \in Fd : /\ table[p][f] = "closed"
                           /\ m_file' = [m_file EXCEPT ![p] = f]
                           /\ table' = [table EXCEPT ![p][f] = "sever.log"]
                           /\ stored' = [stored EXCEPT ![p] = @ \cup {"sever.log"}]
    <3>1. PICK f \in Fd : /\ table[p][f] = "closed"
                          /\ m_file' = [m_file EXCEPT ![p] = f]
                          /\ table' = [table EXCEPT ![p][f] = "sever.log"]
                          /\ stored' = [stored EXCEPT ![p] = @ \cup {"sever.log"}]
      BY <2>5
    <3>2. f > 2 /\ f # -1
      <4>1. f \notin Given
        BY <1>0, <2>1, <3>1 DEF StartInv, Attached
      <4> QED  BY <4>1, StartAssumption DEF Fd
    <3>3. m_file'["parent"] = f /\ m_file'["child"] = -1 /\ table'["parent"][f] = "sever.log"
      BY <1>0, <2>1, <2>3, <3>1 DEF Types
    <3>4. stored'["parent"] = {"sever.log"} /\ stored'["child"] = {}
      BY <1>0, <2>1, <2>3, <3>1 DEF Types
    <3> QED  BY <2>2, <3>2, <3>3, <3>4 DEF KeepsLog, Early, Process
  <2> QED  BY <1>0, <1>1, <2>4, <2>5, BannerStart
<1>2. ASSUME NEW p \in Process,
             Interactive(p) \/ Daemon(p) \/ Fails(p) \/ Report(p) \/ BadExit(p)
      PROVE  KeepsLog(q)'
  <2>1. /\ \E s : PLOG(p, s)
        /\ pc[p] \notin {"absent", "init", "ended"}
        /\ pc' = pc \/ \E l \in {"serve", "fork", "exit"} : pc' = [pc EXCEPT ![p] = l]
    BY <1>2 DEF Interactive, Daemon, Fails, Report, BadExit, print, Goto
  <2>2. /\ UNCHANGED <<plog, table>>
        /\ stored' = stored \/ stored' = [stored EXCEPT ![p] = @ \cup {Where(p)}]
    BY <1>0, <2>1, StatementFacts
  <2>3. (pc[q] = "ended" => pc'[q] = "ended") /\ (Early(q)' <=> Early(q))
    BY <1>0, <2>1 DEF Route, Early
  <2>4. CASE stored'[q] = stored[q]
    BY <2>2, <2>3, <2>4, SameLog DEF plog
  <2>5. CASE q = p /\ stored'[q] = stored[q] \cup {Where(p)}
    <3>1. KeepsLog(p) /\ ~ Early(p)
      BY <2>1 DEF LogInv, Early
    <3>2. Where(p) = IF m_file["parent"] = -1 THEN "nowhere" ELSE "sever.log"
      BY <2>1, <3>1 DEF KeepsLog, Where
    <3>3. m_file' = m_file /\ table' = table
      BY <2>2 DEF plog
    <3> QED  BY <2>1, <2>3, <2>5, <3>1, <3>2, <3>3 DEF KeepsLog
  <2> QED  BY <1>0, <2>2, <2>4, <2>5 DEF Types
<1>3. ASSUME NEW p \in Process, Usage(p) \/ Setsid(p) \/ Chdir(p)  PROVE KeepsLog(q)'
  <2>1. /\ UNCHANGED <<plog, table, stored>> /\ pc[p] \notin {"absent", "init", "ended"}
        /\ \E l \in {"exit", "chdir", "close"} : pc' = [pc EXCEPT ![p] = l]
    BY <1>3 DEF Usage, Setsid, Chdir, Goto
  <2>2. (pc[q] = "ended" => pc'[q] = "ended") /\ (Early(q)' <=> Early(q))
    BY <1>0, <2>1 DEF Route, Early
  <2> QED  BY <2>1, <2>2, SameLog DEF plog
<1>4. ASSUME NEW p \in Process, Fork(p)  PROVE KeepsLog(q)'
  <2>1. /\ pc' = [pc EXCEPT !["parent"] = "exit", !["child"] = "setsid"]
        /\ table' = [table EXCEPT !["child"] = table["parent"]]
        /\ m_file' = [m_file EXCEPT !["child"] = m_file["parent"]]
        /\ pc["parent"] = "fork" /\ stored' = stored
    BY <1>0, <1>4 DEF Fork, Route, Process
  <2>2. KeepsLog("parent") /\ KeepsLog("child") /\ "parent" \in Process /\ "child" \in Process
    BY DEF LogInv, Process
  <2>3. /\ table'[q] = table["parent"] /\ m_file'[q] = m_file["parent"]
        /\ m_file'["parent"] = m_file["parent"] /\ stored'[q] = stored[q]
        /\ pc'[q] \in {"exit", "setsid"}
    <3>1. CASE q = "parent"
      BY <1>0, <2>1, <2>2, <3>1 DEF Types, Route
    <3>2. CASE q = "child"
      BY <1>0, <2>1, <2>2, <3>2 DEF Types, Route
    <3> QED  BY <3>1, <3>2 DEF Process
  <2>4. stored[q] \subseteq {IF m_file["parent"] = -1 THEN "nowhere" ELSE "sever.log"}
    BY DEF LogInv, KeepsLog
  <2> QED  BY <2>1, <2>2, <2>3, <2>4 DEF KeepsLog, Early
<1>5. ASSUME NEW p \in Process, CloseStandard(p)  PROVE KeepsLog(q)'
  <2>1. /\ UNCHANGED <<plog, stored>> /\ pc[p] = "close" /\ pc' = [pc EXCEPT ![p] = "serve"]
        /\ table' = [table EXCEPT ![p] = [f \in Fd |-> IF f <= 2 THEN "closed" ELSE @[f]]]
    BY <1>5 DEF CloseStandard, Goto
  <2>2. \A f \in Fd : f > 2 => table'[q][f] = table[q][f]
    <3>1. \A f \in Fd : f > 2 => ~ (f <= 2)
      BY StartAssumption DEF Fd
    <3>2. CASE q = p
      BY <1>0, <2>1, <3>1, <3>2 DEF Types
    <3>3. CASE q # p
      BY <1>0, <2>1, <3>3 DEF Types
    <3> QED  BY <3>2, <3>3
  <2>3. (pc[q] = "ended" => pc'[q] = "ended") /\ (Early(q)' <=> Early(q))
    BY <1>0, <2>1 DEF Route, Early
  <2> QED  BY <2>1, <2>2, <2>3, SameLog DEF plog
<1>6. ASSUME NEW p \in Process, OpenSocket(p)  PROVE KeepsLog(q)'
  <2>1. /\ UNCHANGED <<plog, pc, stored>> /\ Lowest(p) \in Fd
        /\ table[p][Lowest(p)] = "closed"
        /\ table' = [table EXCEPT ![p][Lowest(p)] = "socket"]
    BY <1>6, LowestIsFree DEF OpenSocket
  <2>2. \A f \in Fd : table[q][f] = "sever.log" => table'[q][f] = "sever.log"
    BY <1>0, <2>1 DEF Types
  <2> QED  BY <2>1, <2>2, SameLog DEF plog, Early
<1>7. ASSUME NEW p \in Process, Return(p) \/ Catch(p)  PROVE KeepsLog(q)'
  <2>1. /\ UNCHANGED <<plog, stored>> /\ pc[p] = "serve"
        /\ \E l \in {"exit", "caught"} : pc' = [pc EXCEPT ![p] = l]
        /\ table' = [table EXCEPT ![p] = Without(p, "socket")]
    BY <1>7 DEF Return, Catch, Goto
  <2>2. \A f \in Fd : table[q][f] = "sever.log" => table'[q][f] = "sever.log"
    BY <1>0, <2>1 DEF Types, Without
  <2>3. (pc[q] = "ended" => pc'[q] = "ended") /\ (Early(q)' <=> Early(q))
    BY <1>0, <2>1 DEF Route, Early
  <2> QED  BY <2>1, <2>2, <2>3, SameLog DEF plog
<1>8. ASSUME NEW p \in Process, Exit(p)  PROVE KeepsLog(q)'
  <2>1. /\ UNCHANGED <<plog, stored>> /\ pc' = [pc EXCEPT ![p] = "ended"]
        /\ table' = [table EXCEPT ![p] = [f \in Fd |-> "closed"]]
    BY <1>8 DEF Exit, Goto
  <2>2. pc'[q] = "ended" \/ (pc'[q] = pc[q] /\ table'[q] = table[q])
    BY <1>0, <2>1 DEF Route, Types
  <2>3. (pc[q] = "ended" => pc'[q] = "ended") /\ (Early(q)' <=> Early(q))
    BY <1>0, <1>8, <2>1 DEF Exit, Route, Early
  <2> QED  BY <2>1, <2>2, <2>3, SameLog DEF plog
<1>9. ASSUME NEW p \in Process, Flush(p)  PROVE KeepsLog(q)'
  BY <1>9, SameLog DEF Flush, plog, Early
<1>10. CASE UNCHANGED vars
  BY <1>10, SameLog DEF vars, plog, Early
<1> QED  BY <1>1, <1>2, <1>3, <1>4, <1>5, <1>6, <1>7, <1>8, <1>9, <1>10 DEF Next

LEMMA InitLog == Init => LogInv
<1>1. Init => \A p \in Process : KeepsLog(p)
  BY DEF Init, KeepsLog, Early, Process
<1> QED  BY <1>1, InitStart DEF LogInv

LEMMA LogCorrect == ASSUME Given = 0 .. 2  PROVE Spec => []LogInv
<1>1. LogInv /\ [Next]_vars => LogInv'
  BY NextLog
<1> QED  BY <1>1, InitLog, PTL DEF Spec

\* Started from a terminal, the server writes every record of both processes to
\* the log that the first one opened, whatever it forks, closes, moves to or opens
\* afterwards; if the log could not be opened it loses them all, and none of
\* them goes anywhere else.
THEOREM RecordsCorrect == ASSUME Given = 0 .. 2  PROVE Spec => []RecordsReachLog
<1>1. LogInv => RecordsReachLog
  BY DEF LogInv, KeepsLog, RecordsReachLog, LogIn
<1> QED  BY <1>1, LogCorrect, PTL

-----------------------------------------------------------------------------
(* Started from a terminal: the console.                                   *)

\* What the child has printed waits for a descriptor that is closed or a socket's.
KeepsQuiet ==
  /\ "child" \in buffered =>
       /\ pc["child"] \in {"serve", "caught", "exit"}
       /\ table["child"][1] \in {"closed", "socket"}
  /\ shown["child"] \subseteq {"socket"}

\* Descriptor 1 of a child that serves.
LEMMA OutputFacts ==
  ASSUME LogInv, pc["child"] \in {"serve", "caught"}
  PROVE  table["child"][1] \in {"closed", "socket"}
<1>1. 1 \in Fd /\ "child" \in Process
  BY StartAssumption DEF Fd, Process
<1>2. table["child"][1] \in Thing /\ table["child"][1] # "console"
  BY <1>1 DEF LogInv, StartInv, Types, Attached
<1>3. table["child"][1] \notin LogFile
  <2>1. m_file["child"] = 1 => m_file["child"] > 2
    BY <1>1 DEF LogInv, KeepsLog
  <2>2. m_file["child"] # 1
    BY <2>1
  <2> QED  BY <1>1, <2>2 DEF LogInv, StartInv, Opened
<1> QED  BY <1>2, <1>3 DEF Thing, LogFile

\* A step that prints and shows nothing, and one that shows what was printed.
LEMMA SameQuiet ==
  ASSUME KeepsQuiet, shown'["child"] = shown["child"],
         "child" \in buffered' => "child" \in buffered,
         "child" \in buffered => /\ pc'["child"] \in {"serve", "caught", "exit"}
                                 /\ table'["child"][1] \in {table["child"][1], "closed", "socket"}
  PROVE  KeepsQuiet'
  BY DEF KeepsQuiet

LEMMA ShowQuiet ==
  ASSUME KeepsQuiet, Types, NEW p \in Process, p \in buffered, Written(p),
         p = "child" => "child" \notin buffered',
         "child" \in buffered' => "child" \in buffered /\ pc'["child"] = pc["child"]
                                   /\ table'["child"] = table["child"]
  PROVE  KeepsQuiet'
<1>1. "child" \in Process
  BY DEF Process
<1>2. shown'["child"] \subseteq {"socket"}
  <2>1. CASE p = "child"
    BY <1>1, <2>1 DEF KeepsQuiet, Types, Written
  <2>2. CASE p # "child"
    BY <1>1, <2>2 DEF KeepsQuiet, Types, Written
  <2> QED  BY <2>1, <2>2
<1> QED  BY <1>2 DEF KeepsQuiet

LEMMA NextQuiet == LogInv /\ LogInv' /\ KeepsQuiet /\ [Next]_vars => KeepsQuiet'
<1> SUFFICES ASSUME LogInv, LogInv', KeepsQuiet, [Next]_vars  PROVE KeepsQuiet'
  OBVIOUS
<1>0. Types /\ Route /\ StartInv /\ "child" \in Process /\ 1 \in Fd
  BY StartAssumption DEF LogInv, StartInv, Process, Fd
<1>1. ASSUME NEW p \in Process, Banner(p) \/ Interactive(p) \/ Daemon(p) \/ Usage(p)
      PROVE  KeepsQuiet'
  <2>1. /\ p = "parent" /\ shown' = shown /\ buffered' \in {buffered, buffered \cup {p}}
        /\ pc'["child"] = pc["child"]
    BY <1>0, <1>1 DEF Banner, Interactive, Daemon, Usage, Goto, Route, Process
  <2>2. table'["child"] = table["child"]
    <3>1. CASE Banner(p)
      BY <1>0, <2>1, <3>1, BannerStart DEF Types
    <3>2. CASE Interactive(p) \/ Daemon(p)
      BY <1>0, <3>2, StatementFacts DEF Interactive, Daemon
    <3>3. CASE Usage(p)
      BY <3>3 DEF Usage
    <3> QED  BY <1>1, <3>1, <3>2, <3>3
  <2> QED  BY <2>1, <2>2 DEF KeepsQuiet
<1>2. ASSUME NEW p \in Process, Fork(p)  PROVE KeepsQuiet'
  <2>1. pc["child"] = "absent" /\ buffered' = buffered /\ shown' = shown
    BY <1>0, <1>2 DEF Fork, Route, Process
  <2> QED  BY <2>1 DEF KeepsQuiet
<1>3. ASSUME NEW p \in Process, Fails(p) \/ Setsid(p) \/ Chdir(p) \/ CloseStandard(p)
      PROVE  KeepsQuiet'
  <2>1. /\ pc[p] \in {"fork", "setsid", "chdir", "close"}
        /\ buffered' = buffered /\ shown' = shown
    BY <1>3 DEF Fails, Setsid, Chdir, CloseStandard
  <2>2. CASE p = "child"
    BY <2>1, <2>2 DEF KeepsQuiet
  <2>3. CASE p # "child"
    <3>1. pc[p] = "fork" /\ pc["child"] = "absent"
      BY <1>0, <2>1, <2>3 DEF Route, Process
    <3> QED  BY <2>1, <3>1 DEF KeepsQuiet
  <2> QED  BY <2>2, <2>3
<1>4. ASSUME NEW p \in Process, Report(p) \/ BadExit(p)  PROVE KeepsQuiet'
  <2>1. /\ pc[p] \in {"serve", "caught"} /\ \E s : PLOG(p, s)
        /\ buffered' = buffered \cup {p} /\ shown' = shown
        /\ pc' = pc \/ pc' = [pc EXCEPT ![p] = "exit"]
    BY <1>4 DEF Report, BadExit, print, Goto
  <2>2. table' = table
    BY <1>0, <2>1, StatementFacts
  <2>3. CASE p = "child"
    <3>1. table["child"][1] \in {"closed", "socket"}
      BY <2>1, <2>3, OutputFacts
    <3>2. pc'["child"] \in {"serve", "caught", "exit"}
      BY <1>0, <2>1, <2>3 DEF Route
    <3> QED  BY <2>1, <2>2, <3>1, <3>2 DEF KeepsQuiet
  <2>4. CASE p # "child"
    BY <1>0, <2>1, <2>2, <2>4 DEF KeepsQuiet, Route
  <2> QED  BY <2>3, <2>4
<1>5. ASSUME NEW p \in Process, OpenSocket(p)  PROVE KeepsQuiet'
  <2>1. /\ UNCHANGED <<pc, buffered, shown>> /\ Lowest(p) \in Fd
        /\ table' = [table EXCEPT ![p][Lowest(p)] = "socket"]
    BY <1>5, LowestIsFree DEF OpenSocket
  <2>2. table'["child"][1] \in {table["child"][1], "closed", "socket"}
    BY <1>0, <2>1 DEF Types
  <2> QED  BY <2>1, <2>2, SameQuiet DEF KeepsQuiet
<1>6. ASSUME NEW p \in Process, Return(p) \/ Catch(p)  PROVE KeepsQuiet'
  <2>1. /\ pc[p] = "serve" /\ shown' = shown /\ buffered' = buffered \cup {p}
        /\ \E l \in {"exit", "caught"} : pc' = [pc EXCEPT ![p] = l]
        /\ table' = [table EXCEPT ![p] = Without(p, "socket")]
    BY <1>6 DEF Return, Catch, Goto
  <2>2. CASE p = "child"
    <3>1. table["child"][1] \in {"closed", "socket"}
      BY <2>1, <2>2, OutputFacts
    <3>2. table'["child"][1] \in {table["child"][1], "closed"}
      BY <1>0, <2>1, <2>2 DEF Types, Without
    <3>3. pc'["child"] \in {"serve", "caught", "exit"}
      BY <1>0, <2>1, <2>2 DEF Route
    <3> QED  BY <2>1, <3>1, <3>2, <3>3 DEF KeepsQuiet
  <2>3. CASE p # "child"
    <3>1. table'["child"] = table["child"] /\ pc'["child"] = pc["child"]
      BY <1>0, <2>1, <2>3 DEF Types, Route
    <3> QED  BY <2>1, <2>3, <3>1 DEF KeepsQuiet
  <2> QED  BY <2>2, <2>3
<1>7. ASSUME NEW p \in Process, Exit(p)  PROVE KeepsQuiet'
  <2>1. /\ buffered' = buffered \ {p}
        /\ p # "child" => pc'["child"] = pc["child"] /\ table'["child"] = table["child"]
    BY <1>0, <1>7 DEF Exit, Goto, Types, Route
  <2>2. CASE p \in buffered /\ Written(p)
    BY <1>0, <2>1, <2>2, ShowQuiet
  <2>3. CASE p \notin buffered /\ shown' = shown
    BY <2>1, <2>3 DEF KeepsQuiet
  <2> QED  BY <1>7, <2>2, <2>3 DEF Exit
<1>8. ASSUME NEW p \in Process, Flush(p)  PROVE KeepsQuiet'
  BY <1>0, <1>8, ShowQuiet DEF Flush
<1>9. CASE UNCHANGED vars
  BY <1>9 DEF vars, KeepsQuiet
<1> QED  BY <1>1, <1>2, <1>3, <1>4, <1>5, <1>6, <1>7, <1>8, <1>9 DEF Next

\* Started from a terminal, the daemon's prints reach neither that terminal nor
\* the log.
THEOREM QuietCorrect == ASSUME Given = 0 .. 2  PROVE Spec => []PrintsSpareTerminalAndLog
<1>1. Init => KeepsQuiet
  BY DEF Init, KeepsQuiet, Process
<1>2. KeepsQuiet => PrintsSpareTerminalAndLog
  BY DEF KeepsQuiet, PrintsSpareTerminalAndLog, LogIn
<1> QED  BY <1>1, <1>2, LogCorrect, NextQuiet, PTL DEF Spec

=============================================================================
