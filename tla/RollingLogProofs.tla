-------------------------- MODULE RollingLogProofs --------------------------
(***************************************************************************)
(* What RollingLog promises, for every number of threads, records and      *)
(* kills.  The types hold of any number of processes; the rest is about    *)
(* one process, the only one that writes to its log file.                  *)
(***************************************************************************)
EXTENDS RollingLog, SequenceTheorems, WellFoundedInduction, TLAPS

Labels == {"idle", "close", "unlink", "rename", "open", "header", "write"}

\* Who is where, and what follows from it.
Threads ==
  /\ m_mutex \in [Process -> Thread \cup {"free"}]
  /\ pc \in [Process -> [Thread -> Labels]]
  /\ \A p \in Process, t \in Thread : pc[p][t] # "idle" <=> m_mutex[p] = t
Counts ==
  /\ begun \in [Process -> [Thread -> 0 .. MaxRecords]]
  /\ \A p \in Process, t \in Thread : pc[p][t] # "idle" => begun[p][t] >= 1
  /\ kills \in Nat /\ unmoved \in Nat
Renaming ==
  /\ m_maxFiles \in Nat
  /\ m_firstWrite \in [Process -> BOOLEAN]
  /\ fileNumber \in [Process -> Int]
  /\ \A p \in Process, t \in Thread :
       /\ pc[p][t] \in {"close", "unlink", "rename"} => m_maxFiles > 0
       /\ pc[p][t] = "rename" => fileNumber[p] \in -1 .. m_maxFiles - 2
Control == Threads /\ Counts /\ Renaming

\* The files, and where the processes stand in them.
Disk ==
  /\ disk \in Seq(Seq(Cell))
  /\ dir \in [Number -> 0 .. Len(disk)]
  /\ stored \in Seq(Record)
Position ==
  /\ m_file \in [Process -> {-1} \cup 1 .. Len(disk)]
  /\ offset \in [Process -> Nat]
  /\ m_fileSize \in [Process -> Int]
  /\ \A p \in Process : m_file[p] # -1 =>
       offset[p] <= Len(disk[m_file[p]]) /\ m_fileSize[p] = offset[p]
  /\ \A p \in Process, t \in Thread : pc[p][t] = "header" => m_file[p] # -1
TypeInv == Control /\ Disk /\ Position

-----------------------------------------------------------------------------

LEMMA InitControl == Init => Control
BY LogAssumption DEF Init, Control, Threads, Counts, Renaming, Labels

\* Threads: every action moves one thread that holds the mutex, or takes it.
LEMMA NextThreads == Control /\ [Next]_vars => Threads'
<1> SUFFICES ASSUME Control, [Next]_vars PROVE Threads'
  OBVIOUS
<1> USE LogAssumption DEF Control, Threads
<1>1. CASE UNCHANGED vars
  BY <1>1 DEF vars, appender
<1>2. ASSUME NEW p \in Process, NEW t \in Thread, NEW l \in Labels \ {"idle"},
             m_mutex[p] = "free" /\ m_mutex' = [m_mutex EXCEPT ![p] = t],
             Goto(p, t, l)
      PROVE  Threads'
  BY <1>2 DEF Goto
<1>3. ASSUME NEW p \in Process, NEW t \in Thread, NEW l \in Labels \ {"idle"},
             pc[p][t] # "idle", UNCHANGED m_mutex, Goto(p, t, l)
      PROVE  Threads'
  BY <1>3 DEF Goto
<1>4. ASSUME NEW p \in Process, NEW t \in Thread,
             pc[p][t] # "idle", Release(p), Goto(p, t, "idle")
      PROVE  Threads'
  BY <1>4 DEF Goto, Release, Labels
<1>5. ASSUME UNCHANGED <<pc, m_mutex>> PROVE Threads'
  BY <1>5
<1>6. ASSUME NEW p \in Process, Kill(p) PROVE Threads'
  BY <1>6 DEF Kill, Labels
<1>7. ASSUME NEW p \in Process, NEW t \in Thread, Lock(p, t) PROVE Threads'
  BY <1>2, <1>7 DEF Lock, Acquire, Way, Labels
<1>8. ASSUME NEW p \in Process, NEW t \in Thread,
             \/ Close(p, t) \/ Unlink(p, t) \/ UnlinkFails(p, t) \/ Rolled(p, t)
             \/ Open(p, t) \/ OpenFails(p, t) \/ WriteHeader(p, t)
      PROVE  Threads'
  BY <1>3, <1>8 DEF Close, Unlink, UnlinkFails, Rolled, Open, OpenFails, WriteHeader, Labels, appender
<1>9. ASSUME NEW p \in Process, NEW t \in Thread, Rename(p, t) \/ RenameFails(p, t)
      PROVE  Threads'
  BY <1>5, <1>9 DEF Rename, RenameFails
<1>10. ASSUME NEW p \in Process, NEW t \in Thread, WriteRecord(p, t) \/ WriteShort(p, t)
       PROVE  Threads'
  BY <1>4, <1>10 DEF WriteRecord, WriteShort, Done
<1>11. ASSUME NEW p \in Process, NEW t \in Thread, WriteFails(p, t) PROVE Threads'
  BY <1>3, <1>4, <1>11 DEF WriteFails, Done, Labels
<1>12. QED
  BY <1>1, <1>6, <1>7, <1>8, <1>9, <1>10, <1>11 DEF Next

LEMMA NextCounts == Control /\ [Next]_vars => Counts'
<1> SUFFICES ASSUME Control, [Next]_vars PROVE Counts'
  OBVIOUS
<1> USE LogAssumption DEF Control, Threads, Counts
<1>1. CASE UNCHANGED vars
  BY <1>1 DEF vars, appender
<1>2. ASSUME NEW p \in Process, NEW t \in Thread, Lock(p, t) PROVE Counts'
  BY <1>2 DEF Lock, Goto
<1>3. ASSUME NEW p \in Process, NEW t \in Thread, pc[p][t] # "idle",
             UNCHANGED <<begun, kills>>, UNCHANGED unmoved \/ Unmoved,
             UNCHANGED pc \/ \E l \in Labels : Goto(p, t, l)
      PROVE  Counts'
  <2>1. begun' = begun /\ kills' \in Nat /\ unmoved' \in Nat
    BY <1>3 DEF Unmoved
  <2>2. \A q \in Process, u \in Thread : q # p \/ u # t => pc'[q][u] = pc[q][u]
    BY <1>3 DEF Goto
  <2> HIDE DEF Threads
  <2>3. \A q \in Process, u \in Thread : pc[q][u] = "idle" => pc'[q][u] = "idle"
    BY <1>3, <2>2
  <2>4. QED
    BY <2>1, <2>3
<1>4. ASSUME NEW p \in Process, Kill(p) PROVE Counts'
  BY <1>4 DEF Kill
<1>5. ASSUME NEW p \in Process, NEW t \in Thread,
             \/ Close(p, t) \/ Unlink(p, t) \/ UnlinkFails(p, t) \/ Rename(p, t)
             \/ RenameFails(p, t) \/ Rolled(p, t) \/ Open(p, t) \/ OpenFails(p, t)
             \/ WriteHeader(p, t) \/ WriteRecord(p, t) \/ WriteShort(p, t)
             \/ WriteFails(p, t)
      PROVE  Counts'
  <2>1. /\ pc[p][t] # "idle" /\ UNCHANGED <<begun, kills>>
        /\ UNCHANGED unmoved \/ Unmoved
    BY <1>5 DEF Close, Unlink, UnlinkFails, Rename, RenameFails, Rolled, Open, OpenFails,
                WriteHeader, WriteRecord, WriteShort, WriteFails
  <2>2. UNCHANGED pc \/ \E l \in Labels : Goto(p, t, l)
    BY <1>5 DEF Close, Unlink, UnlinkFails, Rename, RenameFails, Rolled, Open, OpenFails,
                WriteHeader, WriteRecord, WriteShort, WriteFails, Done, Labels
  <2>3. QED
    BY <1>3, <2>1, <2>2
<1>6. QED
  BY <1>1, <1>2, <1>4, <1>5 DEF Next

LEMMA NextRenaming == Control /\ [Next]_vars => Renaming'
<1> SUFFICES ASSUME Control, [Next]_vars PROVE Renaming'
  OBVIOUS
<1> USE LogAssumption DEF Control, Threads, Renaming
<1>1. CASE UNCHANGED vars
  BY <1>1 DEF vars, appender
<1>2. ASSUME NEW p \in Process, NEW t \in Thread, Lock(p, t) PROVE Renaming'
  BY <1>2 DEF Lock, Goto, Way
<1>3. ASSUME NEW p \in Process, Kill(p) PROVE Renaming'
  BY <1>3 DEF Kill
<1>4. ASSUME NEW p \in Process, NEW t \in Thread, Unlink(p, t) \/ UnlinkFails(p, t)
      PROVE  Renaming'
  BY <1>4 DEF Unlink, UnlinkFails, Goto
<1>5. ASSUME NEW p \in Process, NEW t \in Thread, Rename(p, t) \/ RenameFails(p, t)
      PROVE  Renaming'
  <2>1. pc[p][t] = "rename" /\ fileNumber[p] >= 0
        /\ fileNumber' = [fileNumber EXCEPT ![p] = fileNumber[p] - 1]
        /\ UNCHANGED <<pc, m_maxFiles, m_firstWrite>>
    BY <1>5 DEF Rename, RenameFails
  <2>2. QED
    BY <2>1
<1>6. ASSUME NEW p \in Process, NEW t \in Thread, Close(p, t) PROVE Renaming'
  BY <1>6 DEF Close, Goto
<1>7. ASSUME NEW p \in Process, NEW t \in Thread, NEW l \in {"idle", "open", "header", "write"},
             Goto(p, t, l), UNCHANGED <<m_maxFiles, fileNumber>>,
             m_firstWrite' \in [Process -> BOOLEAN]
      PROVE  Renaming'
  BY <1>7 DEF Goto
<1>8. ASSUME NEW p \in Process, NEW t \in Thread,
             \/ Rolled(p, t) \/ Open(p, t) \/ OpenFails(p, t) \/ WriteHeader(p, t)
             \/ WriteRecord(p, t) \/ WriteShort(p, t) \/ WriteFails(p, t)
      PROVE  Renaming'
  <2>1. UNCHANGED <<m_maxFiles, fileNumber>> /\ m_firstWrite' \in [Process -> BOOLEAN]
    BY <1>8, ZenonT(40) DEF Rolled, Open, OpenFails, WriteHeader, WriteRecord, WriteShort, WriteFails,
                appender
  <2>2. \E l \in {"idle", "open", "header", "write"} : Goto(p, t, l)
    BY <1>8 DEF Rolled, Open, OpenFails, WriteHeader, WriteRecord, WriteShort, WriteFails,
                Done
  <2>3. QED
    BY <1>7, <2>1, <2>2
<1>9. QED
  BY <1>1, <1>2, <1>3, <1>4, <1>5, <1>6, <1>8 DEF Next

LEMMA NextControl == Control /\ [Next]_vars => Control'
BY NextThreads, NextCounts, NextRenaming DEF Control

-----------------------------------------------------------------------------

\* One cell written at place o of file i: no file gets shorter, the others stay
\* as they are, and a cell at the end makes the file longer by one.
Stamped(f, o, c) == IF o = Len(f) THEN Append(f, c) ELSE [f EXCEPT ![o + 1] = c]

Overwritten(d, e, i, o, c, C) ==
  /\ e \in Seq(Seq(C))
  /\ Len(e) = Len(d)
  /\ e[i] = Stamped(d[i], o, c)
  /\ Len(e[i]) = IF o = Len(d[i]) THEN Len(d[i]) + 1 ELSE Len(d[i])
  /\ \A j \in 1 .. Len(d) : j # i => e[j] = d[j]

LEMMA StampKeeps ==
  ASSUME NEW C, NEW f \in Seq(C), NEW o \in 0 .. Len(f), NEW c \in C
  PROVE  /\ Stamped(f, o, c) \in Seq(C)
         /\ Len(Stamped(f, o, c)) = IF o = Len(f) THEN Len(f) + 1 ELSE Len(f)
<1>1. CASE o = Len(f)
  BY <1>1, AppendProperties DEF Stamped
<1>2. CASE o # Len(f)
  <2>1. o + 1 \in 1 .. Len(f)
    BY <1>2
  <2>2. QED
    BY <1>2, <2>1, ExceptSeq DEF Stamped
<1>3. QED
  BY <1>1, <1>2

LEMMA DiskKeeps ==
  ASSUME NEW C, NEW d \in Seq(Seq(C)), NEW i \in 1 .. Len(d),
         NEW o \in 0 .. Len(d[i]), NEW c \in C
  PROVE  Overwritten(d, [d EXCEPT ![i] = Stamped(d[i], o, c)], i, o, c, C)
<1> DEFINE e == [d EXCEPT ![i] = Stamped(d[i], o, c)]
<1>1. d[i] \in Seq(C)
  BY ElementOfSeq
<1>2. Stamped(d[i], o, c) \in Seq(C)
      /\ Len(Stamped(d[i], o, c)) = IF o = Len(d[i]) THEN Len(d[i]) + 1 ELSE Len(d[i])
  BY <1>1, StampKeeps
<1>3. /\ e \in Seq(Seq(C)) /\ Len(e) = Len(d)
      /\ \A j \in 1 .. Len(d) : e[j] = IF j = i THEN Stamped(d[i], o, c) ELSE d[j]
  <2> DEFINE f == Stamped(d[i], o, c)
  <2>1. f \in Seq(C)
    BY <1>2
  <2> HIDE DEF f
  <2>2. e = [d EXCEPT ![i] = f]
    BY DEF f
  <2> HIDE DEF e
  <2>3. QED
    BY <2>1, <2>2, ExceptSeq DEF f
<1> HIDE DEF e
<1>4. QED
  <2>1. Overwritten(d, e, i, o, c, C)
    BY <1>2, <1>3 DEF Overwritten
  <2>2. QED
    BY <2>1 DEF e

\* A file is created.
LEMMA CreateKeeps ==
  ASSUME NEW C, NEW d \in Seq(Seq(C)), NEW e, e = Append(d, <<>>)
  PROVE  /\ e \in Seq(Seq(C))
         /\ Len(e) = Len(d) + 1
         /\ e[Len(e)] = <<>>
         /\ \A j \in 1 .. Len(d) : e[j] = d[j]
<1>1. <<>> \in Seq(C)
  OBVIOUS
<1>2. QED
  BY <1>1, AppendProperties

LEMMA NumberZero == m_maxFiles \in Nat => 0 \in Number /\ Number \subseteq Nat
BY DEF Number

LEMMA CellIs == Header \in Cell /\ Header \notin Record
BY LogAssumption DEF Cell, Record, Header

-----------------------------------------------------------------------------
(* What the actions do to the files.                                       *)

\* A write puts one cell where the process stands.
LEMMA PutDoes ==
  ASSUME NEW p \in Process, Disk, Position, NEW c \in Cell, m_file[p] # -1, Put(p, c)
  PROVE  /\ disk' \in Seq(Seq(Cell)) /\ Len(disk') = Len(disk)
         /\ m_file[p] \in 1 .. Len(disk)
         /\ disk'[m_file[p]] = Stamped(disk[m_file[p]], offset[p], c)
         /\ Len(disk'[m_file[p]]) = IF offset[p] = Len(disk[m_file[p]])
                                    THEN Len(disk[m_file[p]]) + 1
                                    ELSE Len(disk[m_file[p]])
         /\ \A j \in 1 .. Len(disk) : j # m_file[p] => disk'[j] = disk[j]
         /\ \A j \in 1 .. Len(disk) : Len(disk[j]) \in Nat /\ Len(disk[j]) <= Len(disk'[j])
         /\ offset' = [offset EXCEPT ![p] = offset[p] + 1]
         /\ m_fileSize' = [m_fileSize EXCEPT ![p] = m_fileSize[p] + 1]
         /\ offset[p] \in 0 .. Len(disk[m_file[p]])
<1>1. m_file[p] \in 1 .. Len(disk) /\ disk \in Seq(Seq(Cell))
  BY DEF Position, Disk
<1>2. disk[m_file[p]] \in Seq(Cell) /\ \A j \in 1 .. Len(disk) : Len(disk[j]) \in Nat
  <2>1. ASSUME NEW j \in 1 .. Len(disk) PROVE disk[j] \in Seq(Cell) /\ Len(disk[j]) \in Nat
    <3>1. disk[j] \in Seq(Cell)
      BY <1>1, ElementOfSeq
    <3>2. QED
      BY <3>1
  <2>2. QED
    BY <1>1, <2>1
<1>3. offset[p] \in 0 .. Len(disk[m_file[p]])
  BY <1>1, <1>2 DEF Position
<1>4. disk' = [disk EXCEPT ![m_file[p]] = Stamped(disk[m_file[p]], offset[p], c)]
  BY DEF Put, Stamped
<1>5. /\ disk' \in Seq(Seq(Cell)) /\ Len(disk') = Len(disk)
      /\ disk'[m_file[p]] = Stamped(disk[m_file[p]], offset[p], c)
      /\ Len(disk'[m_file[p]]) = IF offset[p] = Len(disk[m_file[p]])
                                 THEN Len(disk[m_file[p]]) + 1
                                 ELSE Len(disk[m_file[p]])
      /\ \A j \in 1 .. Len(disk) : j # m_file[p] => disk'[j] = disk[j]
  <2> DEFINE d == disk
             e == disk'
             i == m_file[p]
             o == offset[p]
  <2>1. /\ d \in Seq(Seq(Cell)) /\ i \in 1 .. Len(d) /\ o \in 0 .. Len(d[i])
        /\ e = [d EXCEPT ![i] = Stamped(d[i], o, c)]
    BY <1>1, <1>3, <1>4
  <2> HIDE DEF d, e, i, o
  <2>2. Overwritten(d, [d EXCEPT ![i] = Stamped(d[i], o, c)], i, o, c, Cell)
    BY <2>1, DiskKeeps
  <2>3. Overwritten(d, e, i, o, c, Cell)
    BY <2>1, <2>2
  <2>4. QED
    BY <2>3 DEF d, e, i, o, Overwritten
<1>6. ASSUME NEW j \in 1 .. Len(disk) PROVE Len(disk[j]) <= Len(disk'[j])
  <2>1. Len(disk[j]) \in Nat /\ Len(disk[m_file[p]]) \in Nat
    BY <1>1, <1>2
  <2>2. CASE j = m_file[p]
    <3>1. Len(disk[m_file[p]]) <= Len(disk'[m_file[p]])
      BY <1>5, <2>1
    <3>2. QED
      BY <2>2, <3>1
  <2>3. CASE j # m_file[p]
    BY <1>5, <2>1, <2>3
  <2>4. QED
    BY <2>2, <2>3
<1>7. offset' = [offset EXCEPT ![p] = offset[p] + 1]
      /\ m_fileSize' = [m_fileSize EXCEPT ![p] = m_fileSize[p] + 1]
  BY DEF Put
<1>8. QED
  BY <1>1, <1>2, <1>3, <1>5, <1>6, <1>7

\* Opening leaves the process at the end of the file that now has number 0.
LEMMA OpenDoes ==
  ASSUME NEW p \in Process, NEW t \in Thread, m_maxFiles \in Nat, Disk, Open(p, t)
  PROVE  /\ disk' \in Seq(Seq(Cell))
         /\ Len(disk) \in Nat /\ Len(disk') \in Nat /\ Len(disk) <= Len(disk')
         /\ dir' \in [Number -> 0 .. Len(disk')]
         /\ \A j \in 1 .. Len(disk) : disk'[j] = disk[j]
         /\ dir'[0] \in 1 .. Len(disk')
         /\ dir[0] = 0 => Len(disk') = Len(disk) + 1 /\ dir'[0] = Len(disk')
                          /\ disk'[dir'[0]] = <<>>
         /\ dir[0] # 0 => disk' = disk /\ dir' = dir
         /\ m_file' = [m_file EXCEPT ![p] = dir'[0]]
         /\ Len(disk'[dir'[0]]) \in Nat
         /\ offset' = [offset EXCEPT ![p] = Len(disk'[dir'[0]])]
         /\ m_fileSize' = [m_fileSize EXCEPT ![p] = offset'[p]]
<1>1. 0 \in Number /\ dir \in [Number -> 0 .. Len(disk)] /\ disk \in Seq(Seq(Cell))
      /\ Len(disk) \in Nat /\ dir[0] \in 0 .. Len(disk)
  BY NumberZero DEF Disk
<1>2. /\ m_file' = [m_file EXCEPT ![p] = dir'[0]]
      /\ offset' = [offset EXCEPT ![p] = Len(disk'[dir'[0]])]
      /\ m_fileSize' = [m_fileSize EXCEPT ![p] = offset'[p]]
  BY DEF Open
<1>3. CASE dir[0] = 0
  <2>1. disk' = Append(disk, <<>>) /\ dir' = [dir EXCEPT ![0] = Len(disk')]
    BY <1>3 DEF Open
  <2>2. /\ disk' \in Seq(Seq(Cell)) /\ Len(disk') = Len(disk) + 1
        /\ disk'[Len(disk')] = <<>>
        /\ \A j \in 1 .. Len(disk) : disk'[j] = disk[j]
    BY <1>1, <2>1, CreateKeeps
  <2>3. dir' \in [Number -> 0 .. Len(disk')] /\ dir'[0] = Len(disk')
    BY <1>1, <2>1, <2>2
  <2>4. Len(disk'[dir'[0]]) = 0
    BY <2>2, <2>3, EmptySeq
  <2>5. QED
    BY <1>1, <1>2, <1>3, <2>2, <2>3, <2>4, SMTT(30)
<1>4. CASE dir[0] # 0
  <2>1. disk' = disk /\ dir' = dir
    BY <1>4 DEF Open, files
  <2>2. dir[0] \in 1 .. Len(disk)
    BY <1>1, <1>4
  <2>3. disk[dir[0]] \in Seq(Cell)
    BY <1>1, <2>2, ElementOfSeq
  <2>4. Len(disk[dir[0]]) \in Nat
    BY <2>3
  <2>5. QED
    BY <1>1, <1>2, <1>4, <2>1, <2>2, <2>4
<1>5. QED
  BY <1>3, <1>4

\* Deleting and renaming move places of the directory about.
LEMMA DirKeeps ==
  ASSUME NEW p \in Process, NEW t \in Thread, Control, Disk,
         Unlink(p, t) \/ Rename(p, t)
  PROVE  dir' \in [Number -> 0 .. Len(disk)]
<1>1. m_maxFiles \in Nat /\ m_maxFiles > 0 /\ dir \in [Number -> 0 .. Len(disk)]
  BY DEF Unlink, Rename, Control, Threads, Renaming, Disk
<1>2. Len(disk) \in Nat
  BY DEF Disk
<1>3. CASE Unlink(p, t)
  <2>1. dir' = [dir EXCEPT ![m_maxFiles - 1] = 0]
    BY <1>3 DEF Unlink, File_unlink
  <2>2. 0 \in 0 .. Len(disk)
    BY <1>2
  <2>3. QED
    BY <1>1, <2>1, <2>2
<1>4. CASE Rename(p, t)
  <2>1. fileNumber[p] \in Number /\ fileNumber[p] + 1 \in Number
    BY <1>1, <1>4 DEF Rename, Control, Threads, Renaming, Number
  <2>2. dir' = IF dir[fileNumber[p]] = 0 THEN dir
               ELSE [dir EXCEPT ![fileNumber[p] + 1] = dir[fileNumber[p]], ![fileNumber[p]] = 0]
    BY <1>4 DEF Rename, File_rename
  <2>3. QED
    BY <1>1, <1>2, <2>1, <2>2
<1>5. QED
  BY <1>3, <1>4

-----------------------------------------------------------------------------
(* Type correctness.                                                       *)

LEMMA InitTypes == Init => TypeInv
<1> SUFFICES ASSUME Init PROVE TypeInv
  OBVIOUS
<1>1. Control
  BY InitControl
<1>2. disk \in Seq(Seq(Cell)) /\ Len(disk) = 0 /\ stored \in Seq(Record)
  BY EmptySeq DEF Init
<1>3. Disk
  BY <1>2 DEF Init, Disk
<1>4. Position
  BY <1>2 DEF Init, Position
<1>5. QED
  BY <1>1, <1>3, <1>4 DEF TypeInv

\* A thread writes a record, or a part of it, to the file that is open.
Written(p, t, r) ==
  /\ pc[p][t] = "write" /\ Goto(p, t, "idle")
  /\ Put(p, r) /\ stored' = Append(stored, r)
  /\ UNCHANGED <<m_maxFiles, m_file, dir, m_firstWrite, kills, unmoved>>
Writes(p, t) == (WriteRecord(p, t) /\ m_file[p] # -1) \/ WriteShort(p, t)

LEMMA WrittenIs ==
  ASSUME NEW p \in Process, NEW t \in Thread, Control, Writes(p, t)
  PROVE  m_file[p] # -1 /\ \E r \in Record : r \in Cell /\ Written(p, t, r)
<1>1. PICK whole \in BOOLEAN :
        /\ pc[p][t] = "write" /\ Goto(p, t, "idle")
        /\ m_file[p] # -1 /\ PutRecord(p, t, whole)
        /\ UNCHANGED <<m_maxFiles, m_file, dir, m_firstWrite, kills, unmoved>>
  BY DEF Writes, WriteRecord, WriteShort, Done
<1>2. begun[p][t] \in 1 .. MaxRecords
  BY <1>1, LogAssumption DEF Control, Threads, Counts
<1>3. RecordOf(p, t, whole) \in Record /\ RecordOf(p, t, whole) \in Cell
  BY <1>2 DEF RecordOf, Record, Cell
<1>4. Written(p, t, RecordOf(p, t, whole))
  BY <1>1 DEF Written, PutRecord
<1>5. QED
  BY <1>1, <1>3, <1>4

\* A step that leaves the files alone, and leaves every process where it is or
\* without a file.
LEMMA PositionRests ==
  ASSUME Position, Control', UNCHANGED disk,
         offset' \in [Process -> Nat], m_fileSize' \in [Process -> Int],
         m_file' \in [Process -> {-1} \cup 1 .. Len(disk)],
         \A p \in Process : m_file'[p] # -1 =>
           m_file'[p] = m_file[p] /\ offset'[p] = offset[p] /\ m_fileSize'[p] = m_fileSize[p],
         \A p \in Process, t \in Thread : pc'[p][t] = "header" =>
           pc[p][t] = "header" /\ m_file'[p] = m_file[p]
  PROVE  Position'
BY DEF Position

LEMMA WriteKeeps ==
  ASSUME NEW p \in Process, Disk, Position, NEW c \in Cell, m_file[p] # -1, Put(p, c),
         UNCHANGED <<m_file, dir, m_maxFiles>>, stored' \in Seq(Record),
         \A q \in Process, t \in Thread : pc'[q][t] = "header" => pc[q][t] = "header"
  PROVE  Disk' /\ Position'
<1>1. /\ disk' \in Seq(Seq(Cell)) /\ Len(disk') = Len(disk)
      /\ m_file[p] \in 1 .. Len(disk)
      /\ Len(disk'[m_file[p]]) = IF offset[p] = Len(disk[m_file[p]])
                                 THEN Len(disk[m_file[p]]) + 1
                                 ELSE Len(disk[m_file[p]])
      /\ \A j \in 1 .. Len(disk) : Len(disk[j]) \in Nat /\ Len(disk[j]) <= Len(disk'[j])
      /\ offset' = [offset EXCEPT ![p] = offset[p] + 1]
      /\ m_fileSize' = [m_fileSize EXCEPT ![p] = m_fileSize[p] + 1]
      /\ offset[p] \in 0 .. Len(disk[m_file[p]])
  BY PutDoes
<1>2. Disk'
  BY <1>1 DEF Disk, Number
<1>3. \A j \in 1 .. Len(disk) : Len(disk'[j]) \in Nat
  <2>1. ASSUME NEW j \in 1 .. Len(disk) PROVE Len(disk'[j]) \in Nat
    <3>1. disk'[j] \in Seq(Cell)
      BY <1>1, ElementOfSeq
    <3>2. QED
      BY <3>1
  <2>2. QED
    BY <2>1
<1>4. ASSUME NEW q \in Process, m_file'[q] # -1
      PROVE  offset'[q] <= Len(disk'[m_file'[q]]) /\ m_fileSize'[q] = offset'[q]
  <2>1. m_file'[q] = m_file[q] /\ m_file[q] \in 1 .. Len(disk)
    BY <1>4 DEF Position
  <2>2. offset[q] \in Nat /\ offset[q] <= Len(disk[m_file[q]]) /\ m_fileSize[q] = offset[q]
    BY <1>4, <2>1 DEF Position
  <2>3. CASE q = p
    BY <1>1, <2>1, <2>2, <2>3 DEF Position
  <2>4. CASE q # p
    <3>1. offset'[q] = offset[q] /\ m_fileSize'[q] = m_fileSize[q]
      BY <1>1, <2>4 DEF Position
    <3>2. QED
      BY <1>1, <1>3, <2>1, <2>2, <3>1, SMTT(30)
  <2>5. QED
    BY <2>3, <2>4
<1>5. Position'
  <2>1. m_file' \in [Process -> {-1} \cup 1 .. Len(disk')]
    BY <1>1 DEF Position
  <2>2. offset' \in [Process -> Nat] /\ m_fileSize' \in [Process -> Int]
    BY <1>1 DEF Position
  <2>3. \A q \in Process, t \in Thread : pc'[q][t] = "header" => m_file'[q] # -1
    BY DEF Position
  <2>4. QED
    BY <1>4, <2>1, <2>2, <2>3 DEF Position
<1>6. QED
  BY <1>2, <1>5

LEMMA OpenKeeps ==
  ASSUME NEW p \in Process, NEW t \in Thread, TypeInv, Control', Open(p, t)
  PROVE  Disk' /\ Position'
<1>1. /\ disk' \in Seq(Seq(Cell))
      /\ Len(disk) \in Nat /\ Len(disk') \in Nat /\ Len(disk) <= Len(disk')
      /\ dir' \in [Number -> 0 .. Len(disk')]
      /\ \A j \in 1 .. Len(disk) : disk'[j] = disk[j]
      /\ dir'[0] \in 1 .. Len(disk')
      /\ m_file' = [m_file EXCEPT ![p] = dir'[0]]
      /\ Len(disk'[dir'[0]]) \in Nat
      /\ offset' = [offset EXCEPT ![p] = Len(disk'[dir'[0]])]
      /\ m_fileSize' = [m_fileSize EXCEPT ![p] = offset'[p]]
  BY OpenDoes DEF TypeInv, Control, Renaming
<1>2. UNCHANGED <<m_maxFiles, m_mutex, stored>> /\ pc[p][t] = "open"
      /\ \E l \in {"header", "write"} : Goto(p, t, l)
  BY DEF Open
<1>3. Disk'
  BY <1>1, <1>2 DEF Disk, TypeInv, Number
<1>4. ASSUME NEW q \in Process, m_file'[q] # -1
      PROVE  offset'[q] <= Len(disk'[m_file'[q]]) /\ m_fileSize'[q] = offset'[q]
  <2>1. CASE q = p
    BY <1>1, <2>1 DEF TypeInv, Position
  <2>2. CASE q # p
    <3>1. m_file'[q] = m_file[q] /\ offset'[q] = offset[q] /\ m_fileSize'[q] = m_fileSize[q]
      BY <1>1, <2>2 DEF TypeInv, Position
    <3>2. m_file[q] \in 1 .. Len(disk)
      BY <1>4, <3>1 DEF TypeInv, Position
    <3>3. QED
      BY <1>1, <1>4, <3>1, <3>2, ZenonT(40) DEF TypeInv, Position
  <2>3. QED
    BY <2>1, <2>2
<1>5. ASSUME NEW q \in Process, NEW u \in Thread, pc'[q][u] = "header"
      PROVE  m_file'[q] # -1
  <2>1. CASE q = p
    BY <1>1, <2>1 DEF TypeInv, Position
  <2>2. CASE q # p
    BY <1>1, <1>2, <1>5, <2>2 DEF TypeInv, Position, Control, Threads, Goto
  <2>3. QED
    BY <2>1, <2>2
<1>6. m_file' \in [Process -> {-1} \cup 1 .. Len(disk')]
  BY <1>1 DEF TypeInv, Position
<1>7. offset' \in [Process -> Nat] /\ m_fileSize' \in [Process -> Int]
  BY <1>1 DEF TypeInv, Position
<1>8. QED
  BY <1>3, <1>4, <1>5, <1>6, <1>7 DEF Position

LEMMA NextTypes == TypeInv /\ [Next]_vars => TypeInv'
<1> SUFFICES ASSUME TypeInv, [Next]_vars PROVE TypeInv'
  OBVIOUS
<1>1. Control'
  BY NextControl DEF TypeInv
<1>2. CASE UNCHANGED vars
  <2>1. UNCHANGED <<disk, dir, stored, m_maxFiles, m_file, offset, m_fileSize, pc>>
    BY <1>2 DEF vars, files, appender
  <2>2. QED
    BY <1>1, <2>1 DEF TypeInv, Disk, Position, Number
<1>3. ASSUME NEW p \in Process, NEW t \in Thread, Open(p, t) PROVE TypeInv'
  BY <1>1, <1>3, OpenKeeps DEF TypeInv
<1>4. ASSUME NEW p \in Process, NEW t \in Thread, WriteHeader(p, t) PROVE TypeInv'
  <2>1. /\ m_file[p] # -1 /\ Put(p, Header)
        /\ UNCHANGED <<m_file, dir, m_maxFiles, stored>> /\ stored \in Seq(Record)
        /\ Goto(p, t, "write")
    BY <1>4 DEF WriteHeader, TypeInv, Position, Disk
  <2>2. \A q \in Process, u \in Thread : pc'[q][u] = "header" => pc[q][u] = "header"
    BY <2>1 DEF Goto, TypeInv, Control, Threads
  <2>3. Disk' /\ Position'
    BY <2>1, <2>2, CellIs, WriteKeeps DEF TypeInv
  <2>4. QED
    BY <1>1, <2>3 DEF TypeInv
<1>5. ASSUME NEW p \in Process, NEW t \in Thread, WriteRecord(p, t) \/ WriteShort(p, t)
      PROVE  TypeInv'
  <2>1. pc[p][t] = "write" /\ Goto(p, t, "idle")
    BY <1>5 DEF WriteRecord, WriteShort, Done
  <2>2. \A q \in Process, u \in Thread : pc'[q][u] = "header" => pc[q][u] = "header"
    BY <2>1 DEF Goto, TypeInv, Control, Threads
  <2>3. CASE Writes(p, t)
    <3>1. PICK r \in Record : r \in Cell /\ Written(p, t, r)
      BY <2>3, WrittenIs DEF TypeInv
    <3>2. m_file[p] # -1
      BY <2>3, WrittenIs DEF TypeInv
    <3>3. stored \in Seq(Record) /\ stored' = Append(stored, r)
      BY <3>1 DEF Written, TypeInv, Disk
    <3>4. stored' \in Seq(Record)
      BY <3>3, AppendProperties
    <3>5. Put(p, r) /\ UNCHANGED <<m_file, dir, m_maxFiles>>
      BY <3>1 DEF Written
    <3>6. Disk' /\ Position'
      BY <2>2, <3>1, <3>2, <3>4, <3>5, WriteKeeps DEF TypeInv
    <3>7. QED
      BY <1>1, <3>6 DEF TypeInv
  <2>4. CASE ~Writes(p, t)
    <3>1. m_file[p] = -1 /\ UNCHANGED <<disk, offset, m_fileSize, stored, m_file, dir, m_maxFiles>>
      BY <1>5, <2>4 DEF Writes, WriteRecord
    <3>2. Position'
      BY <2>2, <3>1 DEF TypeInv, Position
    <3>3. QED
      BY <1>1, <3>1, <3>2 DEF TypeInv, Disk, Number
  <2>5. QED
    BY <2>3, <2>4
<1>6. ASSUME NEW p \in Process, NEW t \in Thread,
             \/ Lock(p, t) \/ Rolled(p, t) \/ WriteFails(p, t)
             \/ Close(p, t) \/ Unlink(p, t) \/ UnlinkFails(p, t)
             \/ Rename(p, t) \/ RenameFails(p, t) \/ OpenFails(p, t)
      PROVE  TypeInv'
  <2>1. UNCHANGED <<disk, stored, m_maxFiles>>
    BY <1>6 DEF Lock, Rolled, WriteFails, Close, Unlink, UnlinkFails, Rename,
                RenameFails, OpenFails, files, appender
  <2>2. dir' \in [Number -> 0 .. Len(disk)]
    <3>1. CASE Unlink(p, t) \/ Rename(p, t)
      BY <3>1, DirKeeps DEF TypeInv
    <3>2. CASE ~(Unlink(p, t) \/ Rename(p, t))
      <4>1. UNCHANGED dir
        BY <1>6, <3>2 DEF Lock, Rolled, WriteFails, Close, UnlinkFails, RenameFails, OpenFails, files
      <4>2. QED
        BY <4>1 DEF TypeInv, Disk
    <3>3. QED
      BY <3>1, <3>2
  <2>3. Disk'
    BY <2>1, <2>2 DEF TypeInv, Disk, Number
  <2>4. /\ UNCHANGED offset
        /\ \/ UNCHANGED m_fileSize
           \/ m_fileSize' = [m_fileSize EXCEPT ![p] = -1] /\ m_file'[p] = -1
        /\ UNCHANGED m_file \/ m_file' = [m_file EXCEPT ![p] = -1]
    <3>1. CASE OpenFails(p, t)
      <4>1. /\ UNCHANGED offset
            /\ m_fileSize' = [m_fileSize EXCEPT ![p] = -1]
            /\ m_file' = [m_file EXCEPT ![p] = -1]
        BY <3>1 DEF OpenFails
      <4>2. m_file'[p] = -1
        BY <4>1 DEF TypeInv, Position
      <4>3. QED
        BY <4>1, <4>2
    <3>2. CASE ~OpenFails(p, t)
      <4>1. CASE Close(p, t)
        BY <4>1 DEF Close
      <4>2. CASE \/ Lock(p, t) \/ Rolled(p, t) \/ WriteFails(p, t)
                 \/ Unlink(p, t) \/ UnlinkFails(p, t) \/ Rename(p, t) \/ RenameFails(p, t)
        BY <4>2 DEF Lock, Rolled, WriteFails, Unlink, UnlinkFails, Rename, RenameFails, files,
                    appender
      <4>3. QED
        BY <1>6, <3>2, <4>1, <4>2
    <3>3. QED
      BY <3>1, <3>2
  <2>5. /\ m_file' = m_file
        /\ UNCHANGED pc \/ \E l \in Labels \ {"header"} : Goto(p, t, l)
        \/ /\ pc[p][t] # "idle" /\ m_file' = [m_file EXCEPT ![p] = -1]
           /\ \E l \in Labels \ {"header"} : Goto(p, t, l)
    BY <1>6 DEF Lock, Rolled, WriteFails, Close, Unlink, UnlinkFails, Rename, RenameFails,
                OpenFails, Done, appender, Way, Labels
  <2>6. ASSUME NEW q \in Process, NEW u \in Thread, pc'[q][u] = "header"
        PROVE  pc[q][u] = "header" /\ m_file'[q] = m_file[q]
    <3>1. pc[q][u] = "header"
      BY <2>5, <2>6 DEF TypeInv, Control, Threads, Goto
    <3>2. CASE UNCHANGED m_file
      BY <3>1, <3>2
    <3>3. CASE pc[p][t] # "idle" /\ m_file' = [m_file EXCEPT ![p] = -1]
      <4>1. q # p
        <5>1. SUFFICES ASSUME q = p PROVE FALSE
          OBVIOUS
        <5>2. m_mutex[p] = t /\ m_mutex[p] = u
          BY <3>1, <3>3, <5>1 DEF TypeInv, Control, Threads
        <5>3. m_file[p] # -1
          BY <3>1, <5>1 DEF TypeInv, Position
        <5>4. m_file'[p] = -1
          BY <3>3 DEF TypeInv, Position
        <5>5. \E l \in Labels \ {"header"} : Goto(p, t, l)
          BY <2>5, <5>3, <5>4
        <5>6. pc'[p][t] # "header"
          BY <5>5 DEF Goto, TypeInv, Control, Threads
        <5>7. QED
          BY <2>6, <5>1, <5>2, <5>6
      <4>2. QED
        BY <3>1, <3>3, <4>1 DEF TypeInv, Position
    <3>4. QED
      BY <2>5, <3>2, <3>3
  <2>7. Position'
    <3>1. offset' \in [Process -> Nat] /\ m_fileSize' \in [Process -> Int]
          /\ m_file' \in [Process -> {-1} \cup 1 .. Len(disk)]
      BY <2>4 DEF TypeInv, Position
    <3>2. \A q \in Process : m_file'[q] # -1 =>
            m_file'[q] = m_file[q] /\ offset'[q] = offset[q] /\ m_fileSize'[q] = m_fileSize[q]
      BY <2>4 DEF TypeInv, Position
    <3>3. QED
      BY <1>1, <2>1, <2>6, <3>1, <3>2, PositionRests DEF TypeInv
  <2>8. QED
    BY <1>1, <2>3, <2>7 DEF TypeInv
<1>7. ASSUME NEW p \in Process, Kill(p) PROVE TypeInv'
  <2>1. UNCHANGED <<disk, dir, stored, m_maxFiles>>
        /\ m_file' = [m_file EXCEPT ![p] = -1]
        /\ offset' = [offset EXCEPT ![p] = 0]
        /\ m_fileSize' = [m_fileSize EXCEPT ![p] = 0]
        /\ pc' = [pc EXCEPT ![p] = [t \in Thread |-> "idle"]]
    BY <1>7 DEF Kill, files
  <2>2. \A q \in Process, u \in Thread : pc'[q][u] = "header" =>
          pc[q][u] = "header" /\ m_file'[q] = m_file[q]
    BY <2>1 DEF TypeInv, Control, Threads, Position
  <2>3. offset' \in [Process -> Nat] /\ m_fileSize' \in [Process -> Int]
        /\ m_file' \in [Process -> {-1} \cup 1 .. Len(disk)]
    BY <2>1 DEF TypeInv, Position
  <2>4. \A q \in Process : m_file'[q] # -1 =>
          m_file'[q] = m_file[q] /\ offset'[q] = offset[q] /\ m_fileSize'[q] = m_fileSize[q]
    BY <2>1 DEF TypeInv, Position
  <2>5. Position'
    BY <1>1, <2>1, <2>2, <2>3, <2>4, PositionRests DEF TypeInv
  <2>6. QED
    BY <1>1, <2>1, <2>5 DEF TypeInv, Disk, Number
<1>8. QED
  BY <1>2, <1>3, <1>4, <1>5, <1>6, <1>7 DEF Next

LEMMA TypesGiveTypeOK == TypeInv => TypeOK
<1> SUFFICES ASSUME TypeInv PROVE TypeOK
  OBVIOUS
<1>1. ASSUME NEW i \in DOMAIN disk, NEW j \in DOMAIN disk[i], disk[i][j] # Header
      PROVE  disk[i][j] \in Record
  <2>1. disk[i] \in Seq(Cell)
    BY ElementOfSeq DEF TypeInv, Disk
  <2>2. disk[i][j] \in Cell
    BY <2>1, ElementOfSeq
  <2>3. QED
    BY <1>1, <2>2 DEF Cell
<1>2. ASSUME NEW p \in Process, m_file[p] # -1
      PROVE  offset[p] \in 0 .. Len(disk[m_file[p]]) /\ m_fileSize[p] = offset[p]
  <2>1. m_file[p] \in 1 .. Len(disk)
    BY <1>2 DEF TypeInv, Position
  <2>2. disk[m_file[p]] \in Seq(Cell)
    BY <2>1, ElementOfSeq DEF TypeInv, Disk
  <2>3. Len(disk[m_file[p]]) \in Nat
    BY <2>2
  <2>4. QED
    BY <1>2, <2>3 DEF TypeInv, Position
<1>3. ASSUME NEW p \in Process
      PROVE  m_fileSize[p] \in {-1, offset[p]} \cup (IF m_file[p] = -1 THEN Int ELSE {})
  BY <1>2 DEF TypeInv, Position
<1>4. QED
  BY <1>1, <1>2, <1>3 DEF TypeInv, TypeOK, Disk, Position, Control, Threads, Renaming

\* Every variable has its type, in any number of processes that write to one
\* log file, and only the holder of a process's mutex is under way.
THEOREM LogTypesCorrect == Spec => []TypeOK
<1>1. Spec => []TypeInv
  BY InitTypes, NextTypes, PTL DEF Spec
<1>2. QED
  BY <1>1, TypesGiveTypeOK, PTL

-----------------------------------------------------------------------------
(* One process: the size of the files.                                     *)

\* What a file may hold before a record is written to it.  File 0 holds no more
\* when it is opened again because it could not be renamed.
Most == m_maxFileSize + kills + unmoved
Turns(p, t) ==
  /\ pc[p][t] \in {"close", "unlink", "rename", "header", "write"} => ~m_firstWrite[p]
  /\ \/ pc[p][t] = "rename" /\ fileNumber[p] < 0
     \/ pc[p][t] = "open" /\ ~m_firstWrite[p]
     => (dir[0] # 0 => Len(disk[dir[0]]) <= Most)
  /\ pc[p][t] = "header" => offset[p] = 0
  /\ pc[p][t] = "write" /\ m_file[p] # -1 => offset[p] <= Most

\* A program that has just started may find files as large as they get, and add
\* a record to one.
Limit(p) == Most + (IF m_firstWrite[p] THEN 0 ELSE 1)
SizeInv ==
  m_maxFiles > 0 =>
    \A p \in Process :
      /\ \A t \in Thread : Turns(p, t)
      /\ \A i \in DOMAIN disk : Len(disk[i]) <= Limit(p)

\* A thread that has made a step is the only one under way.
Moved(p, t) ==
  \/ Lock(p, t) \/ Close(p, t) \/ Unlink(p, t) \/ UnlinkFails(p, t)
  \/ Rename(p, t) \/ RenameFails(p, t) \/ Rolled(p, t)
  \/ Open(p, t) \/ OpenFails(p, t) \/ WriteHeader(p, t)
  \/ WriteRecord(p, t) \/ WriteShort(p, t) \/ WriteFails(p, t)
LEMMA OnlyOne ==
  ASSUME NEW p \in Process, NEW t \in Thread, Process = {p}, Control, Control', Moved(p, t)
  PROVE  /\ \A u \in Thread : u # t => pc'[p][u] = "idle"
         /\ UNCHANGED <<m_maxFiles, kills>> /\ unmoved \in Nat
         /\ IF UnlinkFails(p, t) \/ RenameFails(p, t) THEN Unmoved ELSE UNCHANGED unmoved
<1>1. m_mutex'[p] = t \/ m_mutex'[p] = "free"
  <2>1. CASE Lock(p, t)
    BY <2>1 DEF Lock, Acquire, Control, Threads
  <2>2. CASE WriteRecord(p, t) \/ WriteShort(p, t)
            \/ (WriteFails(p, t) /\ pc[p][t] # "header")
    <3>1. Release(p)
      BY <2>2 DEF WriteRecord, WriteShort, WriteFails, Done
    <3>2. QED
      BY <3>1 DEF Release, Control, Threads
  <2>3. CASE \/ Close(p, t) \/ Unlink(p, t) \/ Rename(p, t) \/ Rolled(p, t)
             \/ UnlinkFails(p, t) \/ RenameFails(p, t)
             \/ Open(p, t) \/ OpenFails(p, t) \/ WriteHeader(p, t)
             \/ (WriteFails(p, t) /\ pc[p][t] = "header")
    <3>1. UNCHANGED m_mutex /\ pc[p][t] # "idle"
      BY <2>3 DEF Close, Unlink, Rename, Rolled, Open, OpenFails, WriteHeader,
                  WriteFails, UnlinkFails, RenameFails, appender
    <3>2. QED
      BY <3>1 DEF Control, Threads
  <2>4. QED
    BY <2>1, <2>2, <2>3 DEF Moved
<1>2. ASSUME NEW u \in Thread, u # t PROVE pc'[p][u] = "idle"
  BY <1>1, <1>2, LogAssumption DEF Control, Threads
<1>3. UNCHANGED <<m_maxFiles, kills>>
  BY DEF Moved, Lock, Close, Unlink, UnlinkFails, Rename, RenameFails, Rolled, Open,
         OpenFails, WriteHeader, WriteRecord, WriteShort, WriteFails
<1>4. IF UnlinkFails(p, t) \/ RenameFails(p, t) THEN Unmoved ELSE UNCHANGED unmoved
  BY DEF Moved, Lock, Close, Unlink, UnlinkFails, Rename, RenameFails, Rolled, Open,
         OpenFails, WriteHeader, WriteRecord, WriteShort, WriteFails
<1>5. unmoved \in Nat
  BY DEF Control, Counts
<1>6. QED
  BY <1>2, <1>3, <1>4, <1>5

\* The step of a thread keeps its place right, and the files within the limit.
SizeKept(p, t) == Turns(p, t)' /\ \A i \in DOMAIN disk' : Len(disk'[i]) <= Limit(p)'

LEMMA SizeMoved ==
  ASSUME NEW p \in Process, NEW t \in Thread, Process = {p}, TypeInv, TypeInv',
         SizeInv, m_maxFiles > 0, Moved(p, t)
  PROVE  SizeKept(p, t)
<1>1. /\ Turns(p, t) /\ \A i \in DOMAIN disk : Len(disk[i]) <= Limit(p)
      /\ kills \in Nat /\ m_maxFileSize \in Nat \ {0} /\ kills' = kills /\ unmoved \in Nat
      /\ m_firstWrite[p] \in BOOLEAN /\ m_maxFiles \in Nat
  BY LogAssumption, OnlyOne DEF SizeInv, TypeInv, Control, Threads, Counts, Renaming
<1>0. /\ Most \in Nat /\ Most >= m_maxFileSize
      /\ Limit(p) \in Nat /\ Limit(p) <= Most + 1
      /\ m_firstWrite[p] => Limit(p) = Most
      /\ unmoved' = unmoved => Most' = Most
      /\ Unmoved => Most' = Most + 1
  BY <1>1 DEF Most, Unmoved, Limit
<1>2. disk \in Seq(Seq(Cell)) /\ DOMAIN disk = 1 .. Len(disk) /\ Len(disk) \in Nat
  BY DEF TypeInv, Disk
<1>3. ASSUME NEW i \in 1 .. Len(disk) PROVE Len(disk[i]) \in Nat
  <2>1. disk[i] \in Seq(Cell)
    BY <1>2, ElementOfSeq
  <2>2. QED
    BY <2>1
<1>4. ASSUME NEW l \in Labels, Goto(p, t, l) PROVE pc'[p][t] = l
  BY <1>4 DEF Goto, TypeInv, Control, Threads
<1>5. CASE Lock(p, t)
  <2>1. UNCHANGED <<disk, dir, m_file, offset, m_fileSize, m_firstWrite, unmoved>>
        /\ Goto(p, t, Way(p))
    BY <1>5 DEF Lock, files
  <2>2. pc'[p][t] = Way(p)
    BY <1>4, <2>1 DEF Way, Labels
  <2>3. m_file[p] # -1 => m_fileSize[p] = offset[p] /\ offset[p] \in Nat
    BY DEF TypeInv, Position
  <2>4. Turns(p, t)'
    BY <1>0, <1>1, <2>1, <2>2, <2>3 DEF Turns, Way
  <2>5. QED
    BY <1>0, <1>1, <2>1, <2>4 DEF SizeKept, Limit
<1>6. CASE Close(p, t)
  <2>1. UNCHANGED <<disk, m_firstWrite, unmoved>> /\ pc'[p][t] = "unlink" /\ pc[p][t] = "close"
    BY <1>4, <1>6 DEF Close, files, Labels
  <2>2. QED
    BY <1>0, <1>1, <2>1 DEF SizeKept, Limit, Turns
<1>7. CASE Unlink(p, t)
  <2>1. UNCHANGED <<disk, m_firstWrite, unmoved>> /\ pc'[p][t] = "rename" /\ pc[p][t] = "unlink"
    BY <1>4, <1>7 DEF Unlink, Labels
  <2>2. fileNumber'[p] = m_maxFiles - 2 /\ dir' = [dir EXCEPT ![m_maxFiles - 1] = 0]
    BY <1>7 DEF Unlink, File_unlink, TypeInv, Control, Renaming
  <2>3. m_maxFiles - 1 \in Number
    BY <1>1 DEF Number
  <2>4. fileNumber'[p] < 0 => dir'[0] = 0
    <3>1. dir'[m_maxFiles - 1] = 0
      BY <2>2, <2>3 DEF TypeInv, Disk
    <3>2. fileNumber'[p] < 0 => m_maxFiles - 1 = 0
      BY <1>1, <2>2
    <3>3. QED
      BY <3>1, <3>2
  <2>5. QED
    BY <1>0, <1>1, <2>1, <2>4 DEF SizeKept, Limit, Turns
<1>8. CASE Rename(p, t)
  <2> DEFINE n == fileNumber[p]
  <2>1. UNCHANGED <<disk, m_firstWrite, pc, unmoved>> /\ pc[p][t] = "rename"
    BY <1>8 DEF Rename
  <2>2. /\ fileNumber'[p] = n - 1
        /\ dir' = IF dir[n] = 0 THEN dir ELSE [dir EXCEPT ![n + 1] = dir[n], ![n] = 0]
        /\ n >= 0 /\ n \in -1 .. m_maxFiles - 2
    BY <1>8 DEF Rename, File_rename, TypeInv, Control, Renaming
  <2>3. n \in Number /\ n + 1 \in Number /\ n # n + 1
    BY <1>1, <2>2 DEF Number
  <2>4. dir'[n] = 0
    BY <2>2, <2>3 DEF TypeInv, Disk
  <2>5. fileNumber'[p] < 0 => dir'[0] = 0
    <3>1. fileNumber'[p] < 0 => n = 0
      BY <2>2
    <3>2. QED
      BY <2>4, <3>1
  <2>6. QED
    BY <1>0, <1>1, <2>1, <2>5 DEF SizeKept, Limit, Turns
<1>u. CASE UnlinkFails(p, t) \/ RenameFails(p, t)
  <2>1. UNCHANGED <<disk, dir, m_firstWrite>> /\ Unmoved /\ pc[p][t] \in {"unlink", "rename"}
    BY <1>u DEF UnlinkFails, RenameFails, files
  <2>2. pc'[p][t] = "rename"
    <3>1. CASE UnlinkFails(p, t)
      BY <1>4, <3>1 DEF UnlinkFails, Labels
    <3>2. CASE RenameFails(p, t)
      BY <3>2 DEF RenameFails
    <3>3. QED
      BY <1>u, <3>1, <3>2
  <2>3. dir[0] # 0 => dir[0] \in DOMAIN disk
    BY <1>1, <1>2, NumberZero DEF TypeInv, Disk
  <2>4. dir[0] # 0 => Len(disk[dir[0]]) <= Most'
    BY <1>0, <1>1, <1>2, <1>3, <2>1, <2>3 DEF Limit
  <2>5. ~m_firstWrite[p]
    BY <1>1, <2>1 DEF Turns
  <2>6. Turns(p, t)'
    BY <2>1, <2>2, <2>4, <2>5 DEF Turns
  <2>7. Limit(p)' = Most + 2 /\ Limit(p) = Most + 1
    BY <1>0, <2>1, <2>5 DEF Limit
  <2>8. \A i \in DOMAIN disk : Len(disk[i]) <= Limit(p)'
    BY <1>0, <1>1, <1>2, <1>3, <2>7
  <2>9. QED
    BY <2>1, <2>6, <2>8 DEF SizeKept
<1>9. CASE Rolled(p, t)
  <2>1. UNCHANGED <<disk, dir, m_firstWrite, unmoved>> /\ pc'[p][t] = "open"
        /\ pc[p][t] = "rename" /\ fileNumber[p] < 0
    BY <1>4, <1>9 DEF Rolled, files, appender, Labels
  <2>2. QED
    BY <1>0, <1>1, <2>1 DEF SizeKept, Limit, Turns
<1>10. CASE Open(p, t)
  <2>1. /\ disk' \in Seq(Seq(Cell)) /\ Len(disk') \in Nat /\ Len(disk) <= Len(disk')
        /\ \A j \in 1 .. Len(disk) : disk'[j] = disk[j]
        /\ dir'[0] \in 1 .. Len(disk')
        /\ dir[0] = 0 => Len(disk') = Len(disk) + 1 /\ dir'[0] = Len(disk')
                         /\ disk'[dir'[0]] = <<>>
        /\ dir[0] # 0 => disk' = disk /\ dir' = dir
        /\ offset' = [offset EXCEPT ![p] = Len(disk'[dir'[0]])]
    BY <1>1, <1>10, OpenDoes DEF TypeInv
  <2>2. /\ pc[p][t] = "open" /\ m_firstWrite' = [m_firstWrite EXCEPT ![p] = FALSE]
        /\ Goto(p, t, IF offset'[p] = 0 THEN "header" ELSE "write") /\ UNCHANGED unmoved
    BY <1>10 DEF Open
  <2>3. offset'[p] = Len(disk'[dir'[0]])
    BY <2>1 DEF TypeInv, Position
  <2>4. pc'[p][t] = IF offset'[p] = 0 THEN "header" ELSE "write"
    BY <1>4, <2>2 DEF Labels
  <2>5. ~m_firstWrite'[p]
    BY <2>2 DEF TypeInv, Control, Renaming
  <2>6. offset'[p] <= Most /\ Most' = Most
    <3>1. CASE dir[0] = 0
      <4>1. Len(disk'[dir'[0]]) = 0
        BY <2>1, <3>1, EmptySeq
      <4>2. QED
        BY <1>0, <2>2, <2>3, <4>1
    <3>2. CASE dir[0] # 0
      <4>1. disk' = disk /\ dir' = dir /\ dir[0] \in DOMAIN disk
        BY <1>2, <2>1, <3>2
      <4>2. CASE m_firstWrite[p]
        BY <1>0, <1>1, <2>2, <2>3, <4>1, <4>2
      <4>3. CASE ~m_firstWrite[p]
        BY <1>0, <1>1, <2>2, <2>3, <3>2, <4>1, <4>3 DEF Turns
      <4>4. QED
        BY <4>2, <4>3
    <3>3. QED
      BY <3>1, <3>2
  <2>7. Turns(p, t)'
    BY <1>0, <1>1, <2>4, <2>5, <2>6 DEF Turns
  <2>8. ASSUME NEW i \in DOMAIN disk' PROVE Len(disk'[i]) <= Limit(p)'
    <3>1. i \in 1 .. Len(disk') /\ Limit(p)' = Most + 1
      BY <1>1, <2>1, <2>5, <2>6 DEF Limit
    <3>2. CASE i \in 1 .. Len(disk)
      BY <1>0, <1>1, <1>2, <1>3, <2>1, <3>1, <3>2
    <3>3. CASE i \notin 1 .. Len(disk)
      <4>1. dir[0] = 0 /\ i = Len(disk')
        BY <1>2, <2>1, <3>1, <3>3
      <4>2. Len(disk'[i]) = 0
        BY <2>1, <4>1, EmptySeq
      <4>3. QED
        BY <1>0, <3>1, <4>2
    <3>4. QED
      BY <3>2, <3>3
  <2>9. QED
    BY <2>7, <2>8 DEF SizeKept
<1>11. CASE OpenFails(p, t)
  <2>1. UNCHANGED <<disk, unmoved>> /\ pc'[p][t] = "write" /\ pc[p][t] = "open"
        /\ m_firstWrite' = [m_firstWrite EXCEPT ![p] = FALSE]
        /\ m_file' = [m_file EXCEPT ![p] = -1]
    BY <1>4, <1>11 DEF OpenFails, files, Labels
  <2>2. ~m_firstWrite'[p] /\ m_file'[p] = -1
    BY <2>1 DEF TypeInv, Control, Renaming, Position
  <2>3. Limit(p)' = Most + 1
    BY <1>0, <2>1, <2>2 DEF Limit
  <2>4. \A i \in DOMAIN disk : Len(disk[i]) <= Most + 1
    BY <1>0, <1>1, <1>2, <1>3 DEF Limit
  <2>5. QED
    BY <1>1, <2>1, <2>2, <2>3, <2>4 DEF SizeKept, Turns
<1>12. ASSUME NEW c \in Cell, m_file[p] # -1, Put(p, c), UNCHANGED <<m_file, m_firstWrite, unmoved>>,
              offset[p] <= Most, ~m_firstWrite[p]
       PROVE  /\ offset'[p] = offset[p] + 1
              /\ \A i \in DOMAIN disk' : Len(disk'[i]) <= Limit(p)'
  <2>1. /\ disk' \in Seq(Seq(Cell)) /\ Len(disk') = Len(disk)
        /\ m_file[p] \in 1 .. Len(disk)
        /\ Len(disk'[m_file[p]]) = IF offset[p] = Len(disk[m_file[p]])
                                   THEN Len(disk[m_file[p]]) + 1
                                   ELSE Len(disk[m_file[p]])
        /\ \A j \in 1 .. Len(disk) : j # m_file[p] => disk'[j] = disk[j]
        /\ offset' = [offset EXCEPT ![p] = offset[p] + 1]
    BY <1>12, PutDoes DEF TypeInv
  <2>2. Limit(p)' = Most + 1 /\ Limit(p) = Most + 1
    BY <1>0, <1>12 DEF Limit
  <2>3. ASSUME NEW i \in DOMAIN disk' PROVE Len(disk'[i]) <= Limit(p)'
    <3>1. i \in 1 .. Len(disk) /\ Len(disk[i]) \in Nat
      BY <1>3, <2>1
    <3>2. Len(disk[i]) <= Most + 1
      BY <1>1, <1>2, <2>2, <3>1
    <3>3. CASE i = m_file[p]
      BY <1>0, <1>12, <2>1, <2>2, <3>1, <3>2, <3>3
    <3>4. CASE i # m_file[p]
      BY <2>1, <2>2, <3>1, <3>2, <3>4
    <3>5. QED
      BY <3>3, <3>4
  <2>4. QED
    BY <2>1, <2>3 DEF TypeInv, Position
<1>13. CASE WriteHeader(p, t)
  <2>1. /\ pc[p][t] = "header" /\ Put(p, Header) /\ UNCHANGED <<m_file, m_firstWrite, unmoved>>
        /\ pc'[p][t] = "write"
    BY <1>4, <1>13 DEF WriteHeader, Labels
  <2>2. m_file[p] # -1 /\ offset[p] = 0 /\ ~m_firstWrite[p]
    BY <1>1, <2>1 DEF TypeInv, Position, Turns
  <2>3. /\ offset'[p] = offset[p] + 1
        /\ \A i \in DOMAIN disk' : Len(disk'[i]) <= Limit(p)'
    BY <1>0, <1>12, <2>1, <2>2, CellIs
  <2>4. offset'[p] <= Most'
    BY <1>0, <1>1, <2>1, <2>2, <2>3
  <2>5. QED
    BY <1>1, <2>1, <2>2, <2>3, <2>4 DEF SizeKept, Turns
<1>14. CASE Writes(p, t)
  <2>1. PICK r \in Record : r \in Cell /\ Written(p, t, r)
    BY <1>14, WrittenIs DEF TypeInv
  <2>2. m_file[p] # -1
    BY <1>14, WrittenIs DEF TypeInv
  <2>3. /\ pc[p][t] = "write" /\ Put(p, r) /\ UNCHANGED <<m_file, m_firstWrite, unmoved>>
        /\ pc'[p][t] = "idle"
    BY <1>4, <2>1 DEF Written, Labels
  <2>4. ~m_firstWrite[p] /\ offset[p] <= Most
    BY <1>1, <2>2, <2>3 DEF Turns
  <2>5. \A i \in DOMAIN disk' : Len(disk'[i]) <= Limit(p)'
    BY <1>12, <2>1, <2>2, <2>3, <2>4
  <2>6. Turns(p, t)'
    BY <2>3 DEF Turns
  <2>7. QED
    BY <2>5, <2>6 DEF SizeKept
<1>w. CASE WriteRecord(p, t) /\ ~Writes(p, t)
  <2>1. UNCHANGED <<disk, m_firstWrite, unmoved>> /\ pc'[p][t] = "idle"
    BY <1>4, <1>w DEF WriteRecord, Writes, Done, Labels
  <2>2. QED
    BY <1>0, <1>1, <2>1 DEF SizeKept, Turns, Limit
<1>15. CASE WriteFails(p, t)
  <2>1. /\ UNCHANGED <<disk, m_firstWrite, offset, m_file, unmoved>>
        /\ \/ pc[p][t] = "header" /\ pc'[p][t] = "write"
           \/ pc'[p][t] = "idle"
    BY <1>4, <1>15 DEF WriteFails, Done, files, Labels
  <2>2. Turns(p, t)'
    BY <1>0, <1>1, <2>1 DEF Turns
  <2>3. QED
    BY <1>0, <1>1, <2>1, <2>2 DEF SizeKept, Limit
<1>16. QED
  BY <1>5, <1>6, <1>7, <1>8, <1>u, <1>9, <1>10, <1>11, <1>13, <1>14, <1>w, <1>15
     DEF Moved, Writes

LEMMA NextSize ==
  ASSUME NEW p \in Process, Process = {p}
  PROVE  TypeInv /\ TypeInv' /\ SizeInv /\ [Next]_vars => SizeInv'
<1> SUFFICES ASSUME TypeInv, TypeInv', SizeInv, [Next]_vars PROVE SizeInv'
  OBVIOUS
<1>1. CASE UNCHANGED vars
  BY <1>1 DEF vars, files, appender, SizeInv, Turns, Limit, Most
<1>2. ASSUME NEW t \in Thread, Moved(p, t) PROVE SizeInv'
  <2>1. /\ \A u \in Thread : u # t => pc'[p][u] = "idle"
        /\ UNCHANGED m_maxFiles
    BY <1>2, OnlyOne DEF TypeInv
  <2>2. SUFFICES ASSUME m_maxFiles > 0 PROVE SizeInv'
    BY <2>1 DEF SizeInv
  <2>3. SizeKept(p, t)
    BY <1>2, <2>2, SizeMoved
  <2>4. ASSUME NEW u \in Thread, u # t PROVE Turns(p, u)'
    BY <2>1, <2>4 DEF Turns
  <2>5. QED
    BY <2>3, <2>4 DEF SizeInv, SizeKept
<1>3. CASE Kill(p)
  <2>1. /\ UNCHANGED <<disk, m_maxFiles, unmoved>> /\ kills' = kills + 1
        /\ m_firstWrite' = [m_firstWrite EXCEPT ![p] = TRUE]
        /\ pc' = [pc EXCEPT ![p] = [u \in Thread |-> "idle"]]
    BY <1>3 DEF Kill, files
  <2>2. \A u \in Thread : pc'[p][u] = "idle"
    BY <2>1 DEF TypeInv, Control, Threads
  <2>3. m_firstWrite'[p] /\ Most \in Nat /\ Most' = Most + 1
    BY <2>1, LogAssumption DEF Most, TypeInv, Control, Renaming, Counts
  <2>4. ASSUME m_maxFiles > 0, NEW i \in DOMAIN disk' PROVE Len(disk'[i]) <= Limit(p)'
    <3>1. Len(disk[i]) \in Nat
      <4>1. disk[i] \in Seq(Cell)
        BY <2>1, <2>4, ElementOfSeq DEF TypeInv, Disk
      <4>2. QED
        BY <4>1
    <3>2. Len(disk[i]) <= Limit(p)
      BY <2>1, <2>4 DEF SizeInv
    <3>3. Limit(p)' = Most + 1 /\ Limit(p) <= Most + 1
      BY <2>1, <2>3 DEF Limit
    <3>4. QED
      BY <2>1, <2>3, <3>1, <3>2, <3>3 DEF Limit
  <2>5. QED
    BY <2>1, <2>2, <2>4 DEF SizeInv, Turns
<1>4. QED
  BY <1>1, <1>2, <1>3 DEF Next, Moved

\* For any limit of size and number of files and any number of threads, if no
\* other process writes to the log: a file outgrows the limit by one record, by
\* one more for each time the program was killed, and by one more for each time
\* that a file could not be deleted or renamed.
THEOREM SizeCorrect ==
  ASSUME NEW p \in Process, Process = {p} PROVE Spec => []SizeBounded
<1>1. Init => SizeInv
  <2>1. SUFFICES ASSUME Init PROVE SizeInv
    OBVIOUS
  <2>2. DOMAIN disk = {} /\ \A q \in Process, t \in Thread : pc[q][t] = "idle"
    BY <2>1 DEF Init
  <2>3. QED
    BY <2>2 DEF SizeInv, Turns
<1>2. TypeInv /\ SizeInv => SizeBounded
  <2>1. SUFFICES ASSUME TypeInv, SizeInv, m_maxFiles > 0, NEW i \in DOMAIN disk
                 PROVE  Len(disk[i]) <= m_maxFileSize + 1 + kills + unmoved
    BY DEF SizeBounded
  <2>2. kills \in Nat /\ m_maxFileSize \in Nat /\ unmoved \in Nat
    BY <2>1, LogAssumption DEF TypeInv, Control, Counts
  <2>3. disk[i] \in Seq(Cell)
    BY <2>1, ElementOfSeq DEF TypeInv, Disk
  <2>4. Len(disk[i]) \in Nat /\ Len(disk[i]) <= Limit(p)
    BY <2>1, <2>3 DEF SizeInv
  <2>5. Limit(p) \in Nat /\ Limit(p) <= m_maxFileSize + 1 + kills + unmoved
    BY <2>2 DEF Limit, Most
  <2>6. QED
    BY <2>2, <2>4, <2>5
<1>3. TypeInv /\ SizeInv /\ [Next]_vars => TypeInv' /\ SizeInv'
  BY NextTypes, NextSize
<1>4. QED
  BY InitTypes, <1>1, <1>2, <1>3, PTL DEF Spec

-----------------------------------------------------------------------------
(* The records of several files, joined from the oldest, which has the     *)
(* greatest number.                                                        *)

\* A set of numbers that reaches down from m to the next is all of 0 .. m.
LEMMA Downwards ==
  ASSUME NEW m \in Nat, NEW T, T \subseteq 0 .. m, m \in T,
         \A k \in 0 .. m - 1 : k + 1 \in T => k \in T
  PROVE  T = 0 .. m
<1> DEFINE R == OpToRel(<, Nat)
           Missing == {i \in 0 .. m : m - i \notin T}
<1>1. IsWellFoundedOn(R, Nat)
  BY NatLessThanWellFounded
<1>2. \A x, y \in Nat : <<y, x>> \in R <=> y < x
  BY DEF OpToRel
<1> HIDE DEF R
<1>3. ASSUME Missing # {} PROVE FALSE
  <2>1. Missing \subseteq Nat
    OBVIOUS
  <2>2. PICK i \in Missing : \A j \in Missing : ~ (<<j, i>> \in R)
    BY <1>1, <1>3, <2>1, WFMin
  <2>3. i \in 0 .. m /\ m - i \notin T /\ i # 0
    OBVIOUS
  <2>4. i - 1 \notin Missing
    <3>1. i \in Nat /\ i - 1 \in Nat /\ i - 1 < i
      BY <2>3
    <3>2. QED
      BY <1>2, <2>2, <3>1
  <2>5. (m - i) + 1 = m - (i - 1) /\ m - i \in 0 .. m - 1 /\ i - 1 \in 0 .. m
    BY <2>3
  <2>6. QED
    BY <2>3, <2>4, <2>5
<1>4. ASSUME NEW k \in 0 .. m PROVE k \in T
  <2>1. m - k \in 0 .. m /\ m - (m - k) = k
    OBVIOUS
  <2>2. m - k \notin Missing
    BY <1>3
  <2>3. QED
    BY <2>1, <2>2
<1>5. QED
  BY <1>4

\* f[k] is what files k and higher hold, oldest first.
Joins(f, b) ==
  f = [k \in DOMAIN b |-> IF k + 1 \in DOMAIN b THEN f[k + 1] \o b[k] ELSE b[k]]

\* A part of such a function, from file n up.
JoinsFrom(f, b, n, m, S) ==
  /\ f \in [n .. m -> Seq(S)]
  /\ f[m] = b[m]
  /\ \A k \in n .. m - 1 : f[k] = f[k + 1] \o b[k]
JoinableFrom(b, n, m, S) == \E f : JoinsFrom(f, b, n, m, S)

\* There is such a function, and Joined takes its value from one.
LEMMA JoinedIs ==
  ASSUME NEW m \in Nat, NEW S, NEW b \in [0 .. m -> Seq(S)]
  PROVE  \E f : JoinsFrom(f, b, 0, m, S) /\ Joined(b) = f[0]
<1> DEFINE T == {n \in 0 .. m : JoinableFrom(b, n, m, S)}
<1>1. m \in T
  <2> DEFINE g == [k \in m .. m |-> b[m]]
  <2>1. b[m] \in Seq(S) /\ m .. m - 1 = {} /\ m \in m .. m
    OBVIOUS
  <2>2. g \in [m .. m -> Seq(S)] /\ g[m] = b[m]
    BY <2>1
  <2> HIDE DEF g
  <2>3. JoinsFrom(g, b, m, m, S)
    BY <2>1, <2>2 DEF JoinsFrom
  <2>4. QED
    BY <2>3 DEF JoinableFrom
<1>2. ASSUME NEW n \in 0 .. m - 1, n + 1 \in T PROVE n \in T
  <2>1. PICK f : JoinsFrom(f, b, n + 1, m, S)
    BY <1>2 DEF JoinableFrom
  <2> DEFINE g == [k \in n .. m |-> IF k = n THEN f[n + 1] \o b[n] ELSE f[k]]
  <2>2. f[n + 1] \in Seq(S) /\ b[n] \in Seq(S)
    BY <2>1 DEF JoinsFrom
  <2>3. f[n + 1] \o b[n] \in Seq(S)
    BY <2>2, ConcatProperties
  <2>4. g \in [n .. m -> Seq(S)]
    BY <2>1, <2>3 DEF JoinsFrom
  <2>5. g[m] = b[m]
    BY <2>1 DEF JoinsFrom
  <2>6. ASSUME NEW k \in n .. m - 1 PROVE g[k] = g[k + 1] \o b[k]
    <3>1. CASE k = n
      <4>1. k + 1 \in n .. m /\ k + 1 # n /\ k \in n .. m
        BY <3>1
      <4>2. g[k] = f[n + 1] \o b[n] /\ g[k + 1] = f[n + 1]
        BY <3>1, <4>1
      <4>3. QED
        BY <3>1, <4>2
    <3>2. CASE k # n
      <4>1. k \in n + 1 .. m - 1 /\ k + 1 \in n .. m /\ k + 1 # n
        BY <3>2
      <4>2. g[k] = f[k] /\ g[k + 1] = f[k + 1]
        BY <3>2, <4>1
      <4>3. QED
        BY <2>1, <4>1, <4>2 DEF JoinsFrom
    <3>3. QED
      BY <3>1, <3>2
  <2>7. JoinsFrom(g, b, n, m, S)
    <3> HIDE DEF g
    <3>1. QED
      BY <2>4, <2>5, <2>6 DEF JoinsFrom
  <2>8. QED
    BY <2>7 DEF JoinableFrom
<1>3. T = 0 .. m
  <2>1. T \subseteq 0 .. m
    OBVIOUS
  <2> HIDE DEF T
  <2>2. QED
    BY <1>1, <1>2, <2>1, Downwards
<1>4. PICK f : JoinsFrom(f, b, 0, m, S)
  <2>1. 0 \in T
    BY <1>3, SMTT(30)
  <2>2. QED
    BY <2>1 DEF JoinableFrom
<1>5. Joins(f, b)
  <2>1. DOMAIN b = 0 .. m /\ \A k \in 0 .. m : k + 1 \in 0 .. m <=> k # m
    OBVIOUS
  <2>2. ASSUME NEW k \in 0 .. m
        PROVE  f[k] = IF k + 1 \in DOMAIN b THEN f[k + 1] \o b[k] ELSE b[k]
    <3>1. k = m \/ k \in 0 .. m - 1
      OBVIOUS
    <3>2. QED
      BY <1>4, <2>1, <3>1 DEF JoinsFrom
  <2>3. QED
    BY <1>4, <2>1, <2>2 DEF Joins, JoinsFrom
<1>6. PICK g : Joins(g, b) /\ Joined(b) = g[0]
  BY <1>5 DEF Joins, Joined
<1>7. /\ \A k \in 0 .. m - 1 : g[k] = g[k + 1] \o b[k]
      /\ g[m] = b[m]
  <2>1. DOMAIN b = 0 .. m /\ m + 1 \notin 0 .. m /\ \A k \in 0 .. m - 1 : k + 1 \in 0 .. m
    OBVIOUS
  <2>2. g = [k \in 0 .. m |-> IF k + 1 \in 0 .. m THEN g[k + 1] \o b[k] ELSE b[k]]
    BY <1>6, <2>1 DEF Joins
  <2>3. \A k \in 0 .. m : g[k] = IF k + 1 \in 0 .. m THEN g[k + 1] \o b[k] ELSE b[k]
    BY <2>2
  <2>4. m \in 0 .. m /\ \A k \in 0 .. m - 1 : k \in 0 .. m
    OBVIOUS
  <2>5. ASSUME NEW k \in 0 .. m - 1 PROVE g[k] = g[k + 1] \o b[k]
    BY <2>1, <2>3, <2>4
  <2>6. g[m] = b[m]
    BY <2>1, <2>3, <2>4
  <2>7. QED
    BY <2>5, <2>6
<1>8. g[0] = f[0]
  <2> DEFINE U == {k \in 0 .. m : g[k] = f[k]}
  <2>1. m \in U /\ \A k \in 0 .. m - 1 : k + 1 \in U => k \in U
    <3>1. f[m] = g[m] /\ m \in 0 .. m
      BY <1>4, <1>7 DEF JoinsFrom
    <3>2. \A k \in 0 .. m - 1 : f[k + 1] = g[k + 1] => f[k] = g[k]
      BY <1>4, <1>7 DEF JoinsFrom
    <3>3. QED
      BY <3>1, <3>2
  <2>2. U = 0 .. m
    <3>1. U \subseteq 0 .. m
      OBVIOUS
    <3> HIDE DEF U
    <3>2. QED
      BY <2>1, <3>1, Downwards
  <2>3. QED
    BY <2>2
<1>9. QED
  <2>1. JoinsFrom(f, b, 0, m, S) /\ Joined(b) = f[0]
    BY <1>4, <1>6, <1>8
  <2>2. QED
    BY <2>1

\* The same files from n up hold the same; and if what is held from n up is the
\* same, and the files below are, so is all that is held.
Agree(b, c, n, m) == \A k \in n .. m : b[k] = c[k]

LEMMA SameAbove ==
  ASSUME NEW m \in Nat, NEW S, NEW b, NEW c, NEW f, NEW g,
         JoinsFrom(f, b, 0, m, S), JoinsFrom(g, c, 0, m, S),
         NEW n \in 0 .. m, Agree(b, c, n, m)
  PROVE  f[n] = g[n]
<1> DEFINE T == {k \in 0 .. m : k >= n => f[k] = g[k]}
<1>1. m \in T
  BY DEF JoinsFrom, Agree
<1>2. ASSUME NEW k \in 0 .. m - 1, k + 1 \in T PROVE k \in T
  <2>1. k \in 0 .. m /\ (k + 1 >= n \/ k < n)
    OBVIOUS
  <2>2. ASSUME k >= n PROVE f[k] = g[k]
    <3>1. f[k + 1] = g[k + 1] /\ b[k] = c[k]
      BY <1>2, <2>2 DEF Agree
    <3>2. f[k] = f[k + 1] \o b[k] /\ g[k] = g[k + 1] \o c[k]
      BY DEF JoinsFrom
    <3>3. QED
      BY <3>1, <3>2
  <2>3. QED
    BY <2>2
<1>3. T = 0 .. m
  <2>1. T \subseteq 0 .. m
    OBVIOUS
  <2> HIDE DEF T
  <2>2. QED
    BY <1>1, <1>2, <2>1, Downwards
<1>4. QED
  BY <1>3

LEMMA SameBelow ==
  ASSUME NEW m \in Nat, NEW S, NEW b, NEW c, NEW f, NEW g,
         JoinsFrom(f, b, 0, m, S), JoinsFrom(g, c, 0, m, S),
         NEW n \in 0 .. m, Agree(b, c, 0, n - 1), f[n] = g[n]
  PROVE  f[0] = g[0]
<1> DEFINE T == {k \in 0 .. n : f[k] = g[k]}
<1>1. n \in T
  OBVIOUS
<1>2. ASSUME NEW k \in 0 .. n - 1, k + 1 \in T PROVE k \in T
  <2>1. f[k + 1] = g[k + 1] /\ b[k] = c[k] /\ k \in 0 .. m - 1 /\ k \in 0 .. n
    BY <1>2 DEF Agree
  <2>2. f[k] = f[k + 1] \o b[k] /\ g[k] = g[k + 1] \o c[k]
    BY <2>1 DEF JoinsFrom
  <2>3. QED
    BY <2>1, <2>2
<1>3. T = 0 .. n
  <2>1. T \subseteq 0 .. n /\ n \in Nat
    OBVIOUS
  <2> HIDE DEF T
  <2>2. QED
    BY <1>1, <1>2, <2>1, Downwards
<1>4. QED
  BY <1>3

\* What is appended to the second part is at the end of the whole.
LEMMA PutAppends ==
  ASSUME NEW S, NEW w \in Seq(S), NEW p \in Seq(S), NEW e \in S
  PROVE  w \o Append(p, e) = Append(w \o p, e)
<1>1. PICK c, d : c = <<e>> /\ d = w \o p
  OBVIOUS
<1>2. c \in Seq(S) /\ d \in Seq(S)
  BY <1>1, ConcatProperties
<1>3. Append(d, e) = d \o c /\ Append(p, e) = p \o c
  BY <1>1, <1>2, AppendIsConcat
<1>4. (w \o p) \o c = w \o (p \o c)
  BY <1>2, ConcatAssociative, SMTT(30)
<1>5. QED
  BY <1>1, <1>3, <1>4

\* A record at the end of the newest file is the last of all.
LEMMA JoinedGrows ==
  ASSUME NEW m \in Nat, NEW S, NEW b \in [0 .. m -> Seq(S)], NEW c \in [0 .. m -> Seq(S)],
         NEW r \in S, c[0] = Append(b[0], r), \A k \in 1 .. m : c[k] = b[k]
  PROVE  Joined(c) = Append(Joined(b), r)
<1>1. PICK f : JoinsFrom(f, b, 0, m, S) /\ Joined(b) = f[0]
  BY JoinedIs
<1>2. PICK g : JoinsFrom(g, c, 0, m, S) /\ Joined(c) = g[0]
  BY JoinedIs
<1>3. CASE m = 0
  BY <1>1, <1>2, <1>3 DEF JoinsFrom
<1>4. CASE m # 0
  <2>1. f[1] = g[1]
    <3>1. 1 \in 0 .. m /\ Agree(b, c, 1, m)
      BY <1>4 DEF Agree
    <3>2. QED
      BY <1>1, <1>2, <3>1, SameAbove
  <2>2. 0 \in 0 .. m - 1 /\ 0 + 1 = 1 /\ 1 \in 0 .. m /\ 0 \in 0 .. m
    BY <1>4
  <2>3. f[0] = f[1] \o b[0] /\ g[0] = g[1] \o c[0] /\ f[1] \in Seq(S) /\ b[0] \in Seq(S)
    BY <1>1, <1>2, <2>2 DEF JoinsFrom
  <2>4. f[1] \o Append(b[0], r) = Append(f[1] \o b[0], r)
    <3> DEFINE s == f[1]
               t == b[0]
    <3>1. s \in Seq(S) /\ t \in Seq(S)
      BY <2>3
    <3> HIDE DEF s, t
    <3>2. s \o Append(t, r) = Append(s \o t, r)
      BY <3>1, PutAppends, SMTT(30)
    <3>3. QED
      BY <3>2 DEF s, t
  <2>5. QED
    BY <1>1, <1>2, <2>1, <2>3, <2>4
<1>5. QED
  BY <1>3, <1>4

\* A file that takes the next number, which is free, holds what it held.
Shifted(b, c, n, m) ==
  /\ b[n + 1] = <<>> /\ c[n + 1] = b[n] /\ c[n] = <<>>
  /\ \A k \in 0 .. m : k # n /\ k # n + 1 => c[k] = b[k]

LEMMA JoinedShifts ==
  ASSUME NEW m \in Nat, NEW S, NEW b \in [0 .. m -> Seq(S)], NEW c \in [0 .. m -> Seq(S)],
         NEW n \in 0 .. m - 1, Shifted(b, c, n, m)
  PROVE  Joined(c) = Joined(b)
<1>1. /\ b[n + 1] = <<>> /\ c[n + 1] = b[n] /\ c[n] = <<>>
      /\ \A k \in 0 .. m : k # n /\ k # n + 1 => c[k] = b[k]
  BY DEF Shifted
<1>2. PICK f : JoinsFrom(f, b, 0, m, S) /\ Joined(b) = f[0]
  BY JoinedIs
<1>3. PICK g : JoinsFrom(g, c, 0, m, S) /\ Joined(c) = g[0]
  BY JoinedIs
<1>4. n \in 0 .. m /\ n + 1 \in 0 .. m /\ b[n] \in Seq(S)
  OBVIOUS
<1>5. f[n] = f[n + 1] \o b[n] /\ g[n] = g[n + 1] \o <<>>
      /\ f[n + 1] \in Seq(S) /\ g[n + 1] \in Seq(S)
  BY <1>2, <1>3, <1>4 DEF JoinsFrom, Shifted
<1>6. g[n] = g[n + 1]
  BY <1>5, ConcatEmptySeq
<1>7. g[n + 1] = f[n + 1] \o b[n]
  <2>1. CASE n + 1 = m
    <3>1. f[n + 1] = <<>> /\ g[n + 1] = b[n]
      BY <1>2, <1>3, <2>1 DEF JoinsFrom, Shifted
    <3>2. QED
      BY <1>4, <3>1, ConcatEmptySeq
  <2>2. CASE n + 1 # m
    <3>1. n + 1 \in 0 .. m - 1 /\ (n + 1) + 1 = n + 2 /\ n + 2 \in 0 .. m
      BY <2>2
    <3>2. f[n + 1] = f[n + 2] \o <<>> /\ g[n + 1] = g[n + 2] \o b[n] /\ f[n + 2] \in Seq(S)
      BY <1>2, <1>3, <3>1 DEF JoinsFrom, Shifted
    <3>3. Agree(b, c, n + 2, m)
      BY <1>1, <3>1 DEF Agree
    <3>4. f[n + 2] = g[n + 2]
      BY <1>2, <1>3, <3>1, <3>3, SameAbove
    <3>5. f[n + 1] = f[n + 2]
      BY <3>2, ConcatEmptySeq
    <3>6. QED
      BY <3>2, <3>4, <3>5
  <2>3. QED
    BY <2>1, <2>2
<1>8. f[n] = g[n]
  BY <1>5, <1>6, <1>7
<1>9. Agree(b, c, 0, n - 1)
  <2>1. ASSUME NEW k \in 0 .. n - 1 PROVE b[k] = c[k]
    <3>1. k \in 0 .. m /\ k # n /\ k # n + 1
      OBVIOUS
    <3>2. QED
      BY <1>1, <3>1
  <2>2. QED
    BY <2>1 DEF Agree
<1>10. f[0] = g[0]
  BY <1>2, <1>3, <1>4, <1>8, <1>9, SameBelow
<1>11. QED
  BY <1>2, <1>3, <1>10

\* The equation has a name so that the provers instantiate it as a whole.
Associates(s, t, u) == (s \o t) \o u = s \o (t \o u)

LEMMA Associate ==
  ASSUME NEW S, NEW s \in Seq(S), NEW t \in Seq(S), NEW u \in Seq(S)
  PROVE  Associates(s, t, u)
<1>1. (s \o t) \o u = s \o (t \o u)
  BY ConcatAssociative
<1>2. QED
  BY <1>1 DEF Associates

\* Without the oldest file, what is held begins behind the records of that file.
LEMMA JoinedDrops ==
  ASSUME NEW m \in Nat, NEW S, NEW b \in [0 .. m -> Seq(S)], NEW c \in [0 .. m -> Seq(S)],
         c[m] = <<>>, \A k \in 0 .. m - 1 : c[k] = b[k]
  PROVE  /\ Joined(b) = b[m] \o Joined(c)
         /\ Joined(c) \in Seq(S)
<1>1. PICK f : JoinsFrom(f, b, 0, m, S) /\ Joined(b) = f[0]
  BY JoinedIs
<1>2. PICK g : JoinsFrom(g, c, 0, m, S) /\ Joined(c) = g[0]
  BY JoinedIs
<1> DEFINE T == {k \in 0 .. m : f[k] = b[m] \o g[k]}
<1>3. m \in T
  <2>1. f[m] = b[m] /\ g[m] = <<>> /\ b[m] \in Seq(S)
    BY <1>1, <1>2 DEF JoinsFrom
  <2>2. b[m] \o <<>> = b[m]
    BY <2>1, ConcatEmptySeq
  <2>3. f[m] = b[m] \o g[m] /\ m \in 0 .. m
    BY <2>1, <2>2
  <2>4. QED
    BY <2>3, Zenon
<1>4. ASSUME NEW k \in 0 .. m - 1, k + 1 \in T PROVE k \in T
  <2>1. /\ f[k] = f[k + 1] \o b[k] /\ g[k] = g[k + 1] \o b[k]
        /\ g[k + 1] \in Seq(S) /\ b[k] \in Seq(S) /\ b[m] \in Seq(S)
    <3>1. k \in 0 .. m /\ k + 1 \in 0 .. m /\ m \in 0 .. m
      OBVIOUS
    <3>2. c[k] = b[k]
      OBVIOUS
    <3>3. f[k] = f[k + 1] \o b[k] /\ g[k] = g[k + 1] \o c[k] /\ g \in [0 .. m -> Seq(S)]
      BY <1>1, <1>2 DEF JoinsFrom
    <3>4. g[k + 1] \in Seq(S)
      BY <3>1, <3>3
    <3>5. QED
      BY <3>1, <3>2, <3>3, <3>4
  <2>2. f[k + 1] = b[m] \o g[k + 1]
    BY <1>4
  <2>3. Associates(b[m], g[k + 1], b[k])
    BY <2>1, Associate
  <2>4. f[k] = b[m] \o g[k]
    BY <2>1, <2>2, <2>3, Zenon DEF Associates
  <2>5. k \in 0 .. m
    OBVIOUS
  <2>6. QED
    BY <2>4, <2>5, Zenon
<1>5. T = 0 .. m
  <2>1. T \subseteq 0 .. m
    OBVIOUS
  <2> HIDE DEF T
  <2>2. QED
    BY <1>3, <1>4, <2>1, Downwards
<1>6. f[0] = b[m] \o g[0]
  <2>1. 0 \in T
    <3> HIDE DEF T
    <3>1. QED
      BY <1>5
  <2>2. QED
    BY <2>1
<1>7. g[0] \in Seq(S)
  BY <1>2 DEF JoinsFrom
<1>8. QED
  BY <1>1, <1>2, <1>6, <1>7

\* The end of a sequence, behind a part that is not empty.
LEMMA EndIs ==
  ASSUME NEW S, NEW s \in Seq(S), NEW t \in Seq(S), s # <<>>
  PROVE  /\ Len(s) \in 1 .. Len(s \o t)
         /\ t = SubSeq(s \o t, Len(s) + 1, Len(s \o t))
<1>1. Len(s) \in Nat \ {0} /\ Len(t) \in Nat
  BY EmptySeq
<1>2. /\ s \o t \in Seq(S) /\ Len(s \o t) = Len(s) + Len(t)
      /\ \A i \in 1 .. Len(s) + Len(t) : (s \o t)[i] = IF i <= Len(s) THEN s[i] ELSE t[i - Len(s)]
  BY ConcatProperties
<1> DEFINE w == s \o t
           e == SubSeq(w, Len(s) + 1, Len(w))
<1>3. w \in Seq(S) /\ Len(w) = Len(s) + Len(t)
  BY <1>2
<1>4. \A i \in Len(s) + 1 .. Len(w) : w[i] \in S
  <2> HIDE DEF w
  <2>1. ASSUME NEW i \in Len(s) + 1 .. Len(w) PROVE i \in 1 .. Len(w)
    BY <1>1, <1>3
  <2>2. QED
    BY <1>3, <2>1, ElementOfSeq
<1>5. /\ e \in Seq(S) /\ Len(e) = Len(t)
      /\ \A i \in 1 .. Len(t) : e[i] = w[Len(s) + i]
  <2> HIDE DEF w
  <2>1. Len(s) + 1 \in Int /\ Len(w) \in Int
    BY <1>1, <1>3
  <2>2. /\ e \in Seq(S)
        /\ Len(e) = IF Len(s) + 1 <= Len(w) THEN Len(w) - (Len(s) + 1) + 1 ELSE 0
        /\ \A i \in 1 .. Len(w) - (Len(s) + 1) + 1 : e[i] = w[(Len(s) + 1) + i - 1]
    BY <1>4, <2>1, SubSeqProperties
  <2>3. Len(e) = Len(t) /\ Len(w) - (Len(s) + 1) + 1 = Len(t)
    BY <1>1, <1>3, <2>2
  <2>4. ASSUME NEW i \in 1 .. Len(t) PROVE (Len(s) + 1) + i - 1 = Len(s) + i
    BY <1>1
  <2>5. QED
    BY <2>2, <2>3, <2>4
<1>6. ASSUME NEW i \in 1 .. Len(t) PROVE e[i] = t[i]
  <2>1. Len(s) + i \in 1 .. Len(s) + Len(t) /\ ~ (Len(s) + i <= Len(s)) /\ (Len(s) + i) - Len(s) = i
    BY <1>1
  <2>2. w[Len(s) + i] = t[i]
    BY <1>2, <2>1
  <2>3. QED
    BY <1>5, <2>2
<1>7. e = t
  <2> HIDE DEF e
  <2>1. QED
    BY <1>5, <1>6, SeqEqual
<1>8. QED
  BY <1>1, <1>3, <1>7

\* What is left of a sequence whose middle part is taken out.
Without(l, i, j) == SubSeq(l, 1, i) \o SubSeq(l, j + 1, Len(l))
Thinned(l, k) ==
  \E i \in 0 .. Len(l), j \in 1 .. Len(l) : i < j /\ k = Without(l, i, j)

LEMMA MiddleIs ==
  ASSUME NEW S, NEW x \in Seq(S), NEW z \in Seq(S), NEW y \in Seq(S), z # <<>>
  PROVE  Thinned((x \o z) \o y, x \o y)
<1> DEFINE w == x \o z
           l == w \o y
<1>1. /\ w \in Seq(S) /\ Len(w) = Len(x) + Len(z)
      /\ Len(x) \in Nat /\ Len(z) \in Nat \ {0} /\ Len(y) \in Nat
  BY ConcatProperties, EmptySeq
<1>2. w # <<>>
  BY <1>1, EmptySeq
<1>3. Len(w) \in 1 .. Len(l) /\ y = SubSeq(l, Len(w) + 1, Len(l))
  <2> HIDE DEF w
  <2>1. QED
    BY <1>1, <1>2, EndIs
<1>4. x = SubSeq(l, 1, Len(x))
  <2>1. CASE x = <<>>
    <3>1. Len(x) = 0
      BY <2>1, EmptySeq
    <3>2. SubSeq(l, 1, 0) = <<>>
      BY SubSeqEmpty
    <3>3. QED
      BY <2>1, <3>1, <3>2
  <2>2. CASE x # <<>>
    <3>1. Len(x) \in 1 .. Len(x) /\ 1 \in 1 .. Len(x) /\ Len(x) \in 1 .. Len(w)
          /\ 1 \in 1 .. Len(w)
      BY <1>1, <2>2, EmptySeq
    <3>2. SubSeq(x, 1, Len(x)) = x
      BY SubSeqFull
    <3>3. SubSeq(w, 1, Len(x)) = SubSeq(x, 1, Len(x))
      BY <3>1, SubSeqOfConcat1
    <3>4. SubSeq(l, 1, Len(x)) = SubSeq(w, 1, Len(x))
      <4> HIDE DEF w
      <4>1. QED
        BY <1>1, <3>1, SubSeqOfConcat1
    <3>5. QED
      BY <3>2, <3>3, <3>4
  <2>3. QED
    BY <2>1, <2>2
<1>5. Len(x) \in 0 .. Len(l) /\ Len(x) < Len(w)
  BY <1>1, <1>3
<1>6. x \o y = Without(l, Len(x), Len(w))
  BY <1>3, <1>4, Zenon DEF Without
<1> HIDE DEF l
<1>7. Thinned(l, x \o y)
  BY <1>3, <1>5, <1>6 DEF Thinned
<1>8. QED
  BY <1>7 DEF l

\* Without the records of the n-th file, what is held lacks its part of it.
Lacks(u, v, x, z, y) == u = (x \o z) \o y /\ v = x \o y

LEMMA LacksMore ==
  ASSUME NEW S, NEW x \in Seq(S), NEW z \in Seq(S), NEW y \in Seq(S), NEW d \in Seq(S),
         NEW u, NEW v, Lacks(u, v, x, z, y)
  PROVE  Lacks(u \o d, v \o d, x, z, y \o d)
<1>1. x \o z \in Seq(S)
  BY ConcatProperties
<1>2. Associates(x \o z, y, d)
  <2> DEFINE w == x \o z
  <2>1. w \in Seq(S)
    BY <1>1
  <2> HIDE DEF w
  <2>2. Associates(w, y, d)
    BY <2>1, Associate
  <2>3. QED
    BY <2>2 DEF w
<1>3. Associates(x, y, d)
  BY Associate
<1>4. QED
  BY <1>2, <1>3, Zenon DEF Lacks, Associates

LEMMA JoinedLacks ==
  ASSUME NEW m \in Nat, NEW S, NEW b \in [0 .. m -> Seq(S)], NEW c \in [0 .. m -> Seq(S)],
         NEW n \in 0 .. m, c[n] = <<>>, \A k \in 0 .. m : k # n => c[k] = b[k]
  PROVE  \E x \in Seq(S), y \in Seq(S) : Lacks(Joined(b), Joined(c), x, b[n], y)
<1>1. PICK f : JoinsFrom(f, b, 0, m, S) /\ Joined(b) = f[0]
  BY JoinedIs
<1>2. PICK g : JoinsFrom(g, c, 0, m, S) /\ Joined(c) = g[0]
  BY JoinedIs
<1>3. b[n] \in Seq(S)
  OBVIOUS
<1>4. PICK x \in Seq(S) : f[n] = x \o b[n] /\ g[n] = x
  <2>1. CASE n = m
    <3>1. f[n] = b[n] /\ g[n] = <<>>
      BY <1>1, <1>2, <2>1 DEF JoinsFrom
    <3>2. <<>> \o b[n] = b[n] /\ <<>> \in Seq(S)
      BY <1>3, ConcatEmptySeq
    <3>3. QED
      BY <3>1, <3>2
  <2>2. CASE n # m
    <3>1. n \in 0 .. m - 1 /\ n + 1 \in 0 .. m
      BY <2>2
    <3>2. Agree(b, c, n + 1, m)
      BY DEF Agree
    <3>3. f[n + 1] = g[n + 1]
      BY <1>1, <1>2, <3>1, <3>2, SameAbove
    <3>4. /\ f[n] = f[n + 1] \o b[n] /\ g[n] = g[n + 1] \o <<>>
          /\ f[n + 1] \in Seq(S)
      BY <1>1, <1>2, <3>1 DEF JoinsFrom
    <3>5. f[n + 1] \o <<>> = f[n + 1]
      BY <3>4, ConcatEmptySeq
    <3>6. QED
      BY <3>3, <3>4, <3>5
  <2>3. QED
    BY <2>1, <2>2
<1> DEFINE T == {k \in 0 .. n : \E y \in Seq(S) : Lacks(f[k], g[k], x, b[n], y)}
<1>5. n \in T
  <2>1. x \o b[n] \in Seq(S)
    BY <1>3, <1>4, ConcatProperties
  <2>2. (x \o b[n]) \o <<>> = x \o b[n] /\ x \o <<>> = x /\ <<>> \in Seq(S)
    BY <1>4, <2>1, ConcatEmptySeq
  <2>3. Lacks(f[n], g[n], x, b[n], <<>>)
    BY <1>4, <2>2, Zenon DEF Lacks
  <2>4. QED
    BY <2>2, <2>3
<1>6. ASSUME NEW k \in 0 .. n - 1, k + 1 \in T PROVE k \in T
  <2>1. PICK y \in Seq(S) : Lacks(f[k + 1], g[k + 1], x, b[n], y)
    BY <1>6
  <2>2. k \in 0 .. m - 1 /\ k \in 0 .. m /\ k # n
    OBVIOUS
  <2>3. f[k] = f[k + 1] \o b[k] /\ g[k] = g[k + 1] \o b[k] /\ b[k] \in Seq(S)
    BY <1>1, <1>2, <2>2 DEF JoinsFrom
  <2>4. Lacks(f[k + 1] \o b[k], g[k + 1] \o b[k], x, b[n], y \o b[k])
    BY <1>3, <1>4, <2>1, <2>3, LacksMore
  <2>5. y \o b[k] \in Seq(S)
    BY <2>1, <2>3, ConcatProperties
  <2>6. Lacks(f[k], g[k], x, b[n], y \o b[k])
    BY <2>3, <2>4, Zenon
  <2>7. k \in 0 .. n
    OBVIOUS
  <2>8. QED
    BY <2>5, <2>6, <2>7
<1>7. T = 0 .. n
  <2>1. T \subseteq 0 .. n /\ n \in Nat
    OBVIOUS
  <2> HIDE DEF T
  <2>2. QED
    BY <1>5, <1>6, <2>1, Downwards
<1>8. 0 \in T
  <2> HIDE DEF T
  <2>1. QED
    BY <1>7
<1>9. QED
  BY <1>1, <1>2, <1>4, <1>8

LEMMA SumsKeepOrder ==
  \A i, j, k, l \in Nat : i >= k /\ j >= l => i + j >= k + l
OBVIOUS

\* If all files but one hold size records each, so many are held in all.
LEMMA JoinedHolds ==
  ASSUME NEW m \in Nat, NEW S, NEW b \in [0 .. m -> Seq(S)], NEW size \in Nat,
         NEW h \in 0 .. m, \A k \in 0 .. m : k # h => Len(b[k]) >= size
  PROVE  Joined(b) \in Seq(S) /\ Len(Joined(b)) >= m * size
<1>1. PICK f : JoinsFrom(f, b, 0, m, S) /\ Joined(b) = f[0]
  BY JoinedIs
<1> DEFINE Times(i) == i * size
           Count(k) == IF k > h THEN m - k + 1 ELSE m - k
           T == {k \in 0 .. m : Len(f[k]) >= Times(Count(k))}
<1>2. \A i \in Nat : Times(i) \in Nat /\ Times(i + 1) = Times(i) + size
  OBVIOUS
<1>3. m \in T
  <2>1. f[m] = b[m] /\ b[m] \in Seq(S)
    BY <1>1 DEF JoinsFrom
  <2>2. Len(b[m]) \in Nat /\ m \in 0 .. m
    BY <2>1
  <2>3. CASE m = h
    <3>1. Count(m) = 0 /\ Times(0) = 0
      BY <2>3
    <3> HIDE DEF Times, Count
    <3>2. QED
      BY <2>1, <2>2, <3>1
  <2>4. CASE m # h
    <3>1. Count(m) = 1 /\ Times(1) = size /\ Len(b[m]) >= size
      BY <2>4
    <3> HIDE DEF Times, Count
    <3>2. QED
      BY <2>1, <2>2, <3>1
  <2>5. QED
    BY <2>3, <2>4
<1>4. ASSUME NEW k \in 0 .. m - 1, k + 1 \in T PROVE k \in T
  <2>1. f[k] = f[k + 1] \o b[k] /\ f[k + 1] \in Seq(S) /\ b[k] \in Seq(S)
    <3>1. k \in 0 .. m /\ k + 1 \in 0 .. m
      OBVIOUS
    <3>2. f[k] = f[k + 1] \o b[k] /\ f \in [0 .. m -> Seq(S)]
      BY <1>1 DEF JoinsFrom
    <3>3. f[k + 1] \in Seq(S)
      BY <3>1, <3>2
    <3>4. QED
      BY <3>1, <3>2, <3>3
  <2>2. Len(f[k]) = Len(f[k + 1]) + Len(b[k])
    <3> DEFINE s == f[k + 1]
               t == b[k]
    <3>1. s \in Seq(S) /\ t \in Seq(S)
      BY <2>1
    <3> HIDE DEF s, t
    <3>2. Len(s \o t) = Len(s) + Len(t)
      BY <3>1, ConcatProperties
    <3>3. QED
      BY <2>1, <3>2 DEF s, t
  <2>3. Len(f[k + 1]) \in Nat /\ Len(b[k]) \in Nat /\ k \in 0 .. m
    BY <2>1
  <2>4. /\ Count(k + 1) \in Nat
        /\ Count(k) = IF k = h THEN Count(k + 1) ELSE Count(k + 1) + 1
    OBVIOUS
  <2>5. k # h => Len(b[k]) >= size
    BY <2>3
  <2> HIDE DEF Times, Count
  <2>6. Len(f[k + 1]) >= Times(Count(k + 1))
    BY <1>4
  <2>7. Times(Count(k + 1)) \in Nat
    BY <1>2, <2>4
  <2>8. CASE k = h
    <3>1. Len(f[k + 1]) + Len(b[k]) >= Times(Count(k + 1)) + 0
      BY <2>3, <2>6, <2>7, SumsKeepOrder
    <3>2. QED
      BY <2>2, <2>3, <2>4, <2>7, <2>8, <3>1
  <2>9. CASE k # h
    <3>1. Len(f[k + 1]) + Len(b[k]) >= Times(Count(k + 1)) + size
      BY <2>3, <2>5, <2>6, <2>7, <2>9, SumsKeepOrder
    <3>2. Times(Count(k)) = Times(Count(k + 1)) + size
      BY <1>2, <2>4, <2>9
    <3>3. QED
      BY <2>2, <2>3, <3>1, <3>2
  <2>10. QED
    BY <2>8, <2>9
<1>5. T = 0 .. m
  <2>1. T \subseteq 0 .. m
    OBVIOUS
  <2> HIDE DEF T
  <2>2. QED
    BY <1>3, <1>4, <2>1, Downwards
<1>6. Len(f[0]) >= Times(m)
  <2>1. 0 \in T
    <3> HIDE DEF T
    <3>1. QED
      BY <1>5
  <2>2. Count(0) = m
    OBVIOUS
  <2> HIDE DEF Times, Count
  <2>3. QED
    BY <2>1, <2>2
<1>7. f[0] \in Seq(S)
  BY <1>1 DEF JoinsFrom
<1>8. QED
  BY <1>1, <1>6, <1>7

-----------------------------------------------------------------------------
(* One process: what is kept.                                              *)

\* The records of a file.
Body(f) == IF f # <<>> /\ f[1] = Header THEN Tail(f) ELSE f

LEMMA BodyGrows ==
  ASSUME NEW f \in Seq(Cell), NEW r \in Record
  PROVE  Body(Append(f, r)) = Append(Body(f), r)
<1>1. r \in Cell /\ r # Header
  BY CellIs DEF Cell
<1> DEFINE g == Append(f, r)
<1>2. /\ g \in Seq(Cell) /\ Len(g) = Len(f) + 1 /\ Len(f) \in Nat
      /\ g[Len(g)] = r /\ \A i \in 1 .. Len(f) : g[i] = f[i]
  BY <1>1, AppendProperties
<1> HIDE DEF g
<1>3. g # <<>>
  BY <1>2, EmptySeq
<1>4. CASE f = <<>>
  <2>1. Len(f) = 0
    BY <1>4
  <2>2. g[1] # Header
    BY <1>1, <1>2, <2>1
  <2>3. Body(g) = g /\ Body(f) = f
    BY <1>4, <2>2 DEF Body
  <2>4. QED
    BY <2>3 DEF g
<1>5. CASE f # <<>>
  <2>1. 1 \in 1 .. Len(f)
    BY <1>2, <1>5, EmptySeq
  <2>2. g[1] = f[1]
    BY <1>2, <2>1
  <2>3. CASE f[1] # Header
    BY <1>3, <1>5, <2>2, <2>3 DEF Body, g
  <2>4. CASE f[1] = Header
    <3> DEFINE t == Tail(f)
               u == Append(t, r)
               v == Tail(g)
    <3>1. t \in Seq(Cell) /\ Len(t) = Len(f) - 1 /\ \A i \in 1 .. Len(t) : t[i] = f[i + 1]
      BY <1>5, HeadTailProperties
    <3>2. v \in Seq(Cell) /\ Len(v) = Len(g) - 1 /\ \A i \in 1 .. Len(v) : v[i] = g[i + 1]
      BY <1>2, <1>3, HeadTailProperties
    <3> HIDE DEF t
    <3>3. u \in Seq(Cell) /\ Len(u) = Len(t) + 1 /\ u[Len(u)] = r
          /\ \A i \in 1 .. Len(t) : u[i] = t[i]
      BY <1>1, <3>1, AppendProperties
    <3> HIDE DEF u, v
    <3>4. Len(u) = Len(v)
      BY <1>2, <3>1, <3>2, <3>3
    <3>5. ASSUME NEW i \in 1 .. Len(u) PROVE u[i] = v[i]
      <4>1. CASE i = Len(u)
        <5>1. i + 1 = Len(g) /\ i \in 1 .. Len(v)
          BY <1>2, <3>1, <3>2, <3>3, <3>4, <4>1
        <5>2. QED
          BY <1>2, <3>2, <3>3, <4>1, <5>1
      <4>2. CASE i # Len(u)
        <5>1. i \in 1 .. Len(t) /\ i \in 1 .. Len(v) /\ i + 1 \in 1 .. Len(f)
          BY <1>2, <3>1, <3>2, <3>3, <3>4, <4>2
        <5>2. QED
          BY <1>2, <3>1, <3>2, <3>3, <5>1
      <4>3. QED
        BY <4>1, <4>2
    <3>6. u = v
      BY <3>2, <3>3, <3>4, <3>5, SeqEqual
    <3>7. Body(g) = v /\ Body(f) = t
      BY <1>3, <1>5, <2>2, <2>4 DEF Body, v, t
    <3>8. QED
      BY <3>6, <3>7 DEF u, g
  <2>5. QED
    BY <2>3, <2>4
<1>6. QED
  BY <1>4, <1>5

LEMMA BodyStarts == Body(<<>>) = <<>> /\ Body(Append(<<>>, Header)) = <<>>
<1>1. Append(<<>>, Header) = <<Header>>
  OBVIOUS
<1>2. <<Header>> # <<>> /\ <<Header>>[1] = Header /\ Tail(<<Header>>) = <<>>
  OBVIOUS
<1>3. QED
  BY <1>1, <1>2 DEF Body

\* The records of every file; what is kept of the log is these joined.
Last == IF m_maxFiles = 0 THEN 0 ELSE m_maxFiles - 1
Parts == [k \in Number |-> Records(k)]

LEMMA BodyIs == ASSUME NEW f \in Seq(Cell) PROVE Body(f) \in Seq(Cell)
<1>1. CASE f # <<>> /\ f[1] = Header
  BY <1>1, HeadTailProperties DEF Body
<1>2. CASE ~ (f # <<>> /\ f[1] = Header)
  BY <1>2 DEF Body
<1>3. QED
  BY <1>1, <1>2

LEMMA PartsAre ==
  TypeInv =>
    /\ Last \in Nat /\ Number = 0 .. Last
    /\ Parts \in [0 .. Last -> Seq(Cell)]
    /\ Kept = Joined(Parts)
    /\ \A k \in Number : Parts[k] = IF dir[k] = 0 THEN <<>> ELSE Body(disk[dir[k]])
<1> SUFFICES ASSUME TypeInv
             PROVE  /\ Last \in Nat /\ Number = 0 .. Last
                    /\ Parts \in [0 .. Last -> Seq(Cell)]
                    /\ Kept = Joined(Parts)
                    /\ \A k \in Number : Parts[k] = IF dir[k] = 0 THEN <<>> ELSE Body(disk[dir[k]])
  OBVIOUS
<1>1. Last \in Nat /\ Number = 0 .. Last
  BY DEF Last, Number, TypeInv, Control, Renaming
<1>2. Kept = Joined(Parts)
  BY DEF Kept, Parts
<1>3. ASSUME NEW k \in Number
      PROVE  /\ Records(k) = IF dir[k] = 0 THEN <<>> ELSE Body(disk[dir[k]])
             /\ Records(k) \in Seq(Cell)
  <2>1. Records(k) = IF dir[k] = 0 THEN <<>> ELSE Body(disk[dir[k]])
    BY DEF Records, Body
  <2>2. CASE dir[k] = 0
    BY <2>1, <2>2
  <2>3. CASE dir[k] # 0
    <3>1. dir[k] \in 1 .. Len(disk) /\ disk \in Seq(Seq(Cell))
      BY <2>3 DEF TypeInv, Disk
    <3>2. disk[dir[k]] \in Seq(Cell)
      BY <3>1, ElementOfSeq
    <3>3. QED
      BY <2>1, <2>3, <3>2, BodyIs
  <2>4. QED
    BY <2>1, <2>2, <2>3
<1>4. \A k \in Number : Parts[k] = Records(k)
  BY DEF Parts
<1>5. Parts \in [0 .. Last -> Seq(Cell)]
  BY <1>1, <1>3 DEF Parts
<1>6. QED
  BY <1>1, <1>2, <1>3, <1>4, <1>5

\* The same of the next state, for a step that leaves their number alone.
LEMMA PartsWillBe ==
  TypeInv' /\ m_maxFiles' = m_maxFiles =>
    /\ Parts' \in [0 .. Last -> Seq(Cell)]
    /\ Kept' = Joined(Parts')
    /\ \A k \in Number : Parts'[k] = IF dir'[k] = 0 THEN <<>> ELSE Body(disk'[dir'[k]])
<1> SUFFICES ASSUME TypeInv', m_maxFiles' = m_maxFiles
             PROVE  /\ Parts' \in [0 .. Last -> Seq(Cell)]
                    /\ Kept' = Joined(Parts')
                    /\ \A k \in Number : Parts'[k] = IF dir'[k] = 0 THEN <<>> ELSE Body(disk'[dir'[k]])
  OBVIOUS
<1>1. Number = 0 .. Last /\ Number' = Number
  BY DEF Last, Number
<1>2. Kept' = Joined(Parts')
  BY DEF Kept, Parts
<1>3. ASSUME NEW k \in Number
      PROVE  /\ Records(k)' = IF dir'[k] = 0 THEN <<>> ELSE Body(disk'[dir'[k]])
             /\ Records(k)' \in Seq(Cell)
  <2>1. Records(k)' = IF dir'[k] = 0 THEN <<>> ELSE Body(disk'[dir'[k]])
    BY DEF Records, Body
  <2>2. CASE dir'[k] = 0
    BY <2>1, <2>2
  <2>3. CASE dir'[k] # 0
    <3>1. dir'[k] \in 1 .. Len(disk') /\ disk' \in Seq(Seq(Cell))
      BY <1>1, <2>3 DEF TypeInv, Disk
    <3>2. disk'[dir'[k]] \in Seq(Cell)
      BY <3>1, ElementOfSeq
    <3>3. QED
      BY <2>1, <2>3, <3>2, BodyIs
  <2>4. QED
    BY <2>1, <2>2, <2>3
<1>4. Parts' = [k \in Number |-> Records(k)']
  BY <1>1 DEF Parts
<1>5. Parts' \in [0 .. Last -> Seq(Cell)] /\ \A k \in Number : Parts'[k] = Records(k)'
  BY <1>1, <1>3, <1>4
<1>6. QED
  BY <1>2, <1>3, <1>5

\* A file has one number; a program that has a file open has number 0, and
\* stands at its end; and a file that takes another number finds it free, unless
\* one could not be moved.
PlaceInv ==
  /\ ~maimed => unmoved = 0
  /\ \A i, j \in Number : i # j /\ dir[i] = dir[j] => dir[i] = 0
  /\ \A p \in Process :
       /\ m_file[p] # -1 => m_file[p] = dir[0] /\ offset[p] = Len(disk[dir[0]])
       /\ \A t \in Thread :
            /\ pc[p][t] \in {"unlink", "rename"} => m_file[p] = -1
            /\ pc[p][t] = "rename" /\ unmoved = 0 => dir[fileNumber[p] + 1] = 0
            /\ pc[p][t] = "header" => offset[p] = 0

-----------------------------------------------------------------------------
(* What a step does to the files.                                          *)

LEMMA PutMoves ==
  ASSUME NEW p \in Process, NEW c \in Cell, TypeInv, TypeInv', PlaceInv,
         m_file[p] # -1, Put(p, c), UNCHANGED <<m_file, dir, m_maxFiles>>
  PROVE  /\ dir[0] # 0 /\ disk[dir[0]] \in Seq(Cell)
         /\ Parts[0] = Body(disk[dir[0]]) /\ Parts'[0] = Body(Append(disk[dir[0]], c))
         /\ \A k \in 1 .. Last : Parts'[k] = Parts[k]
         /\ offset'[p] = Len(disk'[dir[0]])
<1>1. /\ m_file[p] \in 1 .. Len(disk) /\ disk \in Seq(Seq(Cell))
      /\ disk'[m_file[p]] = Stamped(disk[m_file[p]], offset[p], c)
      /\ \A j \in 1 .. Len(disk) : j # m_file[p] => disk'[j] = disk[j]
      /\ offset' = [offset EXCEPT ![p] = offset[p] + 1]
  BY PutDoes DEF TypeInv, Disk
<1>2. m_file[p] = dir[0] /\ offset[p] = Len(disk[dir[0]])
  BY DEF PlaceInv
<1>3. disk[dir[0]] \in Seq(Cell)
  BY <1>1, <1>2, ElementOfSeq
<1>4. disk'[dir[0]] = Append(disk[dir[0]], c) /\ dir[0] # 0
  <2>1. disk'[dir[0]] = Stamped(disk[dir[0]], Len(disk[dir[0]]), c)
    BY <1>1, <1>2, Zenon
  <2>2. dir[0] \in 1 .. Len(disk)
    BY <1>1, <1>2
  <2>3. QED
    BY <2>1, <2>2 DEF Stamped
<1>5. Len(disk'[dir[0]]) = Len(disk[dir[0]]) + 1
  BY <1>3, <1>4, AppendProperties
<1>6. offset'[p] = offset[p] + 1
  BY <1>1 DEF TypeInv, Position
<1>7. 0 \in Number /\ Number = 0 .. Last /\ Last \in Nat
  BY PartsAre, NumberZero DEF TypeInv, Control, Renaming
<1>8. Parts[0] = Body(disk[dir[0]]) /\ Parts'[0] = Body(disk'[dir[0]])
  BY <1>4, <1>7, PartsAre, PartsWillBe
<1>9. ASSUME NEW k \in 1 .. Last PROVE Parts'[k] = Parts[k]
  <2>1. k \in Number /\ k # 0
    BY <1>7
  <2>2. dir[k] # 0 => dir[k] # dir[0] /\ dir[k] \in 1 .. Len(disk)
    BY <1>4, <1>7, <2>1 DEF PlaceInv, TypeInv, Disk
  <2>3. dir[k] # 0 => disk'[dir[k]] = disk[dir[k]]
    BY <1>1, <1>2, <2>2
  <2>4. QED
    BY <2>1, <2>3, PartsAre, PartsWillBe
<1>10. QED
  BY <1>2, <1>3, <1>4, <1>5, <1>6, <1>8, <1>9

LEMMA OpenMoves ==
  ASSUME NEW p \in Process, NEW t \in Thread, TypeInv, TypeInv', PlaceInv, Open(p, t)
  PROVE  /\ m_maxFiles' = m_maxFiles /\ Parts' = Parts
         /\ dir'[0] # 0 /\ \A k \in 1 .. Last : dir'[k] = dir[k]
         /\ \A i, j \in Number : i # j /\ dir'[i] = dir'[j] => dir'[i] = 0
         /\ m_file'[p] = dir'[0] /\ offset'[p] = Len(disk'[dir'[0]])
         /\ m_fileSize'[p] = offset'[p]
<1>1. /\ Len(disk) \in Nat
      /\ \A j \in 1 .. Len(disk) : disk'[j] = disk[j]
      /\ dir'[0] \in 1 .. Len(disk')
      /\ dir[0] = 0 => dir'[0] = Len(disk) + 1 /\ disk'[dir'[0]] = <<>>
      /\ dir[0] # 0 => disk' = disk /\ dir' = dir
      /\ m_file' = [m_file EXCEPT ![p] = dir'[0]]
      /\ offset' = [offset EXCEPT ![p] = Len(disk'[dir'[0]])]
      /\ m_fileSize' = [m_fileSize EXCEPT ![p] = offset'[p]]
  BY OpenDoes DEF TypeInv, Control, Renaming
<1>2. m_maxFiles' = m_maxFiles /\ (dir[0] = 0 => dir' = [dir EXCEPT ![0] = Len(disk')])
  BY DEF Open
<1>3. 0 \in Number /\ Number = 0 .. Last /\ Last \in Nat /\ dir \in [Number -> 0 .. Len(disk)]
  BY PartsAre, NumberZero DEF TypeInv, Control, Renaming, Disk
<1>4. \A k \in Number : k # 0 => dir'[k] = dir[k]
  BY <1>1, <1>2, <1>3
<1>5. ASSUME NEW k \in Number PROVE Parts'[k] = Parts[k]
  <2>1. /\ Parts[k] = IF dir[k] = 0 THEN <<>> ELSE Body(disk[dir[k]])
        /\ Parts'[k] = IF dir'[k] = 0 THEN <<>> ELSE Body(disk'[dir'[k]])
    BY <1>2, PartsAre, PartsWillBe
  <2>2. CASE k = 0 /\ dir[0] = 0
    <3>1. dir'[0] # 0 /\ disk'[dir'[0]] = <<>>
      BY <1>1, <2>2
    <3>2. QED
      BY <2>1, <2>2, <3>1, BodyStarts
  <2>3. CASE k = 0 /\ dir[0] # 0
    BY <1>1, <2>1, <2>3
  <2>4. CASE k # 0
    <3>1. dir'[k] = dir[k] /\ (dir[k] # 0 => dir[k] \in 1 .. Len(disk))
      BY <1>3, <1>4, <2>4
    <3>2. QED
      BY <1>1, <2>1, <3>1
  <2>5. QED
    BY <2>2, <2>3, <2>4
<1>6. Parts' = Parts
  BY <1>2, <1>3, <1>5, PartsAre, PartsWillBe
<1>7. ASSUME NEW i \in Number, NEW j \in Number, i # j, dir'[i] = dir'[j] PROVE dir'[i] = 0
  <2>1. dir[i] = dir[j] => dir[i] = 0
    BY <1>7 DEF PlaceInv
  <2>2. CASE dir[0] # 0
    BY <1>1, <1>7, <2>1, <2>2
  <2>3. CASE dir[0] = 0
    <3>1. \A k \in Number : k # 0 => dir'[k] # dir'[0]
      BY <1>1, <1>3, <1>4, <2>3
    <3>2. i # 0 /\ j # 0
      BY <1>7, <3>1
    <3>3. QED
      BY <1>4, <1>7, <2>1, <3>2
  <2>4. QED
    BY <2>2, <2>3
<1>8. m_file'[p] = dir'[0] /\ offset'[p] = Len(disk'[dir'[0]]) /\ m_fileSize'[p] = offset'[p]
  BY <1>1 DEF TypeInv, Position
<1>9. dir'[0] # 0 /\ \A k \in 1 .. Last : dir'[k] = dir[k]
  BY <1>1, <1>3, <1>4
<1>10. QED
  BY <1>2, <1>6, <1>7, <1>8, <1>9

LEMMA UnlinkMoves ==
  ASSUME NEW p \in Process, NEW t \in Thread, TypeInv, TypeInv', PlaceInv, Unlink(p, t)
  PROVE  /\ m_maxFiles' = m_maxFiles /\ m_maxFiles > 0 /\ Last = m_maxFiles - 1
         /\ Parts'[Last] = <<>> /\ \A k \in 0 .. Last - 1 : Parts'[k] = Parts[k]
         /\ dir'[Last] = 0 /\ \A k \in 0 .. Last - 1 : dir'[k] = dir[k]
         /\ \A i, j \in Number : i # j /\ dir'[i] = dir'[j] => dir'[i] = 0
         /\ fileNumber'[p] + 1 = Last /\ unmoved' = unmoved
<1>1. /\ m_maxFiles' = m_maxFiles /\ disk' = disk /\ m_maxFiles > 0 /\ m_maxFiles \in Nat
      /\ dir' = [dir EXCEPT ![m_maxFiles - 1] = 0]
      /\ fileNumber' = [fileNumber EXCEPT ![p] = m_maxFiles - 2] /\ unmoved' = unmoved
  BY DEF Unlink, File_unlink, TypeInv, Control, Threads, Renaming
<1>2. Last = m_maxFiles - 1 /\ Number = 0 .. Last /\ Last \in Nat /\ dir \in [Number -> 0 .. Len(disk)]
  BY <1>1, PartsAre DEF Last, TypeInv, Disk
<1>3. dir'[Last] = 0 /\ \A k \in Number : k # Last => dir'[k] = dir[k]
  BY <1>1, <1>2
<1>4. Parts'[Last] = <<>> /\ \A k \in Number : k # Last => Parts'[k] = Parts[k]
  <2>1. \A k \in Number :
          /\ Parts[k] = IF dir[k] = 0 THEN <<>> ELSE Body(disk[dir[k]])
          /\ Parts'[k] = IF dir'[k] = 0 THEN <<>> ELSE Body(disk[dir'[k]])
    BY <1>1, PartsAre, PartsWillBe
  <2>2. Last \in Number
    BY <1>2
  <2>3. QED
    BY <1>3, <2>1, <2>2
<1>5. \A k \in 0 .. Last - 1 : k \in Number /\ k # Last
  BY <1>2
<1>6. fileNumber'[p] + 1 = Last
  BY <1>1, <1>2 DEF TypeInv, Control, Renaming
<1>7. \A i, j \in Number : i # j /\ dir'[i] = dir'[j] => dir'[i] = 0
  BY <1>3 DEF PlaceInv
<1>8. QED
  BY <1>1, <1>2, <1>3, <1>4, <1>5, <1>6, <1>7

LEMMA RenameMoves ==
  ASSUME NEW p \in Process, NEW t \in Thread, TypeInv, TypeInv', PlaceInv, Rename(p, t),
         NEW n, n = fileNumber[p]
  PROVE  /\ m_maxFiles' = m_maxFiles /\ n \in 0 .. Last - 1 /\ Last = m_maxFiles - 1
         /\ unmoved = 0 => dir[n + 1] = 0
         /\ dir[n + 1] = 0 => Parts[n + 1] = <<>>
         /\ dir[n + 1] = 0 \/ dir[n] # 0 => Parts'[n + 1] = Parts[n] /\ dir'[n + 1] = dir[n]
         /\ dir[n] = 0 => Parts' = Parts
         /\ Parts'[n] = <<>> /\ dir'[n] = 0
         /\ \A k \in Number : k # n /\ k # n + 1 => Parts'[k] = Parts[k]
         /\ \A k \in Number : k # n /\ k # n + 1 => dir'[k] = dir[k]
         /\ \A i, j \in Number : i # j /\ dir'[i] = dir'[j] => dir'[i] = 0
         /\ fileNumber'[p] = n - 1 /\ unmoved' = unmoved
<1>1. /\ m_maxFiles' = m_maxFiles /\ disk' = disk /\ m_maxFiles > 0 /\ m_maxFiles \in Nat
      /\ n \in 0 .. m_maxFiles - 2 /\ (unmoved = 0 => dir[n + 1] = 0)
      /\ dir' = IF dir[n] = 0 THEN dir ELSE [dir EXCEPT ![n + 1] = dir[n], ![n] = 0]
      /\ fileNumber' = [fileNumber EXCEPT ![p] = n - 1] /\ unmoved' = unmoved
  BY DEF Rename, File_rename, TypeInv, Control, Threads, Renaming, PlaceInv
<1>2. Last = m_maxFiles - 1 /\ Number = 0 .. Last /\ Last \in Nat /\ dir \in [Number -> 0 .. Len(disk)]
  BY <1>1, PartsAre DEF Last, TypeInv, Disk
<1>3. n \in 0 .. Last - 1 /\ n \in Number /\ n + 1 \in Number /\ n + 1 # n
  BY <1>1, <1>2
<1>4. /\ dir[n + 1] = 0 \/ dir[n] # 0 => dir'[n + 1] = dir[n]
      /\ dir'[n] = 0
      /\ dir[n] = 0 => dir' = dir
      /\ dir'[n + 1] \in {dir[n], dir[n + 1]}
      /\ \A k \in Number : k # n /\ k # n + 1 => dir'[k] = dir[k]
  BY <1>1, <1>2, <1>3
<1>5. /\ dir[n + 1] = 0 => Parts[n + 1] = <<>>
      /\ dir[n + 1] = 0 \/ dir[n] # 0 => Parts'[n + 1] = Parts[n]
      /\ dir[n] = 0 => Parts' = Parts
      /\ Parts'[n] = <<>>
      /\ \A k \in Number : k # n /\ k # n + 1 => Parts'[k] = Parts[k]
  <2>1. \A k \in Number :
          /\ Parts[k] = IF dir[k] = 0 THEN <<>> ELSE Body(disk[dir[k]])
          /\ Parts'[k] = IF dir'[k] = 0 THEN <<>> ELSE Body(disk[dir'[k]])
    BY <1>1, PartsAre, PartsWillBe
  <2>2. (dir[n + 1] = 0 => Parts[n + 1] = <<>>) /\ Parts'[n] = <<>>
    BY <1>3, <1>4, <2>1
  <2>3. dir[n + 1] = 0 \/ dir[n] # 0 => Parts'[n + 1] = Parts[n]
    BY <1>3, <1>4, <2>1
  <2>4. \A k \in Number : k # n /\ k # n + 1 => Parts'[k] = Parts[k]
    BY <1>4, <2>1
  <2>5. ASSUME dir[n] = 0 PROVE Parts' = Parts
    <3>1. dir' = dir
      BY <1>4, <2>5
    <3>2. QED
      BY <1>1, <3>1 DEF Parts, Number, Records
  <2>6. QED
    BY <2>2, <2>3, <2>4, <2>5
<1>6. ASSUME NEW i \in Number, NEW j \in Number, i # j, dir'[i] = dir'[j] PROVE dir'[i] = 0
  <2>1. \A k, l \in Number : k # l /\ dir[k] = dir[l] => dir[k] = 0
    BY DEF PlaceInv
  <2>2. CASE dir[n] = 0
    BY <1>4, <1>6, <2>1, <2>2
  <2>3. CASE dir[n] # 0
    <3>1. dir'[n + 1] = dir[n] /\ \A k \in Number : k # n => dir[k] # dir[n]
      BY <1>3, <1>4, <2>1, <2>3
    <3>2. QED
      BY <1>3, <1>4, <1>6, <2>1, <2>3, <3>1
  <2>4. QED
    BY <2>2, <2>3
<1>7. fileNumber'[p] = n - 1
  BY <1>1 DEF TypeInv, Control, Renaming
<1>8. QED
  BY <1>1, <1>2, <1>3, <1>4, <1>5, <1>6, <1>7

\* All other steps leave the files alone.
LEMMA OthersRest ==
  ASSUME NEW p \in Process, NEW t \in Thread, TypeInv, TypeInv',
         \/ Lock(p, t) \/ Close(p, t) \/ Rolled(p, t) \/ OpenFails(p, t) \/ WriteFails(p, t)
         \/ UnlinkFails(p, t) \/ RenameFails(p, t) \/ Kill(p)
         \/ WriteRecord(p, t) /\ ~Writes(p, t)
  PROVE  UNCHANGED <<m_maxFiles, disk, dir, stored, Parts>>
<1>1. UNCHANGED <<m_maxFiles, disk, dir, stored>>
  BY DEF Lock, Close, Rolled, OpenFails, WriteFails, UnlinkFails, RenameFails, Kill,
         WriteRecord, Writes, files
<1>2. Parts' = Parts
  BY <1>1 DEF Parts, Number, Records
<1>3. QED
  BY <1>1, <1>2

LEMMA PlaceMoved ==
  ASSUME NEW p \in Process, NEW t \in Thread, Process = {p}, TypeInv, TypeInv',
         PlaceInv, Moved(p, t)
  PROVE  PlaceInv'
<1>1. /\ m_maxFiles' = m_maxFiles /\ Number' = Number
      /\ \A u \in Thread : u # t => pc'[p][u] = "idle"
      /\ \A i, j \in Number : i # j /\ dir[i] = dir[j] => dir[i] = 0
      /\ m_file[p] # -1 => m_file[p] = dir[0] /\ offset[p] = Len(disk[dir[0]])
      /\ pc[p][t] \in {"unlink", "rename"} => m_file[p] = -1
      /\ pc[p][t] = "rename" /\ unmoved = 0 => dir[fileNumber[p] + 1] = 0
      /\ pc[p][t] = "header" => offset[p] = 0
  BY OnlyOne DEF PlaceInv, TypeInv, Number
<1>0. /\ unmoved' # 0 \/ unmoved' = unmoved
      /\ ~maimed' => unmoved' = 0
  <2>1. IF UnlinkFails(p, t) \/ RenameFails(p, t) THEN Unmoved ELSE unmoved' = unmoved
    BY OnlyOne DEF TypeInv
  <2>2. Unmoved => maimed' /\ unmoved' # 0
    BY OnlyOne DEF Unmoved, TypeInv
  <2>3. ~maimed' => ~maimed
    BY DEF Moved, Lock, Close, Unlink, UnlinkFails, Rename, RenameFails, Rolled, Open,
           OpenFails, WriteHeader, WriteRecord, WriteShort, WriteFails, Unmoved
  <2>4. QED
    BY <2>1, <2>2, <2>3 DEF PlaceInv
<1>2. SUFFICES
        /\ \A i, j \in Number : i # j /\ dir'[i] = dir'[j] => dir'[i] = 0
        /\ m_file'[p] # -1 => m_file'[p] = dir'[0] /\ offset'[p] = Len(disk'[dir'[0]])
        /\ pc'[p][t] \in {"unlink", "rename"} => m_file'[p] = -1
        /\ pc'[p][t] = "rename" /\ unmoved' = 0 => dir'[fileNumber'[p] + 1] = 0
        /\ pc'[p][t] = "header" => offset'[p] = 0
  BY <1>0, <1>1 DEF PlaceInv
<1>3. ASSUME NEW l \in Labels, Goto(p, t, l) PROVE pc'[p][t] = l
  BY <1>3 DEF Goto, TypeInv, Control, Threads
<1>4. CASE Lock(p, t) \/ WriteFails(p, t)
  <2>1. UNCHANGED <<disk, dir, m_file, offset>>
    BY <1>4 DEF Lock, WriteFails, files
  <2>2. pc'[p][t] \notin {"unlink", "rename", "header"}
    BY <1>3, <1>4 DEF Lock, WriteFails, Done, Way, Labels
  <2>3. QED
    BY <1>1, <2>1, <2>2
<1>5. CASE Close(p, t) \/ OpenFails(p, t)
  <2>1. UNCHANGED <<disk, dir>> /\ m_file' = [m_file EXCEPT ![p] = -1]
    BY <1>5 DEF Close, OpenFails, files
  <2>2. m_file'[p] = -1
    BY <2>1 DEF TypeInv, Position
  <2>3. pc'[p][t] \notin {"rename", "header"}
    BY <1>3, <1>5 DEF Close, OpenFails, Labels
  <2>4. QED
    BY <1>1, <2>1, <2>2, <2>3
<1>6. CASE Unlink(p, t)
  <2>1. m_file' = m_file /\ pc[p][t] = "unlink" /\ pc'[p][t] = "rename"
    BY <1>3, <1>6 DEF Unlink, Labels
  <2>2. /\ dir'[Last] = 0 /\ fileNumber'[p] + 1 = Last
        /\ \A i, j \in Number : i # j /\ dir'[i] = dir'[j] => dir'[i] = 0
    BY <1>6, UnlinkMoves
  <2>3. QED
    BY <1>1, <2>1, <2>2
<1>7. CASE Rename(p, t)
  <2>1. m_file' = m_file /\ pc' = pc /\ pc[p][t] = "rename"
    BY <1>7 DEF Rename
  <2>2. PICK n : n = fileNumber[p]
    OBVIOUS
  <2>3. /\ n \in 0 .. Last - 1 /\ dir'[n] = 0 /\ fileNumber'[p] = n - 1
        /\ \A i, j \in Number : i # j /\ dir'[i] = dir'[j] => dir'[i] = 0
    BY <1>7, <2>2, RenameMoves
  <2>4. fileNumber'[p] + 1 = n
    BY <2>3, PartsAre
  <2>5. QED
    BY <1>1, <2>1, <2>3, <2>4
<1>u. CASE UnlinkFails(p, t) \/ RenameFails(p, t)
  <2>1. UNCHANGED <<disk, dir, m_file, offset>> /\ Unmoved /\ pc[p][t] \in {"unlink", "rename"}
    BY <1>u DEF UnlinkFails, RenameFails, files
  <2>2. m_file[p] = -1 /\ unmoved' # 0
    BY <1>1, <2>1, OnlyOne DEF Unmoved, TypeInv
  <2>3. pc'[p][t] = "rename"
    <3>1. CASE UnlinkFails(p, t)
      BY <1>3, <3>1 DEF UnlinkFails, Labels
    <3>2. CASE RenameFails(p, t)
      BY <3>2 DEF RenameFails
    <3>3. QED
      BY <1>u, <3>1, <3>2
  <2>4. QED
    BY <1>1, <2>1, <2>2, <2>3
<1>8. CASE Rolled(p, t)
  <2>1. UNCHANGED <<disk, dir, m_file, offset>> /\ pc'[p][t] = "open"
    BY <1>3, <1>8 DEF Rolled, files, appender, Labels
  <2>2. QED
    BY <1>1, <2>1
<1>9. CASE Open(p, t)
  <2>1. /\ m_file'[p] = dir'[0] /\ offset'[p] = Len(disk'[dir'[0]])
        /\ \A i, j \in Number : i # j /\ dir'[i] = dir'[j] => dir'[i] = 0
    BY <1>9, OpenMoves
  <2>2. Goto(p, t, IF offset'[p] = 0 THEN "header" ELSE "write")
    BY <1>9 DEF Open
  <2>3. pc'[p][t] = IF offset'[p] = 0 THEN "header" ELSE "write"
    BY <1>3, <2>2 DEF Labels
  <2>4. QED
    BY <2>1, <2>3
<1>10. CASE WriteHeader(p, t)
  <2>1. /\ Put(p, Header) /\ UNCHANGED <<m_file, dir>> /\ pc[p][t] = "header"
        /\ pc'[p][t] = "write"
    BY <1>3, <1>10 DEF WriteHeader, Labels
  <2>2. m_file[p] # -1
    BY <2>1 DEF TypeInv, Position
  <2>3. offset'[p] = Len(disk'[dir[0]])
    BY <1>1, <2>1, <2>2, CellIs, PutMoves
  <2>4. QED
    BY <1>1, <2>1, <2>3
<1>11. CASE Writes(p, t)
  <2>1. PICK r \in Record : r \in Cell /\ Written(p, t, r)
    BY <1>11, WrittenIs DEF TypeInv
  <2>2. m_file[p] # -1
    BY <1>11, WrittenIs DEF TypeInv
  <2>3. UNCHANGED <<m_file, dir, m_maxFiles>> /\ pc'[p][t] = "idle" /\ Put(p, r)
    BY <1>3, <2>1 DEF Written, Labels
  <2>4. offset'[p] = Len(disk'[dir[0]])
    BY <2>1, <2>2, <2>3, PutMoves
  <2>5. QED
    BY <1>1, <2>3, <2>4
<1>w. CASE WriteRecord(p, t) /\ ~Writes(p, t)
  <2>1. UNCHANGED <<disk, dir, m_file, offset>> /\ pc'[p][t] = "idle"
    BY <1>3, <1>w DEF WriteRecord, Writes, Done, Labels
  <2>2. QED
    BY <1>1, <2>1
<1>12. QED
  BY <1>4, <1>5, <1>6, <1>7, <1>u, <1>8, <1>9, <1>10, <1>11, <1>w DEF Moved, Writes

LEMMA NextPlace ==
  ASSUME NEW p \in Process, Process = {p}
  PROVE  TypeInv /\ TypeInv' /\ PlaceInv /\ [Next]_vars => PlaceInv'
<1> SUFFICES ASSUME TypeInv, TypeInv', PlaceInv, [Next]_vars PROVE PlaceInv'
  OBVIOUS
<1>1. CASE UNCHANGED vars
  <2>1. UNCHANGED <<m_maxFiles, disk, dir, m_file, offset, pc, fileNumber, maimed, unmoved>>
    BY <1>1 DEF vars, files, appender
  <2>2. QED
    BY <2>1 DEF PlaceInv, Number
<1>2. CASE Kill(p)
  <2>1. /\ UNCHANGED <<m_maxFiles, disk, dir>> /\ maimed'
        /\ m_file' = [m_file EXCEPT ![p] = -1]
        /\ pc' = [pc EXCEPT ![p] = [t \in Thread |-> "idle"]]
    BY <1>2 DEF Kill, files
  <2>2. m_file'[p] = -1 /\ \A t \in Thread : pc'[p][t] = "idle"
    BY <2>1 DEF TypeInv, Position, Control, Threads
  <2>3. QED
    BY <2>1, <2>2 DEF PlaceInv, Number
<1>3. QED
  BY <1>1, <1>2, PlaceMoved DEF Next, Moved

-----------------------------------------------------------------------------
(* What can be read back grows by the record written, or loses its oldest  *)
(* records when the last file is deleted, or those of a file that could    *)
(* not be moved out of the way.                                            *)

KeptGrows ==
  \/ stored' = stored /\ Kept' = Kept /\ (unmoved' # unmoved => unmoved' # 0)
  \/ /\ \E r \in Record : stored' = Append(stored, r) /\ Kept' = Append(Kept, r)
     /\ unmoved' = unmoved
KeptLacks ==
  /\ unmoved # 0 /\ unmoved' = unmoved /\ stored' = stored
  /\ Thinned(Kept, Kept')
KeptDrops ==
  /\ m_maxFiles > 0 /\ dir[Last] # 0 /\ stored' = stored /\ unmoved' = unmoved
  /\ \E n \in 1 .. Len(Kept) : Kept' = SubSeq(Kept, n + 1, Len(Kept))

\* A file that takes a number that is not free takes the records away that had it.
LEMMA RenameLacks ==
  ASSUME NEW p \in Process, NEW t \in Thread, TypeInv, TypeInv', PlaceInv, Rename(p, t),
         dir[fileNumber[p]] # 0, dir[fileNumber[p] + 1] # 0
  PROVE  KeptGrows \/ KeptLacks
<1>1. PICK n : n = fileNumber[p]
  OBVIOUS
<1>2. /\ n \in 0 .. Last - 1 /\ unmoved # 0 /\ unmoved' = unmoved
      /\ Parts'[n + 1] = Parts[n] /\ Parts'[n] = <<>>
      /\ \A k \in Number : k # n /\ k # n + 1 => Parts'[k] = Parts[k]
  BY <1>1, RenameMoves
<1>3. stored' = stored /\ m_maxFiles' = m_maxFiles
  BY DEF Rename
<1>4. PICK b, c, m : b = Parts /\ c = Parts' /\ m = Last
  OBVIOUS
<1>5. /\ m \in Nat /\ Number = 0 .. m
      /\ b \in [0 .. m -> Seq(Cell)] /\ c \in [0 .. m -> Seq(Cell)]
      /\ Kept = Joined(b) /\ Kept' = Joined(c)
  BY <1>3, <1>4, PartsAre, PartsWillBe
<1>6. n \in 0 .. m - 1 /\ n + 1 \in 0 .. m /\ n \in 0 .. m
  BY <1>2, <1>4, <1>5
<1> DEFINE d == [b EXCEPT ![n + 1] = <<>>]
<1>7. /\ d \in [0 .. m -> Seq(Cell)] /\ d[n + 1] = <<>>
      /\ \A k \in 0 .. m : k # n + 1 => d[k] = b[k]
  BY <1>5, <1>6
<1> HIDE DEF d
<1>8. PICK x \in Seq(Cell), y \in Seq(Cell) : Lacks(Joined(b), Joined(d), x, b[n + 1], y)
  BY <1>5, <1>6, <1>7, JoinedLacks
<1>9. Shifted(d, c, n, m)
  BY <1>2, <1>4, <1>5, <1>6, <1>7 DEF Shifted
<1>10. Joined(c) = Joined(d)
  BY <1>5, <1>6, <1>7, <1>9, JoinedShifts
<1>11. PICK z : z = b[n + 1]
  OBVIOUS
<1>12. z \in Seq(Cell) /\ Lacks(Kept, Kept', x, z, y)
  BY <1>5, <1>6, <1>8, <1>10, <1>11
<1>13. CASE z = <<>>
  <2>1. x \o <<>> = x
    BY <1>8, ConcatEmptySeq
  <2>2. Kept' = Kept
    BY <1>12, <1>13, <2>1, Zenon DEF Lacks
  <2>3. QED
    BY <1>2, <1>3, <2>2 DEF KeptGrows
<1>14. CASE z # <<>>
  <2>1. z \in Seq(Cell)
    BY <1>12
  <2>2. Thinned((x \o z) \o y, x \o y)
    BY <1>14, <2>1, MiddleIs
  <2>3. Thinned(Kept, Kept')
    BY <1>12, <2>2, Zenon DEF Lacks
  <2>4. QED
    BY <1>2, <1>3, <2>3 DEF KeptLacks
<1>15. QED
  BY <1>13, <1>14

LEMMA KeptMoved ==
  ASSUME NEW p \in Process, NEW t \in Thread, Process = {p}, TypeInv, TypeInv',
         PlaceInv, Moved(p, t)
  PROVE  KeptGrows \/ (Unlink(p, t) /\ KeptDrops) \/ (Rename(p, t) /\ KeptLacks)
<1>1. /\ m_maxFiles' = m_maxFiles
      /\ Last \in Nat /\ Number = 0 .. Last /\ 0 \in Number
      /\ Parts \in [0 .. Last -> Seq(Cell)] /\ Parts' \in [0 .. Last -> Seq(Cell)]
      /\ Kept = Joined(Parts) /\ Kept' = Joined(Parts')
  BY OnlyOne, PartsAre, PartsWillBe DEF TypeInv
<1>0. unmoved' # unmoved => unmoved' # 0
  <2>1. /\ unmoved \in Nat
        /\ IF UnlinkFails(p, t) \/ RenameFails(p, t) THEN Unmoved ELSE UNCHANGED unmoved
    BY OnlyOne DEF TypeInv
  <2>2. QED
    BY <2>1 DEF Unmoved
<1>2. CASE \/ Lock(p, t) \/ Close(p, t) \/ Rolled(p, t) \/ OpenFails(p, t) \/ WriteFails(p, t)
           \/ UnlinkFails(p, t) \/ RenameFails(p, t)
           \/ WriteRecord(p, t) /\ ~Writes(p, t)
  <2>1. UNCHANGED <<stored, Parts>>
    BY <1>2, OthersRest
  <2>2. QED
    BY <1>0, <1>1, <2>1 DEF KeptGrows
<1>3. CASE Open(p, t)
  <2>1. Parts' = Parts /\ stored' = stored
    BY <1>3, OpenMoves DEF Open
  <2>2. QED
    BY <1>0, <1>1, <2>1 DEF KeptGrows
<1>4. CASE Rename(p, t)
  <2>1. PICK n : n = fileNumber[p]
    OBVIOUS
  <2>2. /\ n \in 0 .. Last - 1
        /\ dir[n + 1] = 0 => Parts[n + 1] = <<>>
        /\ dir[n + 1] = 0 \/ dir[n] # 0 => Parts'[n + 1] = Parts[n]
        /\ dir[n] = 0 => Parts' = Parts
        /\ Parts'[n] = <<>>
        /\ \A k \in Number : k # n /\ k # n + 1 => Parts'[k] = Parts[k]
    BY <1>4, <2>1, RenameMoves
  <2>3. stored' = stored
    BY <1>4 DEF Rename
  <2>4. CASE dir[n] = 0
    BY <1>0, <1>1, <2>2, <2>3, <2>4 DEF KeptGrows
  <2>5. CASE dir[n + 1] = 0
    <3>1. PICK b, c, m : b = Parts /\ c = Parts' /\ m = Last
      OBVIOUS
    <3>2. m \in Nat /\ b \in [0 .. m -> Seq(Cell)] /\ c \in [0 .. m -> Seq(Cell)]
      BY <1>1, <3>1
    <3>3. n \in 0 .. m - 1
      BY <2>2, <3>1
    <3>4. Shifted(b, c, n, m)
      BY <1>1, <2>2, <2>5, <3>1 DEF Shifted
    <3>5. Joined(c) = Joined(b)
      BY <3>2, <3>3, <3>4, JoinedShifts, ZenonT(40)
    <3>6. QED
      BY <1>0, <1>1, <2>3, <3>1, <3>5 DEF KeptGrows
  <2>6. CASE dir[n] # 0 /\ dir[n + 1] # 0
    <3>1. KeptGrows \/ KeptLacks
      BY <1>4, <2>1, <2>6, RenameLacks
    <3>2. QED
      BY <1>4, <3>1
  <2>7. QED
    BY <2>4, <2>5, <2>6
<1>5. CASE Unlink(p, t)
  <2>1. /\ m_maxFiles > 0 /\ Parts'[Last] = <<>>
        /\ \A k \in 0 .. Last - 1 : Parts'[k] = Parts[k]
    BY <1>5, UnlinkMoves
  <2>2. stored' = stored /\ unmoved' = unmoved
    BY <1>5 DEF Unlink
  <2>3. Joined(Parts) = Parts[Last] \o Joined(Parts') /\ Joined(Parts') \in Seq(Cell)
    BY <1>1, <2>1, JoinedDrops, ZenonT(40)
  <2>4. Parts[Last] \in Seq(Cell)
    BY <1>1
  <2>5. CASE Parts[Last] = <<>>
    <3>1. Joined(Parts') = Joined(Parts)
      BY <2>3, <2>5, ConcatEmptySeq
    <3>2. QED
      BY <1>1, <2>2, <3>1 DEF KeptGrows
  <2>6. CASE Parts[Last] # <<>>
    <3>1. PICK s, k, l : s = Parts[Last] /\ k = Kept' /\ l = Kept
      OBVIOUS
    <3>2. s \in Seq(Cell) /\ k \in Seq(Cell) /\ s # <<>> /\ l = s \o k
      BY <1>1, <2>3, <2>4, <2>6, <3>1
    <3>3. Len(s) \in 1 .. Len(l) /\ k = SubSeq(l, Len(s) + 1, Len(l))
      BY <3>2, EndIs
    <3>4. dir[Last] # 0
      BY <1>1, <2>6, PartsAre
    <3>5. QED
      BY <1>5, <2>1, <2>2, <3>1, <3>3, <3>4 DEF KeptDrops
  <2>7. QED
    BY <2>5, <2>6
<1>6. CASE WriteHeader(p, t)
  <2>1. /\ Put(p, Header) /\ UNCHANGED <<m_file, dir, stored, unmoved>> /\ pc[p][t] = "header"
    BY <1>6 DEF WriteHeader
  <2>2. m_file[p] # -1 /\ offset[p] = 0
    BY <2>1 DEF TypeInv, Position, PlaceInv
  <2>3. /\ disk[dir[0]] \in Seq(Cell)
        /\ Parts[0] = Body(disk[dir[0]]) /\ Parts'[0] = Body(Append(disk[dir[0]], Header))
        /\ \A k \in 1 .. Last : Parts'[k] = Parts[k]
    BY <1>1, <2>1, <2>2, CellIs, PutMoves
  <2>4. Len(disk[dir[0]]) = 0
    BY <2>2 DEF PlaceInv
  <2>5. disk[dir[0]] = <<>>
    BY <2>3, <2>4, EmptySeq
  <2>6. Parts'[0] = Parts[0]
    BY <2>3, <2>5, BodyStarts
  <2>7. Parts' = Parts
    BY <1>1, <2>3, <2>6
  <2>8. QED
    BY <1>1, <2>1, <2>7 DEF KeptGrows
<1>7. CASE Writes(p, t)
  <2>1. PICK r \in Record : r \in Cell /\ Written(p, t, r)
    BY <1>7, WrittenIs DEF TypeInv
  <2>2. m_file[p] # -1
    BY <1>7, WrittenIs DEF TypeInv
  <2>3. /\ UNCHANGED <<m_file, dir, unmoved>>
        /\ Put(p, r) /\ stored' = Append(stored, r)
    BY <2>1 DEF Written
  <2>4. /\ disk[dir[0]] \in Seq(Cell)
        /\ Parts[0] = Body(disk[dir[0]]) /\ Parts'[0] = Body(Append(disk[dir[0]], r))
        /\ \A k \in 1 .. Last : Parts'[k] = Parts[k]
    BY <1>1, <2>1, <2>2, <2>3, PutMoves
  <2>5. Parts'[0] = Append(Parts[0], r)
    BY <2>1, <2>4, BodyGrows
  <2>6. Joined(Parts') = Append(Joined(Parts), r)
    BY <1>1, <2>1, <2>4, <2>5, JoinedGrows, ZenonT(40)
  <2>7. QED
    BY <1>1, <2>1, <2>3, <2>6 DEF KeptGrows
<1>8. QED
  BY <1>2, <1>3, <1>4, <1>5, <1>6, <1>7 DEF Moved, Writes

LEMMA NextKept ==
  ASSUME NEW p \in Process, Process = {p}
  PROVE  TypeInv /\ TypeInv' /\ PlaceInv /\ [Next]_vars => KeptGrows \/ KeptDrops \/ KeptLacks
<1> SUFFICES ASSUME TypeInv, TypeInv', PlaceInv, [Next]_vars
             PROVE  KeptGrows \/ KeptDrops \/ KeptLacks
  OBVIOUS
<1>1. CASE UNCHANGED vars
  <2>1. UNCHANGED <<m_maxFiles, disk, dir, stored, unmoved>>
    BY <1>1 DEF vars, files
  <2>2. Kept' = Kept
    BY <2>1 DEF Kept, Number, Records
  <2>3. QED
    BY <2>1, <2>2 DEF KeptGrows
<1>2. CASE Kill(p)
  <2>1. UNCHANGED <<m_maxFiles, disk, dir, stored, unmoved>>
    BY <1>2 DEF Kill, files
  <2>2. Kept' = Kept
    BY <2>1 DEF Kept, Number, Records
  <2>3. QED
    BY <2>1, <2>2 DEF KeptGrows
<1>3. QED
  BY <1>1, <1>2, KeptMoved DEF Next, Moved

-----------------------------------------------------------------------------
(* As long as nothing failed, only full files are renamed, and numbers are *)
(* given without a gap but for the one that moves down while they change.  *)

Full(k) == Len(Parts[k]) >= m_maxFileSize
Hole(p) == IF \E t \in Thread : pc[p][t] = "rename" THEN fileNumber[p] + 1 ELSE 0
Below(p, k) == \A j \in 1 .. k - 1 : dir[j] # 0 \/ j = Hole(p)

\* File 0 is going to be renamed.
Rolls(p, t) ==
  pc[p][t] \in {"close", "unlink"} \/ (pc[p][t] = "rename" /\ fileNumber[p] >= 0)

\* Something is only lost when all numbers were given.
Shape(p) ==
  /\ \A k \in Number : dir[k] # 0 => Below(p, k) /\ (k > 0 => Full(k))
  /\ Kept = stored \/ Below(p, m_maxFiles)
  /\ \A t \in Thread : Rolls(p, t) => dir[0] # 0 /\ Full(0)
  /\ ~m_firstWrite[p] /\ (\A t \in Thread : pc[p][t] \notin {"unlink", "rename", "open"})
       => m_file[p] # -1
FullInv ==
  /\ m_maxFiles = 0 => Kept = stored
  /\ m_maxFiles > 0 /\ ~maimed => \A p \in Process : Shape(p)

\* Where the gap is, if t is under way or nobody is.
LEMMA HoleIs ==
  ASSUME NEW p \in Process, NEW t \in Thread, Threads
  PROVE  /\ pc[p][t] # "idle" =>
              Hole(p) = IF pc[p][t] = "rename" THEN fileNumber[p] + 1 ELSE 0
         /\ m_mutex[p] = "free" => Hole(p) = 0
         /\ pc[p][t] # "idle" \/ m_mutex[p] = "free" =>
              \A u \in Thread : u # t => pc[p][u] = "idle"
<1>1. ASSUME pc[p][t] # "idle" \/ m_mutex[p] = "free"
      PROVE  \A u \in Thread : u # t => pc[p][u] = "idle"
  BY <1>1, LogAssumption DEF Threads
<1>2. ASSUME pc[p][t] # "idle"
      PROVE  Hole(p) = IF pc[p][t] = "rename" THEN fileNumber[p] + 1 ELSE 0
  <2>1. (\E u \in Thread : pc[p][u] = "rename") <=> pc[p][t] = "rename"
    BY <1>1, <1>2
  <2>2. QED
    BY <2>1 DEF Hole
<1>3. ASSUME m_mutex[p] = "free" PROVE Hole(p) = 0
  <2>1. \A u \in Thread : pc[p][u] = "idle"
    BY <1>3, LogAssumption DEF Threads
  <2>2. QED
    BY <2>1 DEF Hole
<1>4. QED
  BY <1>1, <1>2, <1>3

LEMMA HoleWillBe ==
  ASSUME NEW p \in Process, NEW t \in Thread, \A u \in Thread : u # t => pc'[p][u] = "idle"
  PROVE  Hole(p)' = IF pc'[p][t] = "rename" THEN fileNumber'[p] + 1 ELSE 0
<1>1. (\E u \in Thread : pc'[p][u] = "rename") <=> pc'[p][t] = "rename"
  OBVIOUS
<1>2. QED
  BY <1>1 DEF Hole

LEMMA BodyLength ==
  ASSUME NEW f \in Seq(Cell) PROVE Len(Body(f)) \in Nat /\ Len(Body(f)) >= Len(f) - 1
<1>1. Len(f) \in Nat
  OBVIOUS
<1>2. CASE f # <<>> /\ f[1] = Header
  BY <1>1, <1>2, HeadTailProperties, EmptySeq DEF Body
<1>3. CASE ~ (f # <<>> /\ f[1] = Header)
  BY <1>1, <1>3 DEF Body
<1>4. QED
  BY <1>2, <1>3

\* A step that moves no file between numbers, except for a new file 0, and only
\* writes to file 0.
LEMMA ShapeRests ==
  ASSUME NEW p \in Process, NEW t \in Thread, TypeInv, TypeInv', Shape(p),
         \A u \in Thread : u # t => pc'[p][u] = "idle",
         m_maxFiles > 0, m_maxFiles' = m_maxFiles, KeptGrows,
         \A k \in 1 .. Last : dir'[k] = dir[k] /\ Parts'[k] = Parts[k],
         Hole(p)' = Hole(p),
         Rolls(p, t)' => dir'[0] # 0 /\ Full(0)',
         \/ m_firstWrite'[p] \/ pc'[p][t] \in {"unlink", "rename", "open"} \/ m_file'[p] # -1
  PROVE  Shape(p)'
<1>1. /\ Number' = Number /\ Number = 0 .. Last /\ Last = m_maxFiles - 1 /\ Last \in Nat
      /\ m_maxFiles \in Nat
  BY PartsAre DEF Number, Last, TypeInv, Control, Renaming
<1>2. ASSUME NEW k \in 0 .. m_maxFiles, Below(p, k) PROVE Below(p, k)'
  <2>1. ASSUME NEW j \in 1 .. k - 1 PROVE dir'[j] # 0 \/ j = Hole(p)'
    <3>1. j \in 1 .. Last
      BY <1>1
    <3>2. QED
      BY <1>2, <3>1 DEF Below
  <2>2. QED
    BY <2>1 DEF Below
<1>3. ASSUME NEW k \in Number, dir'[k] # 0 PROVE Below(p, k)' /\ (k > 0 => Full(k)')
  <2>1. CASE k = 0
    BY <2>1 DEF Below
  <2>2. CASE k # 0
    <3>1. k \in 1 .. Last /\ k \in 0 .. m_maxFiles
      BY <1>1, <2>2
    <3>2. dir[k] # 0 /\ Parts'[k] = Parts[k]
      BY <1>3, <3>1
    <3>3. Below(p, k) /\ Full(k)
      BY <3>1, <3>2 DEF Shape
    <3>4. QED
      BY <1>2, <3>1, <3>2, <3>3 DEF Full
  <2>3. QED
    BY <2>1, <2>2
<1>4. Kept' = stored' \/ Below(p, m_maxFiles)'
  <2>1. Kept = stored => Kept' = stored'
    BY DEF KeptGrows
  <2>2. m_maxFiles \in 0 .. m_maxFiles
    BY <1>1
  <2>3. Below(p, m_maxFiles) => Below(p, m_maxFiles)'
    <3>1. PICK m : m = m_maxFiles
      OBVIOUS
    <3>2. Below(p, m) => Below(p, m)'
      BY <1>2, <2>2, <3>1
    <3>3. QED
      BY <3>1, <3>2 DEF Below
  <2>4. QED
    BY <2>1, <2>3 DEF Shape
<1>5. ASSUME NEW u \in Thread, Rolls(p, u)'
      PROVE  dir'[0] # 0 /\ Full(0)'
  BY <1>5 DEF Rolls
<1>6. QED
  BY <1>1, <1>3, <1>4, <1>5 DEF Shape

\* What a step may do to the gap when it renames no file.
Rests(p, t) ==
  /\ \A k \in 1 .. Last : dir'[k] = dir[k] /\ Parts'[k] = Parts[k]
  /\ Hole(p)' = Hole(p)
  /\ Rolls(p, t)' => dir'[0] # 0 /\ Full(0)'
  /\ m_firstWrite'[p] \/ pc'[p][t] \in {"unlink", "rename", "open"} \/ m_file'[p] # -1

LEMMA LockRests ==
  ASSUME NEW p \in Process, NEW t \in Thread, Process = {p}, TypeInv, TypeInv', PlaceInv,
         Shape(p), Lock(p, t)
  PROVE  Rests(p, t)
<1>1. /\ UNCHANGED <<disk, dir, m_file, m_firstWrite, Parts>> /\ m_mutex[p] = "free"
      /\ Goto(p, t, Way(p)) /\ pc[p][t] = "idle"
  BY OthersRest DEF Lock, Acquire
<1>2. pc'[p][t] = Way(p) /\ Way(p) \in {"open", "close", "write"}
  BY <1>1 DEF Goto, Way, TypeInv, Control, Threads
<1>3. Hole(p) = 0 /\ \A u \in Thread : pc[p][u] = "idle"
  BY <1>1, HoleIs DEF TypeInv, Control
<1>4. Hole(p)' = 0
  BY <1>2, HoleWillBe, OnlyOne DEF TypeInv, Moved
<1>5. Way(p) # "open" => m_file[p] # -1
  BY <1>3 DEF Shape, Way
<1>6. ASSUME Way(p) = "close" PROVE dir[0] # 0 /\ Full(0)
  <2>1. m_fileSize[p] > m_maxFileSize /\ m_file[p] # -1
    BY <1>5, <1>6 DEF Way
  <2>2. /\ m_file[p] = dir[0] /\ m_file[p] \in 1 .. Len(disk) /\ disk \in Seq(Seq(Cell))
        /\ m_fileSize[p] = Len(disk[dir[0]])
    BY <2>1 DEF PlaceInv, TypeInv, Position, Disk
  <2>3. disk[dir[0]] \in Seq(Cell) /\ dir[0] # 0
    BY <2>2, ElementOfSeq
  <2>4. Parts[0] = Body(disk[dir[0]])
    BY <2>3, PartsAre, NumberZero DEF TypeInv, Control, Renaming
  <2>5. PICK f : f = disk[dir[0]]
    OBVIOUS
  <2>6. Len(f) \in Nat /\ Len(Body(f)) \in Nat /\ Len(Body(f)) >= Len(f) - 1 /\ Len(f) > m_maxFileSize
    BY <2>1, <2>2, <2>3, <2>5, BodyLength, SMTT(30)
  <2>7. Len(Body(f)) >= m_maxFileSize
    BY <2>6, LogAssumption
  <2>8. QED
    BY <2>3, <2>4, <2>5, <2>7 DEF Full
<1>7. Full(0)' <=> Full(0)
  BY <1>1 DEF Full
<1>8. QED
  BY <1>1, <1>2, <1>3, <1>4, <1>5, <1>6, <1>7 DEF Rests, Rolls

LEMMA StepRests ==
  ASSUME NEW p \in Process, NEW t \in Thread, Process = {p}, TypeInv, TypeInv', PlaceInv,
         Shape(p),
         \/ Close(p, t) \/ Rolled(p, t) \/ Open(p, t) \/ WriteHeader(p, t) \/ WriteRecord(p, t)
  PROVE  Rests(p, t)
<1>1. /\ pc[p][t] # "idle" /\ m_maxFiles' = m_maxFiles
      /\ \A u \in Thread : u # t => pc'[p][u] = "idle"
      /\ \A u \in Thread : u # t => pc[p][u] = "idle"
      /\ Hole(p) = IF pc[p][t] = "rename" THEN fileNumber[p] + 1 ELSE 0
      /\ Hole(p)' = IF pc'[p][t] = "rename" THEN fileNumber'[p] + 1 ELSE 0
  <2>1. pc[p][t] # "idle" /\ Moved(p, t)
    BY DEF Moved, Close, Rolled, Open, WriteHeader, WriteRecord
  <2>2. QED
    BY <2>1, OnlyOne, HoleIs, HoleWillBe DEF TypeInv, Control
<1>2. ASSUME NEW l \in Labels, Goto(p, t, l) PROVE pc'[p][t] = l
  BY <1>2 DEF Goto, TypeInv, Control, Threads
<1>3. m_firstWrite[p] \/ pc[p][t] \in {"unlink", "rename", "open"} \/ m_file[p] # -1
  BY <1>1 DEF Shape
<1>4. CASE Close(p, t)
  <2>1. UNCHANGED <<dir, Parts>> /\ pc[p][t] = "close" /\ pc'[p][t] = "unlink"
    BY <1>2, <1>4, OthersRest DEF Close, Labels
  <2>2. dir[0] # 0 /\ Full(0)
    BY <2>1 DEF Shape, Rolls
  <2>3. QED
    BY <1>1, <2>1, <2>2 DEF Rests, Full
<1>5. CASE Rolled(p, t)
  <2>1. /\ UNCHANGED <<dir, Parts>> /\ pc[p][t] = "rename" /\ pc'[p][t] = "open"
        /\ fileNumber[p] < 0
    BY <1>2, <1>5, OthersRest DEF Rolled, Labels
  <2>2. fileNumber[p] = -1
    BY <2>1 DEF TypeInv, Control, Renaming
  <2>3. QED
    BY <1>1, <2>1, <2>2 DEF Rests, Rolls
<1>6. CASE Open(p, t)
  <2>1. pc[p][t] = "open" /\ Goto(p, t, IF offset'[p] = 0 THEN "header" ELSE "write")
    BY <1>6 DEF Open
  <2>2. pc'[p][t] \in {"header", "write"}
    BY <1>2, <2>1 DEF Labels
  <2>3. /\ Parts' = Parts /\ dir'[0] # 0 /\ m_file'[p] = dir'[0]
        /\ \A k \in 1 .. Last : dir'[k] = dir[k]
    BY <1>6, OpenMoves
  <2>4. m_file'[p] # -1
    <3>1. 0 \in Number /\ Number' = Number
      BY <1>1, NumberZero DEF Number, TypeInv, Control, Renaming
    <3>2. dir'[0] \in 0 .. Len(disk') /\ Len(disk') \in Nat
      BY <3>1 DEF TypeInv, Disk
    <3>3. QED
      BY <2>3, <3>2
  <2>5. QED
    BY <1>1, <2>1, <2>2, <2>3, <2>4 DEF Rests, Rolls
<1>7. CASE WriteHeader(p, t)
  <2>1. /\ Put(p, Header) /\ UNCHANGED <<m_file, dir, m_firstWrite>> /\ pc[p][t] = "header"
        /\ pc'[p][t] = "write"
    BY <1>2, <1>7 DEF WriteHeader, Labels
  <2>2. m_file[p] # -1
    BY <2>1 DEF TypeInv, Position
  <2>3. \A k \in 1 .. Last : Parts'[k] = Parts[k]
    BY <1>1, <2>1, <2>2, CellIs, PutMoves
  <2>4. QED
    BY <1>1, <2>1, <2>2, <2>3 DEF Rests, Rolls
<1>8. CASE WriteRecord(p, t)
  <2>1. /\ UNCHANGED <<m_file, dir, m_firstWrite>> /\ pc[p][t] = "write" /\ pc'[p][t] = "idle"
    BY <1>2, <1>8 DEF WriteRecord, Done, Labels
  <2>2. ~Writes(p, t) => Parts' = Parts
    BY <1>8, OthersRest
  <2>3. ASSUME Writes(p, t) PROVE \A k \in 1 .. Last : Parts'[k] = Parts[k]
    <3>1. PICK r \in Record : r \in Cell /\ Written(p, t, r)
      BY <2>3, WrittenIs DEF TypeInv
    <3>2. m_file[p] # -1
      BY <2>3, WrittenIs DEF TypeInv
    <3>3. Put(p, r) /\ UNCHANGED <<m_file, dir, m_maxFiles>>
      BY <3>1 DEF Written
    <3>4. QED
      BY <3>1, <3>2, <3>3, PutMoves
  <2>4. QED
    BY <1>1, <1>3, <2>1, <2>2, <2>3 DEF Rests, Rolls
<1>9. QED
  BY <1>4, <1>5, <1>6, <1>7, <1>8

\* The last file is deleted: its number is where the gap is.
LEMMA UnlinkShape ==
  ASSUME NEW p \in Process, NEW t \in Thread, Process = {p}, TypeInv, TypeInv', PlaceInv,
         Shape(p), unmoved = 0, Unlink(p, t)
  PROVE  Shape(p)'
<1>1. /\ m_maxFiles' = m_maxFiles /\ m_maxFiles \in Nat /\ m_maxFiles > 0
      /\ Last = m_maxFiles - 1 /\ Last \in Nat /\ Number' = Number /\ Number = 0 .. Last
      /\ dir'[Last] = 0
      /\ \A k \in 0 .. Last - 1 : dir'[k] = dir[k] /\ Parts'[k] = Parts[k]
      /\ fileNumber'[p] + 1 = Last
  BY UnlinkMoves, PartsAre DEF TypeInv, Control, Renaming, Number
<1>2. pc[p][t] = "unlink" /\ pc'[p][t] = "rename" /\ fileNumber' = [fileNumber EXCEPT ![p] = m_maxFiles - 2]
  BY DEF Unlink, Goto, TypeInv, Control, Threads
<1>3. /\ \A u \in Thread : u # t => pc'[p][u] = "idle"
      /\ Hole(p) = 0 /\ Hole(p)' = Last
  BY <1>1, <1>2, OnlyOne, HoleIs, HoleWillBe DEF Moved, TypeInv, Control
<1>4. ASSUME NEW K \in 0 .. m_maxFiles, NEW L \in 0 .. m_maxFiles, Below(p, L),
             K <= L \/ L = Last
      PROVE  Below(p, K)'
  <2>1. ASSUME NEW j \in 1 .. K - 1 PROVE dir'[j] # 0 \/ j = Hole(p)'
    <3>1. j = Last \/ (j \in 0 .. Last - 1 /\ j \in 1 .. L - 1)
      BY <1>1, <1>4
    <3>2. CASE j = Last
      BY <1>3, <3>2
    <3>3. CASE j \in 0 .. Last - 1 /\ j \in 1 .. L - 1
      BY <1>1, <1>3, <1>4, <3>3 DEF Below
    <3>4. QED
      BY <3>1, <3>2, <3>3
  <2>2. QED
    BY <2>1 DEF Below
<1>5. ASSUME NEW k \in Number, dir'[k] # 0 PROVE Below(p, k)' /\ (k > 0 => Full(k)')
  <2>1. k \in 0 .. Last - 1 /\ k \in 0 .. m_maxFiles /\ dir[k] # 0
    BY <1>1, <1>5
  <2>2. Below(p, k) /\ (k > 0 => Full(k))
    BY <2>1 DEF Shape
  <2>3. QED
    BY <1>1, <1>4, <2>1, <2>2 DEF Full
<1>6. Kept' = stored' \/ Below(p, m_maxFiles)'
  <2>1. PICK m : m = m_maxFiles
    OBVIOUS
  <2>2. m \in 0 .. m_maxFiles /\ Last \in 0 .. m_maxFiles /\ Last \in Number
    BY <1>1, <2>1
  <2>3. Below(p, m) => Below(p, m)'
    BY <1>4, <2>2
  <2>4. dir[Last] # 0 => Below(p, m)'
    <3>1. PICK l : l = Last
      OBVIOUS
    <3>2. dir[l] # 0 => Below(p, l)
      BY <2>2, <3>1 DEF Shape
    <3>3. l \in 0 .. m_maxFiles
      BY <2>2, <3>1
    <3>4. QED
      BY <1>4, <2>2, <3>1, <3>2, <3>3
  <2>5. dir[Last] = 0 => KeptGrows
    BY KeptMoved DEF Moved, KeptDrops, KeptLacks
  <2>6. dir[Last] = 0 /\ Kept = stored => Kept' = stored'
    BY <2>5 DEF KeptGrows
  <2>7. Kept = stored \/ Below(p, m)
    BY <2>1 DEF Shape, Below
  <2>8. Below(p, m)' => Below(p, m_maxFiles)'
    BY <1>1, <2>1 DEF Below
  <2>9. QED
    BY <2>3, <2>4, <2>6, <2>7, <2>8
<1>7. ASSUME fileNumber'[p] >= 0 PROVE dir'[0] # 0 /\ Full(0)'
  <2>1. 0 \in 0 .. Last - 1
    BY <1>1, <1>2, <1>7 DEF TypeInv, Control, Renaming
  <2>2. dir[0] # 0 /\ Full(0)
    BY <1>2 DEF Shape, Rolls
  <2>3. QED
    BY <1>1, <2>1, <2>2 DEF Full
<1>8. \A u \in Thread : pc'[p][u] # "idle" => u = t
  BY <1>3
<1>9. QED
  BY <1>1, <1>2, <1>5, <1>6, <1>7, <1>8 DEF Shape, Rolls

\* A file takes the number above it: the gap moves down.
LEMMA RenameShape ==
  ASSUME NEW p \in Process, NEW t \in Thread, Process = {p}, TypeInv, TypeInv', PlaceInv,
         Shape(p), unmoved = 0, Rename(p, t)
  PROVE  Shape(p)'
<1>1. PICK n : n = fileNumber[p]
  OBVIOUS
<1>2. /\ m_maxFiles' = m_maxFiles /\ m_maxFiles \in Nat /\ m_maxFiles > 0
      /\ Last = m_maxFiles - 1 /\ Last \in Nat /\ Number' = Number /\ Number = 0 .. Last
      /\ n \in 0 .. Last - 1
      /\ Parts'[n + 1] = Parts[n] /\ dir'[n + 1] = dir[n] /\ dir'[n] = 0
      /\ \A k \in Number : k # n /\ k # n + 1 => dir'[k] = dir[k] /\ Parts'[k] = Parts[k]
      /\ fileNumber'[p] = n - 1
  <2>1. pc[p][t] = "rename"
    BY DEF Rename
  <2>2. QED
    BY <1>1, <2>1, RenameMoves, PartsAre DEF TypeInv, Control, Renaming, Number
<1>3. pc[p][t] = "rename" /\ pc'[p][t] = "rename" /\ n >= 0
  BY <1>1 DEF Rename
<1>4. /\ \A u \in Thread : u # t => pc'[p][u] = "idle"
      /\ Hole(p) = n + 1 /\ Hole(p)' = n
  <2>1. /\ \A u \in Thread : u # t => pc'[p][u] = "idle"
        /\ Hole(p) = fileNumber[p] + 1 /\ Hole(p)' = fileNumber'[p] + 1
    BY <1>3, OnlyOne, HoleIs, HoleWillBe DEF Moved, TypeInv, Control
  <2>2. QED
    BY <1>1, <1>2, <2>1
<1>5. dir[0] # 0 /\ Full(0)
  BY <1>1, <1>3 DEF Shape, Rolls
<1>6. ASSUME NEW K \in 0 .. m_maxFiles, Below(p, K) PROVE Below(p, K)'
  <2>1. ASSUME NEW j \in 1 .. K - 1 PROVE dir'[j] # 0 \/ j = Hole(p)'
    <3>1. j \in Number
      BY <1>2
    <3>2. CASE j = n
      BY <1>4, <3>2
    <3>3. CASE j = n + 1
      <4>1. n # 0 => n \in 1 .. K - 1 /\ n # Hole(p)
        BY <1>2, <1>4, <3>3
      <4>2. dir[n] # 0
        BY <1>5, <1>6, <4>1 DEF Below
      <4>3. QED
        BY <1>2, <3>3, <4>2
    <3>4. CASE j # n /\ j # n + 1
      BY <1>2, <1>4, <1>6, <3>1, <3>4 DEF Below
    <3>5. QED
      BY <3>2, <3>3, <3>4
  <2>2. QED
    BY <2>1 DEF Below
<1>7. ASSUME NEW k \in Number, dir'[k] # 0 PROVE Below(p, k)' /\ (k > 0 => Full(k)')
  <2>1. k # n /\ k \in 0 .. m_maxFiles
    BY <1>2, <1>7
  <2>2. CASE k = n + 1
    <3>1. n \in Number /\ dir[n] # 0
      BY <1>2, <1>7, <2>2
    <3>2. Below(p, n) /\ (n > 0 => Full(n))
      BY <3>1 DEF Shape
    <3>3. Full(n)
      BY <1>2, <1>5, <3>2
    <3>4. ASSUME NEW j \in 1 .. n PROVE dir'[j] # 0 \/ j = Hole(p)'
      <4>1. CASE j = n
        BY <1>4, <4>1
      <4>2. CASE j # n
        <5>1. j \in 1 .. n - 1 /\ j # n + 1 /\ j \in Number /\ j # Hole(p)
          BY <1>2, <1>4, <4>2
        <5>2. dir[j] # 0
          BY <3>2, <5>1 DEF Below
        <5>3. QED
          BY <1>2, <4>2, <5>1, <5>2
      <4>3. QED
        BY <4>1, <4>2
    <3>5. Below(p, k)'
      <4>1. k - 1 = n
        BY <1>2, <2>2
      <4>2. QED
        BY <3>4, <4>1 DEF Below
    <3>6. Full(k)'
      BY <1>2, <2>2, <3>3 DEF Full
    <3>7. QED
      BY <3>5, <3>6
  <2>3. CASE k # n + 1
    <3>1. dir[k] # 0 /\ Parts'[k] = Parts[k]
      BY <1>2, <1>7, <2>1, <2>3
    <3>2. Below(p, k) /\ (k > 0 => Full(k))
      BY <3>1 DEF Shape
    <3>3. QED
      BY <1>6, <2>1, <3>1, <3>2 DEF Full
  <2>4. QED
    BY <2>2, <2>3
<1>8. Kept' = stored' \/ Below(p, m_maxFiles)'
  <2>1. PICK m : m = m_maxFiles
    OBVIOUS
  <2>2. Below(p, m) => Below(p, m)'
    BY <1>2, <1>6, <2>1
  <2>3. KeptGrows
    BY <1>3, KeptMoved DEF Moved, Unlink, KeptLacks
  <2>4. Kept = stored => Kept' = stored'
    BY <2>3 DEF KeptGrows
  <2>5. Kept = stored \/ Below(p, m)
    BY <2>1 DEF Shape, Below
  <2>6. Below(p, m)' => Below(p, m_maxFiles)'
    BY <1>2, <2>1 DEF Below
  <2>7. QED
    BY <2>2, <2>4, <2>5, <2>6
<1>9. ASSUME fileNumber'[p] >= 0 PROVE dir'[0] # 0 /\ Full(0)'
  <2>1. 0 \in Number /\ 0 # n /\ 0 # n + 1
    BY <1>2, <1>9
  <2>2. QED
    BY <1>2, <1>5, <2>1 DEF Full
<1>10. \A u \in Thread : pc'[p][u] # "idle" => u = t
  BY <1>4
<1>11. QED
  BY <1>2, <1>3, <1>7, <1>8, <1>9, <1>10 DEF Shape, Rolls

LEMMA FullMoved ==
  ASSUME NEW p \in Process, NEW t \in Thread, Process = {p}, TypeInv, TypeInv', PlaceInv,
         FullInv, Moved(p, t)
  PROVE  FullInv'
<1>1. m_maxFiles' = m_maxFiles /\ m_maxFiles \in Nat
  BY OnlyOne DEF TypeInv, Control, Renaming
<1>2. ASSUME m_maxFiles = 0 PROVE Kept' = stored'
  <2>1. ~Unlink(p, t) /\ ~Rename(p, t)
    BY <1>2 DEF Unlink, Rename, TypeInv, Control, Renaming
  <2>2. QED
    BY <1>2, <2>1, KeptMoved DEF FullInv, KeptGrows
<1>3. ASSUME m_maxFiles > 0, ~maimed' PROVE Shape(p)'
  <2>1. /\ ~OpenFails(p, t) /\ ~WriteFails(p, t) /\ ~WriteShort(p, t)
        /\ ~UnlinkFails(p, t) /\ ~RenameFails(p, t)
    BY <1>3 DEF OpenFails, WriteFails, WriteShort, UnlinkFails, RenameFails, Unmoved
  <2>2. maimed' = maimed
    BY <2>1 DEF Moved, Lock, Close, Unlink, Rename, Rolled, Open, WriteHeader, WriteRecord
  <2>3. Shape(p) /\ unmoved = 0
    BY <1>3, <2>2 DEF FullInv, PlaceInv
  <2>4. CASE Unlink(p, t)
    BY <2>3, <2>4, UnlinkShape
  <2>5. CASE Rename(p, t)
    BY <2>3, <2>5, RenameShape
  <2>6. CASE \/ Lock(p, t) \/ Close(p, t) \/ Rolled(p, t) \/ Open(p, t)
             \/ WriteHeader(p, t) \/ WriteRecord(p, t)
    <3>1. Rests(p, t)
      BY <2>3, <2>6, LockRests, StepRests
    <3>2. ~Unlink(p, t) /\ ~(Rename(p, t) /\ KeptLacks)
      BY <2>3, <2>6 DEF KeptLacks, Unlink, Lock, Close, Rolled, Open, WriteHeader, WriteRecord
    <3>3. KeptGrows /\ \A u \in Thread : u # t => pc'[p][u] = "idle"
      BY <3>2, KeptMoved, OnlyOne DEF TypeInv
    <3>4. /\ \A k \in 1 .. Last : dir'[k] = dir[k] /\ Parts'[k] = Parts[k]
          /\ Hole(p)' = Hole(p)
          /\ Rolls(p, t)' => dir'[0] # 0 /\ Full(0)'
          /\ m_firstWrite'[p] \/ pc'[p][t] \in {"unlink", "rename", "open"} \/ m_file'[p] # -1
      BY <3>1 DEF Rests
    <3>5. QED
      BY <1>1, <1>3, <2>3, <3>3, <3>4, ShapeRests
  <2>7. QED
    BY <2>1, <2>4, <2>5, <2>6 DEF Moved
<1>4. QED
  BY <1>1, <1>2, <1>3 DEF FullInv

LEMMA NextFull ==
  ASSUME NEW p \in Process, Process = {p}
  PROVE  TypeInv /\ TypeInv' /\ PlaceInv /\ FullInv /\ [Next]_vars => FullInv'
<1> SUFFICES ASSUME TypeInv, TypeInv', PlaceInv, FullInv, [Next]_vars PROVE FullInv'
  OBVIOUS
<1>1. CASE UNCHANGED vars
  <2>1. UNCHANGED <<m_maxFiles, disk, dir, m_file, m_firstWrite, pc, fileNumber, stored, maimed>>
    BY <1>1 DEF vars, files, appender
  <2>2. UNCHANGED <<Number, Parts, Kept>>
    BY <2>1 DEF Parts, Kept, Number, Records
  <2>3. Shape(p) => Shape(p)'
    BY <2>1, <2>2 DEF Shape, Below, Full, Hole, Rolls
  <2>4. QED
    BY <2>1, <2>2, <2>3 DEF FullInv
<1>2. CASE Kill(p)
  <2>1. UNCHANGED <<m_maxFiles, disk, dir, stored>> /\ maimed'
    BY <1>2 DEF Kill, files
  <2>2. Kept' = Kept
    BY <2>1 DEF Kept, Number, Records
  <2>3. QED
    BY <2>1, <2>2 DEF FullInv
<1>3. QED
  BY <1>1, <1>2, FullMoved DEF Next, Moved

-----------------------------------------------------------------------------
(* What is kept: the theorems.                                             *)

LEMMA JoinedEmpty ==
  ASSUME NEW m \in Nat, NEW b, b = [k \in 0 .. m |-> <<>>]
  PROVE  Joined(b) = <<>>
<1>1. b \in [0 .. m -> Seq({})]
  OBVIOUS
<1>2. PICK f : JoinsFrom(f, b, 0, m, {}) /\ Joined(b) = f[0]
  BY <1>1, JoinedIs
<1>3. f[0] \in Seq({})
  BY <1>2 DEF JoinsFrom
<1>4. QED
  BY <1>2, <1>3

LEMMA InitKept == Init => TypeInv /\ PlaceInv /\ FullInv /\ Kept = <<>>
<1> SUFFICES ASSUME Init PROVE TypeInv /\ PlaceInv /\ FullInv /\ Kept = <<>>
  OBVIOUS
<1>1. TypeInv
  BY InitTypes
<1>2. /\ dir = [k \in Number |-> 0] /\ stored = <<>> /\ unmoved = 0
      /\ \A p \in Process : /\ m_file[p] = -1 /\ m_firstWrite[p]
                            /\ \A t \in Thread : pc[p][t] = "idle"
  BY DEF Init
<1>3. PlaceInv
  BY <1>2 DEF PlaceInv
<1>4. Kept = <<>>
  <2>1. Last \in Nat /\ Number = 0 .. Last /\ Kept = Joined(Parts)
    BY <1>1, PartsAre
  <2>2. \A k \in Number : Records(k) = <<>>
    BY <1>2 DEF Records
  <2>3. Parts = [k \in 0 .. Last |-> <<>>]
    BY <2>1, <2>2 DEF Parts
  <2>4. PICK b, m : b = Parts /\ m = Last
    OBVIOUS
  <2>5. Joined(b) = <<>>
    BY <2>1, <2>3, <2>4, JoinedEmpty
  <2>6. QED
    BY <2>1, <2>4, <2>5
<1>5. FullInv
  BY <1>2, <1>4 DEF FullInv, Shape, Rolls
<1>6. QED
  BY <1>1, <1>3, <1>4, <1>5

LEMMA LeastOfTwo ==
  ASSUME NEW a \in Nat, NEW b \in Nat PROVE Min({a, b}) <= a /\ Min({a, b}) <= b
<1>1. \E x \in {a, b} : \A y \in {a, b} : x <= y
  <2>1. a <= b \/ b <= a
    OBVIOUS
  <2>2. QED
    BY <2>1
<1>2. QED
  BY <1>1 DEF Min

LEMMA FullKeepsEnough ==
  ASSUME NEW p \in Process, Process = {p} PROVE TypeInv /\ FullInv => KeepsEnough
<1> SUFFICES ASSUME TypeInv, FullInv PROVE KeepsEnough
  OBVIOUS
<1>1. CASE m_maxFiles = 0
  BY <1>1 DEF FullInv, KeepsEnough
<1>2. CASE m_maxFiles # 0 /\ ~maimed
  <2>1. /\ m_maxFiles \in Nat /\ m_maxFiles > 0 /\ Last = m_maxFiles - 1 /\ Last \in Nat
        /\ Number = 0 .. Last /\ Parts \in [0 .. Last -> Seq(Cell)] /\ Kept = Joined(Parts)
        /\ stored \in Seq(Record)
    BY <1>2, PartsAre DEF Last, TypeInv, Control, Renaming, Disk
  <2>2. Shape(p)
    BY <1>2, <2>1 DEF FullInv
  <2>3. m_maxFileSize \in Nat
    BY LogAssumption
  <2>4. PICK full, all : full = Last * m_maxFileSize /\ all = Len(stored)
    OBVIOUS
  <2>5. full \in Nat /\ all \in Nat
    BY <2>1, <2>3, <2>4
  <2>6. Min({all, full}) <= all /\ Min({all, full}) <= full
    BY <2>5, LeastOfTwo
  <2>7. Len(Kept) >= all \/ (Len(Kept) >= full /\ Len(Kept) \in Nat)
    <3>1. CASE Kept = stored
      BY <2>4, <2>5, <3>1
    <3>2. CASE Below(p, m_maxFiles)
      <4>1. PICK h, b, m : h = Hole(p) /\ b = Parts /\ m = Last
        OBVIOUS
      <4>2. h \in 0 .. m /\ (h # 0 => dir[0] # 0 /\ Full(0))
        <5>1. CASE \E t \in Thread : pc[p][t] = "rename"
          <6>1. PICK t \in Thread : pc[p][t] = "rename"
            BY <5>1
          <6>2. h = fileNumber[p] + 1 /\ fileNumber[p] \in -1 .. m_maxFiles - 2
            BY <4>1, <6>1 DEF Hole, TypeInv, Control, Renaming
          <6>3. h # 0 => fileNumber[p] >= 0
            BY <6>2
          <6>4. QED
            BY <2>1, <2>2, <4>1, <6>1, <6>2, <6>3, SMTT(30) DEF Shape, Rolls
        <5>2. CASE ~ \E t \in Thread : pc[p][t] = "rename"
          BY <2>1, <4>1, <5>2 DEF Hole
        <5>3. QED
          BY <5>1, <5>2
      <4>3. ASSUME NEW k \in 0 .. m, k # h PROVE Len(b[k]) >= m_maxFileSize
        <5>1. CASE k = 0
          BY <4>1, <4>2, <4>3, <5>1 DEF Full
        <5>2. CASE k # 0
          <6>1. k \in 1 .. m_maxFiles - 1 /\ k \in Number /\ k > 0
            BY <2>1, <4>1, <5>2
          <6>2. dir[k] # 0
            BY <3>2, <4>1, <4>3, <6>1 DEF Below
          <6>3. QED
            BY <2>2, <4>1, <6>1, <6>2 DEF Shape, Full
        <5>3. QED
          BY <5>1, <5>2
      <4>4. m \in Nat /\ b \in [0 .. m -> Seq(Cell)]
        BY <2>1, <4>1
      <4>5. Joined(b) \in Seq(Cell) /\ Len(Joined(b)) >= m * m_maxFileSize
        BY <2>3, <4>2, <4>3, <4>4, JoinedHolds
      <4>6. QED
        BY <2>1, <2>4, <4>1, <4>5
    <3>3. QED
      BY <2>2, <3>1, <3>2 DEF Shape
  <2>8. Len(Kept) \in Nat
    <3>1. PICK b, m : b = Parts /\ m = Last
      OBVIOUS
    <3>2. m \in Nat /\ b \in [0 .. m -> Seq(Cell)]
      BY <2>1, <3>1
    <3>3. PICK f : JoinsFrom(f, b, 0, m, Cell) /\ Joined(b) = f[0]
      BY <3>2, JoinedIs
    <3>4. f[0] \in Seq(Cell)
      BY <3>2, <3>3 DEF JoinsFrom
    <3>5. QED
      BY <2>1, <3>1, <3>3, <3>4
  <2>9. Min({all, full}) \in Nat
    <3>1. \E x \in {all, full} : \A y \in {all, full} : x <= y
      BY <2>5
    <3>2. Min({all, full}) \in {all, full}
      BY <3>1 DEF Min
    <3>3. QED
      BY <2>5, <3>2
  <2>10. Len(Kept) >= Min({all, full})
    BY <2>5, <2>6, <2>7, <2>8, <2>9
  <2>11. full = (m_maxFiles - 1) * m_maxFileSize
    BY <2>1, <2>4
  <2>12. QED
    BY <1>2, <2>4, <2>10, <2>11 DEF KeepsEnough
<1>3. QED
  BY <1>1, <1>2 DEF KeepsEnough

\* With one process, whatever the number of files: a log that is never renamed
\* keeps all that was written, whatever failed and however often the program
\* was killed and started since; and while nothing failed, a log of several
\* files loses nothing before all of them but one are full.
THEOREM EnoughCorrect ==
  ASSUME NEW p \in Process, Process = {p} PROVE Spec => []KeepsEnough
<1>1. Init => TypeInv /\ PlaceInv /\ FullInv
  BY InitKept
<1>2. TypeInv /\ PlaceInv /\ FullInv /\ [Next]_vars => TypeInv' /\ PlaceInv' /\ FullInv'
  BY NextTypes, NextPlace, NextFull
<1>3. TypeInv /\ FullInv => KeepsEnough
  BY FullKeepsEnough
<1>4. QED
  BY <1>1, <1>2, <1>3, PTL DEF Spec

\* The same log implements RecordLog, whatever failed and whenever the program
\* was killed: every step adds a record, or the part of it that was written, to
\* what was written and to what can be read back; or it takes the oldest records
\* from what can be read back; or, but only after a file could not be deleted or
\* renamed, it takes some others; or it does none of these.
THEOREM NewestCorrect ==
  ASSUME NEW p \in Process, Process = {p} PROVE Spec => KeepsNewest
<1>1. Init => TypeInv /\ PlaceInv /\ Newest!Init
  BY InitKept DEF Newest!Init, Init
<1>2. TypeInv /\ PlaceInv /\ [Next]_vars => TypeInv' /\ PlaceInv'
  BY NextTypes, NextPlace
<1>3. TypeInv /\ TypeInv' /\ PlaceInv /\ [Next]_vars => [Newest!Next]_(Newest!vars)
  <2>1. SUFFICES ASSUME KeptGrows \/ KeptDrops \/ KeptLacks
                 PROVE  Newest!Next \/ UNCHANGED Newest!vars
    BY NextKept
  <2>2. CASE stored' = stored /\ Kept' = Kept /\ (unmoved' # unmoved => unmoved' # 0)
    BY <2>2 DEF Newest!vars, Newest!Next, Newest!Stay
  <2>3. CASE /\ \E r \in Record : stored' = Append(stored, r) /\ Kept' = Append(Kept, r)
             /\ unmoved' = unmoved
    <3>1. PICK r \in Record : stored' = Append(stored, r) /\ Kept' = Append(Kept, r)
      BY <2>3
    <3>2. Newest!Write(r)
      BY <2>3, <3>1 DEF Newest!Write
    <3>3. QED
      BY <3>2 DEF Newest!Next
  <2>4. CASE KeptDrops
    <3>1. PICK n \in 1 .. Len(Kept) : Kept' = SubSeq(Kept, n + 1, Len(Kept))
      BY <2>4 DEF KeptDrops
    <3>2. Kept' = SubSeq(Kept, 1, 0) \o SubSeq(Kept, n + 1, Len(Kept))
      <4>1. PICK k, l : k = Kept' /\ l = Kept
        OBVIOUS
      <4>2. SubSeq(l, 1, 0) = <<>> /\ k = SubSeq(l, n + 1, Len(l))
        BY <3>1, <4>1, SubSeqEmpty
      <4>3. \A i \in n + 1 .. Len(l) : l[i] \in {l[h] : h \in n + 1 .. Len(l)}
        OBVIOUS
      <4>4. k \in Seq({l[h] : h \in n + 1 .. Len(l)})
        <5>1. n + 1 \in Int /\ Len(l) \in Int
          BY <3>1, <4>1
        <5>2. QED
          BY <4>2, <4>3, <5>1, SubSeqProperties
      <4>5. <<>> \o k = k
        BY <4>4, ConcatEmptySeq
      <4>6. QED
        BY <4>1, <4>2, <4>5, Zenon
    <3>3. Newest!Discard(0, n)
      BY <2>4, <3>2 DEF KeptDrops, Newest!Discard
    <3>4. 0 \in 0 .. Len(Kept) /\ 0 < n
      BY <3>1
    <3>5. QED
      BY <3>1, <3>3, <3>4 DEF Newest!Next
  <2>5. CASE KeptLacks
    <3>1. PICK i \in 0 .. Len(Kept), j \in 1 .. Len(Kept) :
            i < j /\ Kept' = Without(Kept, i, j)
      BY <2>5 DEF KeptLacks, Thinned
    <3>2. Newest!Discard(i, j)
      BY <2>5, <3>1 DEF KeptLacks, Without, Newest!Discard
    <3>3. QED
      BY <3>1, <3>2 DEF Newest!Next
  <2>6. QED
    BY <2>1, <2>2, <2>3, <2>4, <2>5 DEF KeptGrows
<1>4. QED
  BY <1>1, <1>2, <1>3, PTL DEF Spec, KeepsNewest, Newest!Spec

=============================================================================
