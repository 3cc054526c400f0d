----------------------------- MODULE RollingLog -----------------------------
(***************************************************************************)
(* plog's rolling file appender: the threads of one or several processes   *)
(* write records to one log file, which is renamed when it has grown too   *)
(* large.  A file on disk is a sequence of cells, one per record and one   *)
(* for the header; a process writes at its own offset (the file is not     *)
(* opened for appending), and the mutex is its own too.                    *)
(*                                                                         *)
(* A process can be killed between any two system calls and start again,   *)
(* and every call can fail, a write in part too: the appender ignores it.  *)
(***************************************************************************)
EXTENDS Integers, Sequences, FiniteSetsExt

CONSTANTS Process, Thread,
          Limits,          \* numbers of files that the logger may be given
          m_maxFileSize,
          MaxRecords,      \* bound: records of one thread
          MaxKills,        \* bound: processes killed
          MaxFaults        \* bound: system calls that fail

ASSUME LogAssumption ==
  /\ Limits \subseteq Nat /\ m_maxFileSize \in Nat \ {0}
  /\ MaxRecords \in Nat /\ MaxKills \in Nat /\ MaxFaults \in Nat
  /\ "free" \notin Thread

VARIABLES
  m_maxFiles,   \* 0 in both programs: the log is never renamed
  disk,         \* the contents of every file ever created
  dir,          \* per file number: its place in disk, 0 if there is none
  m_file,       \* per process: place in disk of the file it has open, or -1
  offset,       \* per process: where it writes next
  m_fileSize,   \* per process: what it takes the size for, or -1
  m_firstWrite, \* per process
  m_mutex,      \* per process: the thread that holds it, or "free"
  pc,           \* per process and thread
  fileNumber,   \* per process: the loop variable of rollLogFiles
  begun,        \* per process and thread: records begun
  kills, faults,
  \* History variables.
  stored,       \* records written, in order
  maimed,       \* whether a system call failed or a process was killed
  unmoved       \* files that could not be deleted or renamed

files == <<disk, dir>>
appender == <<m_file, offset, m_fileSize, m_firstWrite, m_mutex, fileNumber>>
vars == <<m_maxFiles, files, appender, pc, begun, kills, faults, stored, maimed,
          unmoved>>

\* A record that the disk had no room for is on it in part.  Nobody asks how
\* much of the header there is.
Record == [by : Process, thread : Thread, n : 1 .. MaxRecords, whole : BOOLEAN]
Header == [by |-> "plog", thread |-> "plog", n |-> 0, whole |-> TRUE]
Number == 0 .. (IF m_maxFiles = 0 THEN 0 ELSE m_maxFiles - 1)

Goto(p, t, l) == pc' = [pc EXCEPT ![p][t] = l]

Init ==
  /\ m_maxFiles \in Limits
  /\ disk = <<>>
  /\ dir = [k \in Number |-> 0]
  /\ m_file = [p \in Process |-> -1]
  /\ offset = [p \in Process |-> 0]
  /\ m_fileSize = [p \in Process |-> 0]
  /\ m_firstWrite = [p \in Process |-> TRUE]
  /\ m_mutex = [p \in Process |-> "free"]
  /\ pc = [p \in Process |-> [t \in Thread |-> "idle"]]
  /\ fileNumber = [p \in Process |-> 0]
  /\ begun = [p \in Process |-> [t \in Thread |-> 0]]
  /\ kills = 0 /\ faults = 0 /\ maimed = FALSE /\ unmoved = 0
  /\ stored = <<>>

-----------------------------------------------------------------------------
(* What the appender is built from.                                        *)

Acquire(p, t) == m_mutex[p] = "free" /\ m_mutex' = [m_mutex EXCEPT ![p] = t]
Release(p) == m_mutex' = [m_mutex EXCEPT ![p] = "free"]

\* Files are deleted and renamed by name; one that does not exist is no matter.
File_unlink(n) == dir' = [dir EXCEPT ![n] = 0]
File_rename(n, k) ==
  dir' = IF dir[n] = 0 THEN dir ELSE [dir EXCEPT ![k] = dir[n], ![n] = 0]

-----------------------------------------------------------------------------
(* write().                                                                *)

\* Which way a write goes depends on what the thread finds under the mutex; a
\* size of -1 is never too large.
Way_OneTooLate(p) ==
  IF m_firstWrite[p] THEN "open"
  ELSE IF m_maxFiles > 0 /\ m_fileSize[p] > m_maxFileSize + 1 THEN "close"
  ELSE "write"
Way(p) ==
  IF m_firstWrite[p] THEN "open"
  ELSE IF m_maxFiles > 0 /\ m_fileSize[p] > m_maxFileSize THEN "close"
  ELSE "write"

Lock_NoMutex(p, t) ==
  /\ pc[p][t] = "idle"
  /\ begun[p][t] < MaxRecords
  /\ begun' = [begun EXCEPT ![p][t] = @ + 1]
  /\ Goto(p, t, Way(p))
  /\ UNCHANGED <<m_maxFiles, files, appender, kills, faults, stored, maimed, unmoved>>
Lock(p, t) ==
  /\ pc[p][t] = "idle"
  /\ begun[p][t] < MaxRecords
  /\ Acquire(p, t)
  /\ begun' = [begun EXCEPT ![p][t] = @ + 1]
  /\ Goto(p, t, Way(p))
  /\ UNCHANGED <<m_maxFiles, files, m_file, offset, m_fileSize, m_firstWrite,
                 fileNumber, kills, faults, stored, maimed, unmoved>>

\* rollLogFiles: the file is closed, the last one deleted, and each of the
\* others takes the number of the next.
Close(p, t) ==
  /\ pc[p][t] = "close"
  /\ m_file' = [m_file EXCEPT ![p] = -1]
  /\ Goto(p, t, "unlink")
  /\ UNCHANGED <<m_maxFiles, files, offset, m_fileSize, m_firstWrite, m_mutex,
                 fileNumber, begun, kills, faults, stored, maimed, unmoved>>

Unlink(p, t) ==
  /\ pc[p][t] = "unlink"
  /\ File_unlink(m_maxFiles - 1)
  /\ fileNumber' = [fileNumber EXCEPT ![p] = m_maxFiles - 2]
  /\ Goto(p, t, "rename")
  /\ UNCHANGED <<m_maxFiles, disk, m_file, offset, m_fileSize, m_firstWrite,
                 m_mutex, begun, kills, faults, stored, maimed, unmoved>>

Rename_Upwards(p, t) ==
  LET n == m_maxFiles - 2 - fileNumber[p] IN
  /\ pc[p][t] = "rename"
  /\ fileNumber[p] >= 0
  /\ File_rename(n, n + 1)
  /\ fileNumber' = [fileNumber EXCEPT ![p] = @ - 1]
  /\ UNCHANGED <<m_maxFiles, disk, m_file, offset, m_fileSize, m_firstWrite,
                 m_mutex, pc, begun, kills, faults, stored, maimed, unmoved>>
Rename(p, t) ==
  LET n == fileNumber[p] IN
  /\ pc[p][t] = "rename"
  /\ n >= 0
  /\ File_rename(n, n + 1)
  /\ fileNumber' = [fileNumber EXCEPT ![p] = n - 1]
  /\ UNCHANGED <<m_maxFiles, disk, m_file, offset, m_fileSize, m_firstWrite,
                 m_mutex, pc, begun, kills, faults, stored, maimed, unmoved>>

\* A file that cannot be deleted or renamed stays, and the appender goes on.
Unmoved ==
  /\ faults < MaxFaults
  /\ faults' = faults + 1
  /\ maimed' = TRUE
  /\ unmoved' = unmoved + 1

UnlinkFails(p, t) ==
  /\ pc[p][t] = "unlink"
  /\ dir[m_maxFiles - 1] # 0
  /\ Unmoved
  /\ fileNumber' = [fileNumber EXCEPT ![p] = m_maxFiles - 2]
  /\ Goto(p, t, "rename")
  /\ UNCHANGED <<m_maxFiles, files, m_file, offset, m_fileSize, m_firstWrite,
                 m_mutex, begun, kills, stored>>

RenameFails(p, t) ==
  /\ pc[p][t] = "rename"
  /\ fileNumber[p] >= 0
  /\ dir[fileNumber[p]] # 0
  /\ Unmoved
  /\ fileNumber' = [fileNumber EXCEPT ![p] = @ - 1]
  /\ UNCHANGED <<m_maxFiles, files, m_file, offset, m_fileSize, m_firstWrite,
                 m_mutex, pc, begun, kills, stored>>

Rolled(p, t) ==
  /\ pc[p][t] = "rename"
  /\ fileNumber[p] < 0
  /\ Goto(p, t, "open")
  /\ UNCHANGED <<m_maxFiles, files, appender, begun, kills, faults, stored,
                 maimed, unmoved>>

\* openLogFile: file 0 is opened or created, and written to from its end.
Open_FromStart(p, t) ==
  /\ pc[p][t] = "open"
  /\ IF dir[0] = 0
     THEN disk' = Append(disk, <<>>) /\ dir' = [dir EXCEPT ![0] = Len(disk')]
     ELSE UNCHANGED files
  /\ m_file' = [m_file EXCEPT ![p] = dir'[0]]
  /\ offset' = [offset EXCEPT ![p] = 0]
  /\ m_fileSize' = [m_fileSize EXCEPT ![p] = offset'[p]]
  /\ m_firstWrite' = [m_firstWrite EXCEPT ![p] = FALSE]
  /\ Goto(p, t, IF offset'[p] = 0 THEN "header" ELSE "write")
  /\ UNCHANGED <<m_maxFiles, m_mutex, fileNumber, begun, kills, faults,
                 stored, maimed, unmoved>>
Open(p, t) ==
  /\ pc[p][t] = "open"
  /\ IF dir[0] = 0
     THEN disk' = Append(disk, <<>>) /\ dir' = [dir EXCEPT ![0] = Len(disk')]
     ELSE UNCHANGED files
  /\ m_file' = [m_file EXCEPT ![p] = dir'[0]]
  /\ offset' = [offset EXCEPT ![p] = Len(disk'[dir'[0]])]
  /\ m_fileSize' = [m_fileSize EXCEPT ![p] = offset'[p]]
  /\ m_firstWrite' = [m_firstWrite EXCEPT ![p] = FALSE]
  /\ Goto(p, t, IF offset'[p] = 0 THEN "header" ELSE "write")
  /\ UNCHANGED <<m_maxFiles, m_mutex, fileNumber, begun, kills, faults,
                 stored, maimed, unmoved>>

\* It fails: nothing is written from then on, and nothing said about it.
OpenFails(p, t) ==
  /\ pc[p][t] = "open"
  /\ faults < MaxFaults
  /\ faults' = faults + 1
  /\ maimed' = TRUE
  /\ m_file' = [m_file EXCEPT ![p] = -1]
  /\ m_fileSize' = [m_fileSize EXCEPT ![p] = -1]
  /\ m_firstWrite' = [m_firstWrite EXCEPT ![p] = FALSE]
  /\ Goto(p, t, "write")
  /\ UNCHANGED <<m_maxFiles, files, offset, m_mutex, fileNumber, begun, kills,
                 stored, unmoved>>

\* File::write: one cell at the offset of p, over whatever is there.
Put(p, cell) ==
  LET f == disk[m_file[p]] IN
  /\ disk' = [disk EXCEPT ![m_file[p]] =
                IF offset[p] = Len(f) THEN Append(f, cell)
                ELSE [f EXCEPT ![offset[p] + 1] = cell]]
  /\ offset' = [offset EXCEPT ![p] = @ + 1]
  /\ m_fileSize' = [m_fileSize EXCEPT ![p] = @ + 1]

WriteHeader(p, t) ==
  /\ pc[p][t] = "header"
  /\ Put(p, Header)
  /\ Goto(p, t, "write")
  /\ UNCHANGED <<m_maxFiles, dir, m_file, m_firstWrite, m_mutex, fileNumber,
                 begun, kills, faults, stored, maimed, unmoved>>

\* The record is written, or there is no file; the mutex is released.
RecordOf(p, t, whole) ==
  [by |-> p, thread |-> t, n |-> begun[p][t], whole |-> whole]
PutRecord(p, t, whole) ==
  /\ Put(p, RecordOf(p, t, whole))
  /\ stored' = Append(stored, RecordOf(p, t, whole))
Done(p, t) == Release(p) /\ Goto(p, t, "idle")

WriteRecord(p, t) ==
  /\ pc[p][t] = "write"
  /\ IF m_file[p] = -1
     THEN UNCHANGED <<disk, offset, m_fileSize, stored>>
     ELSE PutRecord(p, t, TRUE)
  /\ Done(p, t)
  /\ UNCHANGED <<m_maxFiles, dir, m_file, m_firstWrite, fileNumber, begun,
                 kills, faults, maimed, unmoved>>

\* The disk is full: only a part of the record is written, or nothing.
WriteShort(p, t) ==
  /\ pc[p][t] = "write" /\ m_file[p] # -1
  /\ faults < MaxFaults
  /\ faults' = faults + 1
  /\ maimed' = TRUE
  /\ PutRecord(p, t, FALSE)
  /\ Done(p, t)
  /\ UNCHANGED <<m_maxFiles, dir, m_file, m_firstWrite, fileNumber, begun,
                 kills, unmoved>>
WriteFails(p, t) ==
  /\ pc[p][t] \in {"header", "write"}
  /\ faults < MaxFaults
  /\ faults' = faults + 1
  /\ maimed' = TRUE
  /\ IF pc[p][t] = "header"
     THEN Goto(p, t, "write") /\ UNCHANGED m_mutex
     ELSE Done(p, t)
  /\ UNCHANGED <<m_maxFiles, files, m_file, offset, m_fileSize, m_firstWrite,
                 fileNumber, begun, kills, stored, unmoved>>

\* The process is killed and started again: a new appender.
Kill(p) ==
  /\ kills < MaxKills
  /\ kills' = kills + 1
  /\ maimed' = TRUE
  /\ m_file' = [m_file EXCEPT ![p] = -1]
  /\ offset' = [offset EXCEPT ![p] = 0]
  /\ m_fileSize' = [m_fileSize EXCEPT ![p] = 0]
  /\ m_firstWrite' = [m_firstWrite EXCEPT ![p] = TRUE]
  /\ m_mutex' = [m_mutex EXCEPT ![p] = "free"]
  /\ fileNumber' = [fileNumber EXCEPT ![p] = 0]
  /\ pc' = [pc EXCEPT ![p] = [t \in Thread |-> "idle"]]
  /\ UNCHANGED <<m_maxFiles, files, begun, faults, stored, unmoved>>

Next ==
  \E p \in Process :
    \/ \E t \in Thread :
         \/ Lock(p, t) \/ Close(p, t) \/ Unlink(p, t) \/ UnlinkFails(p, t)
         \/ Rename(p, t) \/ RenameFails(p, t) \/ Rolled(p, t)
         \/ Open(p, t) \/ OpenFails(p, t) \/ WriteHeader(p, t)
         \/ WriteRecord(p, t) \/ WriteShort(p, t) \/ WriteFails(p, t)
    \/ Kill(p)

Spec == Init /\ [][Next]_vars

-----------------------------------------------------------------------------
(* Properties.                                                             *)

\* The records of file k: all of it but a header at its beginning.  What can be
\* read back, oldest file first.
Records(k) ==
  IF dir[k] = 0 THEN <<>>
  ELSE LET f == disk[dir[k]] IN IF f # <<>> /\ f[1] = Header THEN Tail(f) ELSE f
Joined(b) ==
  LET from[k \in DOMAIN b] == IF k + 1 \in DOMAIN b THEN from[k + 1] \o b[k] ELSE b[k]
  IN from[0]
Kept == Joined([k \in Number |-> Records(k)])

Cell == Record \cup {Header}

\* Every variable has its type; only the holder of the mutex is under way.
TypeOK ==
  /\ \A i \in DOMAIN disk : \A j \in DOMAIN disk[i] :
       disk[i][j] # Header => disk[i][j] \in Record
  /\ dir \in [Number -> 0 .. Len(disk)]
  /\ m_file \in [Process -> {-1} \cup 1 .. Len(disk)]
  /\ \A p \in Process : m_file[p] # -1 => offset[p] \in 0 .. Len(disk[m_file[p]])
  /\ \A p \in Process : m_fileSize[p] \in {-1, offset[p]} \cup
                          (IF m_file[p] = -1 THEN Int ELSE {})
  /\ m_firstWrite \in [Process -> BOOLEAN]
  /\ \A p \in Process, t \in Thread : pc[p][t] # "idle" <=> m_mutex[p] = t

\* One process: the log implements a log that keeps the newest records, in part
\* those that the disk had no room for, wherever between unlink, rename, open and
\* write it is killed.  Only after a file could not be deleted or renamed may the
\* next one replace it, and the records go that were in it.
Newest == INSTANCE RecordLog WITH kept <- Kept, sound <- (unmoved = 0)
KeepsNewest == Newest!Spec

\* A file outgrows the limit by one record, by one more for every time the
\* program was killed, as its first write after a start does not look at the
\* size, and by one more for every file that could not be deleted or renamed:
\* it may be file 0, which is then written to again.
SizeBounded ==
  m_maxFiles > 0 =>
    \A i \in DOMAIN disk : Len(disk[i]) <= m_maxFileSize + 1 + kills + unmoved

\* "stores them into the log": where the log is never renamed, all that was
\* written can be read back, whatever failed and however often the program has
\* been killed and started since.  Otherwise nothing is discarded before all but
\* one of the files are full.
KeepsEnough ==
  IF m_maxFiles = 0 THEN Kept = stored
  ELSE ~maimed => Len(Kept) >= Min({Len(stored), (m_maxFiles - 1) * m_maxFileSize})

=============================================================================
