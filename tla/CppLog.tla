-------------------------------- MODULE CppLog --------------------------------
(***************************************************************************)
(* LogMsg of CppLog.cpp with the file operations of CppFile.cpp: a log     *)
(* file of limited size, and numbered older ones.  The mutex is one of     *)
(* the process, so the threads of a process are one actor here; several    *)
(* processes may log to the same file.  A message has size 1.              *)
(*                                                                         *)
(* A name that ends in _Faulty is a plausible bug in the definition that   *)
(* follows it, on which the properties are tried.                          *)
(***************************************************************************)
EXTENDS Integers, Sequences, FiniteSets

CONSTANTS
  Counts, Sizes,   \* values of mMaxFileCount and mMaxFileSize
  ProcessCounts,   \* how many processes log
  Half,            \* 2^31 of the code
  MaxMessages      \* bound: messages that the processes share

VARIABLES
  mMaxFileCount, mMaxFileSize, processes,
  names,     \* the directory: name -> file, or NoFile
  content,   \* file -> messages
  pc,        \* process -> where its LogMsg is
  number,    \* process -> i of the renaming loop
  opened,    \* process -> the file that AppendMsg has open
  logged     \* history: process -> messages that LogMsg was called with

vars == <<mMaxFileCount, mMaxFileSize, processes, names, content, pc, number, opened,
          logged>>

Current == -1     \* the name mLogFile; number i is mLogFile with i in it
NoFile == 0
MaxOf(S) == CHOOSE n \in S : \A m \in S : m <= n

Names == Current .. MaxOf(Counts)
Procs == 1 .. processes

Init ==
  /\ mMaxFileCount \in Counts /\ mMaxFileSize \in Sizes
  /\ processes \in ProcessCounts
  /\ names = [n \in Names |-> NoFile]
  /\ content = <<>>
  /\ pc = [p \in 1 .. MaxOf(ProcessCounts) |-> "idle"]
  /\ number = [p \in 1 .. MaxOf(ProcessCounts) |-> 0]
  /\ opened = [p \in 1 .. MaxOf(ProcessCounts) |-> NoFile]
  /\ logged = [p \in 1 .. MaxOf(ProcessCounts) |-> 0]

\* (int32_t)mMaxFileSize
Int32(n) == IF n >= Half THEN n - 2 * Half ELSE n

\* -1 when there is no file.
GetFileSize(n) == IF names[n] = NoFile THEN -1 ELSE Len(content[names[n]])

Full == mMaxFileSize > 0 /\ GetFileSize(Current) >= Int32(mMaxFileSize)

\* Up to the decision to rotate.  With a count of 0 nothing is kept.
LogMsg(p) ==
  /\ pc[p] = "idle" /\ logged[p] * processes < MaxMessages
  /\ logged' = [logged EXCEPT ![p] = @ + 1]
  /\ pc' = [pc EXCEPT ![p] = IF mMaxFileCount = 0 THEN "idle"
                             ELSE IF Full THEN "unlink" ELSE "open"]
  /\ UNCHANGED <<mMaxFileCount, mMaxFileSize, processes, names, content, number, opened>>

\* The loop starts at the oldest number, which it overwrites and keeps.
Unlink_Faulty(p) ==
  /\ pc[p] = "unlink"
  /\ number' = [number EXCEPT ![p] = mMaxFileCount - 1]
  /\ pc' = [pc EXCEPT ![p] = "rename"]
  /\ UNCHANGED <<mMaxFileCount, mMaxFileSize, processes, names, content, opened, logged>>

Unlink(p) ==
  /\ pc[p] = "unlink"
  /\ names' = [names EXCEPT ![mMaxFileCount - 1] = NoFile]
  /\ number' = [number EXCEPT ![p] = mMaxFileCount - 2]
  /\ pc' = [pc EXCEPT ![p] = "rename"]
  /\ UNCHANGED <<mMaxFileCount, mMaxFileSize, processes, content, opened, logged>>

Renamed(from, to) ==
  IF names[from] = NoFile THEN names
                          ELSE [names EXCEPT ![to] = names[from], ![from] = NoFile]

\* From the oldest number down, i is renamed to i + 1...
Rename(p) ==
  /\ pc[p] = "rename" /\ number[p] >= 1
  /\ names' = Renamed(number[p], number[p] + 1)
  /\ number' = [number EXCEPT ![p] = @ - 1]
  /\ UNCHANGED <<mMaxFileCount, mMaxFileSize, processes, content, pc, opened, logged>>

\* The log file always gets the oldest number.
RenameCurrent_Faulty(p) ==
  /\ pc[p] = "rename" /\ number[p] < 1
  /\ names' = Renamed(Current, mMaxFileCount - 1)
  /\ pc' = [pc EXCEPT ![p] = "open"]
  /\ UNCHANGED <<mMaxFileCount, mMaxFileSize, processes, content, number, opened, logged>>

\* ... and then the log file to the last name freed: 1, or 0 when only one file
\* is to be kept.
RenameCurrent(p) ==
  /\ pc[p] = "rename" /\ number[p] < 1
  /\ names' = Renamed(Current, IF mMaxFileCount = 1 THEN 0 ELSE 1)
  /\ pc' = [pc EXCEPT ![p] = "open"]
  /\ UNCHANGED <<mMaxFileCount, mMaxFileSize, processes, content, number, opened, logged>>

\* AppendMsg opens the log file, or makes it...
Open(p) ==
  /\ pc[p] = "open"
  /\ IF names[Current] = NoFile
       THEN /\ content' = Append(content, <<>>)
            /\ names' = [names EXCEPT ![Current] = Len(content) + 1]
       ELSE UNCHANGED <<content, names>>
  /\ opened' = [opened EXCEPT ![p] = names'[Current]]
  /\ pc' = [pc EXCEPT ![p] = "write"]
  /\ UNCHANGED <<mMaxFileCount, mMaxFileSize, processes, number, logged>>

\* The file is not opened to append.
Write_Faulty(p) ==
  /\ pc[p] = "write"
  /\ content' = [content EXCEPT ![opened[p]] = <<<<p, logged[p]>>>>]
  /\ opened' = [opened EXCEPT ![p] = NoFile]
  /\ pc' = [pc EXCEPT ![p] = "idle"]
  /\ UNCHANGED <<mMaxFileCount, mMaxFileSize, processes, names, number, logged>>

\* ... and writes to what it has opened, whatever its name is by then.
Write(p) ==
  /\ pc[p] = "write"
  /\ content' = [content EXCEPT ![opened[p]] = Append(@, <<p, logged[p]>>)]
  /\ opened' = [opened EXCEPT ![p] = NoFile]
  /\ pc' = [pc EXCEPT ![p] = "idle"]
  /\ UNCHANGED <<mMaxFileCount, mMaxFileSize, processes, names, number, logged>>

Next ==
  \E p \in Procs : \/ LogMsg(p) \/ Unlink(p) \/ Rename(p) \/ RenameCurrent(p)
                   \/ Open(p) \/ Write(p)

Spec == Init /\ [][Next]_vars

-----------------------------------------------------------------------------
(* Properties.                                                             *)

Present == {n \in Names : names[n] # NoFile}

\* What the files hold, the oldest first; the log file is the newest.
From[n \in Names] ==
  (IF n \in Present THEN content[names[n]] ELSE <<>>)
  \o (IF n = Current THEN <<>> ELSE From[n - 1])
Kept == From[MaxOf(Names)]

\* mMaxFileCount is the largest number of log files (CppLog.h:254).  The code keeps
\* two for a count of 1, the default: the file before the log file too.
CountKept == Cardinality(Present) <= mMaxFileCount

\* There are never more files than that for any other count, however the rotations of
\* several processes overlap.
FilesBounded == mMaxFileCount # 1 => CountKept

\* When one process logs, the files hold its newest messages, in order and without
\* a gap, and it has lost some only when all the files it may keep are there, the
\* older ones full: rotation loses nothing but the oldest file.  (A limit beyond the
\* int32_t that the size is compared with rotates at every message.)
KeepsNewest ==
  processes = 1 /\ pc[1] = "idle" /\ mMaxFileCount > 0 =>
    \E lost \in 0 .. logged[1] :
      /\ Kept = [i \in 1 .. logged[1] - lost |-> <<1, lost + i>>]
      /\ lost > 0 =>
           /\ Cardinality(Present) >= mMaxFileCount
           /\ mMaxFileSize < Half =>
                \A n \in Present \ {Current} : Len(content[names[n]]) = mMaxFileSize
=============================================================================
