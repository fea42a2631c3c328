------------------------------- MODULE LogFile -------------------------------
(***************************************************************************)
(* Log files (src/src/log): a line that a Logger has put together goes     *)
(* through a SyncLogger to a FileAppender and ends up in a file of at most *)
(* MaxSize bytes (FileUtil); a file without room for the next line is      *)
(* closed and replaced by one that is named after the current second and   *)
(* the process (LogFile::append and genFileName).                          *)
(*                                                                         *)
(* Files are opened with O_CREAT, but without O_APPEND, O_EXCL or O_TRUNC: *)
(* what is opened under the name of an existing file overwrites it from    *)
(* its start.  A process may end at any time and be started again; what    *)
(* write() has taken is in the file then.                                  *)
(*                                                                         *)
(* A line is its number, repeated as often as the line has bytes.          *)
(***************************************************************************)
EXTENDS Naturals, Sequences

CONSTANTS
  Logs,       \* the LogFile objects of a process
  Length,     \* the lines of all runs of the process, by their lengths
  StreamSize, \* LOGSTREAM_BUFFER_SIZE
  MaxSize,    \* LOGFILE_SIZE
  GivenName,  \* the name given to LogFile(std::string), if it is used
  MaxSecond,  \* bound: of the clock
  MaxRuns,    \* bound: starts of the process
  None

ASSUME LogFileAssumption ==
  /\ MaxSize \in Nat /\ StreamSize \in 1 .. MaxSize /\ Length \in Seq(Nat \ {0})
  /\ MaxSecond \in Nat /\ MaxRuns \in Nat \ {0}
  /\ None \notin Nat \cup Seq(Nat)

VARIABLES
  disk,      \* the contents of the files; the name of no file has None
  clock,     \* the current second
  run,       \* how often the process has been started: its pid
  next,      \* the next line to be logged
  pc,        \* where each LogFile is: "none" before its construction
  line,      \* the line a LogFile is appending, or None
  name,      \* m_name of its m_file
  written,   \* m_writtenBytes of its m_file, and the offset of its descriptor
  overlaid,  \* history: files opened again within their second, or by GivenName
  kept       \* history: the file that took all of a line

objectVars == <<pc, line, name, written>>
vars == <<disk, clock, run, next, objectVars, overlaid, kept>>

Lines == DOMAIN Length
Generated == (0 .. MaxSecond) \X (1 .. MaxRuns)
Names == Generated \cup {GivenName}

\* What the buffer of a LogStream takes of line i; the rest, the newline first
\* of all, is dropped.  A SyncLogger's buffer is larger.
Fitting(i) == IF Length[i] <= StreamSize THEN Length[i] ELSE StreamSize

Bytes(i, n) == [j \in 1 .. n |-> i]

\* The contents of a file after s has been written at an offset of it.
Overlay(old, at, s) ==
  SubSeq(old, 1, at) \o s \o SubSeq(old, at + Len(s) + 1, Len(old))

Init ==
  /\ disk = [f \in Names |-> None]
  /\ clock = 0 /\ run = 1 /\ next = 1
  /\ pc = [l \in Logs |-> "none"]
  /\ line = [l \in Logs |-> None]
  /\ name = [l \in Logs |-> None]
  /\ written = [l \in Logs |-> 0]
  /\ overlaid = {}
  /\ kept = [i \in Lines |-> None]

-----------------------------------------------------------------------------
\* Fault: the name is made from the time of the last update.
genFileName_NoUpdate(l) ==
  IF name[l] \in Generated THEN name[l] ELSE <<clock, run>>

\* The second (m_time.update()) and the pid.
genFileName(l) == <<clock, run>>

\* A new FileUtil, opened: its size starts from 0, also for a file that exists.
Open(l, f) ==
  /\ disk' = IF disk[f] = None THEN [disk EXCEPT ![f] = <<>>] ELSE disk
  /\ overlaid' = IF disk[f] # None /\ (f = GivenName \/ f = <<clock, run>>)
                 THEN overlaid \cup {f} ELSE overlaid
  /\ name' = [name EXCEPT ![l] = f]
  /\ written' = [written EXCEPT ![l] = 0]

Construct(l) ==
  /\ pc[l] = "none"
  /\ \E f \in {GivenName, genFileName(l)} : Open(l, f)
  /\ pc' = [pc EXCEPT ![l] = "idle"]
  /\ UNCHANGED <<clock, run, next, line, kept>>

\* The end of a Logger: SyncLogger::append and output, by the one thread that
\* uses this SyncLogger.  (AsyncLogger::threadFunc gives larger pieces.)
LogLine(l) ==
  /\ pc[l] = "idle"
  /\ next <= Len(Length)
  /\ next' = next + 1
  /\ line' = [line EXCEPT ![l] = next]
  /\ pc' = [pc EXCEPT ![l] = "write"]
  /\ UNCHANGED <<disk, clock, run, name, written, overlaid, kept>>

\* write() takes the first n bytes of the line; LogFile does not look at n.
WriteBytes(l, n) ==
  LET i == line[l]
  IN  /\ disk' = [disk EXCEPT ![name[l]] = Overlay(@, written[l], Bytes(i, n))]
      /\ written' = [written EXCEPT ![l] = @ + n]
      /\ kept' = IF n = Fitting(i) THEN [kept EXCEPT ![i] = name[l]] ELSE kept
      /\ line' = [line EXCEPT ![l] = None]
      /\ pc' = [pc EXCEPT ![l] = "idle"]

\* Fault: a file is full when it has reached its size (reachMaxSize).
HasRoom_Reached(l) == written[l] < MaxSize

HasRoom(l) == MaxSize - written[l] >= Fitting(line[l])

Write(l) ==
  /\ pc[l] = "write"
  /\ HasRoom(l)
  /\ \E n \in 1 .. Fitting(line[l]) : WriteBytes(l, n)
  /\ UNCHANGED <<clock, run, next, name, overlaid>>

\* FileUtil::write returns -1 without writing; the file is closed.
Close(l) ==
  /\ pc[l] = "write"
  /\ ~HasRoom(l)
  /\ pc' = [pc EXCEPT ![l] = "open"]
  /\ UNCHANGED <<disk, clock, run, next, line, name, written, overlaid, kept>>

\* genFileName reads the clock and open() follows in the same step: a second
\* that begins between the two changes nothing but when the file appears.
Roll(l) ==
  /\ pc[l] = "open"
  /\ Open(l, genFileName(l))
  /\ pc' = [pc EXCEPT ![l] = "write"]
  /\ UNCHANGED <<clock, run, next, line, kept>>

-----------------------------------------------------------------------------
Tick ==
  /\ clock < MaxSecond
  /\ clock' = clock + 1
  /\ UNCHANGED <<disk, run, next, objectVars, overlaid, kept>>

\* The process ends, on its own, by a signal, or in the abort() that follows a
\* write or an open that fails, and is started again.
Restart ==
  /\ run < MaxRuns
  /\ run' = run + 1
  /\ pc' = [l \in Logs |-> "none"]
  /\ line' = [l \in Logs |-> None]
  /\ name' = [l \in Logs |-> None]
  /\ written' = [l \in Logs |-> 0]
  /\ UNCHANGED <<disk, clock, next, overlaid, kept>>

Next ==
  \/ \E l \in Logs : Construct(l) \/ LogLine(l) \/ Write(l) \/ Close(l) \/ Roll(l)
  \/ Tick \/ Restart

Spec == Init /\ [][Next]_vars

-----------------------------------------------------------------------------
\* The state is well formed; in particular no file has more than MaxSize bytes,
\* whether it is opened once or again.  (FileUtil.h:25 says of write() that it
\* "may exceed MAX_SIZE"; the code refuses what does not fit, FileUtil.cpp:52.)
TypeOK ==
  /\ \A f \in Names : disk[f] # None => disk[f] \in Seq(Lines) /\ Len(disk[f]) <= MaxSize
  /\ clock \in 0 .. MaxSecond /\ run \in 1 .. MaxRuns /\ next \in 1 .. Len(Length) + 1
  /\ pc \in [Logs -> {"none", "idle", "write", "open"}]
  /\ line \in [Logs -> Lines \cup {None}]
  /\ \A l \in Logs : line[l] # None <=> pc[l] \in {"write", "open"}
  /\ name \in [Logs -> Names \cup {None}]
  /\ \A l \in Logs : pc[l] # "none" => written[l] <= Len(disk[name[l]])
  /\ written \in [Logs -> 0 .. MaxSize]
  /\ overlaid \subseteq Names

\* A line that write() has taken whole stays in its file as one piece and in
\* the order of the lines, through rolls, restarts and whatever other loggers
\* do, unless the file has been opened again: within the second it is named
\* after, or because its name was given.
LinesAreKept ==
  \A i \in Lines :
    kept[i] # None /\ kept[i] \notin overlaid =>
      LET d == disk[kept[i]]
          n == Fitting(i)
      IN  /\ \E j \in 0 .. Len(d) - n : SubSeq(d, j + 1, j + n) = Bytes(i, n)
          /\ \A j, k \in DOMAIN d : j < k => d[j] <= d[k]
=============================================================================
