----------------------------- MODULE AsyncLogger -----------------------------
(***************************************************************************)
(* AsyncLogger (src/src/log/Log.cpp) for one logging thread: append copies *)
(* a log line into the thread's ring (RingBuffer.tla) until it believes    *)
(* the whole line is in; threadFunc empties the ring into a buffer of its  *)
(* own and gives that to the appender when it is filled enough or old      *)
(* enough; stop() makes it take what is left and end.                      *)
(*                                                                         *)
(* Time is counted in half seconds: enough to tell the difference of two   *)
(* truncated seconds, which is what Time::distance_from_now_sec returns,   *)
(* from the time that has passed.                                          *)
(***************************************************************************)
EXTENDS RingBuffer

CONSTANTS
  Messages,    \* the log lines of the thread, each a sequence of bytes
  BufferSize,  \* threadFunc's buffer_size, highWaterMark and lowWaterMark
  HighWater,
  LowWater

ASSUME LoggerAssumption ==
  /\ Messages \in Seq(Seq(Bytes) \ {<<>>})
  /\ {BufferSize, HighWater, LowWater} \subseteq Nat
  /\ LowWater <= HighWater /\ HighWater < BufferSize

VARIABLES
  lpc,       \* the logging thread: "idle" or "append"
  next,      \* the line it logs now or next
  remain,    \* AsyncLogger::append's remain
  running,   \* m_running
  tpc,       \* where threadFunc is
  draining,  \* threadFunc has left its while loop
  written,   \* how much of what was retrieved the appender has got
  since,     \* half seconds since the start of the second of `time'
  heldFor,   \* half seconds since the first byte now held was retrieved
  polled,    \* the flush condition was evaluated since the clock moved
  partial,   \* history: a short append has left a part of a line in the ring
  atStop,    \* history: the bytes accepted when stop() was called
  linesAtStop \* history: the lines whose append had returned then

threadVars == <<tpc, draining, written, since, heldFor, polled>>
logVars == <<lpc, next, remain, partial>>
historyVars == <<atStop, linesAtStop>>
vars == <<ringVars, logVars, running, threadVars, historyVars>>

\* Beyond seven half seconds only their parity matters.
Clock == 0 .. 7

Held == Len(rdata) - written

Init ==
  /\ RingInit
  /\ lpc = "idle" /\ next = 1 /\ remain = 0 /\ partial = FALSE
  /\ running = TRUE /\ atStop = 0 /\ linesAtStop = 0
  /\ tpc = "top" /\ draining = FALSE /\ written = 0
  /\ since \in {0, 1} /\ heldFor = 0 /\ polled = FALSE

-----------------------------------------------------------------------------
\* The logging thread.

\* The thread's ring is in m_bufferMap already: its first line has put it there,
\* in a step that this model does not have (Log.cpp:84-89).
BeginLog ==
  /\ lpc = "idle"
  /\ next <= Len(Messages)
  /\ StartAppend(Messages[next])
  /\ remain' = Len(Messages[next])
  /\ lpc' = "append"
  /\ UNCHANGED <<next, partial, running, threadVars, historyVars>>

\* Fault: a short append is taken for a complete one.
AppendReturns_NoRetry ==
  /\ lpc = "append"
  /\ wpc = "idle"
  /\ remain' = 0
  /\ lpc' = "idle"
  /\ next' = next + 1
  /\ UNCHANGED <<ringVars, running, threadVars, historyVars, partial>>

\* A short append is followed by one of the whole line, not of its rest.
AppendReturns ==
  /\ lpc = "append"
  /\ wpc = "idle"
  /\ remain' = remain - nWritten
  /\ IF remain' > 0
     THEN /\ StartAppend(Messages[next])
          /\ partial' = (partial \/ nWritten > 0)
          /\ UNCHANGED <<lpc, next>>
     ELSE /\ lpc' = "idle"
          /\ next' = next + 1
          /\ UNCHANGED <<ringVars, partial>>
  /\ UNCHANGED <<running, threadVars, historyVars>>

AppendStep ==
  /\ WriterStep
  /\ UNCHANGED <<logVars, running, threadVars, historyVars>>

\* stop(), called once by the thread that destroys the logger; it then joins.
Stop ==
  /\ running
  /\ running' = FALSE
  /\ atStop' = Len(appended)
  /\ linesAtStop' = next - 1
  /\ UNCHANGED <<ringVars, logVars, threadVars>>

-----------------------------------------------------------------------------
\* threadFunc.

\* Fault: the rest is not taken from the ring after the loop.
TestRunning_NoDrain ==
  /\ tpc = "top"
  /\ tpc' = IF running THEN "ring" ELSE "final"
  /\ draining' = ~running
  /\ UNCHANGED <<ringVars, logVars, running, written, since, heldFor, polled, historyVars>>

\* Fault: m_running is not looked at.
TestRunning_Deaf ==
  /\ tpc = "top"
  /\ tpc' = "ring"
  /\ UNCHANGED <<ringVars, logVars, running, draining, written, since, heldFor, polled, historyVars>>

TestRunning ==
  /\ tpc = "top"
  /\ tpc' = "ring"
  /\ draining' = ~running
  /\ UNCHANGED <<ringVars, logVars, running, written, since, heldFor, polled, historyVars>>

\* Fault: a buffer filled up to the mark is neither added to nor given away.
TakeFromRing_UpToMark ==
  /\ tpc = "ring"
  /\ ~empty
  /\ StartRetrive(HighWater - Held)
  /\ tpc' = "take"
  /\ UNCHANGED <<logVars, running, draining, written, since, heldFor, polled, historyVars>>

TakeFromRing ==
  /\ tpc = "ring"
  /\ ~empty
  /\ StartRetrive(BufferSize - Held)
  /\ tpc' = "take"
  /\ UNCHANGED <<logVars, running, draining, written, since, heldFor, polled, historyVars>>

RingEmpty ==
  /\ tpc = "ring"
  /\ empty
  /\ tpc' = IF draining THEN "final" ELSE "low"
  /\ UNCHANGED <<ringVars, logVars, running, draining, written, since, heldFor, polled, historyVars>>

RetriveStep ==
  /\ ReaderStep
  /\ heldFor' = IF Held = 0 THEN 0 ELSE heldFor
  /\ UNCHANGED <<logVars, running, tpc, draining, written, since, polled, historyVars>>

\* Fault: the buffer is given away without being emptied when it is full.
Taken_NoFlush ==
  /\ tpc = "take"
  /\ rpc = "idle"
  /\ tpc' = "ring"
  /\ UNCHANGED <<ringVars, logVars, running, draining, written, since, heldFor, polled, historyVars>>

Taken ==
  /\ tpc = "take"
  /\ rpc = "idle"
  /\ written' = IF Held > HighWater THEN Len(rdata) ELSE written
  /\ tpc' = "ring"
  /\ UNCHANGED <<ringVars, logVars, running, draining, since, heldFor, polled, historyVars>>

\* Fault: time is updated although nothing is written.
FlushIfDue_Early ==
  LET due == Held > LowWater \/ since \div 2 > 2
  IN  /\ tpc = "low"
      /\ written' = IF due THEN Len(rdata) ELSE written
      /\ since' = since % 2
      /\ polled' = TRUE
      /\ tpc' = "top"
      /\ UNCHANGED <<ringVars, logVars, running, draining, heldFor, historyVars>>

FlushIfDue ==
  LET due == Held > LowWater \/ since \div 2 > 2
  IN  /\ tpc = "low"
      /\ written' = IF due THEN Len(rdata) ELSE written
      /\ since' = IF due THEN since % 2 ELSE since
      /\ polled' = TRUE
      /\ tpc' = "top"
      /\ UNCHANGED <<ringVars, logVars, running, draining, heldFor, historyVars>>

FinalFlush ==
  /\ tpc = "final"
  /\ written' = Len(rdata)
  /\ tpc' = "done"
  /\ UNCHANGED <<ringVars, logVars, running, draining, since, heldFor, polled, historyVars>>

\* threadFunc spins, so that an iteration fits in any half second.
Tick ==
  /\ polled
  /\ since' = IF since = 7 THEN 6 ELSE since + 1
  /\ heldFor' = Least(heldFor + 1, 7)
  /\ polled' = FALSE
  /\ UNCHANGED <<ringVars, logVars, running, tpc, draining, written, historyVars>>

-----------------------------------------------------------------------------
LoggingStep == BeginLog \/ AppendReturns \/ AppendStep

ThreadStep ==
  \/ TestRunning \/ TakeFromRing \/ RingEmpty \/ RetriveStep \/ Taken
  \/ FlushIfDue \/ FinalFlush

Next == LoggingStep \/ Stop \/ ThreadStep \/ Tick

Spec == Init /\ [][Next]_vars

\* The thread runs, an append that has begun goes on, the clock moves.  That
\* anything is logged, or stop() called, is not assumed.
FairSpec ==
  /\ Spec
  /\ WF_vars(ThreadStep) /\ WF_vars(AppendReturns \/ AppendStep) /\ WF_vars(Tick)

-----------------------------------------------------------------------------
\* The state is well formed; in particular threadFunc never asks the ring for
\* more than its buffer can take, or for nothing.
TypeOK ==
  /\ RingTypeOK
  /\ lpc \in {"idle", "append"}
  /\ next \in 1 .. Len(Messages) + 1
  /\ remain \in Int
  /\ running \in BOOLEAN /\ draining \in BOOLEAN /\ polled \in BOOLEAN /\ partial \in BOOLEAN
  /\ tpc \in {"top", "ring", "take", "low", "final", "done"}
  /\ Held \in 0 .. BufferSize
  /\ tpc \in {"top", "ring"} => Held < BufferSize
  /\ since \in Clock /\ heldFor \in Clock
  /\ atStop \in Nat /\ linesAtStop \in Nat

SeqExt == INSTANCE SequencesExt

\* Unless a line met a ring that had room for only a part of it, a line whose
\* append has returned is in the ring, and threadFunc takes the lines as they
\* were logged: nothing lost, doubled or reordered.
LinesInOrder ==
  ~partial /\ ~overrun =>
    /\ SeqExt!IsPrefix(SeqExt!FlattenSeq(SubSeq(Messages, 1, next - 1)), appended)
    /\ SeqExt!IsPrefix(rdata, SeqExt!FlattenSeq(Messages))

\* When threadFunc has ended, what the ring had accepted before stop() was
\* called is written (the drain behind the loop, Log.cpp:135).
DrainTakesAll == tpc = "done" /\ ~overrun => written >= atStop

\* No byte stays in threadFunc's buffer for more than three seconds: one more
\* than the comment of Log.cpp:127 has it, because two truncated seconds must
\* differ by more than two.
HeldAtMostThreeSeconds == Held > 0 => heldFor <= 6

\* A byte the ring has accepted is written, whether or not more is logged.
EventuallyWritten ==
  \A n \in 1 .. Len(SeqExt!FlattenSeq(Messages)) :
    Len(appended) >= n /\ running ~> written >= n \/ overrun

\* stop() joins a thread that ends.
StopReturns == ~running ~> tpc = "done"

\* A logging thread whose ring is full gets room for its line, as long as
\* threadFunc empties the rings; after stop() it may spin for ever.
AppendEnds == lpc = "append" ~> lpc = "idle" \/ ~running \/ overrun

\* "write out remaining logs" (Log.cpp:135): each line whose append returned
\* before stop() is in the output, whole.
RemainingLinesWritten ==
  tpc = "done" /\ ~overrun =>
    \A i \in 1 .. linesAtStop :
      \E j \in 0 .. written :
        SeqExt!IsPrefix(Messages[i], SubSeq(rdata, j + 1, written))
=============================================================================
