# A verification development for GenericServer

GenericServer is a small reactor library in C++: event loops on epoll, a pool
of loop threads, a timing wheel, an asynchronous logger with a lock-free ring,
and on top of these TCP servers, connections and clients.  This directory holds
TLA+ models of its parts that are hard to test, TLC configurations that check
them on small instances, and proofs checked by TLAPS.  Paths below are those of
`PROJECT.json`, without the leading `src/`.

## 1. Inventory

| Component | State | Operations | Interacts with |
|---|---|---|---|
| `EventLoop` (src/reactor) | m_threadId, m_quit, m_activeEvents, m_pending and its mutex, eventfd, poller, timer | loop, doPending, runInLoop, addEvent, modifyEvent, removeEvent, addTimer, wakeup, quit | any thread posts functors; the loop thread runs them and the handlers of events |
| `EventLoopThread`, `EventLoopThreadPool` | std::thread, m_nextLoop | start, stop, join, getNextLoop | build loops in the caller's thread, run them in their own |
| `Event`, `EPollPoller` | m_events, m_revents, m_polling; the epoll set | enableWrite, handleEvent, close; poll, register, modify, remove | loop, connection, acceptor, connector |
| `SysTimer`, `TimingWheel`, `TimerEntry` | timerfd; m_cur, m_slots; m_round, m_disabled, m_repeat | handleRead, tick, add, disable | driven by the loop; callbacks add timers |
| `RingBuffer` (src/log) | m_buf, atomic m_in and m_out | append, retrive | one logging thread and the logger's thread |
| `AsyncLogger` | m_bufferMap, m_running, thread, output buffer | append, threadFunc, stop | rings, appender, clock |
| `LogFile`, `FileUtil`, appenders | m_file, its m_name and m_writtenBytes; the files on disk | open, append, roll | logger's thread; other loggers and earlier runs of the process through the names of files |
| `LogStream`, `Layout`, `SyncLogger` | one line | formatting | caller's thread only |
| `TCPConnection`, `Buffer`, `SocketOP` (src/net) | m_rbuf, m_wbuf, m_wlock, m_event, m_timerList, m_entry | init, sendMsg, handleRead, handleWrite, handleClose, shutdown, addTask | any thread sends; the loop thread handles events |
| `TCPServer`, `Acceptor` | m_connMap, pool, listening socket | accept, onNewConnection, onClose | main thread and workers, descriptors of the kernel |
| `IdleConnections`, `EchoServer` | m_conns (slots of entries), m_cur | add, update, tick | timer of each worker, ends connections |
| `Connector`, `TCPClient` | m_event, static retry count; m_conns | connect, check, retry, handleWrite; send | loop, timer |
| `BlockingQueue`, http, files named `-*` | | | used by nothing |

Hard behaviours: posting functors against a loop that goes to sleep, quits or
is not yet started; functors run under a lock; EPOLLOUT switched on and off by
different threads; a list changed while it is walked; descriptor numbers reused
while the object that had them is being ended; a ring without locks; output
held back by a clock with truncated seconds; files that are opened again under
the same name; events reported together with the one that ends a connection;
retries.  `PROJECT.json` lists
each as a hazard at its line, with the properties that cover it or the reason
why none does.

What makes the components correct: no functor is lost, doubled, reordered or
run by a foreign thread; loops can be stopped and pools joined; timers are not
called early, not late by more than the wheel's revolution, and not lost; the
ring is a queue; lines reach the appender in time and before the logger ends;
lines written stay in their files; accepted output reaches the socket in order;
a closed connection is left alone and a healthy one is not closed; what a poller
points to is alive; idle connections, and only they, are ended.

## 2. Modules

| Module | Models | State and actions against the code |
|---|---|---|
| `Executor` | what a loop promises | a queue per loop and the functor each thread has in hand: a functor that is fresh (neither queued, nor in hand, nor run) is queued by Accept, or taken in hand by Claim if the caller is the thread the loop takes for its own (its creator before loop(), then the loop's); RunNow runs what is in hand, RunNext the head of the queue, in the loop's thread while it is in loop() |
| `BoundedQueue` | what the ring and a connection's output buffer promise | the bytes put, those that are there, those taken; Put at the end, in whole pieces and up to a bound, Take from the front, nothing else, until Fail |
| `EventLoop` | event loop, loop threads, pool | m_pending, m_quit, m_threadId, the mutex, the eventfd counter, the timerfd; per thread a location in loop() or in a posting call. One action per step between which another thread can be seen: Check (isInLoopThread), Push (addPending), Wake (wakeup), TestQuit, Poll, Handle*, LockPending, RunPending, FinishPending, StartThread, EnterLoop, Quit, StopPool, Join |
| `RingBuffer` | the ring | m_in, m_out, the bytes; StartAppend and StartRetrive read the other side's position, CopyIn and CopyOut are the memcpys, PublishIn and PublishOut the stores |
| `AsyncLogger` | logger on the ring | EXTENDS RingBuffer; append with its retry, threadFunc's loop, flush, drain and stop; time in half seconds |
| `TimingWheel` | wheel and timerfd | tick as one action per list entry, addEntry as an operator used by Add (from outside and from callbacks) and by the re-adding of a repeating timer. A timer is a TimerEntry object: it is added once, as all that make one do (Connector::retry, EchoServer, addTask), and stands for a new object when it has left the wheel; Connector::retry, whose callback adds a new entry to the list being walked, is two timers that add each other |
| `LogFile` | log files, their appender, the synchronous logger | the contents of every file, the clock, the number of the run (the pid); per LogFile its name and bytes written. Construct, LogLine (SyncLogger), Write and Close (FileUtil::write with and without room), Roll (the new file), Restart (a crash, an abort() after a failed write, or an end, and a new start) |
| `TCPConnection` | a connection | m_wbuf as array and positions, m_wlock, EPOLLOUT in m_events and in the poller, the functors posted by modifyEvent, m_revents, errno of the loop's thread; init in two steps (RunInit, AddEvent), sendMsg and handleWrite in the steps their lock scopes leave visible, handleEvent's order of HandleError, HandleRead and LockForWrite, HandleClose; the peer reads, closes or resets |
| `TCPServer` | life of connections in a server, with a pool or without (`pooled`) | the kernel's descriptor table, m_connMap, getFd(), the pollers, init()'s functors, each worker's batch of events and its wheel of idle entries; without a pool the main loop is the only worker, and accepts between the other events of a batch (AcceptInLoop). Which loops have an IdleConnections, and which of those a timer (`known`, `timed`), depends on the ids that EchoServer's constructor finds: any set of workers may be late with theirs |
| `TCPClient` | Connector and TCPClient | calls posted, retry timers, retry_times, the Event of m_event and those destroyed while registered, m_conns, the descriptor table; one action per handler of the loop thread: RunConnect and RetryTimer (connect), Established and ConnectFailed (handleWrite), HandleClose |

`EventLoopProofs`, `AsyncLoggerProofs` (with the ring), `TimingWheelProofs`,
`LogFileProofs`, `TCPConnectionProofs`, `TCPServerProofs` and `TCPClientProofs`
extend the module they are named after with its theorems; `CommonLemmas` has
what several of them rest on (section 5).

`MC<module>` modules give the constants their values.  `AsyncLogger` composes
with `RingBuffer` by EXTENDS and conjoins its own actions with the ring's;
`EventLoop` implements `Executor` under a refinement mapping (the queue is the
part of m_pending that has not been run, what is in hand is the argument of a
call that has found itself in the loop's thread, the phase is the place of the
thread outside of calls).  `RingBuffer` and `TCPConnection` implement `BoundedQueue`:
its queue is what lies in the array between the two positions, what was put and
taken are what append accepted and retrive copied, or sendMsg and the socket; its
pieces are any bytes and the beginnings of messages, its bound all slots but one
and m_wbuf's capacity; the ring has failed from an overrun on, m_wbuf never.  `TCPConnection` and `TCPServer` use what `Executor`
promises, functors run once, in order, by the loop's thread, as their interface
to the loop instead of the loop itself.  `LogFile` is the sink that `AsyncLogger`
and SyncLogger write to; the logger's model ends at the appender, with the bytes
in their order, and the file's model begins there, with lines of any length.

Definitions such as `Push_NoLock`, introduced by a comment "Fault:", are the
code with a plausible bug; nothing uses them but `PROJECT.json`, whose `mutants`
say which property finds which.

### Abstractions that matter

* Undefined behaviour. The models say that something undefined has happened and
  end there: `overrun` (m_in runs onto m_out or memcpy gets a negative length)
  in the ring, `aborted` (a failed assertion) in the connection, `undefined` (an
  object used after its destruction, two operations at once on a map or on a
  wheel of idle connections) in server and client; the last two are places the
  threads end at.  The server's also stands for the event of a connection that was
  shut down in the same batch but is still in m_connMap: its answer fails the
  assertion of modifyEvent, its close may be that of another one's descriptor.
  Properties speak of the behaviour before, and where the code is at odds with
  its own text a run shows it (section 4).
* m_quit, m_threadId and m_events are plain variables that several threads use;
  each read and write is one atomic step, which is what aligned words give on
  the platforms of epoll.
* errno is kept as the one question a connection asks of it (is it ECONNRESET?),
  and handlers of other connections may change it whenever the loop is idle.
* The logger's clock moves by half a second only when threadFunc has evaluated
  its flush condition since it moved last: `HeldAtMostThreeSeconds` is about a
  thread that gets the processor twice a second.
* A log line in a file is its number repeated, so that a mixture of lines shows.
* Bytes are numbers that name their place in a message, timers and functors are
  model values, the formatting of log lines is left out.
* Logging calls inside the modelled functions are left out.

## 3. Runs

Every property of a passing run has a mutant that it finds.

| Run | Question | Bounds and why they are enough |
|---|---|---|
| `eventloop` | does the posting protocol keep its promises in every interleaving; are functors run in order, loops left, pools joined? | a pool loop, the thread that builds it, and another thread; three functors, which any thread or the loop's own callbacks hand over: two of them can wait in m_pending at once, in either order, pushed by the same thread or by different ones, while doPending walks it, and the third is handed over by a functor to its own loop. Main loops and several loops are in the two runs below and in the theorems, which cover every number of loops, threads and functors (section 5) |
| `logger` | is the ring a queue between two threads; what is written, in which order, when, and does stop() end? | a ring of four slots, lines of two and three bytes that go round the end of the ring, are cut short and met by retrievals between every two of their steps, an output buffer of five with both water marks inside; clock of seven half seconds, more than the longest wait |
| `wheel` | when are timers called, and do ticks end? | two slots; two immediate timers, which as a pair are a callback that adds its own kind again and again to the list being walked; one that repeats below an interval, which keeps its tick from ending; one of more than a revolution that repeats; callbacks add any timer that is not on the wheel and disable any that is |
| `logfile` | do lines stay in their files? | two loggers, two runs of the process, three seconds, four lines: they fill a file of three bytes exactly, do not fit behind another line, or do not fit the stream of two bytes they are formatted in; write() may be short |
| `connection` | is accepted output sent; when is a connection ended, and what happens to it then? | three threads with a message each, a buffer that holds one and a half of them and a socket buffer of two bytes: appends are cut, writes partial; every set of reported events with every state of the peer |
| `server` | do connections end properly while descriptors are reused? | two workers, or none; any of the workers late with its id; two descriptors, two connections, an idle time of two ticks: both connections at the same time, or the second one with the descriptor of the first |
| `client` | is each connect() answered once, and who owns the descriptors? | three calls and the code's own limit of three failures: calls overlap with each other and with retries, and use the limit up together |

Deadlock is checked in the event loop and wheel runs (there is always the
timer).  The other systems stop when their bounded input is used up, and say
CHECK_DEADLOCK FALSE.

Properties worth reading first: `NoLostWakeup`, `ImplementsExecutor`,
`RingIsQueue` and `NoDataRace`, `OutputIsQueue`, `QuitLeavesLoop`,
`HeldAtMostThreeSeconds`,
`AtMostOneRevolutionLate`, `BarelyEarly`, `OutputArmed`, `ClosedIsLeftAlone`,
`LinesAreKept`, `RegisteredIsSound`, `ExpiresInTime`, `DescriptorsAreOwned`.
Some say a little less than one would
like, because that is what the code does: a byte is held for up to three seconds where a comment says
two, a timer may be called up to an interval early (the first tick after an add
may come at once), accepted output stays behind from an EAGAIN to the next
sendMsg (`stranded`), a file that is opened again is overwritten (`overlaid`), and
a connection may end because another one of its loop was reset (errnoReset).
`SilentIsClosed` is about the workers whose ids EchoServer's constructor has found.

### Fairness

* Event loop: a thread that can take its next step takes it (WF), the timerfd
  expires (WF; it is armed by the constructor), a thread that waits for
  m_pendingMutex gets it if it is free again and again (SF; std::mutex promises
  less on paper, but its lock scopes here are short and its implementation
  wakes waiters).  Nothing is assumed of clients, I/O events or quit().
* Ring and logger: both threads go on with calls they have begun; threadFunc
  polls; the clock moves.  Nobody has to log or to call stop().
* Wheel: the timerfd expires, the loop reads it, tick goes on.
* Connection: a thread goes on with a call, and the loop with the handlers of an
  event (WF); handleWrite gets m_wlock if it is free again and again (SF, as
  above); a poll reports a writable socket that it is asked about, and posted
  functors are run, though both can be busy in between (SF); a peer that is there
  reads (WF).  Nobody has to send, and no peer to leave.
* Log files: safety only.
* Server: threads go on; functors are run (`HandedOverIsRun` of EventLoop) and
  the timer is reported whatever else the poller reports (SF, epoll returns all
  ready descriptors).
* Client: functors and timers are run, the kernel ends every attempt, what is
  ready is reported.  Peers need not close, sends need not end.

## 4. Where the code is at odds with its own text

Five runs expect a violation; each quotes the line in question under
`findings`.

* `eventloop_startup` (`RunInLoopThread`): the pool's start() returns before the
  threads have told their loops who they are; functors handed over in between
  are run by the caller.
* `eventloop_crosspost` (`NoLockCycle`): functors run under m_pendingMutex, so
  that two loops that post to each other can stop for ever.
* `logger_retry` (`RemainingLinesWritten`): after a short append the line is
  appended from its start again, and its end may be lost.
* `wheel_late` (`CalledEveryTimeout`): a timer whose slot lies behind the end of
  the wheel waits for one revolution more.
* `connection_closed` (`ModifiesPolledEvents`): sendMsg from the connected
  callback, or in another thread before addEvent or while the loop ends the
  connection, fails an assertion.

A passing run disagrees with a comment, too: FileUtil.h:25 says that write()
"may exceed MAX_SIZE", the code returns -1 for what does not fit
(FileUtil.cpp:52), and `TypeOK` of `logfile` has that no file is larger than
MaxSize.

Without a text to quote, and therefore only among the hazards: the full ring
that looks empty when m_out is 0; the log file that is overwritten when its name comes
back; the functors that outlive the Event they point to; the connection that stays in m_connMap after
handleClose and is destroyed when its number comes back; the unsynchronised
maps; the repeating timer of less than one interval, whose tick does not end (the
second half of `TickEnds` says so); the idle connections of a worker whose id
EchoServer's constructor has read too early, which are never closed; the client's connections
that stay in m_conns in the same way, the descriptors that connect() leaves open
after an error it does not retry, the Event that a second connect() destroys
under the poller, and the retries that are counted for the whole process.

## 5. Proofs

Every safety invariant and every action property of the passing runs is proved
for all values of the constants, and so are the refinements of `Executor` by the
event loop and of `BoundedQueue` by the ring and by a connection's output.  Each
module has one inductive invariant, a conjunction of named parts, of which the
theorems are consequences; it was model-checked on the module's run before it
was proved.  The proof that it is inductive has one lemma per action or per part,
whichever disturbs less.

The assumptions are those the modules state by name.  Most are types: functors
have targets, lines and messages are not empty, numbers that code divides by or
takes a remainder of are positive, `None` is none of the values.  Those that say
more: the creator of a pool's loop is an application thread,
and each functor is handed over once, by at most one other functor's last call
(`ConstantsAssumption`); LOW_WATER is at most HIGH_WATER, and that less than
BUF_SIZE (`LoggerAssumption`; with HIGH_WATER at BUF_SIZE threadFunc could ask
the ring for nothing); a line cut to its stream fits into a file
(`LogFileAssumption`).  Sets of loops, clients, functors, senders, timers and
loggers may be infinite.

| Module | Theorems | Property |
|---|---|---|
| `EventLoopProofs` | `TypeCorrect`, `WakeupsAreNotLost`, `PendingIsStable`, `Refinement` | `TypeOK`, `NoLostWakeup`, `PendingStable`, `ImplementsExecutor` |
| `AsyncLoggerProofs` | `TypeCorrect`, `FirstInFirstOut`, `SlotsAreNotShared`, `ShortAppendHasFilled`, `LinesStayInOrder`, `DrainIsComplete`, `HeldBriefly`, `RingImplementsQueue` | `TypeOK`, `Fifo`, `NoDataRace`, `ShortAppendFillsRing`, `LinesInOrder`, `DrainTakesAll`, `HeldAtMostThreeSeconds`, `RingIsQueue` |
| `TimingWheelProofs` | `TypeCorrect`, `EntriesAreInOnePlace`, `LateByARevolution`, `NotEarly` | `TypeOK`, `OnePlace`, `AtMostOneRevolutionLate`, `BarelyEarly` |
| `TCPConnectionProofs` | `TypeCorrect`, `NothingIsLost`, `OutputIsArmed`, `ClosedStaysAlone`, `HealthyStays`, `CutBehindOutput`, `OutputImplementsQueue` | `TypeOK`, `NothingLost`, `OutputArmed`, `ClosedIsLeftAlone`, `HealthyIsKept`, `CutOnlyBehindOutput`, `OutputIsQueue` |
| `TCPServerProofs` | `TypeCorrect`, `RegisteredAreSound`, `IdleAreExpired` | `TypeOK`, `RegisteredIsSound`, `ExpiresInTime` |
| `LogFileProofs` | `TypeCorrect`, `LinesStay` | `TypeOK`, `LinesAreKept` |
| `TCPClientProofs` | `TypeCorrect`, `AnsweredOnce`, `DescriptorsStayOwned` | `TypeOK`, `OneAnswerPerRequest`, `DescriptorsAreOwned` |

`Fifo` and `NothingLost` (what was read, or sent and is unsent, is what was
accepted, in order) say of the states what the refinements say of the steps; the
runs check the refinements, `RingIsQueue` and `OutputIsQueue`.

Why the properties hold, and what the inductive invariants add to them:

* Event loop. `NoLostWakeup` is not inductive: that a push is followed by a
  write to the eventfd depends on the second comparison of thread ids in
  wakeup().  `CallInv` says that a thread about to push or to wake is not the
  thread of that loop, which needs that m_threadId is the creator or the loop
  itself, and `LockInv` that the mutex is held exactly by a loop inside doPending.
  The refinement maps RunPending to RunNext, Push to Accept, the Check that finds
  the loop's own thread to Claim, RunInline to RunNow, EnterLoop and TestQuit to
  Open and Close, and everything else to a stutter; RunPending removes the head of
  the unrun part, and FinishPending finds that part empty.  What the executor asks
  before it accepts a functor or runs it needs two more parts: `OnceInv`, that a
  functor is in one place at a time (not handed over, in the argument of one
  call, once in m_pending, or run), and `OwnerInv`, that the id a loop
  compares with is its creator's before loop() is entered and its thread's after.
* Ring. `Fifo` says nothing of positions.  `CountInv` counts the unread bytes,
  those appended and not yet given up by the reader, and says that m_in is that
  many slots behind m_out, around the end of the array; `ContentInv` that these
  slots hold them.  Each thread works with the other's position as it once was:
  `WriterInv` and `ReaderInv` say which parts it may still copy, that a second
  copy is made only when the first has come to the end of the array, and that
  append gives up only behind m_out.  The two hold even after an overrun, the
  first two until then.  The refinement maps PublishIn to Put, PublishOut to Take
  and everything else to a stutter, the copies above all: what lies between the
  positions is the rest of what was appended (`ContentsAreUnread`), which the two
  stores lengthen and shorten (`RestOfConcat`, `RestOfRest`), and what the reader
  has is the part before it (`FirstOfRest`).
* Logger. `ThreadInv` bounds what threadFunc holds and asks for; `TimeInv` says
  that a byte's time is at most that since the second kept in `time`, and that
  the flush condition has been evaluated since the clock moved last; `StopInv`
  that after m_running was seen FALSE only an empty ring ends the drain.
  `LinesInv` places what has been appended at the start of all lines in a row,
  and what append has in hand behind it.
* Wheel. The number of the tick in which an entry will be called if nothing
  disables it (`Turn`) is the sum of its ticks, its rounds times the size of the
  wheel, and the slots ahead of it; `AllDue` bounds that sum from both sides for
  every place of the wheel, and no action but an add changes it.  The arithmetic
  of add is `AroundTheWheel`.  `CountInv` relates ticks to expirations, of which
  at most one lies before the add, for the entries that are on the wheel.
* Connection. In layers: where the threads are (`PlaceInv`), who holds m_wlock
  (`LockInv`), what lies in m_wbuf (`BufferInv`), and then `ArmedInv`: output
  implies EPOLLOUT in m_events or a thread on its way to set it, and the poller
  watches what m_events says or has a functor to come.  `CloseInv` says that
  nothing reported is left for a closed connection.  The refinement maps
  AdvanceMsg to Put, WriteOut to Take and everything else to a stutter; that
  CopyMsg is one, and that what AdvanceMsg puts is one thread's message, is what
  m_wlock is for (`CopyLeavesUnsent`, `AppendAddsUnsent`, `WriteTakesUnsent`).
* Server. A registered connection owns its descriptor and the map's entry for
  it (`SoundInv`), because a connection that is being ended is not registered any
  more and its descriptor is closed or still its own (`HandInv`), and because a
  connection belongs to one worker from its number on (`HomeInv`).  The main
  thread's half is `MainInv`.  For idle connections `AgeInv` says that the
  youngest slot with an entry of a connection is as old as its last message;
  `EntryInv` that entries belong to connections that live or were closed by
  their peer.
* Log files. A file that was not opened again has one writer, whose
  m_writtenBytes is the file's length, and what it writes is newer than all that
  is there (`AppendInv`, `OrderInv`).  Any other file gives only bounds
  (`PlaceInv`, `SizeInv`).
* Client. The count alone is not inductive: when check() destroys the Event of an
  earlier attempt, the set of such attempts grows by one only if that attempt is
  not in it yet (`EventsAreFresh`).  Descriptors of different attempts differ
  (`OwnerInv`); that attempts do not run out of numbers, and so of descriptors,
  is `BudgetInv`, which counts calls, functors, timers and attempts together, and
  the pigeonhole principle.

`CommonLemmas` has facts about queues without doublets, about sequences that lie
in an array (`Holds` and the lemmas on cutting and joining them), and the two
that stand in for induction: the theorems of the library that take a predicate
as a parameter cannot be used with the installed provers, so `MinProperties` (a
set of numbers has a least one) is derived from the well-foundedness of < on
the naturals, and `SetInduction` from that, for a set in the place of a
predicate.  With it, `FlattenIs` (in AsyncLoggerProofs) proves what the folds
behind FlattenSeq compute.

Only model-checked: liveness, which the provers cannot do, as is ENABLED:
`HandedOverIsRun`, `QuitLeavesLoop`, `JoinReturns`, `EventuallyWritten`,
`AppendEnds`, `StopReturns`, `TickEnds`, `KeepsRepeating`, `EventuallySent`,
`SilentIsClosed` and `EveryRequestIsAnswered`.  The runs of section 4 stay with
TLC, which shows the behaviour.

## 6. Not modelled, and why

* m_bufferMap: it is extended under a lock that nobody who reads it takes, so that
  the first line of every thread, of the first one too, inserts while threadFunc
  iterates, with no defined outcome.  The model begins when the ring of the one
  logging thread is in the map.
* Calls that overlap with the start of a worker: that `TCPServer` hands a worker's
  connections to the worker rests on the worker having stored its id before the
  first connection is accepted.  (What EchoServer's constructor does before is in
  the model, as is a wheel that two late workers tick; `eventloop_startup` shows
  what a call before that does.)
* SIGPIPE, which ends the process at the second write after a reset unless the
  application ignores it: the connection's model goes on as if it did.
* A clock that moves between genFileName and open(): both are one step.
* The bytes a connection reads: both models have handleRead's outcomes (a message,
  nothing, the end), not m_rbuf, which is empty before every read.  addTask and
  m_timerList: no code calls addTask.
* The destruction of a connection under functors that point to it: `TCPServer`
  has the lifetimes, `TCPConnection` the functors.
* The console appender, which has no state, and the gmtime() buffer that all
  threads share.
* What `TCPClient::send` writes to the sockets, and the start of the client's
  loop thread (the race of `eventloop_startup` exists there too).
* The destructor of TCPServer: stop and join of the pool are in `EventLoop`, and
  nothing makes a server's main loop quit.
* Formatting, addresses, options of sockets, http, `BlockingQueue`, and the
  files named `-*`, which nothing builds.

## 7. Plan

Order of the work, the most important first: the posting protocol, ring and
logger, wheel, connection, life of connections in a server, client, log files.
All are modelled, model-checked, and their safety properties proved.  Next:

1. Several logging threads: a ring for each and the map of them, with its
   overlapping uses marked as undefined as in the server.
2. One module for the lifetime of a connection and the functors that point to it.

## 8. Running

    tlc -workers 2 -config eventloop.cfg MCEventLoop
    for m in CommonLemmas *Proofs.tla; do tlapm ${m%.tla}.tla; done

Each run ends within three minutes on two cores, the proofs of a module within
about three minutes.
