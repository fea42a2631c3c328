------------------------------ MODULE TCPServer ------------------------------
(***************************************************************************)
(* The life of the connections of a TCPServer (src/src/net), used as       *)
(* example/EchoServer.h uses it: the main thread accepts and puts          *)
(* connections into m_connMap, a worker's loop registers them, handles     *)
(* their messages and their end, and shuts down those that have been idle  *)
(* for SlotSize ticks of its IdleConnections.                              *)
(*                                                                         *)
(* EchoServer's constructor makes an IdleConnections with a timer for each *)
(* thread id that it finds in the pool's loops.  A thread that has not     *)
(* stored its id yet (EventLoopThread.cpp:33) shows the main thread's: its *)
(* timer ticks an IdleConnections that no connection uses, and its first   *)
(* connection makes another one, which nothing ticks.  What the model      *)
(* assumes is that the id is there when the first connection comes.        *)
(*                                                                         *)
(* The workers are the threads of a pool or, in a server without one, the  *)
(* main thread itself, whose loop then accepts between the other events.   *)
(*                                                                         *)
(* Connections are numbered in the order of accept4.  A connection object  *)
(* lives as long as a shared_ptr to it does; the poller, a functor posted  *)
(* by init() and a running handler have a raw pointer to it.               *)
(*                                                                         *)
(* A use of an object that has been destroyed, and overlapping uses of     *)
(* m_connMap, of m_idleConnsMap or of an IdleConnections that two timers   *)
(* tick, have no defined outcome: the model says that one of them happens  *)
(* (undefined) and ends there.                                             *)
(***************************************************************************)
EXTENDS Naturals, Sequences, FiniteSets, FiniteSetsExt

CONSTANTS
  MaxConns,    \* bound: connections accepted
  MaxFd,       \* bound: descriptor numbers are 1 .. MaxFd
  NumWorkers,  \* of a pool
  SlotSize,    \* SLOT_SIZE
  None, Tick, Listen

ASSUME ServerAssumption ==
  /\ MaxConns \in Nat /\ MaxFd \in Nat \ {0}
  /\ NumWorkers \in Nat \ {0} /\ SlotSize \in Nat \ {0}
  /\ {None, Tick, Listen} \cap Nat = {} /\ Tick # Listen

VARIABLES
  pooled,     \* there is a pool: config.work_thread_num > 0
  timed,      \* the loops whose ids the constructor of EchoServer has found
  known,      \* the loops with an IdleConnections of their own in m_idleConnsMap
  owner,      \* the kernel's table: the connection each descriptor belongs to
  connMap,    \* m_connMap
  mpc,        \* the main thread: "accept", "init", "insert" or "inserting"
  setup,      \* the connection onNewConnection is at, or None
  setupFd,    \* onNewConnection's fd
  created,    \* connections accepted so far
  nextLoop,   \* m_nextLoop
  home,       \* m_loop of each connection
  efd,        \* m_event.m_fd of each connection, None for -1
  inits,      \* the functors of init() in each loop's m_pending
  polling,    \* the connections registered with a poller
  wpc,        \* where each worker is
  batch,      \* m_activeEvents not handled yet: connections, Tick and Listen
  handled,    \* the connection a worker is ending, or None
  shutting,   \* it does so in shutdown(), not in handleClose()
  expiring,   \* the connections whose idle entry the current tick destroys
  slots,      \* m_conns of each worker's IdleConnections
  cur,        \* m_cur of each worker's IdleConnections
  idle        \* history: ticks since the last message, up to SlotSize

setupVars == <<setup, setupFd, created, nextLoop, home>>
mainVars == <<mpc, setupVars>>
configVars == <<pooled, timed>>
idleVars == <<known, slots, cur, idle>>
workVars == <<wpc, batch, handled, shutting, expiring>>
vars == <<configVars, owner, connMap, mainVars, efd, inits, polling, workVars, idleVars>>

Conns == 1 .. MaxConns
Fds == 1 .. MaxFd
Workers == 0 .. NumWorkers - 1
Slots == 0 .. SlotSize - 1

\* getWorkderEventLoops; without a pool, the main thread's loop is called 0.
Loops == IF pooled THEN Workers ELSE {0}

\* There is a shared_ptr to c: in the map, in onNewConnection, in shutdown()'s
\* caller, or as the argument of onClose.
Alive(c) ==
  \/ \E f \in Fds : connMap[f] = c
  \/ setup = c
  \/ \E w \in Workers : handled[w] = c /\ (shutting[w] \/ wpc[w] = "erase")

\* The threads inside an operation on m_connMap.
MapBusy == mpc = "inserting" \/ \E w \in Workers : wpc[w] = "erase"

HasEntry(c) == \E s \in Slots : c \in slots[home[c]][s]

Init ==
  /\ pooled \in BOOLEAN
  /\ timed \in IF pooled THEN SUBSET Loops ELSE {Loops}
  /\ known = timed
  /\ owner = [f \in Fds |-> None] /\ connMap = [f \in Fds |-> None]
  /\ mpc = "accept" /\ setup = None /\ setupFd = None /\ created = 0 /\ nextLoop = 0
  /\ home = [c \in Conns |-> None] /\ efd = [c \in Conns |-> None]
  /\ inits = [w \in Workers |-> <<>>]
  /\ polling = {}
  /\ wpc = [w \in Workers |-> "idle"] /\ batch = [w \in Workers |-> {}]
  /\ handled = [w \in Workers |-> None] /\ shutting = [w \in Workers |-> FALSE]
  /\ expiring = [w \in Workers |-> {}]
  /\ slots = [w \in Workers |-> [s \in Slots |-> {}]] /\ cur = [w \in Workers |-> 0]
  /\ idle = [c \in Conns |-> 0]

Goto(w, place) == wpc' = [wpc EXCEPT ![w] = place]

\* The behaviour is undefined from here on; the model ends.
undefined == mpc = "undefined"
BecomesUndefined == mpc' = "undefined" /\ wpc' = [w \in Workers |-> "undefined"]

\* EventLoop::addEvent and removeEvent, as a worker calls them for a connection
\* of its own: epoll_ctl at once.
AddEvent(c) == polling' = polling \cup {c}
RemoveEvent(c) == polling' = polling \ {c}

\* The slots with an entry of c in the current one, which a shared_ptr to the
\* entry keeps alive (IdleConnections::add and update).
WithEntry(w, c) == [slots EXCEPT ![w][cur[w]] = @ \cup {c}]

\* c has been heard of in this tick.
Renew(w, c) == slots' = WithEntry(w, c) /\ idle' = [idle EXCEPT ![c] = 0]

\* The kernel takes the descriptor back, if c has one.
CloseFd(c) == owner' = IF efd[c] = None THEN owner ELSE [owner EXCEPT ![efd[c]] = None]

-----------------------------------------------------------------------------
\* The main thread: Acceptor::accept and TCPServer::onNewConnection.

\* Fault: the round robin does not wrap around.
NewConnection_NoWrap ==
  LET c == created + 1
      f == Min({g \in Fds : owner[g] = None})
  IN  /\ mpc = "accept"
      /\ created < MaxConns
      /\ \E g \in Fds : owner[g] = None
      /\ created' = c
      /\ owner' = [owner EXCEPT ![f] = c]
      /\ efd' = [efd EXCEPT ![c] = f]
      /\ nextLoop' = IF pooled THEN nextLoop + 1 ELSE 0
      /\ home' = [home EXCEPT ![c] = nextLoop']
      /\ setup' = c
      /\ setupFd' = f
      /\ mpc' = "init"
      /\ UNCHANGED <<connMap, inits, polling, wpc, handled, shutting, expiring, idleVars>>

\* accept4 returns the lowest free descriptor; getNextLoop names the loop.
NewConnection ==
  LET c == created + 1
      f == Min({g \in Fds : owner[g] = None})
  IN  /\ mpc = "accept"
      /\ created < MaxConns
      /\ \E g \in Fds : owner[g] = None
      /\ created' = c
      /\ owner' = [owner EXCEPT ![f] = c]
      /\ efd' = [efd EXCEPT ![c] = f]
      /\ nextLoop' = IF pooled /\ nextLoop < NumWorkers - 1 THEN nextLoop + 1 ELSE 0
      /\ home' = [home EXCEPT ![c] = nextLoop']
      /\ setup' = c
      /\ setupFd' = f
      /\ mpc' = "init"
      /\ UNCHANGED <<connMap, inits, polling, wpc, handled, shutting, expiring, idleVars>>

Handles(w, e) ==
  /\ wpc[w] = "batch"
  /\ pooled \/ mpc = "accept"
  /\ e \in batch[w]
  /\ batch' = [batch EXCEPT ![w] = @ \ {e}]

\* The main loop of a server with a pool has nothing else to do.
Accept == pooled /\ NewConnection /\ UNCHANGED batch

AcceptInLoop == ~pooled /\ Handles(0, Listen) /\ NewConnection

\* accept4 fails: there are no descriptors left.
AcceptFails ==
  /\ Handles(0, Listen)
  /\ \A f \in Fds : owner[f] # None
  /\ UNCHANGED <<owner, connMap, mainVars, efd, inits, polling, wpc, handled, shutting, expiring,
                 idleVars>>

\* EchoServer::onConnected: the first entry of a connection, in a new
\* IdleConnections if there is none for this thread.
OnConnected(w, c) == known' = known \cup {w} /\ Renew(w, c)

\* TCPConnection::init, before the connection is in the map; it is run at once
\* by the thread that is its loop's.
InitConn ==
  /\ mpc = "init"
  /\ IF pooled
     THEN inits' = [inits EXCEPT ![home[setup]] = Append(@, setup)] /\ UNCHANGED <<known, slots, idle, polling>>
     ELSE OnConnected(0, setup) /\ AddEvent(setup) /\ UNCHANGED inits
  /\ mpc' = "insert"
  /\ UNCHANGED <<owner, connMap, setupVars, efd, workVars, cur>>

BeginInsert ==
  /\ mpc = "insert"
  /\ IF MapBusy THEN BecomesUndefined ELSE mpc' = "inserting" /\ UNCHANGED wpc
  /\ UNCHANGED <<owner, connMap, setupVars, efd, inits, polling, batch, handled, shutting, expiring,
                 idleVars>>

\* A connection that is still there under the same descriptor is replaced.
InsertConn ==
  /\ mpc = "inserting"
  /\ connMap' = [connMap EXCEPT ![setupFd] = setup]
  /\ setup' = None
  /\ setupFd' = None
  /\ mpc' = "accept"
  /\ UNCHANGED <<owner, created, nextLoop, home, efd, inits, polling, workVars, idleVars>>

-----------------------------------------------------------------------------
\* A worker's loop.

\* The functor of init(): the connected callback, then addEvent.
RunInit(w) ==
  LET c == Head(inits[w])
  IN  /\ wpc[w] = "idle"
      /\ inits[w] # <<>>
      /\ inits' = [inits EXCEPT ![w] = Tail(@)]
      /\ OnConnected(w, c)
      /\ AddEvent(c)
      /\ UNCHANGED <<owner, connMap, mainVars, efd, workVars, cur>>

\* The poller reports connections that have a message or whose peer has closed,
\* the timer whose tick ends in IdleConnections::tick, and the listening socket.
Poll(w, events) ==
  /\ wpc[w] = "idle"
  /\ events \subseteq {c \in polling : home[c] = w} \cup {Tick, Listen}
  /\ events # {}
  /\ Listen \in events => ~pooled /\ created < MaxConns
  /\ batch' = [batch EXCEPT ![w] = events]
  /\ Goto(w, "batch")
  /\ UNCHANGED <<owner, connMap, mainVars, efd, inits, polling, handled, shutting, expiring,
                 idleVars>>

EndBatch(w) ==
  /\ wpc[w] = "batch"
  /\ pooled \/ mpc = "accept"
  /\ batch[w] = {}
  /\ Goto(w, "idle")
  /\ UNCHANGED <<owner, connMap, mainVars, efd, inits, polling, batch, handled, shutting, expiring,
                 idleVars>>

\* Fault: the idle entry is not moved.
HandleMessage_NoUpdate(w, c) ==
  /\ Handles(w, c)
  /\ c \in polling
  /\ idle' = IF HasEntry(c) THEN [idle EXCEPT ![c] = 0] ELSE idle
  /\ UNCHANGED <<owner, connMap, mainVars, efd, inits, polling, wpc, handled, shutting, expiring,
                 known, slots, cur>>

\* EchoServer::onMessage puts the idle entry into the current slot too.
HandleMessage(w, c) ==
  /\ Handles(w, c)
  /\ c \in polling
  /\ IF HasEntry(c) THEN Renew(w, c) ELSE UNCHANGED <<slots, idle>>
  /\ UNCHANGED <<owner, connMap, mainVars, efd, inits, polling, wpc, handled, shutting, expiring,
                 known, cur>>

\* The event of a connection that a tick in the same batch has shut down: its
\* object is gone.  Only if onNewConnection had it in hand all the time it is
\* there; then its read fails, the answer to it fails modifyEvent's assertion,
\* and a close is one of a number that is not its own any more.  The model ends
\* with each of them.
HandleStale(w, c) ==
  /\ Handles(w, c)
  /\ c \notin polling \cup {Tick}
  /\ BecomesUndefined
  /\ UNCHANGED <<owner, connMap, setupVars, efd, inits, polling, handled, shutting, expiring, idleVars>>

\* handleClose up to its callback: the descriptor is free for accept4 at once.
HandleClose(w, c) ==
  /\ Handles(w, c)
  /\ c \in polling
  /\ RemoveEvent(c)
  /\ CloseFd(c)
  /\ efd' = [efd EXCEPT ![c] = None]
  /\ handled' = [handled EXCEPT ![w] = c]
  /\ Goto(w, "callback")
  /\ UNCHANGED <<connMap, mainVars, inits, shutting, expiring, idleVars>>

\* handleRead: recv has read a message, or has read nothing more, or errno is
\* ECONNRESET after it.
HandleRead(w, c) == HandleMessage(w, c) \/ HandleClose(w, c)

\* m_closeCallback(shared_from_this()): the map may have let go of the
\* connection in the meantime.
BeginOnClose(w) ==
  /\ wpc[w] = "callback"
  /\ IF ~Alive(handled[w]) \/ MapBusy THEN BecomesUndefined ELSE Goto(w, "erase") /\ UNCHANGED mpc
  /\ UNCHANGED <<owner, connMap, setupVars, efd, inits, polling, batch, handled, shutting, expiring,
                 idleVars>>

\* onClose erases what is in the map under m_event's descriptor; after
\* handleClose that is -1, so that the connection stays in the map.
OnClose(w) ==
  LET c == handled[w]
  IN  /\ wpc[w] = "erase"
      /\ connMap' = IF efd[c] = None THEN connMap ELSE [connMap EXCEPT ![efd[c]] = None]
      /\ IF shutting[w]
         THEN Goto(w, "close") /\ UNCHANGED handled
         ELSE Goto(w, "batch") /\ handled' = [handled EXCEPT ![w] = None]
      /\ UNCHANGED <<owner, mainVars, efd, inits, polling, batch, shutting, expiring, idleVars>>

-----------------------------------------------------------------------------
\* IdleConnections.

\* Fault: one slot is never cleared.
IdleTick_KeepsFirst(w) ==
  LET s1 == (cur[w] + 1) % SlotSize
      left == {c \in slots[w][s1] : \A s \in Slots \ {s1} : c \notin slots[w][s]}
  IN  /\ Handles(w, Tick)
      /\ w \in timed
      /\ cur' = [cur EXCEPT ![w] = s1]
      /\ slots' = IF s1 = 0 THEN slots ELSE [slots EXCEPT ![w][s1] = {}]
      /\ expiring' = [expiring EXCEPT ![w] = IF s1 = 0 THEN {} ELSE left]
      /\ idle' = [c \in Conns |-> IF home[c] = w /\ idle[c] < SlotSize THEN idle[c] + 1 ELSE idle[c]]
      /\ Goto(w, "expire")
      /\ UNCHANGED <<owner, connMap, mainVars, efd, inits, polling, handled, shutting, known>>

\* The entries that are in no other slot are destroyed one after the other.
IdleTick(w) ==
  LET s1 == (cur[w] + 1) % SlotSize
      left == {c \in slots[w][s1] : \A s \in Slots \ {s1} : c \notin slots[w][s]}
  IN  /\ Handles(w, Tick)
      /\ w \in timed
      /\ cur' = [cur EXCEPT ![w] = s1]
      /\ slots' = [slots EXCEPT ![w][s1] = {}]
      /\ expiring' = [expiring EXCEPT ![w] = left]
      /\ idle' = [c \in Conns |-> IF home[c] = w /\ idle[c] < SlotSize THEN idle[c] + 1 ELSE idle[c]]
      /\ Goto(w, "expire")
      /\ UNCHANGED <<owner, connMap, mainVars, efd, inits, polling, handled, shutting, known>>

\* The timer of a thread whose id was not there ticks what is kept for the main
\* thread's id, where there are no entries.
SharedTick(w) ==
  /\ Handles(w, Tick)
  /\ w \notin timed
  /\ UNCHANGED <<owner, connMap, mainVars, efd, inits, polling, wpc, handled, shutting, expiring,
                 idleVars>>

\* ~IdleConnectionEntry: nothing is done for a connection that is gone.
DropEntry(w, c) ==
  /\ wpc[w] = "expire"
  /\ c \in expiring[w]
  /\ ~Alive(c)
  /\ expiring' = [expiring EXCEPT ![w] = @ \ {c}]
  /\ UNCHANGED <<owner, connMap, mainVars, efd, inits, polling, wpc, batch, handled, shutting,
                 idleVars>>

\* Fault: the descriptor is closed before the connection leaves the map.
ShutDown_ClosesFirst(w, c) ==
  /\ wpc[w] = "expire"
  /\ c \in expiring[w]
  /\ Alive(c)
  /\ expiring' = [expiring EXCEPT ![w] = @ \ {c}]
  /\ RemoveEvent(c)
  /\ CloseFd(c)
  /\ handled' = [handled EXCEPT ![w] = c]
  /\ shutting' = [shutting EXCEPT ![w] = TRUE]
  /\ Goto(w, "callback")
  /\ UNCHANGED <<connMap, mainVars, efd, inits, batch, idleVars>>

\* The connection may have been closed by its peer before and still be in the
\* map; it is not registered any more then.
ShutDown(w, c) ==
  /\ wpc[w] = "expire"
  /\ c \in expiring[w]
  /\ Alive(c)
  /\ expiring' = [expiring EXCEPT ![w] = @ \ {c}]
  /\ RemoveEvent(c)
  /\ handled' = [handled EXCEPT ![w] = c]
  /\ shutting' = [shutting EXCEPT ![w] = TRUE]
  /\ Goto(w, "callback")
  /\ UNCHANGED <<owner, connMap, mainVars, efd, inits, batch, idleVars>>

\* SocketOP::close(getFd()) at the end of shutdown(); m_event keeps the number.
CloseSocket(w) ==
  LET c == handled[w]
  IN  /\ wpc[w] = "close"
      /\ CloseFd(c)
      /\ handled' = [handled EXCEPT ![w] = None]
      /\ shutting' = [shutting EXCEPT ![w] = FALSE]
      /\ Goto(w, "expire")
      /\ UNCHANGED <<connMap, mainVars, efd, inits, polling, batch, expiring, idleVars>>

EndTick(w) ==
  /\ wpc[w] = "expire"
  /\ expiring[w] = {}
  /\ Goto(w, "batch")
  /\ UNCHANGED <<owner, connMap, mainVars, efd, inits, polling, batch, handled, shutting, expiring,
                 idleVars>>

-----------------------------------------------------------------------------
\* What can overlap because two threads are about to do it.
\* onConnected and onMessage look a thread's IdleConnections up.
LooksUp(v) ==
  \/ wpc[v] = "idle" /\ inits[v] # <<>>
  \/ wpc[v] = "batch" /\ \E c \in batch[v] \cap polling : HasEntry(c)

\* onConnected adds to m_idleConnsMap, which has no lock.
Adds(w) == wpc[w] = "idle" /\ inits[w] # <<>> /\ w \notin known

TicksShared(w) == wpc[w] = "batch" /\ Tick \in batch[w] /\ w \notin timed

\* An insertion into m_idleConnsMap overlaps with a use of it, or two timers
\* tick one IdleConnections at the same time (m_cur, m_conns).
IdleRace(w) ==
  /\ \E v \in Loops \ {w} :
       \/ Adds(w) /\ LooksUp(v)
       \/ TicksShared(w) /\ TicksShared(v)
  /\ BecomesUndefined
  /\ UNCHANGED <<owner, connMap, setupVars, efd, inits, polling, batch, handled, shutting, expiring,
                 idleVars>>

-----------------------------------------------------------------------------
MainStep == InitConn \/ BeginInsert \/ InsertConn

WorkerStep(w) ==
  \/ EndBatch(w) \/ BeginOnClose(w) \/ OnClose(w)
  \/ IdleTick(w) \/ SharedTick(w) \/ CloseSocket(w) \/ EndTick(w)
  \/ \E c \in Conns :
       \/ HandleRead(w, c) \/ HandleStale(w, c)
       \/ DropEntry(w, c) \/ ShutDown(w, c)

PollAny(w) == \E events \in SUBSET (polling \cup {Tick, Listen}) : Poll(w, events)
PollTick(w) == \E events \in SUBSET (polling \cup {Tick, Listen}) : Tick \in events /\ Poll(w, events)

Steps ==
  \/ Accept \/ AcceptInLoop \/ AcceptFails \/ MainStep
  \/ \E w \in Loops : RunInit(w) \/ WorkerStep(w) \/ PollAny(w) \/ IdleRace(w)

\* The pool and the timers are made before the loop is started.
Next == Steps /\ UNCHANGED configVars

Spec == Init /\ [][Next]_vars

\* A thread goes on with what it has begun; functors are run (HandedOverIsRun
\* of EventLoop.tla) and the timer is reported when it has expired, whatever
\* else there is to do.
FairSpec ==
  /\ Spec
  /\ WF_vars(UNCHANGED configVars /\ (MainStep \/ AcceptInLoop \/ AcceptFails))
  /\ \A w \in Workers :
       /\ WF_vars(UNCHANGED configVars /\ WorkerStep(w))
       /\ SF_vars(UNCHANGED configVars /\ RunInit(w))
       /\ SF_vars(UNCHANGED configVars /\ w \in Loops /\ PollTick(w))

-----------------------------------------------------------------------------
\* The state is well formed.
TypeOK ==
  /\ pooled \in BOOLEAN /\ timed \subseteq known /\ known \subseteq Loops
  /\ owner \in [Fds -> Conns \cup {None}] /\ connMap \in [Fds -> Conns \cup {None}]
  /\ mpc \in {"accept", "init", "insert", "inserting", "undefined"}
  /\ setup \in Conns \cup {None} /\ setupFd \in Fds \cup {None}
  /\ ~undefined => (mpc # "accept" <=> setup # None)
  /\ created \in 0 .. MaxConns /\ nextLoop \in Workers
  /\ home \in [Conns -> Workers \cup {None}]
  /\ \A c \in Conns : c <= created <=> home[c] # None
  /\ efd \in [Conns -> Fds \cup {None}]
  /\ inits \in [Workers -> Seq(1 .. created)]
  /\ polling \subseteq 1 .. created
  /\ wpc \in [Workers -> {"idle", "batch", "callback", "erase", "expire", "close",
                         "undefined"}]
  /\ batch \in [Workers -> SUBSET (Conns \cup {Tick, Listen})]
  /\ handled \in [Workers -> Conns \cup {None}]
  /\ ~undefined =>
       \A w \in Workers : handled[w] # None <=> wpc[w] \in {"callback", "erase", "close"}
  /\ shutting \in [Workers -> BOOLEAN]
  /\ expiring \in [Workers -> SUBSET Conns]
  /\ slots \in [Workers -> [Slots -> SUBSET Conns]] /\ cur \in [Workers -> Slots]
  /\ idle \in [Conns -> 0 .. SlotSize]

\* What the poller and init()'s functors point to is there: a connection that
\* is registered, or about to be, is alive, has its descriptor to itself and
\* is in the map under it (or about to be put there), although the workers
\* erase from the map and close descriptors while the main thread reuses them.
RegisteredIsSound ==
  \A c \in 1 .. created :
    c \in polling \/ (\E i \in DOMAIN inits[home[c]] : inits[home[c]][i] = c) =>
      /\ Alive(c)
      /\ efd[c] # None /\ owner[efd[c]] = c
      /\ connMap[efd[c]] = c \/ setup = c

\* A connection is shut down in the SlotSize-th tick after its last message
\* ("Fixed expire time", IdleConnections.h:27), neither earlier nor later.
ExpiresInTime ==
  \A c \in 1 .. created :
    /\ c \in expiring[home[c]] => idle[c] = SlotSize
    /\ c \in polling /\ idle[c] = SlotSize => c \in expiring[home[c]]

\* A connection that stays has sent a message again and again: a silent one is
\* shut down, if the constructor has given its thread's IdleConnections a timer
\* (IdleConnections.h:27 says so of all).
SilentIsClosed ==
  \A c \in Conns :
    <>[](c \in polling /\ home[c] \in timed /\ ~undefined)
      => []<><<\E w \in Loops : HandleMessage(w, c)>>_vars
=============================================================================
