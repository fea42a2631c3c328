--------------------------- MODULE TCPServerProofs ---------------------------
(***************************************************************************)
(* The invariants of TCPServer, for any numbers of connections,            *)
(* descriptors, workers and slots.                                         *)
(*                                                                         *)
(* The invariant is built in layers: where the threads are (MainInv and    *)
(* WorkInv), which loop a connection belongs to (HomeInv), what a          *)
(* connection that is registered has (SoundInv), what one that is being    *)
(* ended has (HandInv), and how old the idle entries are (EntryInv and     *)
(* AgeInv).                                                                *)
(***************************************************************************)
EXTENDS TCPServer, CommonLemmas

\* The functor of init() waits in a loop's m_pending; then the poller knows c.
Queued(w, c) == In(inits[w], c)
Registered(c) == c \in polling \/ \E w \in Workers : Queued(w, c)
Entry(w, c) == \E s \in Slots : c \in slots[w][s]

\* How many ticks ago a slot was the current one.
Age(w, s) == IF s <= cur[w] THEN cur[w] - s ELSE (cur[w] - s) + SlotSize

Ending == {"callback", "erase", "close"}

TypeInv ==
  /\ pooled \in BOOLEAN
  /\ owner \in [Fds -> Conns \cup {None}] /\ connMap \in [Fds -> Conns \cup {None}]
  /\ mpc \in {"accept", "init", "insert", "inserting", "undefined"}
  /\ setup \in Conns \cup {None} /\ setupFd \in Fds \cup {None}
  /\ created \in 0 .. MaxConns /\ nextLoop \in Workers
  /\ home \in [Conns -> Workers \cup {None}]
  /\ efd \in [Conns -> Fds \cup {None}]
  /\ inits \in [Workers -> Seq(Conns)]
  /\ polling \subseteq Conns
  /\ wpc \in [Workers -> {"idle", "batch", "callback", "erase", "expire", "close", "undefined"}]
  /\ batch \in [Workers -> SUBSET (Conns \cup {Tick, Listen})]
  /\ handled \in [Workers -> Conns \cup {None}]
  /\ shutting \in [Workers -> BOOLEAN]
  /\ expiring \in [Workers -> SUBSET Conns]
  /\ slots \in [Workers -> [Slots -> SUBSET Conns]] /\ cur \in [Workers -> Slots]
  /\ idle \in [Conns -> 0 .. SlotSize]

\* Where the main thread is, and what it has in hand.
MainInv ==
  /\ ~undefined => (mpc # "accept" <=> setup # None)
  /\ setup # None <=> setupFd # None
  /\ setup # None => setup <= created /\ owner[setupFd] \in {setup, None}
  /\ mpc = "init" => efd[setup] = setupFd /\ owner[setupFd] = setup

\* The worker a connection has been given to, from its number on.
HomeInv ==
  /\ \A c \in Conns : c <= created <=> home[c] # None
  /\ \A c \in polling : home[c] # None
  /\ \A w \in Workers, c \in Conns :
       Queued(w, c) \/ c \in batch[w] \/ handled[w] = c \/ c \in expiring[w] \/ Entry(w, c) => home[c] = w
  /\ mpc = "init" /\ ~pooled => home[setup] = 0

\* Where each worker is, and what it has in hand.
WorkInv ==
  \A w \in Workers :
    /\ wpc[w] = "undefined" <=> undefined
    /\ ~undefined => (handled[w] # None <=> wpc[w] \in Ending)
    /\ wpc[w] \in {"idle", "batch"} => expiring[w] = {}
    /\ wpc[w] \in {"idle", "batch", "expire"} => ~shutting[w]
    /\ wpc[w] \in Ending /\ ~shutting[w] => expiring[w] = {} /\ wpc[w] # "close"

\* The loop of a connection knows of it once, and not while onNewConnection has
\* not called init.
QueueInv ==
  /\ \A w \in Workers : Distinct(inits[w])
  /\ \A w \in Workers, c \in Conns : Queued(w, c) => c \notin polling
  /\ mpc = "init" => /\ ~Registered(setup)
                     /\ \A w \in Workers : handled[w] # setup /\ setup \notin expiring[w] /\ ~Entry(w, setup)

\* What is registered has its descriptor, and is in the map under it or will be.
SoundInv ==
  \A c \in Conns :
    Registered(c) => /\ efd[c] # None /\ owner[efd[c]] = c
                     /\ connMap[efd[c]] = c \/ (setup = c /\ setupFd = efd[c])

\* A connection that is being ended is registered no more; its descriptor is
\* closed, or it is still its own.
HandInv ==
  \A w \in Workers, c \in Conns :
    handled[w] = c => /\ ~Registered(c)
                      /\ efd[c] = None \/ (shutting[w] /\ owner[efd[c]] = c)
                      /\ shutting[w] => ~Entry(w, c) /\ c \notin expiring[w]

\* An idle entry is that of a connection that is registered or closed by its peer.
EntryInv ==
  \A w \in Workers, c \in Conns : Entry(w, c) \/ c \in expiring[w] => c \in polling \/ efd[c] = None

\* The age of the youngest slot with an entry of a connection is the time it
\* has been idle.
AgeInv ==
  /\ \A w \in Workers, c \in Conns, s \in Slots : c \in slots[w][s] => idle[c] <= Age(w, s)
  /\ \A w \in Workers, c \in Conns :
       Entry(w, c) => idle[c] < SlotSize /\ \E s \in Slots : c \in slots[w][s] /\ Age(w, s) = idle[c]
  /\ \A w \in Workers, c \in Conns : c \in polling /\ home[c] = w => Entry(w, c) \/ c \in expiring[w]
  /\ \A w \in Workers, c \in Conns : c \in expiring[w] => idle[c] = SlotSize /\ ~Entry(w, c)

\* What m_idleConnsMap holds from the start stays there.
ConfigInv == timed \subseteq known /\ known \subseteq Loops

IInv ==
  /\ ConfigInv /\ TypeInv /\ MainInv /\ HomeInv /\ WorkInv
  /\ QueueInv /\ SoundInv /\ HandInv /\ EntryInv /\ AgeInv

\* What the proofs use of the constants.
LEMMA Constants ==
  /\ None \notin Nat /\ Tick \notin Nat /\ Listen \notin Nat /\ Tick # Listen
  /\ MaxConns \in Nat /\ MaxFd \in Nat /\ NumWorkers \in Nat \ {0} /\ SlotSize \in Nat \ {0}
  /\ 0 \in Workers /\ 0 \in Slots
  /\ Loops \subseteq Workers
BY ServerAssumption DEF Workers, Slots, Loops

\* The server begins without connections.
LEMMA InitInv == Init => IInv
<1> SUFFICES ASSUME Init PROVE IInv
  OBVIOUS
<1> USE Constants DEF Init
<1>0. ConfigInv
  BY DEF ConfigInv
<1>1. TypeInv
  BY DEF TypeInv, Workers
<1>2. \A w \in Workers, c \in Conns : ~Queued(w, c) /\ ~Entry(w, c)
  BY DEF Queued, In, Entry
<1>3. MainInv /\ WorkInv
  BY DEF MainInv, WorkInv, undefined, Ending
<1>4. HomeInv
  BY <1>2 DEF HomeInv, Conns
<1>5. QueueInv /\ SoundInv
  <2>1. \A c \in Conns : ~Registered(c)
    BY <1>2 DEF Registered
  <2>2. \A w \in Workers : Distinct(inits[w])
    BY DEF Distinct
  <2> QED  BY <1>2, <2>1, <2>2 DEF QueueInv, SoundInv
<1>6. HandInv
  BY DEF HandInv, Conns
<1>7. EntryInv /\ AgeInv
  BY <1>2 DEF EntryInv, AgeInv, Entry
<1> QED  BY <1>0, <1>1, <1>3, <1>4, <1>5, <1>6, <1>7 DEF IInv

-----------------------------------------------------------------------------
\* What the steps do, in the words of the invariant.

\* accept4 returns a free descriptor.
LEMMA Accepted ==
  ASSUME TypeInv, HomeInv, NewConnection
  PROVE  \E c \in Conns, f \in Fds, w \in Workers :
           /\ created < c /\ created' = c /\ c = created + 1 /\ home[c] = None
           /\ owner[f] = None /\ owner' = [owner EXCEPT ![f] = c]
           /\ efd' = [efd EXCEPT ![c] = f]
           /\ nextLoop' = w /\ home' = [home EXCEPT ![c] = w] /\ (~pooled => w = 0)
           /\ setup' = c /\ setupFd' = f
<1> DEFINE c == created + 1
           T == {g \in Fds : owner[g] = None}
           f == Min(T)
<1>1. c \in Conns /\ created < c /\ home[c] = None
  BY Constants DEF TypeInv, HomeInv, NewConnection, Conns
<1>2. T \subseteq Nat /\ T # {}
  BY DEF NewConnection, Fds
<1>3. f \in T
  BY <1>2, MinProperties
<1>4. /\ created' = c /\ owner' = [owner EXCEPT ![f] = c] /\ efd' = [efd EXCEPT ![c] = f]
      /\ nextLoop' = IF pooled /\ nextLoop < NumWorkers - 1 THEN nextLoop + 1 ELSE 0
      /\ home' = [home EXCEPT ![c] = nextLoop'] /\ setup' = c /\ setupFd' = f
  BY Zenon DEF NewConnection
<1> DEFINE w == IF pooled /\ nextLoop < NumWorkers - 1 THEN nextLoop + 1 ELSE 0
<1>5. w \in Workers /\ (~pooled => w = 0)
  BY Constants DEF TypeInv, Workers
<1> HIDE DEF T, f
<1>6. f \in Fds /\ owner[f] = None
  BY <1>3 DEF T
<1> QED  BY <1>1, <1>4, <1>5, <1>6

\* Every step keeps the types.
LEMMA TypeStep == IInv /\ Next => TypeInv'
<1> SUFFICES ASSUME IInv, Next PROVE TypeInv'
  OBVIOUS
<1> USE Constants DEF TypeInv, Goto, BecomesUndefined, AddEvent, RemoveEvent, CloseFd, idleVars, setupVars,
        mainVars, workVars
<1>0. TypeInv /\ UNCHANGED pooled
  BY DEF IInv, Next, configVars
<1>1. ASSUME NewConnection, batch' = batch \/ \E e : Handles(0, e) PROVE TypeInv'
  <2>1. PICK c \in Conns, f \in Fds, w \in Workers :
          /\ created' = c /\ owner' = [owner EXCEPT ![f] = c] /\ efd' = [efd EXCEPT ![c] = f]
          /\ nextLoop' = w /\ home' = [home EXCEPT ![c] = w]
          /\ setup' = c /\ setupFd' = f
    BY <1>0, <1>1, Accepted DEF IInv
  <2>2. batch' \in [Workers -> SUBSET (Conns \cup {Tick, Listen})]
    <3>1. CASE \E e : Handles(0, e)
      <4>1. PICK e : batch' = [batch EXCEPT ![0] = @ \ {e}]
        BY <3>1 DEF Handles
      <4> QED  BY <1>0, <4>1
    <3> QED  BY <1>0, <1>1, <3>1
  <2>3. /\ mpc' = "init"
        /\ UNCHANGED <<connMap, inits, polling, wpc, handled, shutting, expiring, idleVars>>
    BY <1>1, Zenon DEF NewConnection
  <2>4. created' \in 0 .. MaxConns
    BY <2>1 DEF Conns
  <2> QED  BY <1>0, <2>1, <2>2, <2>3, <2>4
<1>2. CASE AcceptFails
  BY <1>0, <1>2 DEF AcceptFails, Handles
<1>3. CASE InitConn
  <2>1. setup \in Conns /\ home[setup] \in Workers
    BY <1>0, <1>3 DEF IInv, MainInv, HomeInv, InitConn, undefined
  <2>2. CASE pooled
    <3>1. inits' = [inits EXCEPT ![home[setup]] = Append(@, setup)] /\ UNCHANGED <<slots, idle, polling>>
      BY <1>3, <2>2 DEF InitConn
    <3>2. inits' \in [Workers -> Seq(Conns)]
      BY <1>0, <2>1, <3>1
    <3> QED  BY <1>0, <1>3, <3>1, <3>2 DEF InitConn
  <2>3. CASE ~pooled
    <3>1. /\ slots' = [slots EXCEPT ![0][cur[0]] = @ \cup {setup}] /\ idle' = [idle EXCEPT ![setup] = 0]
          /\ polling' = polling \cup {setup} /\ mpc' = "insert"
          /\ UNCHANGED <<inits, owner, connMap, setupVars, efd, workVars, cur>>
      BY <1>3, <2>3 DEF InitConn, OnConnected, Renew, WithEntry
    <3>2. slots' \in [Workers -> [Slots -> SUBSET Conns]] /\ idle' \in [Conns -> 0 .. SlotSize]
      BY <1>0, <2>1, <3>1
    <3> QED  BY <1>0, <2>1, <3>1, <3>2
  <2> QED  BY <2>2, <2>3
<1>4. CASE BeginInsert
  BY <1>0, <1>4 DEF BeginInsert
<1>5. CASE InsertConn
  BY <1>0, <1>5 DEF InsertConn
<1>6. ASSUME NEW w \in Workers, RunInit(w) PROVE TypeInv'
  <2>1. inits[w] \in Seq(Conns) /\ inits[w] # <<>>
    BY <1>0, <1>6 DEF RunInit
  <2>2. Head(inits[w]) \in Conns /\ Tail(inits[w]) \in Seq(Conns)
    BY <2>1, TailOfQueue
  <2> DEFINE c == Head(inits[w])
  <2>3. /\ inits' = [inits EXCEPT ![w] = Tail(@)]
        /\ slots' = [slots EXCEPT ![w][cur[w]] = @ \cup {c}] /\ idle' = [idle EXCEPT ![c] = 0]
        /\ polling' = polling \cup {c}
        /\ UNCHANGED <<owner, connMap, mainVars, efd, workVars, cur>>
    BY <1>6, Zenon DEF RunInit, OnConnected, Renew, WithEntry
  <2> HIDE DEF c
  <2>4. c \in Conns
    BY <2>2 DEF c
  <2>5. inits' \in [Workers -> Seq(Conns)]
    BY <1>0, <2>2, <2>3
  <2>6. slots' \in [Workers -> [Slots -> SUBSET Conns]] /\ idle' \in [Conns -> 0 .. SlotSize]
    BY <1>0, <2>3, <2>4
  <2> QED  BY <1>0, <2>3, <2>4, <2>5, <2>6
<1>7. ASSUME NEW w \in Workers, PollAny(w) PROVE TypeInv'
  <2>1. PICK events : Poll(w, events)
    BY <1>7 DEF PollAny
  <2>2. events \subseteq Conns \cup {Tick, Listen}
    BY <1>0, <2>1 DEF Poll
  <2> QED  BY <1>0, <2>1, <2>2 DEF Poll
<1>8. ASSUME NEW w \in Workers, NEW c \in Conns, HandleMessage(w, c) PROVE TypeInv'
  <2>1. CASE HasEntry(c)
    <3>1. /\ slots' = [slots EXCEPT ![w][cur[w]] = @ \cup {c}] /\ idle' = [idle EXCEPT ![c] = 0]
          /\ batch' = [batch EXCEPT ![w] = @ \ {c}]
          /\ UNCHANGED <<owner, connMap, mainVars, efd, inits, polling, wpc, handled, shutting, expiring, cur>>
      BY <1>8, <2>1 DEF HandleMessage, Handles, Renew, WithEntry
    <3>2. slots' \in [Workers -> [Slots -> SUBSET Conns]] /\ idle' \in [Conns -> 0 .. SlotSize]
      BY <1>0, <3>1
    <3> QED  BY <1>0, <3>1, <3>2
  <2>2. CASE ~HasEntry(c)
    BY <1>0, <1>8, <2>2 DEF HandleMessage, Handles
  <2> QED  BY <2>1, <2>2
<1>9. ASSUME NEW w \in Workers, NEW c \in Conns, HandleClose(w, c) PROVE TypeInv'
  BY <1>0, <1>9 DEF HandleClose, Handles
<1>10. ASSUME NEW w \in Workers, NEW c \in Conns, HandleStale(w, c) PROVE TypeInv'
  BY <1>0, <1>10 DEF HandleStale, Handles
<1>11. ASSUME NEW w \in Workers, BeginOnClose(w) PROVE TypeInv'
  BY <1>0, <1>11 DEF BeginOnClose
<1>12. ASSUME NEW w \in Workers, OnClose(w) PROVE TypeInv'
  BY <1>0, <1>12 DEF OnClose
<1>13. ASSUME NEW w \in Workers, IdleTick(w) PROVE TypeInv'
  <2> DEFINE s1 == (cur[w] + 1) % SlotSize
             left == {c \in slots[w][s1] : \A s \in Slots \ {s1} : c \notin slots[w][s]}
  <2>1. s1 \in Slots
    BY <1>0 DEF Slots
  <2>2. /\ cur' = [cur EXCEPT ![w] = s1] /\ slots' = [slots EXCEPT ![w][s1] = {}]
        /\ expiring' = [expiring EXCEPT ![w] = left]
        /\ idle' = [c \in Conns |-> IF home[c] = w /\ idle[c] < SlotSize THEN idle[c] + 1 ELSE idle[c]]
        /\ Handles(w, Tick) /\ Goto(w, "expire")
        /\ UNCHANGED <<owner, connMap, mainVars, efd, inits, polling, handled, shutting, known>>
    BY <1>13, Zenon DEF IdleTick
  <2>3. left \subseteq Conns
    BY <1>0, <2>1
  <2> HIDE DEF s1, left
  <2>4. idle' \in [Conns -> 0 .. SlotSize]
    BY <1>0, <2>2
  <2>5. slots' \in [Workers -> [Slots -> SUBSET Conns]] /\ cur' \in [Workers -> Slots]
        /\ expiring' \in [Workers -> SUBSET Conns]
    BY <1>0, <2>1, <2>2, <2>3
  <2>6. batch' \in [Workers -> SUBSET (Conns \cup {Tick, Listen})]
    BY <1>0, <2>2 DEF Handles
  <2> QED  BY <1>0, <2>2, <2>4, <2>5, <2>6
<1>14. ASSUME NEW w \in Workers, NEW c \in Conns, DropEntry(w, c) \/ ShutDown(w, c) PROVE TypeInv'
  <2>1. CASE DropEntry(w, c)
    BY <1>0, <2>1 DEF DropEntry
  <2>2. CASE ShutDown(w, c)
    BY <1>0, <2>2 DEF ShutDown
  <2> QED  BY <1>14, <2>1, <2>2
<1>15. ASSUME NEW w \in Workers, CloseSocket(w) \/ EndTick(w) \/ EndBatch(w) PROVE TypeInv'
  <2>1. CASE CloseSocket(w)
    BY <1>0, <2>1 DEF CloseSocket
  <2>2. ASSUME NEW p \in {"idle", "batch"}, Goto(w, p),
               UNCHANGED <<owner, connMap, mainVars, efd, inits, polling, batch, handled, shutting, expiring,
                           idleVars>>
        PROVE  TypeInv'
    BY <1>0, <2>2
  <2>3. CASE EndTick(w) \/ EndBatch(w)
    BY <2>2, <2>3 DEF EndTick, EndBatch
  <2> QED  BY <1>15, <2>1, <2>3
<1>16. ASSUME NEW w \in Workers, SharedTick(w) \/ IdleRace(w) PROVE TypeInv'
  <2>1. CASE SharedTick(w)
    BY <1>0, <2>1 DEF SharedTick, Handles
  <2>2. CASE IdleRace(w)
    BY <1>0, <2>2 DEF IdleRace
  <2> QED  BY <1>16, <2>1, <2>2
<1> QED
  BY <1>1, <1>2, <1>3, <1>4, <1>5, <1>6, <1>7, <1>8, <1>9, <1>10, <1>11, <1>12, <1>13, <1>14, <1>15, <1>16
     DEF Next, Steps, Accept, AcceptInLoop, MainStep, WorkerStep, HandleRead

\* The workers only add to m_idleConnsMap, each its own IdleConnections.
LEMMA ConfigStep == IInv /\ Next => ConfigInv'
<1> SUFFICES ASSUME IInv, Next PROVE ConfigInv'
  OBVIOUS
<1>1. timed \subseteq known /\ known \subseteq Loops /\ timed' = timed /\ Loops' = Loops
  BY DEF IInv, ConfigInv, Next, configVars, Loops
<1>2. CASE InitConn
  <2>1. CASE pooled
    BY <1>1, <1>2, <2>1 DEF InitConn, ConfigInv
  <2>2. CASE ~pooled
    <3>1. known' = known \cup {0} /\ 0 \in Loops
      BY <1>2, <2>2 DEF InitConn, OnConnected, Loops
    <3> QED  BY <1>1, <3>1 DEF ConfigInv
  <2> QED  BY <2>1, <2>2
<1>3. ASSUME NEW w \in Loops, RunInit(w) PROVE ConfigInv'
  <2>1. known' = known \cup {w}
    BY <1>3 DEF RunInit, OnConnected
  <2> QED  BY <1>1, <1>3, <2>1 DEF ConfigInv
<1>4. CASE UNCHANGED known
  BY <1>1, <1>4 DEF ConfigInv
<1>5. ASSUME NEW w \in Loops, WorkerStep(w) PROVE UNCHANGED known
  BY <1>5 DEF WorkerStep, EndBatch, BeginOnClose, OnClose, IdleTick, SharedTick, CloseSocket, EndTick, HandleRead,
              HandleMessage, HandleClose, HandleStale, DropEntry, ShutDown, idleVars
<1>6. Accept \/ AcceptInLoop \/ AcceptFails \/ BeginInsert \/ InsertConn => UNCHANGED known
  BY DEF Accept, AcceptInLoop, NewConnection, AcceptFails, BeginInsert, InsertConn, idleVars
<1>7. ASSUME NEW w \in Loops, PollAny(w) \/ IdleRace(w) PROVE UNCHANGED known
  BY <1>7 DEF PollAny, Poll, IdleRace, idleVars
<1> QED  BY <1>2, <1>3, <1>4, <1>5, <1>6, <1>7 DEF Next, Steps, MainStep

-----------------------------------------------------------------------------
\* The rest of the invariant, action by action.
Inv2 == MainInv /\ HomeInv /\ WorkInv /\ QueueInv /\ SoundInv /\ HandInv /\ EntryInv

\* What is queued, registered or in the slots changes with few variables.
LEMMA Frames ==
  /\ UNCHANGED inits => \A w \in Workers, c \in Conns : Queued(w, c)' <=> Queued(w, c)
  /\ UNCHANGED <<inits, polling>> => \A c \in Conns : Registered(c)' <=> Registered(c)
  /\ UNCHANGED slots => \A w \in Workers, c \in Conns : Entry(w, c)' <=> Entry(w, c)
BY DEF Queued, Registered, Entry

\* A step of a thread that leaves the connections alone.
LEMMA ControlStep ==
  ASSUME IInv, UNCHANGED <<pooled, owner, connMap, setupVars, efd, inits, polling, handled, shutting, expiring,
                           idleVars>>,
         mpc' = "init" => mpc = "init",
         \A w \in Workers, c \in Conns : c \in batch'[w] => c \in batch[w] \/ home[c] = w
  PROVE  HomeInv' /\ QueueInv' /\ SoundInv' /\ HandInv' /\ EntryInv' /\ AgeInv'
<1> USE DEF IInv, setupVars, idleVars
<1>1. /\ \A w \in Workers, c \in Conns : Queued(w, c)' <=> Queued(w, c)
      /\ \A c \in Conns : Registered(c)' <=> Registered(c)
      /\ \A w \in Workers, c \in Conns : Entry(w, c)' <=> Entry(w, c)
  BY Frames
<1>2. HomeInv'
  BY <1>1 DEF HomeInv
<1>3. QueueInv'
  <2>1. setup \in Conns \/ mpc # "init"
    BY DEF MainInv, TypeInv, undefined
  <2> QED  BY <1>1, <2>1 DEF QueueInv
<1>4. SoundInv' /\ HandInv' /\ EntryInv'
  BY <1>1 DEF SoundInv, HandInv, EntryInv
<1>5. AgeInv'
  BY <1>1 DEF AgeInv, Age
<1> QED  BY <1>2, <1>3, <1>4, <1>5

\* A step of a worker that closes another descriptor than the one being set
\* up leaves the main thread its invariant.
LEMMA MainStays ==
  ASSUME IInv, UNCHANGED <<mpc, setup, setupFd, created>>,
         \A f \in Fds : owner'[f] \in {owner[f], None},
         mpc = "init" => owner'[setupFd] = owner[setupFd] /\ efd'[setup] = efd[setup]
  PROVE  MainInv'
<1> USE DEF IInv, MainInv, undefined
<1>1. setup # None => owner'[setupFd] \in {setup, None}
  BY Constants DEF TypeInv
<1> QED  BY <1>1, Constants DEF TypeInv

\* The steps that only move a thread on.
LEMMA ControlSteps ==
  ASSUME IInv, UNCHANGED pooled, NEW w \in Workers,
         AcceptFails \/ BeginInsert \/ PollAny(w) \/ BeginOnClose(w) \/ EndTick(w) \/ EndBatch(w)
           \/ SharedTick(w) \/ IdleRace(w)
           \/ \E c \in Conns : HandleStale(w, c)
  PROVE  Inv2' /\ AgeInv'
<1> USE Constants DEF Goto, BecomesUndefined, idleVars, setupVars, mainVars, workVars
<1>1. /\ UNCHANGED <<owner, connMap, setupVars, efd, inits, polling, handled, shutting, expiring, idleVars>>
      /\ mpc' = "init" => mpc = "init"
  BY DEF AcceptFails, BeginInsert, PollAny, Poll, BeginOnClose, EndTick, EndBatch, HandleStale,
         SharedTick, IdleRace
<1>2. ASSUME NEW v \in Workers, NEW c \in Conns, c \in batch'[v] PROVE c \in batch[v] \/ home[c] = v
  <2> USE DEF IInv, TypeInv
  <2>1. CASE PollAny(w)
    <3>1. PICK events : /\ events \subseteq {d \in polling : home[d] = w} \cup {Tick, Listen}
                        /\ batch' = [batch EXCEPT ![w] = events]
      BY <2>1 DEF PollAny, Poll
    <3>2. c # Tick /\ c # Listen
      BY DEF Conns
    <3> QED  BY <1>2, <3>1, <3>2
  <2>2. CASE AcceptFails
    BY <1>2, <2>2 DEF AcceptFails, Handles
  <2>3. CASE \E d \in Conns : HandleStale(w, d)
    BY <1>2, <2>3 DEF HandleStale, Handles
  <2>4. CASE UNCHANGED batch
    BY <1>2, <2>4
  <2>5. CASE SharedTick(w)
    BY <1>2, <2>5 DEF SharedTick, Handles
  <2> QED  BY <2>1, <2>2, <2>3, <2>4, <2>5 DEF BeginInsert, BeginOnClose, EndTick, EndBatch, IdleRace
<1>3. HomeInv' /\ QueueInv' /\ SoundInv' /\ HandInv' /\ EntryInv' /\ AgeInv'
  BY <1>1, <1>2, ControlStep
<1>4. MainInv'
  BY <1>1 DEF IInv, MainInv, undefined, AcceptFails, BeginInsert, PollAny, Poll, BeginOnClose, EndTick, EndBatch,
              HandleStale, SharedTick, IdleRace
<1>5. WorkInv'
  <2> USE DEF IInv, WorkInv, TypeInv, Ending, undefined
  <2>1. CASE AcceptFails \/ BeginInsert
    BY <2>1, <1>1 DEF AcceptFails, BeginInsert
  <2>2. CASE PollAny(w) \/ EndTick(w) \/ EndBatch(w)
    BY <2>2, <1>1 DEF PollAny, Poll, EndTick, EndBatch
  <2>3. CASE BeginOnClose(w)
    BY <2>3, <1>1 DEF BeginOnClose
  <2>4. CASE \E c \in Conns : HandleStale(w, c)
    BY <2>4, <1>1 DEF HandleStale
  <2>5. CASE SharedTick(w)
    BY <2>5, <1>1 DEF SharedTick
  <2>6. CASE IdleRace(w)
    BY <2>6, <1>1 DEF IdleRace
  <2> QED  BY <2>1, <2>2, <2>3, <2>4, <2>5, <2>6
<1> QED  BY <1>3, <1>4, <1>5 DEF Inv2

\* A descriptor that accept4 returns is free, and so is the number of its
\* connection.
LEMMA NewConnectionStep ==
  ASSUME IInv, UNCHANGED pooled, NewConnection, TypeInv',
         \A w \in Workers : batch'[w] \subseteq batch[w]
  PROVE  Inv2' /\ AgeInv'
<1> USE Constants DEF IInv
<1>1. PICK d \in Conns, f \in Fds, v \in Workers :
        /\ created < d /\ created' = d /\ d = created + 1 /\ home[d] = None
        /\ owner[f] = None /\ owner' = [owner EXCEPT ![f] = d]
        /\ efd' = [efd EXCEPT ![d] = f]
        /\ nextLoop' = v /\ home' = [home EXCEPT ![d] = v] /\ (~pooled => v = 0)
        /\ setup' = d /\ setupFd' = f
  BY Accepted
<1>2. /\ mpc = "accept" /\ mpc' = "init"
      /\ UNCHANGED <<connMap, inits, polling, wpc, handled, shutting, expiring, slots, cur, idle>>
  BY Zenon DEF NewConnection, idleVars
<1>3. /\ \A w \in Workers, c \in Conns : Queued(w, c)' <=> Queued(w, c)
      /\ \A c \in Conns : Registered(c)' <=> Registered(c)
      /\ \A w \in Workers, c \in Conns : Entry(w, c)' <=> Entry(w, c)
  BY <1>2, Frames
<1>4. /\ ~Registered(d)
      /\ \A w \in Workers : d \notin batch[w] /\ handled[w] # d /\ d \notin expiring[w] /\ ~Entry(w, d)
  <2>1. \A w \in Workers : ~Queued(w, d) /\ d \notin batch[w] /\ handled[w] # d /\ d \notin expiring[w] /\ ~Entry(w, d)
    BY <1>1 DEF HomeInv, Workers
  <2>2. d \notin polling
    BY <1>1 DEF HomeInv
  <2> QED  BY <2>1, <2>2 DEF Registered
<1>5. setup = None /\ ~undefined
  BY <1>2 DEF MainInv, undefined
<1>6. MainInv'
  BY <1>1, <1>2 DEF MainInv, TypeInv, undefined, Conns, Fds
<1>7. HomeInv'
  <2>1. \A c \in Conns : c # d => home'[c] = home[c]
    BY <1>1 DEF TypeInv
  <2>2. ASSUME NEW c \in Conns PROVE c <= created' <=> home'[c] # None
    <3>1. created \in Nat /\ c \in Nat /\ d \in Nat /\ v # None
      BY DEF TypeInv, Conns, Workers
    <3>2. CASE c = d
      <4>1. home'[c] = v
        BY <1>1, <3>2 DEF TypeInv
      <4> QED  BY <1>1, <3>1, <3>2, <4>1
    <3>3. CASE c # d
      <4>1. c <= created <=> home[c] # None
        BY DEF HomeInv
      <4>2. c <= created' <=> c <= created
        BY <1>1, <3>1, <3>3
      <4> QED  BY <2>1, <3>3, <4>1, <4>2
    <3> QED  BY <3>2, <3>3
  <2>3. \A c \in polling' : home'[c] # None
    BY <1>1, <1>2, <2>2, <2>1 DEF HomeInv, TypeInv
  <2>4. mpc' = "init" /\ ~pooled' => home'[setup'] = 0
    BY <1>1 DEF TypeInv
  <2>5. ASSUME NEW w \in Workers, NEW c \in Conns,
               Queued(w, c)' \/ c \in batch'[w] \/ handled'[w] = c \/ c \in expiring'[w] \/ Entry(w, c)'
        PROVE  home'[c] = w
    <3>1. Queued(w, c) \/ c \in batch[w] \/ handled[w] = c \/ c \in expiring[w] \/ Entry(w, c)
      BY <1>2, <1>3, <2>5
    <3>2. c # d
      BY <1>4, <3>1 DEF Registered
    <3> QED  BY <2>1, <3>1, <3>2 DEF HomeInv
  <2> QED  BY <2>2, <2>3, <2>4, <2>5 DEF HomeInv
<1>8. WorkInv'
  BY <1>2, <1>5 DEF WorkInv, undefined
<1>9. QueueInv'
  BY <1>1, <1>2, <1>3, <1>4 DEF QueueInv
<1>10. SoundInv' /\ HandInv' /\ EntryInv'
  <2>1. /\ \A c \in Conns : c # d => efd'[c] = efd[c]
        /\ \A g \in Fds : owner[g] # None => owner'[g] = owner[g]
    BY <1>1 DEF TypeInv
  <2>2. SoundInv'
    <3>1. ASSUME NEW c \in Conns, Registered(c) PROVE /\ efd'[c] # None /\ owner'[efd'[c]] = c
                                                      /\ connMap'[efd'[c]] = c
      <4>1. c # d /\ efd[c] \in Fds /\ owner[efd[c]] = c /\ connMap[efd[c]] = c /\ c # None
        BY <1>4, <1>5, <3>1 DEF SoundInv, TypeInv, Conns
      <4> QED  BY <1>2, <2>1, <4>1 DEF Fds
    <3> QED  BY <1>3, <3>1 DEF SoundInv
  <2>3. HandInv'
    <3>1. ASSUME NEW w \in Workers, NEW c \in Conns, handled[w] = c
          PROVE efd'[c] = None \/ (shutting[w] /\ owner'[efd'[c]] = c)
      <4>1. c # d /\ c # None /\ (efd[c] = None \/ (efd[c] \in Fds /\ shutting[w] /\ owner[efd[c]] = c))
        <5>1. c # d /\ c # None
          BY <1>4, <3>1 DEF Conns
        <5>2. efd[c] = None \/ (shutting[w] /\ owner[efd[c]] = c)
          BY <3>1 DEF HandInv
        <5>3. efd[c] \in Fds \cup {None}
          BY DEF TypeInv
        <5> QED  BY <5>1, <5>2, <5>3
      <4> QED  BY <2>1, <4>1
    <3> QED  BY <1>2, <1>3, <3>1 DEF HandInv
  <2>4. EntryInv'
    BY <1>2, <1>3, <1>4, <2>1 DEF EntryInv
  <2> QED  BY <2>2, <2>3, <2>4
<1>11. AgeInv'
  BY <1>1, <1>2, <1>3, <1>4 DEF AgeInv, Age, Registered
<1> QED  BY <1>6, <1>7, <1>8, <1>9, <1>10, <1>11 DEF Inv2

\* A slot was the current one less than a revolution ago.
LEMMA AgeRange ==
  ASSUME TypeInv, NEW w \in Workers, NEW s \in Slots
  PROVE  Age(w, s) \in 0 .. SlotSize - 1 /\ (Age(w, s) = 0 <=> s = cur[w]) /\ cur[w] \in Slots
<1>1. cur[w] \in 0 .. SlotSize - 1 /\ s \in 0 .. SlotSize - 1 /\ SlotSize \in Nat \ {0}
  BY Constants DEF TypeInv, Slots
<1>2. CASE s <= cur[w]
  BY <1>1, <1>2 DEF Age, Slots
<1>3. CASE ~(s <= cur[w])
  BY <1>1, <1>3 DEF Age, Slots
<1> QED  BY <1>2, <1>3

\* A connection that is heard of.
LEMMA Renewed ==
  ASSUME TypeInv, AgeInv, NEW w \in Workers, NEW d \in Conns, Renew(w, d), UNCHANGED <<cur, expiring, home>>,
         polling' \subseteq polling \cup {d}, home[d] = w,
         \A v \in Workers : d \notin expiring[v] /\ (Entry(v, d) => v = w)
  PROVE  /\ \A v \in Workers, c \in Conns : Entry(v, c)' <=> Entry(v, c) \/ (v = w /\ c = d)
         /\ AgeInv'
<1>1. slots' = [slots EXCEPT ![w][cur[w]] = @ \cup {d}] /\ idle' = [idle EXCEPT ![d] = 0]
  BY DEF Renew, WithEntry
<1>2. cur[w] \in Slots /\ slots \in [Workers -> [Slots -> SUBSET Conns]] /\ idle \in [Conns -> 0 .. SlotSize]
  BY AgeRange, Constants DEF TypeInv
<1>3. \A v \in Workers, s \in Slots, c \in Conns :
        c \in slots'[v][s] <=> c \in slots[v][s] \/ (v = w /\ s = cur[w] /\ c = d)
  BY <1>1, <1>2
<1>4. idle'[d] = 0 /\ \A c \in Conns : c # d => idle'[c] = idle[c]
  BY <1>1, <1>2
<1>5. \A v \in Workers, c \in Conns : Entry(v, c)' <=> Entry(v, c) \/ (v = w /\ c = d)
  BY <1>2, <1>3 DEF Entry
<1>6. \A v \in Workers, s \in Slots : Age(v, s)' = Age(v, s) /\ Age(v, s) >= 0
  BY AgeRange DEF Age
<1>7. Age(w, cur[w]) = 0
  BY AgeRange, <1>2
<1>8. \A v \in Workers, c \in Conns, s \in Slots : c \in slots'[v][s] => idle'[c] <= Age(v, s)
  <2>1. ASSUME NEW v \in Workers, NEW c \in Conns, NEW s \in Slots, c \in slots'[v][s], c # d
        PROVE  idle'[c] <= Age(v, s)
    BY <1>3, <1>4, <2>1 DEF AgeInv
  <2> QED  BY <1>4, <1>6, <2>1
<1>9. ASSUME NEW v \in Workers, NEW c \in Conns, Entry(v, c)'
      PROVE  idle'[c] < SlotSize /\ \E s \in Slots : c \in slots'[v][s] /\ Age(v, s) = idle'[c]
  <2>1. CASE c = d
    <3>1. v = w
      BY <1>5, <1>9, <2>1
    <3> QED  BY <1>2, <1>3, <1>4, <1>7, <2>1, <3>1, Constants
  <2>2. CASE c # d
    <3>1. Entry(v, c)
      BY <1>5, <1>9, <2>2
    <3> QED  BY <1>3, <1>4, <2>2, <3>1 DEF AgeInv
  <2> QED  BY <2>1, <2>2
<1>10. \A v \in Workers, c \in Conns : c \in polling' /\ home'[c] = v => Entry(v, c)' \/ c \in expiring'[v]
  BY <1>5 DEF AgeInv
<1>11. \A v \in Workers, c \in Conns : c \in expiring'[v] => idle'[c] = SlotSize /\ ~Entry(v, c)'
  BY <1>4, <1>5 DEF AgeInv
<1>12. AgeInv'
  BY <1>6, <1>8, <1>9, <1>10, <1>11 DEF AgeInv
<1> QED  BY <1>5, <1>12

\* init() hands the connection over to its loop, once.
LEMMA InitConnStep ==
  ASSUME IInv, UNCHANGED pooled, InitConn
  PROVE  Inv2' /\ AgeInv'
<1> USE Constants DEF IInv
<1>1. /\ mpc = "init" /\ mpc' = "insert" /\ ~undefined
      /\ UNCHANGED <<owner, connMap, setup, setupFd, created, nextLoop, home, efd, wpc, batch, handled, shutting,
                     expiring, cur>>
  BY DEF InitConn, setupVars, workVars, undefined
<1>2. setup \in Conns /\ setupFd \in Fds /\ efd[setup] = setupFd /\ owner[setupFd] = setup /\ setup <= created
  BY <1>1 DEF MainInv, TypeInv
<1>3. home[setup] \in Workers
  BY <1>2 DEF HomeInv, TypeInv
<1>4. /\ ~Registered(setup)
      /\ \A w \in Workers : handled[w] # setup /\ setup \notin expiring[w] /\ ~Entry(w, setup)
  BY <1>1 DEF QueueInv
<1>5. MainInv'
  BY <1>1 DEF MainInv, undefined
<1>6. WorkInv'
  BY <1>1 DEF WorkInv, undefined
<1>7. CASE pooled
  <2>1. inits' = [inits EXCEPT ![home[setup]] = Append(@, setup)] /\ UNCHANGED <<slots, idle, polling>>
    BY <1>7 DEF InitConn
  <2> DEFINE h == home[setup]
             q == Append(inits[h], setup)
  <2>2. inits[h] \in Seq(Conns) /\ ~In(inits[h], setup) /\ Distinct(inits[h])
    BY <1>3, <1>4 DEF TypeInv, Registered, Queued, QueueInv
  <2>3. (\A c : In(q, c) <=> In(inits[h], c) \/ c = setup) /\ Distinct(q)
    BY <1>2, <2>2, AppendToQueue
  <2> HIDE DEF q
  <2>4. inits' = [inits EXCEPT ![h] = q] /\ h \in Workers
    BY <1>3, <2>1 DEF q
  <2> HIDE DEF h
  <2>5. \A w \in Workers, c \in Conns : Queued(w, c)' <=> Queued(w, c) \/ (w = h /\ c = setup)
    BY <2>3, <2>4 DEF Queued, TypeInv
  <2>6. \A c \in Conns : Registered(c)' <=> Registered(c) \/ c = setup
    BY <1>2, <2>1, <2>4, <2>5 DEF Registered
  <2>7. \A w \in Workers, c \in Conns : Entry(w, c)' <=> Entry(w, c)
    BY <2>1, Frames
  <2>8. HomeInv'
    BY <1>1, <2>1, <2>5, <2>7 DEF HomeInv, h
  <2>9. QueueInv'
    <3>1. \A w \in Workers : Distinct(inits'[w])
      BY <2>3, <2>4 DEF QueueInv, TypeInv
    <3>2. \A w \in Workers, c \in Conns : Queued(w, c)' => c \notin polling'
      BY <1>4, <2>1, <2>5 DEF QueueInv, Registered
    <3> QED  BY <1>1, <3>1, <3>2 DEF QueueInv
  <2>10. SoundInv' /\ HandInv' /\ EntryInv'
    <3>1. setupFd # None /\ \A w \in Workers : handled[w] # setup
      BY <1>2, <1>4 DEF Fds
    <3> QED  BY <1>1, <1>2, <2>1, <2>6, <2>7, <3>1 DEF SoundInv, HandInv, EntryInv
  <2>11. AgeInv'
    BY <1>1, <2>1, <2>7 DEF AgeInv, Age
  <2> QED  BY <1>5, <1>6, <2>8, <2>9, <2>10, <2>11 DEF Inv2
<1>8. CASE ~pooled
  <2>1. Renew(0, setup) /\ polling' = polling \cup {setup} /\ UNCHANGED inits
    BY <1>8 DEF InitConn, OnConnected, AddEvent
  <2>2. home[setup] = 0
    BY <1>1, <1>8 DEF HomeInv
  <2>3. /\ \A w \in Workers, c \in Conns : Entry(w, c)' <=> Entry(w, c) \/ (w = 0 /\ c = setup)
        /\ AgeInv'
    BY <1>1, <1>2, <1>4, <2>1, <2>2, Renewed
  <2>4. \A w \in Workers, c \in Conns : Queued(w, c)' <=> Queued(w, c)
    BY <2>1, Frames
  <2>5. \A c \in Conns : Registered(c)' <=> Registered(c) \/ c = setup
    BY <2>1, <2>4 DEF Registered
  <2>6. HomeInv'
    BY <1>1, <1>3, <2>1, <2>2, <2>3, <2>4 DEF HomeInv
  <2>7. QueueInv'
    BY <1>1, <1>4, <2>1, <2>4 DEF QueueInv, Registered
  <2>8. SoundInv' /\ HandInv' /\ EntryInv'
    <3>1. setupFd # None /\ \A w \in Workers : handled[w] # setup
      BY <1>2, <1>4 DEF Fds
    <3> QED  BY <1>1, <1>2, <2>1, <2>3, <2>5, <3>1 DEF SoundInv, HandInv, EntryInv
  <2> QED  BY <1>5, <1>6, <2>3, <2>6, <2>7, <2>8 DEF Inv2
<1> QED  BY <1>7, <1>8

\* The connection goes into m_connMap, in the place of a stale one if there
\* is one.
LEMMA InsertConnStep ==
  ASSUME IInv, UNCHANGED pooled, InsertConn
  PROVE  Inv2' /\ AgeInv'
<1> USE Constants DEF IInv
<1>1. /\ mpc = "inserting" /\ mpc' = "accept" /\ ~undefined
      /\ connMap' = [connMap EXCEPT ![setupFd] = setup] /\ setup' = None /\ setupFd' = None
      /\ UNCHANGED <<owner, created, nextLoop, home, efd, inits, polling, wpc, batch, handled, shutting, expiring,
                     slots, cur, idle>>
  BY DEF InsertConn, workVars, idleVars, undefined
<1>2. setup \in Conns /\ setupFd \in Fds /\ owner[setupFd] \in {setup, None}
  BY <1>1 DEF MainInv, TypeInv, undefined
<1>3. /\ \A w \in Workers, c \in Conns : Queued(w, c)' <=> Queued(w, c)
      /\ \A c \in Conns : Registered(c)' <=> Registered(c)
      /\ \A w \in Workers, c \in Conns : Entry(w, c)' <=> Entry(w, c)
  BY <1>1, Frames
<1>4. MainInv'
  BY <1>1 DEF MainInv, undefined
<1>5. WorkInv'
  BY <1>1 DEF WorkInv, undefined
<1>6. HomeInv' /\ QueueInv' /\ HandInv' /\ EntryInv'
  BY <1>1, <1>3 DEF HomeInv, QueueInv, HandInv, EntryInv
<1>7. ASSUME NEW c \in Conns, Registered(c)
      PROVE  efd[c] # None /\ owner[efd[c]] = c /\ connMap'[efd[c]] = c
  <2>1. efd[c] \in Fds /\ owner[efd[c]] = c /\ (connMap[efd[c]] = c \/ (setup = c /\ setupFd = efd[c])) /\ c # None
    BY <1>7 DEF SoundInv, TypeInv, Conns
  <2>2. connMap'[efd[c]] = c
    BY <1>1, <1>2, <2>1 DEF TypeInv
  <2> QED  BY <2>1, <2>2 DEF Fds
<1>8. SoundInv'
  BY <1>1, <1>3, <1>7 DEF SoundInv
<1>9. AgeInv'
  BY <1>1, <1>3 DEF AgeInv, Age
<1> QED  BY <1>4, <1>5, <1>6, <1>8, <1>9 DEF Inv2

\* init()'s functor registers the connection and gives it an idle entry.
LEMMA RunInitStep ==
  ASSUME IInv, UNCHANGED pooled, NEW w \in Workers, RunInit(w)
  PROVE  Inv2' /\ AgeInv'
<1> USE Constants DEF IInv
<1>1. PICK d, q :
        /\ d = Head(inits[w]) /\ q = Tail(inits[w])
        /\ wpc[w] = "idle" /\ inits[w] # <<>>
        /\ inits' = [inits EXCEPT ![w] = q] /\ Renew(w, d) /\ polling' = polling \cup {d}
        /\ UNCHANGED <<owner, connMap, mpc, setup, setupFd, created, nextLoop, home, efd, wpc, batch, handled,
                       shutting, expiring, cur>>
  BY Zenon DEF RunInit, OnConnected, AddEvent, mainVars, setupVars, workVars
<1>2. inits[w] \in Seq(Conns) /\ Distinct(inits[w])
  BY DEF TypeInv, QueueInv
<1>3. /\ d \in Conns /\ In(inits[w], d) /\ (\A c : In(q, c) => In(inits[w], c)) /\ Distinct(q) /\ ~In(q, d)
      /\ \A c : In(inits[w], c) => In(q, c) \/ c = d
  BY <1>1, <1>2, TailOfQueue
<1>4. Queued(w, d) /\ Registered(d) /\ home[d] = w
  BY <1>3 DEF Queued, Registered, HomeInv
<1>5. \A v \in Workers : d \notin expiring[v] /\ handled[v] # d /\ (Entry(v, d) => v = w)
  <2>1. expiring[w] = {}
    BY <1>1 DEF WorkInv
  <2>2. \A v \in Workers : d \notin expiring[v] /\ (Entry(v, d) => v = w)
    BY <1>3, <1>4, <2>1 DEF HomeInv
  <2>3. \A v \in Workers : handled[v] # d
    BY <1>3, <1>4 DEF HandInv
  <2> QED  BY <2>2, <2>3
<1>6. /\ \A v \in Workers, c \in Conns : Entry(v, c)' <=> Entry(v, c) \/ (v = w /\ c = d)
      /\ AgeInv'
  BY <1>1, <1>3, <1>4, <1>5, Renewed
<1>7. \A v \in Workers, c \in Conns : /\ Queued(v, c)' => Queued(v, c)
                                      /\ Queued(v, d)' => v # w
                                      /\ Queued(v, c) => Queued(v, c)' \/ c = d
  <2>1. inits'[w] = q /\ \A v \in Workers : v # w => inits'[v] = inits[v]
    BY <1>1 DEF TypeInv
  <2> QED  BY <1>3, <2>1 DEF Queued
<1>8. \A c \in Conns : Registered(c)' <=> Registered(c)
  BY <1>1, <1>3, <1>4, <1>7 DEF Registered
<1>9. MainInv'
  BY <1>1 DEF MainInv, undefined
<1>10. WorkInv'
  BY <1>1 DEF WorkInv, undefined
<1>11. HomeInv'
  <2>1. \A c \in polling' : home'[c] # None
    BY <1>1, <1>4 DEF HomeInv, Workers
  <2> QED  BY <1>1, <1>4, <1>6, <1>7, <2>1 DEF HomeInv
<1>12. QueueInv'
  <2>1. \A v \in Workers : Distinct(inits'[v])
    BY <1>1, <1>3 DEF QueueInv, TypeInv
  <2>2. \A v \in Workers, c \in Conns : Queued(v, c)' => c \notin polling'
    <3>1. \A v \in Workers : Queued(v, d) => v = w
      BY <1>3, <1>4 DEF HomeInv
    <3>2. \A v \in Workers : ~Queued(v, d)'
      BY <1>3, <1>7, <3>1
    <3> QED  BY <1>1, <1>7, <3>2 DEF QueueInv
  <2>3. mpc = "init" => setup # d /\ setup \in Conns
    BY <1>4 DEF QueueInv, MainInv, TypeInv, undefined
  <2> QED  BY <1>1, <1>6, <1>8, <2>1, <2>2, <2>3 DEF QueueInv
<1>13. SoundInv'
  BY <1>1, <1>8 DEF SoundInv
<1>14. HandInv'
  BY <1>1, <1>5, <1>6, <1>8 DEF HandInv
<1>15. EntryInv'
  BY <1>1, <1>6 DEF EntryInv
<1> QED  BY <1>6, <1>9, <1>10, <1>11, <1>12, <1>13, <1>14, <1>15 DEF Inv2

\* A message renews the idle entry of a connection.
LEMMA HandleMessageStep ==
  ASSUME IInv, UNCHANGED pooled, NEW w \in Workers, NEW d \in Conns, HandleMessage(w, d)
  PROVE  Inv2' /\ AgeInv'
<1> USE Constants DEF IInv
<1>1. /\ wpc[w] = "batch" /\ d \in batch[w] /\ d \in polling /\ batch' = [batch EXCEPT ![w] = @ \ {d}]
      /\ UNCHANGED <<owner, connMap, mpc, setup, setupFd, created, nextLoop, home, efd, inits, polling, wpc,
                     handled, shutting, expiring, cur>>
  BY DEF HandleMessage, Handles, mainVars, setupVars
<1>2. home[d] = w /\ Registered(d)
  BY <1>1 DEF HomeInv, Registered
<1>3. Entry(w, d)
  BY <1>1, <1>2 DEF AgeInv, WorkInv
<1>4. Renew(w, d)
  BY <1>2, <1>3 DEF HandleMessage, HasEntry, Entry
<1>5. \A v \in Workers : d \notin expiring[v] /\ handled[v] # d /\ (Entry(v, d) => v = w)
  BY <1>1, <1>2 DEF HomeInv, WorkInv, HandInv
<1>6. /\ \A v \in Workers, c \in Conns : Entry(v, c)' <=> Entry(v, c)
      /\ AgeInv'
  BY <1>1, <1>2, <1>3, <1>4, <1>5, Renewed
<1>7. /\ \A v \in Workers, c \in Conns : Queued(v, c)' <=> Queued(v, c)
      /\ \A c \in Conns : Registered(c)' <=> Registered(c)
  BY <1>1, Frames
<1>8. MainInv'
  BY <1>1 DEF MainInv, undefined
<1>9. WorkInv'
  BY <1>1 DEF WorkInv, undefined
<1>10. HomeInv'
  <2>1. \A v \in Workers, c \in Conns : c \in batch'[v] => c \in batch[v]
    BY <1>1 DEF TypeInv
  <2> QED  BY <1>1, <1>6, <1>7, <2>1 DEF HomeInv
<1>11. QueueInv'
  <2>1. mpc = "init" => setup \in Conns
    BY DEF MainInv, TypeInv, undefined
  <2> QED  BY <1>1, <1>6, <1>7, <2>1 DEF QueueInv
<1>12. SoundInv' /\ HandInv' /\ EntryInv'
  BY <1>1, <1>6, <1>7 DEF SoundInv, HandInv, EntryInv
<1> QED  BY <1>6, <1>8, <1>9, <1>10, <1>11, <1>12 DEF Inv2

\* A descriptor that is closed belongs to a connection that is neither set up
\* nor registered nor being ended by another worker.
LEMMA HandleCloseStep ==
  ASSUME IInv, UNCHANGED pooled, NEW w \in Workers, NEW d \in Conns, HandleClose(w, d)
  PROVE  Inv2' /\ AgeInv'
<1> USE Constants DEF IInv
<1>1. /\ wpc[w] = "batch" /\ d \in batch[w] /\ d \in polling
      /\ batch' = [batch EXCEPT ![w] = @ \ {d}] /\ polling' = polling \ {d}
      /\ efd' = [efd EXCEPT ![d] = None] /\ handled' = [handled EXCEPT ![w] = d]
      /\ wpc' = [wpc EXCEPT ![w] = "callback"]
      /\ owner' = IF efd[d] = None THEN owner ELSE [owner EXCEPT ![efd[d]] = None]
      /\ UNCHANGED <<connMap, mpc, setup, setupFd, created, nextLoop, home, inits, shutting, expiring, slots, cur,
                     idle>>
  BY DEF HandleClose, Handles, CloseFd, RemoveEvent, Goto, mainVars, setupVars, idleVars
<1>2. home[d] = w /\ Registered(d) /\ expiring[w] = {} /\ ~shutting[w] /\ handled[w] = None /\ ~undefined
  <2>1. ~undefined
    BY <1>1 DEF WorkInv
  <2> QED  BY <1>1, <2>1 DEF HomeInv, Registered, WorkInv, Ending, TypeInv
<1>3. efd[d] \in Fds /\ owner[efd[d]] = d /\ owner' = [owner EXCEPT ![efd[d]] = None]
  BY <1>1, <1>2 DEF SoundInv, TypeInv
<1>4. /\ \A v \in Workers, c \in Conns : Queued(v, c)' <=> Queued(v, c)
      /\ \A v \in Workers, c \in Conns : Entry(v, c)' <=> Entry(v, c)
  BY <1>1, Frames
<1>5. \A v \in Workers : ~Queued(v, d)
  BY <1>1 DEF QueueInv
<1>6. \A c \in Conns : Registered(c)' <=> Registered(c) /\ c # d
  BY <1>1, <1>4, <1>5 DEF Registered
<1>7. /\ \A c \in Conns : c # d => efd'[c] = efd[c]
      /\ efd'[d] = None
      /\ \A f \in Fds : owner'[f] \in {owner[f], None} /\ (owner[f] # d => owner'[f] = owner[f])
  BY <1>1, <1>3 DEF TypeInv
<1>8. mpc = "init" => setup # d /\ setup \in Conns /\ setupFd \in Fds /\ owner[setupFd] = setup
  BY <1>2 DEF QueueInv, MainInv, TypeInv, undefined
<1>9. MainInv'
  BY <1>1, <1>7, <1>8, MainStays
<1>10. WorkInv'
  BY <1>1, <1>2 DEF WorkInv, undefined, Ending, TypeInv, Conns
<1>11. HomeInv'
  <2>1. \A v \in Workers, c \in Conns : /\ c \in batch'[v] => c \in batch[v]
                                        /\ handled'[v] = c => handled[v] = c \/ (v = w /\ c = d)
    BY <1>1 DEF TypeInv
  <2> QED  BY <1>1, <1>2, <1>4, <2>1 DEF HomeInv
<1>12. QueueInv'
  <2>1. \A v \in Workers : handled'[v] \in {handled[v], d}
    BY <1>1 DEF TypeInv
  <2> QED  BY <1>1, <1>4, <1>6, <1>8, <2>1 DEF QueueInv
<1>13. SoundInv'
  BY <1>1, <1>6, <1>7 DEF SoundInv, TypeInv
<1>14. HandInv'
  <2>1. ASSUME NEW v \in Workers, NEW c \in Conns, handled'[v] = c
        PROVE  /\ ~Registered(c)'
               /\ efd'[c] = None \/ (shutting'[v] /\ owner'[efd'[c]] = c)
               /\ shutting'[v] => ~Entry(v, c)' /\ c \notin expiring'[v]
    <3>1. CASE v = w
      BY <1>1, <1>2, <1>6, <1>7, <2>1, <3>1 DEF TypeInv
    <3>2. CASE v # w
      <4>1. handled[v] = c
        BY <1>1, <2>1, <3>2 DEF TypeInv
      <4>2. c # d
        BY <1>2, <4>1 DEF HandInv
      <4> QED  BY <1>1, <1>4, <1>6, <1>7, <4>1, <4>2 DEF HandInv, TypeInv
    <3> QED  BY <3>1, <3>2
  <2> QED  BY <2>1 DEF HandInv
<1>15. EntryInv'
  BY <1>1, <1>4, <1>7 DEF EntryInv
<1>16. AgeInv'
  BY <1>1, <1>4 DEF AgeInv, Age
<1> QED  BY <1>9, <1>10, <1>11, <1>12, <1>13, <1>14, <1>15, <1>16 DEF Inv2

\* onClose erases the entry of the descriptor that getFd() has left.
LEMMA OnCloseStep ==
  ASSUME IInv, UNCHANGED pooled, NEW w \in Workers, OnClose(w)
  PROVE  Inv2' /\ AgeInv'
<1> USE Constants DEF IInv
<1>1. PICK d : /\ d = handled[w] /\ wpc[w] = "erase"
               /\ connMap' = IF efd[d] = None THEN connMap ELSE [connMap EXCEPT ![efd[d]] = None]
               /\ \/ shutting[w] /\ wpc' = [wpc EXCEPT ![w] = "close"] /\ UNCHANGED handled
                  \/ ~shutting[w] /\ wpc' = [wpc EXCEPT ![w] = "batch"] /\ handled' = [handled EXCEPT ![w] = None]
               /\ UNCHANGED <<owner, mpc, setup, setupFd, created, nextLoop, home, efd, inits, polling, batch,
                              shutting, expiring, slots, cur, idle>>
  BY Zenon DEF OnClose, Goto, mainVars, setupVars, idleVars
<1>2. d \in Conns /\ ~undefined /\ (~shutting[w] => expiring[w] = {})
  BY <1>1 DEF WorkInv, TypeInv, Ending
<1>3. /\ \A v \in Workers, c \in Conns : Queued(v, c)' <=> Queued(v, c)
      /\ \A c \in Conns : Registered(c)' <=> Registered(c)
      /\ \A v \in Workers, c \in Conns : Entry(v, c)' <=> Entry(v, c)
  BY <1>1, Frames
<1>4. \A v \in Workers : handled'[v] \in {handled[v], None}
  BY <1>1 DEF TypeInv
<1>5. MainInv'
  BY <1>1 DEF MainInv, undefined
<1>6. WorkInv'
  BY <1>1, <1>2 DEF WorkInv, undefined, Ending, TypeInv
<1>7. \A c \in Conns : c # None
  BY DEF Conns
<1>8. HomeInv' /\ HandInv'
  BY <1>1, <1>3, <1>4, <1>7 DEF HomeInv, HandInv
<1>9. QueueInv'
  <2>1. mpc = "init" => setup \in Conns
    BY DEF MainInv, TypeInv, undefined
  <2> QED  BY <1>1, <1>3, <1>4, <1>7, <2>1 DEF QueueInv
<1>10. SoundInv'
  <2>1. ASSUME NEW c \in Conns, Registered(c) PROVE connMap'[efd[c]] = connMap[efd[c]]
    <3>1. owner[efd[c]] = c /\ c # d /\ efd[c] \in Fds
      BY <1>1, <2>1 DEF SoundInv, HandInv, TypeInv
    <3>2. efd[d] = None \/ (efd[d] \in Fds /\ owner[efd[d]] = d)
      BY <1>1, <1>2 DEF HandInv, TypeInv
    <3> QED  BY <1>1, <3>1, <3>2 DEF TypeInv
  <2> QED  BY <1>1, <1>3, <2>1 DEF SoundInv
<1>11. EntryInv' /\ AgeInv'
  BY <1>1, <1>3 DEF EntryInv, AgeInv, Age
<1> QED  BY <1>5, <1>6, <1>8, <1>9, <1>10, <1>11 DEF Inv2

\* The entry of a connection that is registered is not just dropped.
LEMMA DropEntryStep ==
  ASSUME IInv, UNCHANGED pooled, NEW w \in Workers, NEW d \in Conns, DropEntry(w, d)
  PROVE  Inv2' /\ AgeInv'
<1> USE Constants DEF IInv
<1>1. /\ wpc[w] = "expire" /\ d \in expiring[w] /\ ~Alive(d) /\ expiring' = [expiring EXCEPT ![w] = @ \ {d}]
      /\ UNCHANGED <<owner, connMap, mpc, setup, setupFd, created, nextLoop, home, efd, inits, polling, wpc, batch,
                     handled, shutting, slots, cur, idle>>
  BY DEF DropEntry, mainVars, setupVars, idleVars
<1>2. d \notin polling
  BY <1>1 DEF Alive, SoundInv, Registered, TypeInv
<1>3. /\ \A v \in Workers, c \in Conns : Queued(v, c)' <=> Queued(v, c)
      /\ \A c \in Conns : Registered(c)' <=> Registered(c)
      /\ \A v \in Workers, c \in Conns : Entry(v, c)' <=> Entry(v, c)
  BY <1>1, Frames
<1>4. /\ \A v \in Workers : expiring'[v] \subseteq expiring[v]
      /\ \A v \in Workers, c \in Conns : c \in expiring[v] => c \in expiring'[v] \/ c = d
  BY <1>1 DEF TypeInv
<1>5. MainInv'
  BY <1>1 DEF MainInv, undefined
<1>6. WorkInv'
  BY <1>1, <1>4 DEF WorkInv, undefined
<1>7. HomeInv' /\ EntryInv' /\ HandInv' /\ SoundInv'
  BY <1>1, <1>3, <1>4 DEF HomeInv, EntryInv, HandInv, SoundInv
<1>8. QueueInv'
  <2>1. mpc = "init" => setup \in Conns
    BY DEF MainInv, TypeInv, undefined
  <2> QED  BY <1>1, <1>3, <1>4, <2>1 DEF QueueInv
<1>9. AgeInv'
  BY <1>1, <1>2, <1>3, <1>4 DEF AgeInv, Age
<1> QED  BY <1>5, <1>6, <1>7, <1>8, <1>9 DEF Inv2

\* shutdown() takes a connection from its poller while its descriptor is
\* still its own.
LEMMA ShutDownStep ==
  ASSUME IInv, UNCHANGED pooled, NEW w \in Workers, NEW d \in Conns, ShutDown(w, d)
  PROVE  Inv2' /\ AgeInv'
<1> USE Constants DEF IInv
<1>1. /\ wpc[w] = "expire" /\ d \in expiring[w] /\ expiring' = [expiring EXCEPT ![w] = @ \ {d}]
      /\ polling' = polling \ {d} /\ handled' = [handled EXCEPT ![w] = d]
      /\ shutting' = [shutting EXCEPT ![w] = TRUE] /\ wpc' = [wpc EXCEPT ![w] = "callback"]
      /\ UNCHANGED <<owner, connMap, mpc, setup, setupFd, created, nextLoop, home, efd, inits, batch,
                     slots, cur, idle>>
  BY DEF ShutDown, RemoveEvent, Goto, mainVars, setupVars, idleVars
<1>2. /\ home[d] = w /\ ~undefined /\ ~Entry(w, d) /\ (d \in polling \/ efd[d] = None)
      /\ handled[w] = None
  <2>1. ~undefined
    BY <1>1 DEF WorkInv
  <2>2. handled[w] = None
    BY <1>1, <2>1 DEF WorkInv, Ending
  <2> QED  BY <1>1, <2>1, <2>2 DEF HomeInv, AgeInv, EntryInv
<1>3. /\ \A v \in Workers, c \in Conns : Queued(v, c)' <=> Queued(v, c)
      /\ \A v \in Workers, c \in Conns : Entry(v, c)' <=> Entry(v, c)
  BY <1>1, Frames
<1>4. \A v \in Workers : ~Queued(v, d)
  BY <1>2 DEF QueueInv, SoundInv, Registered
<1>5. \A c \in Conns : Registered(c)' <=> Registered(c) /\ c # d
  BY <1>1, <1>3, <1>4 DEF Registered
<1>6. /\ \A v \in Workers : expiring'[v] \subseteq expiring[v]
      /\ \A v \in Workers, c \in Conns : c \in expiring[v] => c \in expiring'[v] \/ c = d
      /\ d \notin expiring'[w]
  BY <1>1 DEF TypeInv
<1>7. /\ handled'[w] = d /\ shutting'[w] = TRUE
      /\ \A v \in Workers : v # w => handled'[v] = handled[v] /\ shutting'[v] = shutting[v]
  BY <1>1 DEF TypeInv
<1>8. MainInv'
  BY <1>1 DEF MainInv, undefined
<1>9. WorkInv'
  BY <1>1, <1>2, <1>6, <1>7 DEF WorkInv, undefined, Ending, TypeInv, Conns
<1>10. HomeInv'
  BY <1>1, <1>2, <1>3, <1>6, <1>7 DEF HomeInv
<1>11. QueueInv'
  <2>1. mpc = "init" => setup \in Conns /\ setup # d
    BY <1>1 DEF MainInv, TypeInv, undefined, QueueInv
  <2> QED  BY <1>1, <1>3, <1>5, <1>6, <1>7, <2>1 DEF QueueInv
<1>12. SoundInv'
  BY <1>1, <1>5 DEF SoundInv
<1>13. HandInv'
  <2>1. efd[d] = None \/ owner[efd[d]] = d
    BY <1>2 DEF SoundInv, Registered
  <2>2. ASSUME NEW v \in Workers, NEW c \in Conns, handled'[v] = c
        PROVE  /\ ~Registered(c)'
               /\ efd'[c] = None \/ (shutting'[v] /\ owner'[efd'[c]] = c)
               /\ shutting'[v] => ~Entry(v, c)' /\ c \notin expiring'[v]
    <3>1. CASE v = w
      BY <1>1, <1>2, <1>3, <1>5, <1>6, <1>7, <2>1, <2>2, <3>1
    <3>2. CASE v # w
      BY <1>1, <1>3, <1>5, <1>6, <1>7, <2>2, <3>2 DEF HandInv
    <3> QED  BY <3>1, <3>2
  <2> QED  BY <2>2 DEF HandInv
<1>14. EntryInv'
  <2>1. \A v \in Workers : ~Entry(v, d) /\ d \notin expiring'[v]
    BY <1>2, <1>6 DEF HomeInv
  <2> QED  BY <1>1, <1>3, <1>6, <2>1 DEF EntryInv
<1>15. AgeInv'
  BY <1>1, <1>3, <1>6 DEF AgeInv, Age
<1> QED  BY <1>8, <1>9, <1>10, <1>11, <1>12, <1>13, <1>14, <1>15 DEF Inv2

\* The descriptor is free only after the connection has left the map and the
\* poller.
LEMMA CloseSocketStep ==
  ASSUME IInv, UNCHANGED pooled, NEW w \in Workers, CloseSocket(w)
  PROVE  Inv2' /\ AgeInv'
<1> USE Constants DEF IInv
<1>1. PICK d : /\ d = handled[w] /\ wpc[w] = "close"
               /\ owner' = IF efd[d] = None THEN owner ELSE [owner EXCEPT ![efd[d]] = None]
               /\ handled' = [handled EXCEPT ![w] = None] /\ shutting' = [shutting EXCEPT ![w] = FALSE]
               /\ wpc' = [wpc EXCEPT ![w] = "expire"]
               /\ UNCHANGED <<connMap, mpc, setup, setupFd, created, nextLoop, home, efd, inits, polling, batch,
                              expiring, slots, cur, idle>>
  BY Zenon DEF CloseSocket, CloseFd, Goto, mainVars, setupVars, idleVars
<1>2. d \in Conns /\ ~undefined /\ ~Registered(d) /\ (efd[d] = None \/ (efd[d] \in Fds /\ owner[efd[d]] = d))
  <2>1. d \in Conns /\ ~undefined
    BY <1>1 DEF WorkInv, TypeInv, Ending
  <2> QED  BY <1>1, <2>1 DEF HandInv, TypeInv
<1>3. /\ \A v \in Workers, c \in Conns : Queued(v, c)' <=> Queued(v, c)
      /\ \A c \in Conns : Registered(c)' <=> Registered(c)
      /\ \A v \in Workers, c \in Conns : Entry(v, c)' <=> Entry(v, c)
  BY <1>1, Frames
<1>4. \A f \in Fds : owner'[f] \in {owner[f], None} /\ (owner[f] # d => owner'[f] = owner[f])
  BY <1>1, <1>2 DEF TypeInv
<1>5. \A v \in Workers : handled'[v] \in {handled[v], None} /\ (v # w => handled'[v] = handled[v])
  BY <1>1 DEF TypeInv
<1>6. handled'[w] = None /\ \A v \in Workers : v # w => shutting'[v] = shutting[v]
  BY <1>1 DEF TypeInv
<1>7. mpc = "init" => setup # d /\ setup \in Conns /\ setupFd \in Fds /\ owner[setupFd] = setup
  BY <1>1 DEF QueueInv, MainInv, TypeInv, undefined
<1>8. MainInv'
  BY <1>1, <1>4, <1>7, MainStays
<1>9. WorkInv'
  BY <1>1, <1>2 DEF WorkInv, undefined, Ending, TypeInv
<1>10. \A c \in Conns : c # None
  BY DEF Conns
<1>11. HomeInv'
  BY <1>1, <1>3, <1>5, <1>10 DEF HomeInv
<1>12. QueueInv'
  BY <1>1, <1>3, <1>5, <1>7, <1>10 DEF QueueInv
<1>13. SoundInv'
  BY <1>1, <1>2, <1>3, <1>4 DEF SoundInv, TypeInv
<1>14. HandInv'
  <2>1. ASSUME NEW v \in Workers, NEW c \in Conns, handled'[v] = c
        PROVE  v # w /\ handled[v] = c /\ c # d
    <3>1. v # w /\ handled[v] = c
      BY <1>5, <1>6, <1>10, <2>1
    <3>2. home[c] = v /\ home[d] = w
      BY <1>1, <1>2, <3>1 DEF HomeInv
    <3> QED  BY <3>1, <3>2
  <2> QED  BY <1>1, <1>3, <1>4, <1>6, <2>1 DEF HandInv, TypeInv
<1>15. EntryInv' /\ AgeInv'
  BY <1>1, <1>3 DEF EntryInv, AgeInv, Age
<1> QED  BY <1>8, <1>9, <1>11, <1>12, <1>13, <1>14, <1>15 DEF Inv2

\* IdleConnections' step to the next slot goes around.
LEMMA NextSlot ==
  ASSUME NEW k \in Slots
  PROVE  /\ (k + 1) % SlotSize = IF k = SlotSize - 1 THEN 0 ELSE k + 1
         /\ (k + 1) % SlotSize \in Slots
<1>1. k \in Nat /\ k < SlotSize /\ SlotSize \in Nat \ {0}
  BY Constants DEF Slots
<1>2. CASE k = SlotSize - 1
  BY <1>1, <1>2 DEF Slots
<1>3. CASE k # SlotSize - 1
  <2>1. k + 1 \in 0 .. SlotSize - 1
    BY <1>1, <1>3
  <2> QED  BY <1>1, <1>3, <2>1 DEF Slots
<1> QED  BY <1>2, <1>3

\* The next slot is the oldest one; all the others get older by one tick.
LEMMA IdleTickStep ==
  ASSUME IInv, UNCHANGED pooled, NEW w \in Workers, IdleTick(w), TypeInv'
  PROVE  Inv2' /\ AgeInv'
<1> USE Constants DEF IInv
<1>1. PICK s1, left :
        /\ s1 = (cur[w] + 1) % SlotSize
        /\ left = {c \in slots[w][s1] : \A s \in Slots \ {s1} : c \notin slots[w][s]}
        /\ wpc[w] = "batch" /\ batch' = [batch EXCEPT ![w] = @ \ {Tick}]
        /\ cur' = [cur EXCEPT ![w] = s1] /\ slots' = [slots EXCEPT ![w][s1] = {}]
        /\ expiring' = [expiring EXCEPT ![w] = left]
        /\ idle' = [c \in Conns |-> IF home[c] = w /\ idle[c] < SlotSize THEN idle[c] + 1 ELSE idle[c]]
        /\ wpc' = [wpc EXCEPT ![w] = "expire"]
        /\ UNCHANGED <<owner, connMap, mpc, setup, setupFd, created, nextLoop, home, efd, inits, polling, handled,
                       shutting>>
  BY Zenon DEF IdleTick, Handles, Goto, mainVars, setupVars
<1>2. cur[w] \in Slots /\ s1 = (IF cur[w] = SlotSize - 1 THEN 0 ELSE cur[w] + 1) /\ s1 \in Slots
  BY <1>1, NextSlot DEF TypeInv
<1>3. expiring[w] = {} /\ ~shutting[w] /\ ~undefined
  BY <1>1 DEF WorkInv
<1>4. \A v \in Workers, s \in Slots, c \in Conns :
        c \in slots'[v][s] <=> c \in slots[v][s] /\ ~(v = w /\ s = s1)
  BY <1>1, <1>2 DEF TypeInv
<1>5. \A c \in Conns : c \in left <=> c \in slots[w][s1] /\ \A s \in Slots \ {s1} : c \notin slots[w][s]
  BY <1>1
<1>6. expiring'[w] = left /\ \A v \in Workers : v # w => expiring'[v] = expiring[v]
  BY <1>1 DEF TypeInv
<1>7. /\ \A v \in Workers, c \in Conns : Queued(v, c)' <=> Queued(v, c)
      /\ \A c \in Conns : Registered(c)' <=> Registered(c)
  BY <1>1, Frames
<1>8. \A v \in Workers, c \in Conns : Entry(v, c)' => Entry(v, c)
  BY <1>4 DEF Entry
<1>9. \A v \in Workers, c \in Conns : c \in expiring'[v] => c \in expiring[v] \/ Entry(v, c)
  BY <1>2, <1>5, <1>6 DEF Entry
<1>10. MainInv'
  BY <1>1 DEF MainInv, undefined
<1>11. WorkInv'
  BY <1>1, <1>3, <1>6 DEF WorkInv, undefined, Ending, TypeInv
<1>12. HomeInv'
  <2>1. \A v \in Workers, c \in Conns : c \in batch'[v] => c \in batch[v]
    BY <1>1 DEF TypeInv
  <2> QED  BY <1>1, <1>7, <1>8, <1>9, <2>1 DEF HomeInv
<1>13. QueueInv'
  <2>1. mpc = "init" => setup \in Conns
    BY DEF MainInv, TypeInv, undefined
  <2> QED  BY <1>1, <1>7, <1>8, <1>9, <2>1 DEF QueueInv
<1>14. SoundInv' /\ EntryInv'
  BY <1>1, <1>7, <1>8, <1>9 DEF SoundInv, EntryInv
<1>15. HandInv'
  BY <1>1, <1>3, <1>6, <1>7, <1>8 DEF HandInv
<1>16. /\ \A s \in Slots : s # s1 => Age(w, s)' = Age(w, s) + 1 /\ Age(w, s) + 1 <= SlotSize - 1
       /\ Age(w, s1) = SlotSize - 1
       /\ \A v \in Workers, s \in Slots : v # w => Age(v, s)' = Age(v, s)
       /\ \A v \in Workers, s \in Slots : Age(v, s) \in Nat
  <2>1. cur'[w] = s1 /\ \A v \in Workers : v # w => cur'[v] = cur[v]
    BY <1>1 DEF TypeInv
  <2>2. ASSUME NEW s \in Slots, s # s1 PROVE Age(w, s)' = Age(w, s) + 1 /\ Age(w, s) + 1 <= SlotSize - 1
    BY <1>2, <2>1, <2>2 DEF Age, Slots
  <2>3. Age(w, s1) = SlotSize - 1
    BY <1>2 DEF Age, Slots
  <2> QED  BY <2>1, <2>2, <2>3, AgeRange DEF Age
<1>17. /\ \A c \in Conns : home[c] = w /\ idle[c] < SlotSize => idle'[c] = idle[c] + 1
       /\ \A c \in Conns : home[c] # w => idle'[c] = idle[c]
       /\ \A c \in Conns : idle[c] \in Nat
  BY <1>1 DEF TypeInv
<1>18. \A v \in Workers, c \in Conns : Entry(v, c) \/ c \in expiring[v] => home[c] = v
  BY DEF HomeInv
<1>19. ASSUME NEW v \in Workers, NEW c \in Conns, NEW s \in Slots, c \in slots'[v][s] PROVE idle'[c] <= Age(v, s)'
  <2>1. c \in slots[v][s] /\ Entry(v, c) /\ home[c] = v /\ idle[c] <= Age(v, s) /\ idle[c] < SlotSize
    BY <1>4, <1>18, <1>19 DEF Entry, AgeInv
  <2> QED  BY <1>4, <1>16, <1>17, <1>19, <2>1
<1>20. ASSUME NEW v \in Workers, NEW c \in Conns, Entry(v, c)'
       PROVE  idle'[c] < SlotSize /\ \E s \in Slots : c \in slots'[v][s] /\ Age(v, s)' = idle'[c]
  <2>1. PICK t \in Slots : c \in slots[v][t] /\ Age(v, t) = idle[c]
    BY <1>8, <1>20 DEF AgeInv
  <2>2. Entry(v, c) /\ home[c] = v /\ idle[c] < SlotSize
    BY <1>8, <1>18, <1>20 DEF AgeInv
  <2>3. CASE v # w
    BY <1>4, <1>16, <1>17, <2>1, <2>2, <2>3
  <2>4. CASE v = w
    <3>1. PICK s \in Slots : c \in slots[w][s] /\ s # s1
      BY <1>4, <1>20, <2>4 DEF Entry
    <3>2. idle[c] <= Age(w, s)
      BY <3>1 DEF AgeInv
    <3>3. t # s1
      BY <1>16, <1>17, <2>1, <2>4, <3>1, <3>2
    <3> QED  BY <1>4, <1>16, <1>17, <2>1, <2>2, <2>4, <3>3
  <2> QED  BY <2>3, <2>4
<1>21. ASSUME NEW v \in Workers, NEW c \in Conns, c \in polling', home'[c] = v
       PROVE  Entry(v, c)' \/ c \in expiring'[v]
  <2>1. c \in polling /\ home[c] = v
    BY <1>1, <1>21
  <2>2. Entry(v, c) \/ c \in expiring[v]
    BY <2>1 DEF AgeInv
  <2> QED  BY <1>3, <1>4, <1>5, <1>6, <2>2 DEF Entry
<1>22. ASSUME NEW v \in Workers, NEW c \in Conns, c \in expiring'[v]
       PROVE  idle'[c] = SlotSize /\ ~Entry(v, c)'
  <2>1. CASE v # w
    BY <1>6, <1>8, <1>17, <1>18, <1>22, <2>1 DEF AgeInv
  <2>2. CASE v = w
    <3>1. c \in slots[w][s1] /\ \A s \in Slots \ {s1} : c \notin slots[w][s]
      BY <1>5, <1>6, <1>22, <2>2
    <3>2. Entry(w, c) /\ home[c] = w
      BY <1>2, <1>18, <3>1 DEF Entry
    <3>3. idle[c] = SlotSize - 1
      BY <1>16, <3>1, <3>2 DEF AgeInv
    <3>4. ~Entry(w, c)'
      BY <1>4, <3>1 DEF Entry
    <3> QED  BY <1>17, <2>2, <3>2, <3>3, <3>4
  <2> QED  BY <2>1, <2>2
<1>23. AgeInv'
  BY <1>19, <1>20, <1>21, <1>22 DEF AgeInv
<1> QED  BY <1>10, <1>11, <1>12, <1>13, <1>14, <1>15, <1>23 DEF Inv2

-----------------------------------------------------------------------------
\* IInv is inductive.
LEMMA Inductive == IInv /\ [Next]_vars => IInv'
<1>1. ASSUME IInv, Next PROVE IInv'
  <2>1. ConfigInv' /\ TypeInv' /\ UNCHANGED pooled
    BY <1>1, ConfigStep, TypeStep DEF Next, configVars
  <2>2. CASE Accept \/ AcceptInLoop
    <3>1. NewConnection /\ (batch' = batch \/ batch' = [batch EXCEPT ![0] = @ \ {Listen}])
      BY <2>2 DEF Accept, AcceptInLoop, Handles
    <3>2. batch \in [Workers -> SUBSET (Conns \cup {Tick, Listen})]
      BY <1>1 DEF IInv, TypeInv
    <3>3. \A w \in Workers : batch'[w] \subseteq batch[w]
      BY <3>1, <3>2
    <3> QED  BY <1>1, <2>1, <3>1, <3>3, NewConnectionStep DEF IInv, Inv2
  <2>3. CASE AcceptFails \/ BeginInsert
    BY <1>1, <2>1, <2>3, ControlSteps, Constants DEF IInv, Inv2
  <2>4. CASE InitConn \/ InsertConn
    BY <1>1, <2>1, <2>4, InitConnStep, InsertConnStep DEF IInv, Inv2
  <2>5. ASSUME NEW w \in Workers, PollAny(w) \/ BeginOnClose(w) \/ EndTick(w) \/ EndBatch(w)
                 \/ SharedTick(w) \/ IdleRace(w) \/ \E c \in Conns : HandleStale(w, c)
        PROVE  IInv'
    BY <1>1, <2>1, <2>5, ControlSteps DEF IInv, Inv2
  <2>6. ASSUME NEW w \in Workers, RunInit(w) \/ OnClose(w) \/ IdleTick(w) \/ CloseSocket(w)
        PROVE  IInv'
    BY <1>1, <2>1, <2>6, RunInitStep, OnCloseStep, IdleTickStep, CloseSocketStep DEF IInv, Inv2
  <2>7. ASSUME NEW w \in Workers, NEW c \in Conns, HandleRead(w, c) \/ DropEntry(w, c) \/ ShutDown(w, c)
        PROVE  IInv'
    BY <1>1, <2>1, <2>7, HandleMessageStep, HandleCloseStep, DropEntryStep, ShutDownStep
       DEF IInv, Inv2, HandleRead
  <2> QED
    BY <1>1, <2>2, <2>3, <2>4, <2>5, <2>6, <2>7, Constants DEF Next, Steps, MainStep, WorkerStep
<1>2. ASSUME IInv, UNCHANGED vars PROVE IInv'
  <2>1. TypeInv' /\ ConfigInv'
    BY <1>2 DEF IInv, TypeInv, ConfigInv, Loops, vars, configVars, mainVars, setupVars, workVars, idleVars
  <2>2. HomeInv' /\ QueueInv' /\ SoundInv' /\ HandInv' /\ EntryInv' /\ AgeInv'
    BY <1>2, ControlStep DEF vars, configVars, mainVars, workVars
  <2>3. MainInv' /\ WorkInv'
    BY <1>2 DEF IInv, MainInv, WorkInv, undefined, vars, mainVars, setupVars, workVars
  <2> QED  BY <2>1, <2>2, <2>3 DEF IInv
<1> QED  BY <1>1, <1>2

\* IInv holds in every reachable state.
LEMMA Invariance == Spec => []IInv
BY InitInv, Inductive, PTL DEF Spec

\* The state is well formed; in particular onNewConnection has a connection in
\* hand from accept4 to m_connMap, and each worker ends at most one at a time.
THEOREM TypeCorrect == Spec => []TypeOK
<1>1. IInv => TypeOK
  <2> SUFFICES ASSUME IInv PROVE TypeOK
    OBVIOUS
  <2> USE Constants DEF IInv
  <2>1. \A c \in Conns : c <= created <=> home[c] # None
    BY DEF HomeInv
  <2>2. polling \subseteq 1 .. created
    BY <2>1 DEF HomeInv, TypeInv, Conns
  <2>3. ASSUME NEW w \in Workers PROVE inits[w] \in Seq(1 .. created)
    <3>1. inits[w] \in Seq(Conns)
      BY DEF TypeInv
    <3>2. ASSUME NEW i \in 1 .. Len(inits[w]) PROVE inits[w][i] \in 1 .. created
      <4>1. inits[w][i] \in Conns /\ Queued(w, inits[w][i])
        BY <3>1 DEF Queued, In
      <4>2. home[inits[w][i]] # None
        BY <4>1 DEF HomeInv, Workers
      <4>3. inits[w][i] <= created
        BY <2>1, <4>1, <4>2
      <4>4. created \in Nat /\ inits[w][i] \in Nat /\ inits[w][i] >= 1
        BY <4>1 DEF Conns, TypeInv
      <4> QED  BY <4>3, <4>4
    <3>3. /\ Len(inits[w]) \in Nat /\ DOMAIN inits[w] = 1 .. Len(inits[w])
          /\ inits[w] = [i \in DOMAIN inits[w] |-> inits[w][i]]
      BY <3>1
    <3>4. inits[w] \in [1 .. Len(inits[w]) -> 1 .. created]
      BY <3>2, <3>3
    <3> QED  BY <3>3, <3>4, SeqDef
  <2>4. inits \in [Workers -> Seq(1 .. created)]
    BY <2>3 DEF TypeInv
  <2>5. /\ ~undefined => (mpc # "accept" <=> setup # None)
        /\ ~undefined => \A w \in Workers : handled[w] # None <=> wpc[w] \in Ending
    BY DEF MainInv, WorkInv
  <2> QED  BY <2>1, <2>2, <2>4, <2>5 DEF TypeOK, TypeInv, ConfigInv, Ending
<1> QED  BY <1>1, Invariance, PTL

\* A connection whose init() is in a loop's m_pending, or which its poller knows,
\* exists, has a descriptor of its own, and is in m_connMap under it or about to
\* be, whatever the workers close and erase and whichever descriptors accept4
\* uses again in the meantime.
THEOREM RegisteredAreSound == Spec => []RegisteredIsSound
<1>1. IInv => RegisteredIsSound
  <2> SUFFICES ASSUME IInv, NEW c \in 1 .. created,
                      c \in polling \/ (\E i \in DOMAIN inits[home[c]] : inits[home[c]][i] = c)
               PROVE  /\ Alive(c) /\ efd[c] # None /\ owner[efd[c]] = c
                      /\ connMap[efd[c]] = c \/ setup = c
    BY DEF RegisteredIsSound
  <2> USE Constants DEF IInv
  <2>1. c \in Conns /\ home[c] \in Workers
    BY DEF TypeInv, HomeInv, Conns
  <2>2. Registered(c)
    <3>1. inits[home[c]] \in Seq(Conns)
      BY <2>1 DEF TypeInv
    <3>2. DOMAIN inits[home[c]] = 1 .. Len(inits[home[c]])
      BY <3>1
    <3> QED  BY <2>1, <3>2 DEF Registered, Queued, In
  <2>3. efd[c] \in Fds /\ owner[efd[c]] = c /\ (connMap[efd[c]] = c \/ setup = c) /\ efd[c] # None
    BY <2>1, <2>2 DEF SoundInv, TypeInv
  <2> QED  BY <2>3 DEF Alive
<1> QED  BY <1>1, Invariance, PTL

\* The wheel of IdleConnections shuts a connection down in the SlotSize-th tick
\* after its last message: in no earlier one, and in no later one.
THEOREM IdleAreExpired == Spec => []ExpiresInTime
<1>1. IInv => ExpiresInTime
  <2> SUFFICES ASSUME IInv, NEW c \in 1 .. created
               PROVE  /\ c \in expiring[home[c]] => idle[c] = SlotSize
                      /\ c \in polling /\ idle[c] = SlotSize => c \in expiring[home[c]]
    BY DEF ExpiresInTime
  <2> USE Constants DEF IInv
  <2>1. c \in Conns /\ home[c] \in Workers
    BY DEF TypeInv, HomeInv, Conns
  <2> QED  BY <2>1 DEF AgeInv
<1> QED  BY <1>1, Invariance, PTL
=============================================================================
