------------------------------ MODULE Executor ------------------------------
(***************************************************************************)
(* What an EventLoop promises to the threads that hand it functors         *)
(* (runInLoop, addEvent, modifyEvent, removeEvent, addTimer).  A functor   *)
(* is handed over once, and who runs it is decided once.  One handed over  *)
(* by the loop thread itself, or by the thread that built the loop while   *)
(* the loop has no thread of its own yet, is run by that thread on the     *)
(* spot.  One handed over by any other thread joins the loop's queue; the  *)
(* loop takes the queue in order and runs each entry in its own thread,    *)
(* while it is in loop().                                                  *)
(***************************************************************************)
EXTENDS Sequences

CONSTANTS
  Loops,     \* the event loops; a loop stands for its thread too
  Threads,   \* all threads
  Tasks,     \* functors
  Target,    \* [Tasks -> Loops]: the loop a functor is handed to
  Creator,   \* [Loops -> Threads]: the thread that constructed the loop
  None

VARIABLES
  queue,     \* queue[l]: functors accepted by l and not run yet, in order
  hand,      \* hand[t]: the functor t has decided to run on the spot, or None
  ranBy,     \* ranBy[k]: the thread that ran k, None before
  phase      \* phase[l]: before, in or after loop()

exVars == <<queue, hand, ranBy, phase>>

Init ==
  /\ queue = [l \in Loops |-> <<>>]
  /\ hand = [t \in Threads |-> None]
  /\ ranBy = [k \in Tasks |-> None]
  /\ phase = [l \in Loops |-> "idle"]

Queued(k) == \E i \in DOMAIN queue[Target[k]] : queue[Target[k]][i] = k

\* Nobody has run k, and nobody is committed to running it.
Fresh(k) == ranBy[k] = None /\ ~ Queued(k) /\ \A t \in Threads : hand[t] # k

\* The thread the loop takes for its own.
Owner(l) == IF phase[l] = "idle" THEN Creator[l] ELSE l

Accept(t, k) ==
  /\ Fresh(k)
  /\ hand[t] = None
  /\ t # Owner(Target[k])
  /\ queue' = [queue EXCEPT ![Target[k]] = Append(@, k)]
  /\ UNCHANGED <<hand, ranBy, phase>>

Claim(t, k) ==
  /\ Fresh(k)
  /\ hand[t] = None
  /\ t = Owner(Target[k])
  /\ hand' = [hand EXCEPT ![t] = k]
  /\ UNCHANGED <<queue, ranBy, phase>>

RunNow(t) ==
  /\ hand[t] # None
  /\ ranBy' = [ranBy EXCEPT ![hand[t]] = t]
  /\ hand' = [hand EXCEPT ![t] = None]
  /\ UNCHANGED <<queue, phase>>

RunNext(l) ==
  /\ queue[l] # <<>>
  /\ hand[l] = None
  /\ phase[l] = "running"
  /\ ranBy' = [ranBy EXCEPT ![Head(queue[l])] = l]
  /\ queue' = [queue EXCEPT ![l] = Tail(@)]
  /\ UNCHANGED <<hand, phase>>

Open(l) ==
  /\ phase[l] = "idle"
  /\ phase' = [phase EXCEPT ![l] = "running"]
  /\ UNCHANGED <<queue, hand, ranBy>>

Close(l) ==
  /\ phase[l] = "running"
  /\ phase' = [phase EXCEPT ![l] = "closed"]
  /\ UNCHANGED <<queue, hand, ranBy>>

Next ==
  \/ \E l \in Loops : RunNext(l) \/ Open(l) \/ Close(l)
  \/ \E t \in Threads : RunNow(t)
  \/ \E t \in Threads, k \in Tasks : Accept(t, k) \/ Claim(t, k)

Spec == Init /\ [][Next]_exVars

-----------------------------------------------------------------------------
\* A functor in the queue of a loop that is in loop() is run by that loop,
\* unless the loop is left first (EventLoop::quit): nothing handed over waits
\* for ever.
EventuallyRun ==
  \A k \in Tasks :
    Queued(k) /\ phase[Target[k]] = "running"
      ~> ranBy[k] = Target[k] \/ phase[Target[k]] = "closed"
=============================================================================
