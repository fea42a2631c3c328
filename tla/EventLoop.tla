------------------------------ MODULE EventLoop ------------------------------
(***************************************************************************)
(* EventLoop, EventLoopThread and EventLoopThreadPool (src/src/reactor):   *)
(* threads that hand functors to loops running in other threads.           *)
(*                                                                         *)
(* A loop and the thread that runs loop() on it share one name.  A loop    *)
(* whose creator is itself is the main loop of a server: its thread is the *)
(* application's main thread and runs application code before and after    *)
(* loop().  Any other loop belongs to a pool; it is constructed by its     *)
(* creator's thread and gets a thread of its own in StartThread.           *)
(*                                                                         *)
(* runInLoop, addEvent, modifyEvent, removeEvent and addTimer share one    *)
(* protocol (compare the thread ids, run the body or push it on m_pending  *)
(* and write to the eventfd); a task stands for the body of one such call, *)
(* made once.  Follow[k] is the call the body of k ends with, if any.      *)
(***************************************************************************)
EXTENDS Naturals, Sequences

CONSTANTS Loops, Clients, Tasks, Target, Follow, Creator, None

Threads == Loops \cup Clients
Sources == {"wakeup", "timer", "io"}

ASSUME ConstantsAssumption ==
  /\ Target \in [Tasks -> Loops]
  /\ Follow \in [Tasks -> Tasks \cup {None}]
  /\ \A j, k \in Tasks : Follow[j] = Follow[k] /\ Follow[j] # None => j = k
  /\ Creator \in [Loops -> Threads]
  /\ None \notin Threads \cup Tasks
  /\ Loops \cap Clients = {}
  /\ \A l \in Loops : Creator[l] \in Loops => Creator[Creator[l]] = Creator[l]

VARIABLES
  threadId,   \* m_threadId of each loop
  quit,       \* m_quit
  pending,    \* m_pending
  index,      \* doPending's position in m_pending (1 outside doPending)
  mutex,      \* the holder of m_pendingMutex, or None
  wakeups,    \* the counter of the eventfd m_wakeup
  expired,    \* the timerfd is readable
  active,     \* m_activeEvents not handled yet
  pc,         \* where each thread is
  ret,        \* where a thread returns to from a call
  arg,        \* the functor of the call a thread is in, or None
  submitted,  \* the functors handed over so far
  ranBy       \* the thread that ran each functor, None before

loopVars == <<threadId, quit, pending, index, mutex, wakeups, expired, active>>
taskVars == <<submitted, ranBy>>
vars == <<loopVars, pc, ret, arg, taskVars>>

Calling == {"check", "inline", "push", "wake"}
InLoop == {"test", "poll", "handle", "lock", "run"}
Left == {"exit", "join", "done"}
Locations == {"new", "app", "started"} \cup InLoop \cup Left \cup Calling

\* The place of a thread when the call it is in, if any, is taken as part of
\* the place it was made from.
Site(t) == IF pc[t] \in Calling THEN ret[t] ELSE pc[t]

InLoopThread(t, l) == threadId[l] = t
Workers(t) == {l \in Loops : Creator[l] = t /\ l # t}
IsApp(t) == t \in Loops => Creator[t] = t
\* The functors that are not the tail call of another functor.
Roots == {k \in Tasks : \A j \in Tasks : Follow[j] # k}

\* Application code runs in an application thread outside loop(), and in the
\* callbacks of I/O and timer events.
InUserCode(t) ==
  \/ IsApp(t) /\ pc[t] \in {"app", "exit"}
  \/ pc[t] = "handle" /\ active[t] \ {"wakeup"} # {}

Init ==
  /\ threadId = Creator
  /\ quit = [l \in Loops |-> FALSE]
  /\ pending = [l \in Loops |-> <<>>]
  /\ index = [l \in Loops |-> 1]
  /\ mutex = [l \in Loops |-> None]
  /\ wakeups = [l \in Loops |-> 0]
  /\ expired = [l \in Loops |-> FALSE]
  /\ active = [l \in Loops |-> {}]
  /\ pc = [t \in Threads |-> IF IsApp(t) THEN "app" ELSE "new"]
  /\ ret = [t \in Threads |-> "app"]
  /\ arg = [t \in Threads |-> None]
  /\ submitted = {}
  /\ ranBy = [k \in Tasks |-> None]

-----------------------------------------------------------------------------
\* Threads and the pool.

\* EventLoopThreadPool::start creates the thread and then waits for
\* joinable(), which holds as soon as the std::thread object exists.
StartThread(t, l) ==
  /\ pc[t] = "app"
  /\ l \in Workers(t)
  /\ pc[l] = "new"
  /\ pc' = [pc EXCEPT ![l] = "started"]
  /\ UNCHANGED <<loopVars, ret, arg, taskVars>>

\* loop_thread stores the id of the new thread, then calls loop(); a main
\* loop has had the id of its thread since its construction.
EnterLoop(l) ==
  /\ pc[l] = (IF Creator[l] = l THEN "app" ELSE "started")
  /\ threadId' = [threadId EXCEPT ![l] = l]
  /\ pc' = [pc EXCEPT ![l] = "test"]
  /\ UNCHANGED <<quit, pending, index, mutex, wakeups, expired, active, ret, arg, taskVars>>

Quit(t, l) ==
  /\ InUserCode(t)
  /\ quit' = [quit EXCEPT ![l] = TRUE]
  /\ UNCHANGED <<threadId, pending, index, mutex, wakeups, expired, active, pc, ret, arg, taskVars>>

\* Fault: the pool joins its threads without telling their loops to quit.
StopPool_NoQuit(t) ==
  /\ pc[t] = (IF t \in Loops THEN "exit" ELSE "app")
  /\ Workers(t) # {}
  /\ pc' = [pc EXCEPT ![t] = "join"]
  /\ UNCHANGED <<loopVars, ret, arg, taskVars>>

\* EventLoopThreadPool::stop.
StopPool(t) ==
  /\ pc[t] = (IF t \in Loops THEN "exit" ELSE "app")
  /\ Workers(t) # {}
  /\ quit' = [l \in Loops |-> quit[l] \/ l \in Workers(t)]
  /\ pc' = [pc EXCEPT ![t] = "join"]
  /\ UNCHANGED <<threadId, pending, index, mutex, wakeups, expired, active, ret, arg, taskVars>>

\* EventLoopThreadPool::join; a thread that was never started is skipped.
Join(t) ==
  /\ pc[t] = "join"
  /\ \A l \in Workers(t) : pc[l] \in {"new", "exit"}
  /\ pc' = [pc EXCEPT ![t] = "done"]
  /\ UNCHANGED <<loopVars, ret, arg, taskVars>>

-----------------------------------------------------------------------------
\* One iteration of EventLoop::loop.

TestQuit(l) ==
  /\ pc[l] = "test"
  /\ pc' = [pc EXCEPT ![l] = IF quit[l] THEN "exit" ELSE "poll"]
  /\ UNCHANGED <<loopVars, ret, arg, taskVars>>

\* Fault: the timerfd is never armed.
TimerExpire_Disarmed(l) == UNCHANGED vars

\* The one second interval timer of SysTimer.
TimerExpire(l) ==
  /\ expired' = [expired EXCEPT ![l] = TRUE]
  /\ UNCHANGED <<threadId, quit, pending, index, mutex, wakeups, active, pc, ret, arg, taskVars>>

Ready(l) == {s \in {"wakeup", "timer"} : IF s = "wakeup" THEN wakeups[l] > 0 ELSE expired[l]}

PollReturns(l, events) ==
  /\ pc[l] = "poll"
  /\ active' = [active EXCEPT ![l] = events]
  /\ pc' = [pc EXCEPT ![l] = "handle"]
  /\ UNCHANGED <<threadId, quit, pending, index, mutex, wakeups, expired, ret, arg, taskVars>>

\* epoll_wait blocks (timeout -1) until a descriptor is ready; the events of
\* connections and listening sockets come and go outside this module.
Poll(l) ==
  /\ Ready(l) # {}
  /\ \E io \in {{}, {"io"}} : PollReturns(l, Ready(l) \cup io)

PollIo(l) == PollReturns(l, Ready(l) \cup {"io"})
PollInterrupted(l) == PollReturns(l, {})

\* m_activeEvents is walked from its front; epoll fixes no order in it.
Handled(l, s) ==
  /\ pc[l] = "handle"
  /\ s \in active[l]
  /\ active' = [active EXCEPT ![l] = @ \ {s}]

\* Reading an eventfd resets its counter.
HandleWakeup(l) ==
  /\ Handled(l, "wakeup")
  /\ wakeups' = [wakeups EXCEPT ![l] = 0]
  /\ UNCHANGED <<threadId, quit, pending, index, mutex, expired, pc, ret, arg, taskVars>>

HandleTimer(l) ==
  /\ Handled(l, "timer")
  /\ expired' = [expired EXCEPT ![l] = FALSE]
  /\ UNCHANGED <<threadId, quit, pending, index, mutex, wakeups, pc, ret, arg, taskVars>>

HandleIo(l) ==
  /\ Handled(l, "io")
  /\ UNCHANGED <<threadId, quit, pending, index, mutex, wakeups, expired, pc, ret, arg, taskVars>>

\* Fault: doPending is not called.
EndHandling_NoPending(l) ==
  /\ pc[l] = "handle"
  /\ active[l] = {}
  /\ pc' = [pc EXCEPT ![l] = "test"]
  /\ UNCHANGED <<loopVars, ret, arg, taskVars>>

EndHandling(l) ==
  /\ pc[l] = "handle"
  /\ active[l] = {}
  /\ pc' = [pc EXCEPT ![l] = "lock"]
  /\ UNCHANGED <<loopVars, ret, arg, taskVars>>

LockPending(l) ==
  /\ pc[l] = "lock"
  /\ mutex[l] = None
  /\ mutex' = [mutex EXCEPT ![l] = l]
  /\ pc' = [pc EXCEPT ![l] = "run"]
  /\ UNCHANGED <<threadId, quit, pending, index, wakeups, expired, active, ret, arg, taskVars>>

\* Thread t runs the body of k; a tail call makes t start another call that
\* returns to site s.
Run(t, k, s) ==
  /\ ranBy' = [ranBy EXCEPT ![k] = t]
  /\ arg' = [arg EXCEPT ![t] = Follow[k]]
  /\ ret' = [ret EXCEPT ![t] = s]
  /\ IF Follow[k] = None
     THEN /\ pc' = [pc EXCEPT ![t] = s]
          /\ UNCHANGED submitted
     ELSE /\ pc' = [pc EXCEPT ![t] = "check"]
          /\ submitted' = submitted \cup {Follow[k]}

\* Fault: the functors are taken from the back of m_pending.
RunPending_FromBack(l) ==
  /\ pc[l] = "run"
  /\ index[l] <= Len(pending[l])
  /\ Run(l, pending[l][Len(pending[l]) + 1 - index[l]], "run")
  /\ index' = [index EXCEPT ![l] = @ + 1]
  /\ UNCHANGED <<threadId, quit, pending, mutex, wakeups, expired, active>>

RunPending(l) ==
  /\ pc[l] = "run"
  /\ index[l] <= Len(pending[l])
  /\ Run(l, pending[l][index[l]], "run")
  /\ index' = [index EXCEPT ![l] = @ + 1]
  /\ UNCHANGED <<threadId, quit, pending, mutex, wakeups, expired, active>>

\* Fault: m_pending is not cleared, and the next walk starts before its front.
FinishPending_BadIndex(l) ==
  /\ pc[l] = "run"
  /\ index[l] > Len(pending[l])
  /\ index' = [index EXCEPT ![l] = 0]
  /\ mutex' = [mutex EXCEPT ![l] = None]
  /\ pc' = [pc EXCEPT ![l] = "test"]
  /\ UNCHANGED <<threadId, quit, pending, wakeups, expired, active, ret, arg, taskVars>>

\* m_pending.clear() and the end of the lock_guard's scope.
FinishPending(l) ==
  /\ pc[l] = "run"
  /\ index[l] > Len(pending[l])
  /\ pending' = [pending EXCEPT ![l] = <<>>]
  /\ index' = [index EXCEPT ![l] = 1]
  /\ mutex' = [mutex EXCEPT ![l] = None]
  /\ pc' = [pc EXCEPT ![l] = "test"]
  /\ UNCHANGED <<threadId, quit, wakeups, expired, active, ret, arg, taskVars>>

-----------------------------------------------------------------------------
\* A call of runInLoop, addEvent, modifyEvent, removeEvent or addTimer.

Submit(t, k) ==
  /\ InUserCode(t)
  /\ k \in Roots \ submitted
  /\ submitted' = submitted \cup {k}
  /\ arg' = [arg EXCEPT ![t] = k]
  /\ ret' = [ret EXCEPT ![t] = pc[t]]
  /\ pc' = [pc EXCEPT ![t] = "check"]
  /\ UNCHANGED <<loopVars, ranBy>>

Check(t) ==
  /\ pc[t] = "check"
  /\ pc' = [pc EXCEPT ![t] = IF InLoopThread(t, Target[arg[t]]) THEN "inline" ELSE "push"]
  /\ UNCHANGED <<loopVars, ret, arg, taskVars>>

RunInline(t) ==
  /\ pc[t] = "inline"
  /\ Run(t, arg[t], ret[t])
  /\ UNCHANGED loopVars

\* Fault: addPending forgets the lock.
Push_NoLock(t) ==
  LET l == Target[arg[t]]
  IN  /\ pc[t] = "push"
      /\ pending' = [pending EXCEPT ![l] = Append(@, arg[t])]
      /\ pc' = [pc EXCEPT ![t] = "wake"]
      /\ UNCHANGED <<threadId, quit, index, mutex, wakeups, expired, active, ret, arg, taskVars>>

\* addPending: the lock, emplace_back and the unlock are one step, since
\* nothing else happens while the lock is held.  addPending compares the
\* thread ids once more: m_threadId changes only to the id of the loop's own
\* thread, which is not the caller, so the second comparison agrees with the
\* first.
Push(t) ==
  LET l == Target[arg[t]]
  IN  /\ pc[t] = "push"
      /\ mutex[l] = None
      /\ pending' = [pending EXCEPT ![l] = Append(@, arg[t])]
      /\ pc' = [pc EXCEPT ![t] = "wake"]
      /\ UNCHANGED <<threadId, quit, index, mutex, wakeups, expired, active, ret, arg, taskVars>>

\* Fault: the eventfd is written only if the loop is seen inside epoll_wait.
Wake_OnlyIfPolling(t) ==
  LET l == Target[arg[t]]
  IN  /\ pc[t] = "wake"
      /\ wakeups' = IF pc[l] = "poll" THEN [wakeups EXCEPT ![l] = @ + 1] ELSE wakeups
      /\ pc' = [pc EXCEPT ![t] = ret[t]]
      /\ arg' = [arg EXCEPT ![t] = None]
      /\ UNCHANGED <<threadId, quit, pending, index, mutex, expired, active, ret, taskVars>>

\* wakeup() compares the thread ids once more.
Wake(t) ==
  LET l == Target[arg[t]]
  IN  /\ pc[t] = "wake"
      /\ wakeups' = IF InLoopThread(t, l) THEN wakeups ELSE [wakeups EXCEPT ![l] = @ + 1]
      /\ pc' = [pc EXCEPT ![t] = ret[t]]
      /\ arg' = [arg EXCEPT ![t] = None]
      /\ UNCHANGED <<threadId, quit, pending, index, mutex, expired, active, ret, taskVars>>

-----------------------------------------------------------------------------
CallStep(t) == Check(t) \/ RunInline(t) \/ Wake(t)

LoopStep(l) ==
  \/ TestQuit(l) \/ Poll(l) \/ HandleWakeup(l) \/ HandleTimer(l) \/ HandleIo(l)
  \/ EndHandling(l) \/ RunPending(l) \/ FinishPending(l)

Next ==
  \/ \E l \in Loops : EnterLoop(l) \/ LoopStep(l) \/ LockPending(l)
                      \/ PollIo(l) \/ PollInterrupted(l) \/ TimerExpire(l)
  \/ \E t \in Threads : CallStep(t) \/ Push(t) \/ StopPool(t) \/ Join(t)
  \/ \E t \in Threads, l \in Loops : StartThread(t, l) \/ Quit(t, l)
  \/ \E t \in Threads, k \in Tasks : Submit(t, k)

Spec == Init /\ [][Next]_vars

\* A started thread keeps running, the timerfd ticks, and a thread waiting for
\* m_pendingMutex gets it if it is free again and again.
Fairness ==
  /\ \A l \in Loops :
       /\ WF_vars(EnterLoop(l) \/ LoopStep(l))
       /\ WF_vars(TimerExpire(l))
       /\ SF_vars(LockPending(l))
  /\ \A t \in Threads : WF_vars(CallStep(t)) /\ SF_vars(Push(t)) /\ WF_vars(Join(t))

FairSpec == Spec /\ Fairness

-----------------------------------------------------------------------------
\* The state is well formed: every variable has its type, and a thread has a
\* functor in hand exactly while it is in a call.
TypeOK ==
  /\ threadId \in [Loops -> Threads]
  /\ quit \in [Loops -> BOOLEAN]
  /\ pending \in [Loops -> Seq(Tasks)]
  /\ index \in [Loops -> Nat \ {0}]
  /\ mutex \in [Loops -> Threads \cup {None}]
  /\ wakeups \in [Loops -> Nat]
  /\ expired \in [Loops -> BOOLEAN]
  /\ active \in [Loops -> SUBSET Sources]
  /\ pc \in [Threads -> Locations]
  /\ ret \in [Threads -> Locations \ Calling]
  /\ arg \in [Threads -> Tasks \cup {None}]
  /\ \A t \in Threads : pc[t] \in Calling <=> arg[t] # None
  /\ submitted \subseteq Tasks
  /\ ranBy \in [Tasks -> Threads \cup {None}]

Waking(l) == {t \in Threads : pc[t] = "wake" /\ Target[arg[t]] = l}

\* A loop never goes to sleep on a functor: when it is about to enter, or is
\* in, epoll_wait with a non-empty m_pending, its eventfd is readable or a
\* thread that has pushed is about to write to it.
NoLostWakeup ==
  \A l \in Loops :
    Site(l) \in {"new", "app", "started", "test", "poll"} /\ pending[l] # <<>>
      => wakeups[l] > 0 \/ Waking(l) # {}

\* m_pending does not change under doPending's iteration (an insertion would
\* invalidate its iterators), even when the functors it runs post functors.
PendingStable ==
  [][\A l \in Loops :
       Site(l) = "run" /\ Site(l)' = "run" => pending'[l] = pending[l]]_vars

Unrun(l) == IF Site(l) = "run" THEN SubSeq(pending[l], index[l], Len(pending[l])) ELSE pending[l]

Phase(l) ==
  CASE Site(l) \in {"new", "app", "started"} -> "idle"
    [] Site(l) \in InLoop -> "running"
    [] OTHER -> "closed"

\* The functor t is about to run itself, having found that it may.
Hand(t) == IF pc[t] = "inline" THEN arg[t] ELSE None

Ex == INSTANCE Executor WITH queue <- [l \in Loops |-> Unrun(l)],
                             hand <- [t \in Threads |-> Hand(t)],
                             phase <- [l \in Loops |-> Phase(l)]

\* The loops implement the executor of Executor.tla: no functor is run twice,
\* or both queued and run on the spot; the queued ones are run in the order
\* of their pushes, by the loop's thread; and a functor is run on the spot
\* only by the thread the loop took for its own when the call was made.
ImplementsExecutor == Ex!Spec

\* What is handed over to a loop that is in loop() is run, or loop() is left.
HandedOverIsRun == Ex!EventuallyRun

\* quit() works although it does not wake the loop up: the one second timer
\* takes the loop out of epoll_wait.
QuitLeavesLoop ==
  \A l \in Loops : quit[l] /\ Site(l) \in InLoop ~> Site(l) \in Left

\* Destroying a pool terminates: stop() makes every join() return.
JoinReturns == \A t \in Threads : pc[t] = "join" ~> pc[t] = "done"

\* No two threads wait for the locks of each other's loops: "if not, add to
\* loop thread's pending functors and then wake up loop thread"
\* (EventLoop.h:40) is a call that returns.
NoLockCycle ==
  \A l, m \in Loops :
    ~ /\ l # m /\ mutex[l] = l /\ mutex[m] = m
      /\ pc[l] = "push" /\ Target[arg[l]] = m
      /\ pc[m] = "push" /\ Target[arg[m]] = l

\* Once the pool has been started, a functor handed over from outside the
\* loop's thread is not run by the caller ("these functions check if current
\* thread is the loop thread, if not, add to loop thread's pending functors",
\* EventLoop.h:40; "wait until all thread started",
\* EventLoopThreadPool.cpp:41).
RunInLoopThread ==
  [][\A k \in Tasks :
       LET l == Target[k]
       IN  ranBy'[k] # ranBy[k] /\ pc[l] # "new" => ranBy'[k] = l]_vars
=============================================================================
