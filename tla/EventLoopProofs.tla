--------------------------- MODULE EventLoopProofs ---------------------------
(***************************************************************************)
(* Proofs about EventLoop.tla for any number of loops, pools, threads and  *)
(* functors: type correctness, that no wakeup is lost, that m_pending is   *)
(* stable under doPending, and that the loops implement Executor.tla.      *)
(*                                                                         *)
(* The inductive invariant is IInv, at the end of the part on NoLostWakeup.*)
(***************************************************************************)
EXTENDS EventLoop, CommonLemmas

\* Running a functor preserves the types of what Run assigns.
LEMMA RunType ==
  ASSUME TypeOK, NEW t \in Threads, NEW k \in Tasks, NEW s \in Locations \ Calling, Run(t, k, s)
  PROVE  /\ pc' \in [Threads -> Locations]
         /\ ret' \in [Threads -> Locations \ Calling]
         /\ arg' \in [Threads -> Tasks \cup {None}]
         /\ \A u \in Threads : pc'[u] \in Calling <=> arg'[u] # None
         /\ submitted' \subseteq Tasks
         /\ ranBy' \in [Tasks -> Threads \cup {None}]
<1> USE ConstantsAssumption DEF TypeOK
<1>1. Follow[k] \in Tasks \cup {None} /\ None \notin Tasks
  OBVIOUS
<1>2. "check" \in Locations /\ "check" \in Calling /\ s \in Locations /\ s \notin Calling
  BY DEF Locations, Calling
<1>3. /\ pc' = [pc EXCEPT ![t] = IF Follow[k] = None THEN s ELSE "check"]
      /\ submitted' \subseteq Tasks
  BY <1>1 DEF Run
<1>4. /\ ranBy' = [ranBy EXCEPT ![k] = t]
      /\ arg' = [arg EXCEPT ![t] = Follow[k]]
      /\ ret' = [ret EXCEPT ![t] = s]
  BY DEF Run
<1>5. \A u \in Threads : pc'[u] \in Calling <=> arg'[u] # None
  <2> TAKE u \in Threads
  <2>1. CASE u = t
    BY <2>1, <1>1, <1>2, <1>3, <1>4
  <2>2. CASE u # t
    BY <2>2, <1>3, <1>4
  <2> QED
    BY <2>1, <2>2
<1> QED
  BY <1>1, <1>2, <1>3, <1>4, <1>5

\* Every step of a thread or of a timer preserves the types.
LEMMA TypeStep ==
  ASSUME TypeOK, [Next]_vars PROVE TypeOK'
<1> USE ConstantsAssumption DEF TypeOK, Threads, Sources, Locations, Calling, InLoop, Left
<1>1. ASSUME NEW l \in Loops, EnterLoop(l) PROVE TypeOK'
  BY <1>1 DEF EnterLoop, taskVars
<1>2. ASSUME NEW l \in Loops, TestQuit(l) PROVE TypeOK'
  BY <1>2 DEF TestQuit, taskVars, loopVars
<1>3. ASSUME NEW l \in Loops, NEW events \in SUBSET Sources, PollReturns(l, events) PROVE TypeOK'
  BY <1>3 DEF PollReturns, taskVars
<1>4. ASSUME NEW l \in Loops, HandleWakeup(l) PROVE TypeOK'
  BY <1>4 DEF HandleWakeup, Handled, taskVars
<1>5. ASSUME NEW l \in Loops, HandleTimer(l) PROVE TypeOK'
  BY <1>5 DEF HandleTimer, Handled, taskVars
<1>6. ASSUME NEW l \in Loops, HandleIo(l) PROVE TypeOK'
  BY <1>6 DEF HandleIo, Handled, taskVars
<1>7. ASSUME NEW l \in Loops, EndHandling(l) PROVE TypeOK'
  BY <1>7 DEF EndHandling, taskVars, loopVars
<1>8. ASSUME NEW l \in Loops, LockPending(l) PROVE TypeOK'
  BY <1>8 DEF LockPending, taskVars
<1>9. ASSUME NEW l \in Loops, RunPending(l) PROVE TypeOK'
  <2>1. pending[l][index[l]] \in Tasks
    BY <1>9 DEF RunPending
  <2>2. index' \in [Loops -> Nat \ {0}]
    BY <1>9 DEF RunPending
  <2> QED
    BY <1>9, <2>1, <2>2, RunType DEF RunPending
<1>10. ASSUME NEW l \in Loops, FinishPending(l) PROVE TypeOK'
  <2>1. pending' \in [Loops -> Seq(Tasks)] /\ index' \in [Loops -> Nat \ {0}]
    BY <1>10 DEF FinishPending
  <2>2. /\ mutex' \in [Loops -> Threads \cup {None}] /\ pc' \in [Threads -> Locations]
        /\ \A t \in Threads : pc'[t] \in Calling <=> arg'[t] # None
    BY <1>10 DEF FinishPending
  <2> QED
    BY <1>10, <2>1, <2>2 DEF FinishPending, taskVars
<1>11. ASSUME NEW l \in Loops, TimerExpire(l) PROVE TypeOK'
  BY <1>11 DEF TimerExpire, taskVars
<1>12. ASSUME NEW t \in Threads, Check(t) PROVE TypeOK'
  BY <1>12 DEF Check, taskVars, loopVars
<1>13. ASSUME NEW t \in Threads, RunInline(t) PROVE TypeOK'
  <2>1. arg[t] \in Tasks /\ ret[t] \in Locations \ Calling
    BY <1>13 DEF RunInline
  <2> QED
    BY <1>13, <2>1, RunType DEF RunInline, loopVars
<1>14. ASSUME NEW t \in Threads, Wake(t) PROVE TypeOK'
  BY <1>14 DEF Wake, taskVars
<1>15. ASSUME NEW t \in Threads, Push(t) PROVE TypeOK'
  BY <1>15 DEF Push, taskVars
<1>16. ASSUME NEW t \in Threads, StopPool(t) PROVE TypeOK'
  BY <1>16 DEF StopPool, taskVars
<1>17. ASSUME NEW t \in Threads, Join(t) PROVE TypeOK'
  BY <1>17 DEF Join, taskVars, loopVars
<1>18. ASSUME NEW t \in Threads, NEW l \in Loops, StartThread(t, l) PROVE TypeOK'
  BY <1>18 DEF StartThread, taskVars, loopVars, Workers
<1>19. ASSUME NEW t \in Threads, NEW l \in Loops, Quit(t, l) PROVE TypeOK'
  BY <1>19 DEF Quit, taskVars
<1>20. ASSUME NEW t \in Threads, NEW k \in Tasks, Submit(t, k) PROVE TypeOK'
  BY <1>20 DEF Submit, loopVars, InUserCode
<1>21. CASE UNCHANGED vars
  BY <1>21 DEF vars, loopVars, taskVars
<1>22. \A l \in Loops : Ready(l) \subseteq Sources
  BY DEF Ready
<1> QED
  BY <1>1, <1>2, <1>3, <1>4, <1>5, <1>6, <1>7, <1>8, <1>9, <1>10, <1>11, <1>12, <1>13,
     <1>14, <1>15, <1>16, <1>17, <1>18, <1>19, <1>20, <1>21, <1>22
     DEF Next, LoopStep, CallStep, Poll, PollIo, PollInterrupted

-----------------------------------------------------------------------------
\* A thread about to push, or to write to the eventfd, is not the loop's
\* thread.
CallInv ==
  /\ \A l \in Loops : threadId[l] \in {l, Creator[l]}
  /\ \A t \in Threads : pc[t] \in {"push", "wake"} => threadId[Target[arg[t]]] # t

\* Every step preserves CallInv: a loop's m_threadId changes only from its
\* creator to itself, and isInLoopThread is asked before a call goes on.
LEMMA CallInvStep ==
  ASSUME TypeOK, CallInv, [Next]_vars PROVE CallInv'
<1> USE ConstantsAssumption DEF TypeOK, Threads, CallInv, Calling
<1>1. ASSUME NEW l \in Loops, EnterLoop(l) PROVE CallInv'
  BY <1>1 DEF EnterLoop
<1>2. ASSUME NEW l \in Loops, TestQuit(l) PROVE CallInv'
  BY <1>2 DEF TestQuit, loopVars
<1>3. ASSUME NEW l \in Loops, NEW events \in SUBSET Sources, PollReturns(l, events) PROVE CallInv'
  BY <1>3 DEF PollReturns
<1>4. ASSUME NEW l \in Loops, HandleWakeup(l) \/ HandleTimer(l) \/ HandleIo(l) \/ TimerExpire(l)
      PROVE CallInv'
  BY <1>4 DEF HandleWakeup, HandleTimer, HandleIo, TimerExpire
<1>5. ASSUME NEW l \in Loops, EndHandling(l) PROVE CallInv'
  BY <1>5 DEF EndHandling, loopVars
<1>6. ASSUME NEW l \in Loops, LockPending(l) PROVE CallInv'
  BY <1>6 DEF LockPending
<1>7. ASSUME NEW l \in Loops, FinishPending(l) PROVE CallInv'
  BY <1>7 DEF FinishPending
<1>8. ASSUME NEW t \in Threads, NEW k, NEW s \in Locations \ Calling, Run(t, k, s), UNCHANGED threadId
      PROVE CallInv'
  <2>1. \A u \in Threads : pc'[u] \in {"push", "wake", "inline"} => u # t /\ pc'[u] = pc[u] /\ arg'[u] = arg[u]
    BY <1>8 DEF Run
  <2> QED
    BY <1>8, <2>1
<1>9. ASSUME NEW t \in Threads, Check(t) PROVE CallInv'
  <2>1. Target[arg[t]] \in Loops /\ UNCHANGED <<threadId, arg>>
    BY <1>9 DEF Check, loopVars
  <2>2. CASE threadId[Target[arg[t]]] = t
    BY <1>9, <2>1, <2>2 DEF Check, InLoopThread
  <2>3. CASE threadId[Target[arg[t]]] # t
    BY <1>9, <2>1, <2>3 DEF Check, InLoopThread
  <2> QED
    BY <2>2, <2>3
<1>10. ASSUME NEW t \in Threads, Wake(t) \/ Push(t) PROVE CallInv'
  <2>1. CASE Wake(t)
    <3>1. \A u \in Threads : pc'[u] \in {"push", "wake", "inline"} => u # t /\ pc'[u] = pc[u] /\ arg'[u] = arg[u]
      BY <2>1 DEF Wake
    <3> QED
      BY <2>1, <3>1 DEF Wake
  <2>2. CASE Push(t)
    BY <2>2 DEF Push
  <2> QED
    BY <1>10, <2>1, <2>2
<1>11. ASSUME NEW t \in Threads, StopPool(t) \/ Join(t) PROVE CallInv'
  BY <1>11 DEF StopPool, Join, loopVars
<1>12. ASSUME NEW t \in Threads, NEW l \in Loops, StartThread(t, l) \/ Quit(t, l) PROVE CallInv'
  BY <1>12 DEF StartThread, Quit, loopVars
<1>13. ASSUME NEW t \in Threads, NEW k \in Tasks, Submit(t, k) PROVE CallInv'
  BY <1>13 DEF Submit, loopVars
<1>14. CASE UNCHANGED vars
  BY <1>14 DEF vars, loopVars
<1>15. \A l \in Loops : Ready(l) \subseteq Sources /\ l \in Threads
  BY DEF Ready, Sources
<1>16. ASSUME NEW l \in Loops, RunPending(l) PROVE CallInv'
  BY <1>16, <1>8 DEF RunPending, Locations, InLoop
<1>17. ASSUME NEW t \in Threads, RunInline(t) PROVE CallInv'
  BY <1>17, <1>8 DEF RunInline, loopVars
<1> QED
  BY <1>1, <1>2, <1>3, <1>4, <1>5, <1>6, <1>7, <1>9, <1>10, <1>11, <1>12, <1>13,
     <1>14, <1>15, <1>16, <1>17
     DEF Next, LoopStep, CallStep, Poll, PollIo, PollInterrupted, Sources

-----------------------------------------------------------------------------
\* m_pendingMutex is held by the loop, exactly while doPending walks
\* m_pending; the walk stays within m_pending.
LockInv ==
  \A l \in Loops :
    IF Site(l) = "run"
    THEN mutex[l] = l /\ index[l] <= Len(pending[l]) + 1
    ELSE mutex[l] = None /\ index[l] = 1

\* Every step preserves LockInv: the lock is taken and released by doPending
\* alone, and the position is reset when it is released.
LEMMA LockInvStep ==
  ASSUME TypeOK, LockInv, [Next]_vars PROVE LockInv'
<1> USE ConstantsAssumption DEF TypeOK, Threads, LockInv, Calling, Site
<1>1. ASSUME NEW l \in Loops, EnterLoop(l) PROVE LockInv'
  BY <1>1 DEF EnterLoop
<1>2. ASSUME NEW l \in Loops, TestQuit(l) PROVE LockInv'
  BY <1>2 DEF TestQuit, loopVars
<1>3. ASSUME NEW l \in Loops, NEW events \in SUBSET Sources, PollReturns(l, events) PROVE LockInv'
  BY <1>3 DEF PollReturns
<1>4. ASSUME NEW l \in Loops, HandleWakeup(l) \/ HandleTimer(l) \/ HandleIo(l) \/ TimerExpire(l)
      PROVE LockInv'
  BY <1>4 DEF HandleWakeup, HandleTimer, HandleIo, TimerExpire
<1>5. ASSUME NEW l \in Loops, EndHandling(l) PROVE LockInv'
  BY <1>5 DEF EndHandling, loopVars
<1>6. ASSUME NEW l \in Loops, LockPending(l) PROVE LockInv'
  BY <1>6 DEF LockPending
<1>7. ASSUME NEW l \in Loops, FinishPending(l) PROVE LockInv'
  BY <1>7 DEF FinishPending
<1>8. ASSUME NEW t \in Threads, NEW k, Run(t, k, Site(t))
      PROVE \A u \in Threads : Site(u)' = Site(u)
  BY <1>8 DEF Run
<1>9. ASSUME NEW t \in Threads, Check(t) PROVE LockInv'
  BY <1>9 DEF Check, loopVars
<1>10. ASSUME NEW t \in Threads, Wake(t) PROVE LockInv'
  BY <1>10 DEF Wake
<1>11. ASSUME NEW t \in Threads, Push(t) PROVE LockInv'
  BY <1>11 DEF Push
<1>12. ASSUME NEW t \in Threads, StopPool(t) \/ Join(t) PROVE LockInv'
  BY <1>12 DEF StopPool, Join, loopVars
<1>13. ASSUME NEW t \in Threads, NEW l \in Loops, StartThread(t, l) \/ Quit(t, l) PROVE LockInv'
  BY <1>13 DEF StartThread, Quit, loopVars
<1>14. ASSUME NEW t \in Threads, NEW k \in Tasks, Submit(t, k) PROVE LockInv'
  <2>1. \A u \in Threads : Site(u)' = Site(u)
    BY <1>14 DEF Submit, InUserCode
  <2> HIDE DEF Site
  <2> QED
    BY <1>14, <2>1 DEF Submit, loopVars
<1>15. CASE UNCHANGED vars
  BY <1>15 DEF vars, loopVars
<1>16. ASSUME NEW l \in Loops, RunPending(l) PROVE LockInv'
  <2>1. Site(l) = "run" /\ index[l] <= Len(pending[l]) /\ l \in Threads
    BY <1>16 DEF RunPending
  <2>2. index' = [index EXCEPT ![l] = @ + 1] /\ UNCHANGED <<mutex, pending>>
    BY <1>16 DEF RunPending
  <2> HIDE DEF Site
  <2>3. \A u \in Threads : Site(u)' = Site(u)
    BY <1>16, <2>1, <1>8 DEF RunPending
  <2> QED
    BY <2>1, <2>2, <2>3
<1>17. ASSUME NEW t \in Threads, RunInline(t) PROVE LockInv'
  <2>1. \A u \in Threads : Site(u)' = Site(u)
    BY <1>17, <1>8 DEF RunInline
  <2> HIDE DEF Site
  <2> QED
    BY <1>17, <2>1 DEF RunInline, loopVars
<1>18. \A l \in Loops : Ready(l) \subseteq Sources /\ l \in Threads
  BY DEF Ready, Sources
<1> QED
  BY <1>1, <1>2, <1>3, <1>4, <1>5, <1>6, <1>7, <1>9, <1>10, <1>11, <1>12, <1>13,
     <1>14, <1>15, <1>16, <1>17, <1>18
     DEF Next, LoopStep, CallStep, Poll, PollIo, PollInterrupted, Sources

-----------------------------------------------------------------------------
\* What NoLostWakeup says of one loop.
WokenUp(l) ==
  Site(l) \in {"new", "app", "started", "test", "poll"} /\ pending[l] # <<>>
    => wakeups[l] > 0 \/ Waking(l) # {}

\* Every step preserves NoLostWakeup: a push is followed by a write to the
\* eventfd, and a read of the eventfd by a run of doPending.
LEMMA NoLostWakeupStep ==
  ASSUME TypeOK, CallInv, NoLostWakeup, [Next]_vars PROVE NoLostWakeup'
<1> DEFINE Asleep == {"new", "app", "started", "test", "poll"}
<1> SUFFICES ASSUME NEW m \in Loops PROVE WokenUp(m)'
  BY DEF NoLostWakeup, WokenUp
<1> USE ConstantsAssumption DEF TypeOK, Threads, Calling, CallInv
<1>0. WokenUp(m) /\ m \in Threads
  BY DEF NoLostWakeup, WokenUp
\* A step that does not put m to sleep, nor takes away what keeps it awake.
<1>a. ASSUME Site(m)' \in Asleep => Site(m) \in Asleep,
             pending'[m] = pending[m],
             wakeups' = wakeups,
             Waking(m) \subseteq Waking(m)'
      PROVE WokenUp(m)'
  BY <1>0, <1>a DEF WokenUp
<1>1. ASSUME NEW l \in Loops, EnterLoop(l) PROVE WokenUp(m)'
  <2>1. Waking(m) \subseteq Waking(m)'
    BY <1>1 DEF EnterLoop, Waking
  <2> QED
    BY <1>1, <2>1, <1>0, <1>a DEF EnterLoop, Site
<1>2. ASSUME NEW l \in Loops, TestQuit(l) PROVE WokenUp(m)'
  <2>1. Waking(m) \subseteq Waking(m)'
    BY <1>2 DEF TestQuit, Waking
  <2> QED
    BY <1>2, <2>1, <1>0, <1>a DEF TestQuit, loopVars, Site
<1>3. ASSUME NEW l \in Loops, NEW events, PollReturns(l, events) PROVE WokenUp(m)'
  <2>1. Waking(m) \subseteq Waking(m)'
    BY <1>3 DEF PollReturns, Waking
  <2> QED
    BY <1>3, <2>1, <1>0, <1>a DEF PollReturns, Site
<1>4. ASSUME NEW l \in Loops, HandleWakeup(l) PROVE WokenUp(m)'
  <2>1. Waking(m) \subseteq Waking(m)' /\ Site(m)' = Site(m) /\ UNCHANGED pending
    BY <1>4 DEF HandleWakeup, Waking, Site
  <2>2. CASE l = m
    BY <1>4, <2>1, <2>2 DEF HandleWakeup, Handled, Site, WokenUp
  <2>3. CASE l # m
    BY <1>4, <2>1, <2>3, <1>0 DEF HandleWakeup, WokenUp
  <2> QED
    BY <2>2, <2>3
<1>5. ASSUME NEW l \in Loops, HandleTimer(l) \/ HandleIo(l) \/ TimerExpire(l) PROVE WokenUp(m)'
  <2>1. Waking(m) \subseteq Waking(m)' /\ Site(m)' = Site(m) /\ UNCHANGED <<pending, wakeups>>
    BY <1>5 DEF HandleTimer, HandleIo, TimerExpire, Waking, Site
  <2> QED
    BY <2>1, <1>a
<1>6. ASSUME NEW l \in Loops, EndHandling(l) \/ LockPending(l) PROVE WokenUp(m)'
  <2>1. Waking(m) \subseteq Waking(m)' /\ UNCHANGED <<pending, wakeups>>
    BY <1>6 DEF EndHandling, LockPending, Waking, loopVars
  <2>2. Site(m)' \in Asleep => Site(m) \in Asleep
    <3>1. CASE EndHandling(l)
      BY <3>1, <1>0 DEF EndHandling, Site
    <3>2. CASE LockPending(l)
      BY <3>2, <1>0 DEF LockPending, Site
    <3> QED
      BY <1>6, <3>1, <3>2
  <2> QED
    BY <2>1, <2>2, <1>a
\* doPending leaves with an empty m_pending.
<1>7. ASSUME NEW l \in Loops, FinishPending(l) PROVE WokenUp(m)'
  <2>1. Waking(m) \subseteq Waking(m)' /\ UNCHANGED wakeups
    BY <1>7 DEF FinishPending, Waking
  <2>2. CASE l = m
    BY <1>7, <2>2 DEF FinishPending, WokenUp
  <2>3. CASE l # m
    BY <1>7, <2>1, <2>3, <1>0, <1>a DEF FinishPending, Site
  <2> QED
    BY <2>2, <2>3
<1>8. ASSUME NEW t \in Threads, NEW k, Run(t, k, Site(t)), pc[t] # "wake", UNCHANGED <<pending, wakeups>>
      PROVE WokenUp(m)'
  <2>1. Waking(m) \subseteq Waking(m)'
    BY <1>8 DEF Run, Waking
  <2>2. Site(m)' = Site(m)
    BY <1>8, <1>0 DEF Run, Site
  <2> QED
    BY <1>8, <2>1, <2>2, <1>a
<1>9. ASSUME NEW t \in Threads, Check(t) PROVE WokenUp(m)'
  <2>1. Waking(m) \subseteq Waking(m)' /\ UNCHANGED <<pending, wakeups>>
    BY <1>9 DEF Check, Waking, loopVars
  <2>2. Site(m)' = Site(m)
    BY <1>9, <1>0 DEF Check, Site
  <2> QED
    BY <2>1, <2>2, <1>a
\* The write that ends a call replaces the thread that was about to write.
<1>10. ASSUME NEW t \in Threads, Wake(t) PROVE WokenUp(m)'
  <2>1. Target[arg[t]] \in Loops /\ threadId[Target[arg[t]]] # t
    BY <1>10 DEF Wake
  <2>2. wakeups' = [wakeups EXCEPT ![Target[arg[t]]] = @ + 1] /\ UNCHANGED pending
    BY <1>10, <2>1 DEF Wake, InLoopThread
  <2>3. Site(m)' = Site(m)
    BY <1>10, <1>0 DEF Wake, Site
  <2>4. CASE Target[arg[t]] = m
    <3>1. wakeups'[m] = wakeups[m] + 1 /\ wakeups[m] \in Nat
      BY <2>1, <2>2, <2>4
    <3>2. wakeups'[m] > 0
      BY <3>1
    <3> QED
      BY <3>2 DEF WokenUp
  <2>5. CASE Target[arg[t]] # m
    <3>1. Waking(m) \subseteq Waking(m)'
      BY <1>10, <2>5 DEF Wake, Waking
    <3>2. wakeups'[m] = wakeups[m]
      BY <2>1, <2>2, <2>5
    <3> QED
      BY <3>1, <3>2, <2>2, <2>3, <1>0 DEF WokenUp
  <2> QED
    BY <2>4, <2>5
\* A push is made by a thread that is then about to write.
<1>11. ASSUME NEW t \in Threads, Push(t) PROVE WokenUp(m)'
  <2>1. Waking(m) \subseteq Waking(m)' /\ UNCHANGED wakeups
    BY <1>11 DEF Push, Waking
  <2>2. Site(m)' = Site(m)
    BY <1>11, <1>0 DEF Push, Site
  <2>3. CASE Target[arg[t]] = m
    <3>1. t \in Waking(m)'
      BY <1>11, <2>3 DEF Push, Waking
    <3> QED
      BY <3>1 DEF WokenUp
  <2>4. CASE Target[arg[t]] # m
    BY <1>11, <2>1, <2>2, <2>4, <1>a DEF Push
  <2> QED
    BY <2>3, <2>4
<1>12. ASSUME NEW t \in Threads, StopPool(t) \/ Join(t) PROVE WokenUp(m)'
  <2>1. Waking(m) \subseteq Waking(m)' /\ UNCHANGED <<pending, wakeups>>
    BY <1>12 DEF StopPool, Join, Waking, loopVars
  <2>2. Site(m)' \in Asleep => Site(m) \in Asleep
    BY <1>12, <1>0 DEF StopPool, Join, Site
  <2> QED
    BY <2>1, <2>2, <1>a
<1>13. ASSUME NEW t \in Threads, NEW l \in Loops, StartThread(t, l) \/ Quit(t, l) PROVE WokenUp(m)'
  <2>1. Waking(m) \subseteq Waking(m)' /\ UNCHANGED <<pending, wakeups>>
    BY <1>13 DEF StartThread, Quit, Waking, loopVars
  <2>2. Site(m)' \in Asleep => Site(m) \in Asleep
    BY <1>13, <1>0 DEF StartThread, Quit, Site
  <2> QED
    BY <2>1, <2>2, <1>a
<1>14. ASSUME NEW t \in Threads, NEW k \in Tasks, Submit(t, k) PROVE WokenUp(m)'
  <2>1. Waking(m) \subseteq Waking(m)' /\ UNCHANGED <<pending, wakeups>>
    BY <1>14 DEF Submit, InUserCode, Waking, loopVars
  <2>2. Site(m)' = Site(m)
    BY <1>14, <1>0 DEF Submit, InUserCode, Site
  <2> QED
    BY <2>1, <2>2, <1>a
<1>15. CASE UNCHANGED vars
  BY <1>15, <1>0 DEF vars, loopVars, WokenUp, Site, Waking
<1>16. ASSUME NEW l \in Loops, RunPending(l) PROVE WokenUp(m)'
  <2>1. pc[l] = "run" /\ Site(l) = "run" /\ l \in Threads
    BY <1>16 DEF RunPending, Site
  <2> QED
    BY <1>16, <2>1, <1>8 DEF RunPending
<1>17. ASSUME NEW t \in Threads, RunInline(t) PROVE WokenUp(m)'
  <2>1. pc[t] = "inline" /\ Site(t) = ret[t]
    BY <1>17 DEF RunInline, Site
  <2> QED
    BY <1>17, <2>1, <1>8 DEF RunInline, loopVars
<1> QED
  BY <1>1, <1>2, <1>3, <1>4, <1>5, <1>6, <1>7, <1>9, <1>10, <1>11, <1>12, <1>13,
     <1>14, <1>15, <1>16, <1>17
     DEF Next, LoopStep, CallStep, Poll, PollIo, PollInterrupted

-----------------------------------------------------------------------------
\* The inductive invariant.
IInv == TypeOK /\ CallInv /\ LockInv /\ NoLostWakeup

\* The invariant holds of the loops as their constructors leave them.
LEMMA InitIInv ==
  ASSUME Init PROVE IInv
<1> USE ConstantsAssumption DEF Init, Threads
<1>1. TypeOK
  <2>1. /\ threadId \in [Loops -> Threads] /\ pending \in [Loops -> Seq(Tasks)]
        /\ index \in [Loops -> Nat \ {0}] /\ wakeups \in [Loops -> Nat]
        /\ quit \in [Loops -> BOOLEAN] /\ expired \in [Loops -> BOOLEAN]
        /\ mutex \in [Loops -> Threads \cup {None}] /\ active \in [Loops -> SUBSET Sources]
    OBVIOUS
  <2>2. /\ pc \in [Threads -> Locations] /\ ret \in [Threads -> Locations \ Calling]
        /\ arg \in [Threads -> Tasks \cup {None}]
        /\ \A t \in Threads : pc[t] \in Calling <=> arg[t] # None
    BY DEF Locations, Calling
  <2> QED
    BY <2>1, <2>2 DEF TypeOK
<1>2. CallInv
  BY DEF CallInv, IsApp
<1>3. LockInv
  BY DEF LockInv, Site, Calling
<1>4. NoLostWakeup
  BY DEF NoLostWakeup
<1> QED
  BY <1>1, <1>2, <1>3, <1>4 DEF IInv

\* The inductive invariant holds throughout, for any loops, threads and functors.
THEOREM Invariance == Spec => []IInv
<1>1. Init => IInv
  BY InitIInv
<1>2. IInv /\ [Next]_vars => IInv'
  BY TypeStep, CallInvStep, LockInvStep, NoLostWakeupStep DEF IInv
<1> QED
  BY <1>1, <1>2, PTL DEF Spec

\* Every variable keeps its type, for any loops, threads and functors.
THEOREM TypeCorrect == Spec => []TypeOK
<1>1. IInv => TypeOK
  BY DEF IInv
<1> QED
  BY <1>1, Invariance, PTL

\* A loop never sleeps on a functor (EventLoop::addPending before
\* EventLoop::wakeup, handleWakeup before doPending), for any number of
\* loops, posting threads and functors.
THEOREM WakeupsAreNotLost == Spec => []NoLostWakeup
<1>1. IInv => NoLostWakeup
  BY DEF IInv
<1> QED
  BY <1>1, Invariance, PTL

-----------------------------------------------------------------------------
\* While a loop runs its functors it holds its mutex, so that m_pending does
\* not change under the iteration.
THEOREM PendingIsStable == Spec => PendingStable
<1> DEFINE A == \A l \in Loops : Site(l) = "run" /\ Site(l)' = "run" => pending'[l] = pending[l]
<1>1. ASSUME IInv, [Next]_vars PROVE A
  <2> SUFFICES ASSUME NEW m \in Loops, Site(m) = "run", Site(m)' = "run" PROVE pending'[m] = pending[m]
    OBVIOUS
  <2> USE ConstantsAssumption DEF Threads
  <2>1. mutex[m] # None
    BY <1>1 DEF IInv, LockInv
  <2>2. ASSUME NEW t \in Threads, Push(t) PROVE pending'[m] = pending[m]
    BY <1>1, <2>1, <2>2 DEF Push, IInv, TypeOK
  <2>3. ASSUME NEW l \in Loops, FinishPending(l) PROVE pending'[m] = pending[m]
    BY <1>1, <2>3 DEF FinishPending, IInv, TypeOK, Site, Calling
  <2>4. CASE UNCHANGED pending
    BY <2>4
  <2> QED
    BY <1>1, <2>2, <2>3, <2>4
       DEF Next, LoopStep, CallStep, Poll, PollIo, PollInterrupted, PollReturns, EnterLoop, TestQuit,
           HandleWakeup, HandleTimer, HandleIo, EndHandling, LockPending, RunPending, TimerExpire,
           Check, RunInline, Wake, StopPool, Join, StartThread, Quit, Submit, vars, loopVars
<1> QED
  BY <1>1, Invariance, PTL DEF Spec, PendingStable

-----------------------------------------------------------------------------
\* The refinement of the executor: how the steps of a loop change what the
\* executor knows of it.

absQueue == [l \in Loops |-> Unrun(l)]
absHand == [t \in Threads |-> Hand(t)]
absPhase == [l \in Loops |-> Phase(l)]

\* The first functor not run yet, and the ones behind it.
LEMMA UnrunHeadTail ==
  ASSUME NEW p \in Seq(Tasks), NEW i \in 1 .. Len(p)
  PROVE  /\ SubSeq(p, i, Len(p)) \in Seq(Tasks)
         /\ SubSeq(p, i, Len(p)) # <<>>
         /\ Head(SubSeq(p, i, Len(p))) = p[i]
         /\ Tail(SubSeq(p, i, Len(p))) = SubSeq(p, i + 1, Len(p))
<1> DEFINE r == SubSeq(p, i + 1, Len(p))
<1>1. SubSeq(p, i, Len(p)) = <<p[i]>> \o r
  BY SubSeqRecursiveFirst
<1>2. r \in Seq(Tasks) /\ p[i] \in Tasks /\ SubSeq(p, i, Len(p)) \in Seq(Tasks)
  OBVIOUS
<1> HIDE DEF r
<1>3. <<p[i]>> \o r # <<>> /\ Head(<<p[i]>> \o r) = p[i]
  BY <1>2
<1>4. Tail(<<p[i]>> \o r) = r
  BY <1>2
<1> QED
  BY <1>1, <1>2, <1>3, <1>4 DEF r

\* A functor's tail call does not move the thread from the place the functor
\* was run from.
LEMMA RunSite ==
  ASSUME TypeOK, NEW t \in Threads, NEW k, Run(t, k, Site(t))
  PROVE  \A u \in Threads : Site(u)' = Site(u)
BY DEF Run, Site, TypeOK, Calling

\* What a loop has not run yet is a sequence of functors.
LEMMA UnrunType ==
  ASSUME TypeOK, LockInv, NEW l \in Loops PROVE Unrun(l) \in Seq(Tasks)
<1>1. pending[l] \in Seq(Tasks) /\ index[l] \in Nat \ {0}
  BY DEF TypeOK
<1> QED
  BY <1>1 DEF Unrun

\* A push adds the functor at the end.
LEMMA UnrunPush ==
  ASSUME TypeOK, LockInv, NEW t \in Threads, Push(t), NEW m \in Loops
  PROVE  Unrun(m)' = IF m = Target[arg[t]] THEN Append(Unrun(m), arg[t]) ELSE Unrun(m)
<1> USE ConstantsAssumption DEF Threads
<1>1. Target[arg[t]] \in Loops /\ arg[t] \in Tasks
  BY DEF Push, TypeOK, Calling
<1>2. \A l \in Loops : Site(l)' = Site(l)
  BY DEF Push, Site, TypeOK, Calling
<1>3. Site(Target[arg[t]]) # "run"
  BY <1>1 DEF Push, LockInv
<1> QED
  BY <1>1, <1>2, <1>3 DEF Push, Unrun, TypeOK

\* A loop that runs a functor takes the first.
LEMMA UnrunRun ==
  ASSUME TypeOK, LockInv, NEW l \in Loops, RunPending(l)
  PROVE  /\ pc[l] = "run" /\ Site(l) = "run"
         /\ Unrun(l) # <<>>
         /\ Run(l, Head(Unrun(l)), Site(l))
         /\ \A m \in Loops : Unrun(m)' = IF m = l THEN Tail(Unrun(l)) ELSE Unrun(m)
<1> USE ConstantsAssumption DEF Threads
<1> DEFINE p == pending[l]
           i == index[l]
<1>1. pc[l] = "run" /\ Site(l) = "run" /\ l \in Threads
  BY DEF RunPending, Site, Calling
<1>2. Run(l, p[i], Site(l)) /\ UNCHANGED pending /\ index' = [index EXCEPT ![l] = @ + 1]
  BY <1>1 DEF RunPending
<1>3. \A m \in Loops : Site(m)' = Site(m)
  BY <1>1, <1>2, RunSite
<1>4. p \in Seq(Tasks) /\ i \in 1 .. Len(p)
  <2>1. p \in Seq(Tasks) /\ i \in Nat \ {0} /\ i <= Len(p)
    BY DEF RunPending, TypeOK
  <2> QED
    BY <2>1
<1>5. Unrun(l) = SubSeq(p, i, Len(p))
  BY <1>1 DEF Unrun
<1>6. \A m \in Loops : Unrun(m)' = IF m = l THEN SubSeq(p, i + 1, Len(p)) ELSE Unrun(m)
  BY <1>1, <1>2, <1>3 DEF Unrun, TypeOK
<1>7. Unrun(l) # <<>> /\ Head(Unrun(l)) = p[i] /\ Tail(Unrun(l)) = SubSeq(p, i + 1, Len(p))
  <2> HIDE DEF p, i
  <2> QED
    BY <1>4, <1>5, UnrunHeadTail
<1> QED
  BY <1>1, <1>2, <1>6, <1>7

\* No other step changes what is queued: doPending starts at the front and
\* clears m_pending when everything in it has been run.
LEMMA UnrunOther ==
  ASSUME TypeOK, LockInv, [Next]_vars, NEW m \in Loops,
         \A t \in Threads : ~ Push(t), \A l \in Loops : ~ RunPending(l)
  PROVE  Unrun(m)' = Unrun(m)
<1> USE ConstantsAssumption DEF Threads
<1>0. m \in Threads /\ pending[m] \in Seq(Tasks) /\ index[m] \in Nat
  BY DEF TypeOK
<1>1. ASSUME UNCHANGED <<pending, index>>, Site(m) = "run" <=> Site(m)' = "run"
      PROVE Unrun(m)' = Unrun(m)
  BY <1>1 DEF Unrun
<1>2. ASSUME NEW l \in Loops, EnterLoop(l) \/ TestQuit(l) \/ EndHandling(l) PROVE Unrun(m)' = Unrun(m)
  BY <1>2, <1>0, <1>1 DEF EnterLoop, TestQuit, EndHandling, loopVars, Site, TypeOK, Calling
<1>3. ASSUME NEW l \in Loops, NEW events, PollReturns(l, events) PROVE Unrun(m)' = Unrun(m)
  BY <1>3, <1>0, <1>1 DEF PollReturns, Site, TypeOK, Calling
<1>4. ASSUME NEW l \in Loops, HandleWakeup(l) \/ HandleTimer(l) \/ HandleIo(l) \/ TimerExpire(l)
      PROVE Unrun(m)' = Unrun(m)
  BY <1>4, <1>1 DEF HandleWakeup, HandleTimer, HandleIo, TimerExpire, Site
<1>5. ASSUME NEW l \in Loops, LockPending(l) PROVE Unrun(m)' = Unrun(m)
  <2>1. Site(m)' = IF m = l THEN "run" ELSE Site(m)
    BY <1>5, <1>0 DEF LockPending, Site, TypeOK, Calling
  <2>2. CASE m = l
    <3>1. Site(m) # "run" /\ index[m] = 1
      BY <1>5, <2>2, <1>0 DEF LockPending, LockInv, Site, Calling
    <3>2. SubSeq(pending[m], 1, Len(pending[m])) = pending[m]
      BY <1>0
    <3> QED
      BY <1>5, <2>1, <2>2, <3>1, <3>2 DEF LockPending, Unrun
  <2>3. CASE m # l
    BY <1>5, <1>1, <2>1, <2>3 DEF LockPending
  <2> QED
    BY <2>2, <2>3
<1>6. ASSUME NEW l \in Loops, FinishPending(l) PROVE Unrun(m)' = Unrun(m)
  <2>1. Site(m)' = IF m = l THEN "test" ELSE Site(m)
    BY <1>6, <1>0 DEF FinishPending, Site, TypeOK, Calling
  <2>2. CASE m = l
    <3>1. Site(m) = "run" /\ index[m] > Len(pending[m]) /\ pending'[m] = <<>>
      BY <1>6, <2>2, <1>0 DEF FinishPending, Site, Calling, TypeOK
    <3>2. SubSeq(pending[m], index[m], Len(pending[m])) = <<>>
      BY <1>0, <3>1, SubSeqEmpty
    <3> QED
      BY <2>1, <2>2, <3>1, <3>2 DEF Unrun
  <2>3. CASE m # l
    BY <1>6, <1>0, <2>1, <2>3 DEF FinishPending, Unrun, TypeOK
  <2> QED
    BY <2>2, <2>3
<1>7. ASSUME NEW t \in Threads, Check(t) \/ Wake(t) PROVE Unrun(m)' = Unrun(m)
  BY <1>7, <1>0, <1>1 DEF Check, Wake, loopVars, Site, TypeOK, Calling
<1>8. ASSUME NEW t \in Threads, StopPool(t) \/ Join(t) PROVE Unrun(m)' = Unrun(m)
  BY <1>8, <1>0, <1>1 DEF StopPool, Join, loopVars, Site, TypeOK, Calling
<1>9. ASSUME NEW t \in Threads, NEW l \in Loops, StartThread(t, l) \/ Quit(t, l) PROVE Unrun(m)' = Unrun(m)
  BY <1>9, <1>0, <1>1 DEF StartThread, Quit, loopVars, Site, TypeOK, Calling
<1>10. ASSUME NEW t \in Threads, NEW k \in Tasks, Submit(t, k) PROVE Unrun(m)' = Unrun(m)
  BY <1>10, <1>0, <1>1 DEF Submit, loopVars, Site, TypeOK, Calling, InUserCode
<1>11. ASSUME NEW t \in Threads, RunInline(t) PROVE Unrun(m)' = Unrun(m)
  <2>1. Run(t, arg[t], Site(t))
    BY <1>11 DEF RunInline, Site, Calling
  <2>2. Site(m)' = Site(m)
    BY <1>0, <2>1, RunSite
  <2> QED
    BY <1>11, <1>1, <2>2 DEF RunInline, loopVars
<1>12. CASE UNCHANGED vars
  BY <1>12, <1>1 DEF vars, loopVars, Site
<1> QED
  BY <1>2, <1>3, <1>4, <1>5, <1>6, <1>7, <1>8, <1>9, <1>10, <1>11, <1>12
     DEF Next, LoopStep, CallStep, Poll, PollIo, PollInterrupted

\* A loop is opened by loop() and closed when loop() sees m_quit; no other
\* step changes its phase.
LEMMA PhaseOther ==
  ASSUME TypeOK, [Next]_vars, NEW m \in Loops,
         \A l \in Loops : ~ EnterLoop(l) /\ ~ TestQuit(l)
  PROVE  Phase(m)' = Phase(m)
<1> USE ConstantsAssumption DEF Threads
<1>0. m \in Threads
  OBVIOUS
<1>1. ASSUME Site(m)' = Site(m) PROVE Phase(m)' = Phase(m)
  BY <1>1 DEF Phase
<1>2. ASSUME Site(m) \in InLoop, Site(m)' \in InLoop PROVE Phase(m)' = Phase(m)
  BY <1>2 DEF Phase, InLoop
<1>3. ASSUME NEW l \in Loops, EndHandling(l) \/ LockPending(l) \/ FinishPending(l) PROVE Phase(m)' = Phase(m)
  <2>1. CASE m = l
    BY <1>3, <1>2, <2>1, <1>0 DEF EndHandling, LockPending, FinishPending, Site, TypeOK, Calling, InLoop
  <2>2. CASE m # l
    BY <1>3, <1>1, <2>2, <1>0 DEF EndHandling, LockPending, FinishPending, Site, TypeOK
  <2> QED
    BY <2>1, <2>2
<1>4. ASSUME NEW l \in Loops, NEW events, PollReturns(l, events) PROVE Phase(m)' = Phase(m)
  <2>1. CASE m = l
    BY <1>4, <1>2, <2>1, <1>0 DEF PollReturns, Site, TypeOK, Calling, InLoop
  <2>2. CASE m # l
    BY <1>4, <1>1, <2>2, <1>0 DEF PollReturns, Site, TypeOK
  <2> QED
    BY <2>1, <2>2
<1>5. ASSUME NEW l \in Loops, HandleWakeup(l) \/ HandleTimer(l) \/ HandleIo(l) \/ TimerExpire(l)
      PROVE Phase(m)' = Phase(m)
  BY <1>5, <1>1 DEF HandleWakeup, HandleTimer, HandleIo, TimerExpire, Site
<1>6. ASSUME NEW l \in Loops, RunPending(l) PROVE Phase(m)' = Phase(m)
  <2>1. \E k : Run(l, k, Site(l)) /\ l \in Threads
    BY <1>6 DEF RunPending, Site, Calling
  <2> QED
    BY <1>0, <1>1, <2>1, RunSite
<1>7. ASSUME NEW t \in Threads, RunInline(t) PROVE Phase(m)' = Phase(m)
  <2>1. Run(t, arg[t], Site(t))
    BY <1>7 DEF RunInline, Site, Calling
  <2> QED
    BY <1>0, <1>1, <2>1, RunSite
<1>8. ASSUME NEW t \in Threads, Check(t) \/ Push(t) \/ Wake(t) PROVE Phase(m)' = Phase(m)
  BY <1>8, <1>0, <1>1 DEF Check, Push, Wake, Site, TypeOK, Calling
<1>9. ASSUME NEW t \in Threads, StopPool(t) \/ Join(t) PROVE Phase(m)' = Phase(m)
  <2>1. Site(m)' = Site(m) \/ m = t
    BY <1>9, <1>0 DEF StopPool, Join, Site, TypeOK
  <2>2. m = t => Site(m) \in {"exit", "join"} /\ Site(m)' \in {"join", "done"}
    BY <1>9, <1>0 DEF StopPool, Join, Site, TypeOK, Calling
  <2> QED
    BY <1>1, <2>1, <2>2 DEF Phase, InLoop
<1>10. ASSUME NEW t \in Threads, NEW l \in Loops, StartThread(t, l) \/ Quit(t, l) PROVE Phase(m)' = Phase(m)
  <2>1. Site(m)' = Site(m) \/ (Site(m) = "new" /\ Site(m)' = "started")
    BY <1>10, <1>0 DEF StartThread, Quit, Site, TypeOK, Calling
  <2> QED
    BY <1>1, <2>1 DEF Phase, InLoop
<1>11. ASSUME NEW t \in Threads, NEW k \in Tasks, Submit(t, k) PROVE Phase(m)' = Phase(m)
  BY <1>11, <1>0, <1>1 DEF Submit, InUserCode, Site, TypeOK, Calling
<1>12. CASE UNCHANGED vars
  BY <1>12, <1>1 DEF vars, Site
<1> QED
  BY <1>3, <1>4, <1>5, <1>6, <1>7, <1>8, <1>9, <1>10, <1>11, <1>12
     DEF Next, LoopStep, CallStep, Poll, PollIo, PollInterrupted

\* Only a comparison of the thread ids puts a functor in a thread's hand, and
\* only running it takes it away.
LEMMA HandOther ==
  ASSUME TypeOK, [Next]_vars, \A t \in Threads : ~ Check(t) /\ ~ RunInline(t), NEW u \in Threads
  PROVE  Hand(u)' = Hand(u)
<1> USE ConstantsAssumption DEF Threads
<1>1. ASSUME NEW t \in Threads, pc[t] # "inline", pc'[t] # "inline",
             u # t => pc'[u] = pc[u] /\ arg'[u] = arg[u]
      PROVE Hand(u)' = Hand(u)
  BY <1>1 DEF Hand
<1>2. ASSUME NEW l \in Loops, EnterLoop(l) \/ TestQuit(l) \/ EndHandling(l) \/ LockPending(l) \/ FinishPending(l)
      PROVE Hand(u)' = Hand(u)
  <2>1. l \in Threads /\ pc[l] # "inline" /\ pc'[l] # "inline" /\ (u # l => pc'[u] = pc[u] /\ arg'[u] = arg[u])
    BY <1>2 DEF EnterLoop, TestQuit, EndHandling, LockPending, FinishPending, TypeOK
  <2> QED
    BY <1>1, <2>1
<1>3. ASSUME NEW l \in Loops, NEW events, PollReturns(l, events) PROVE Hand(u)' = Hand(u)
  BY <1>3, <1>1 DEF PollReturns, TypeOK
<1>4. ASSUME UNCHANGED <<pc, arg>> PROVE Hand(u)' = Hand(u)
  BY <1>4 DEF Hand
<1>5. ASSUME NEW l \in Loops, HandleWakeup(l) \/ HandleTimer(l) \/ HandleIo(l) \/ TimerExpire(l)
      PROVE Hand(u)' = Hand(u)
  BY <1>5, <1>4 DEF HandleWakeup, HandleTimer, HandleIo, TimerExpire
<1>6. ASSUME NEW l \in Loops, RunPending(l) PROVE Hand(u)' = Hand(u)
  <2>1. l \in Threads /\ pc[l] # "inline" /\ pc'[l] # "inline" /\ (u # l => pc'[u] = pc[u] /\ arg'[u] = arg[u])
    BY <1>6 DEF RunPending, Run, TypeOK
  <2> QED
    BY <1>1, <2>1
<1>7. ASSUME NEW t \in Threads, Push(t) \/ Wake(t) PROVE Hand(u)' = Hand(u)
  <2>1. pc[t] # "inline" /\ pc'[t] # "inline" /\ (u # t => pc'[u] = pc[u] /\ arg'[u] = arg[u])
    BY <1>7 DEF Push, Wake, TypeOK, Calling
  <2> QED
    BY <1>1, <2>1
<1>8. ASSUME NEW t \in Threads, StopPool(t) \/ Join(t) PROVE Hand(u)' = Hand(u)
  <2>1. pc[t] # "inline" /\ pc'[t] # "inline" /\ (u # t => pc'[u] = pc[u] /\ arg'[u] = arg[u])
    BY <1>8 DEF StopPool, Join, TypeOK
  <2> QED
    BY <1>1, <2>1
<1>9. ASSUME NEW t \in Threads, NEW l \in Loops, StartThread(t, l) \/ Quit(t, l) PROVE Hand(u)' = Hand(u)
  <2>1. l \in Threads
    OBVIOUS
  <2>2. CASE StartThread(t, l)
    BY <2>1, <2>2, <1>1 DEF StartThread, TypeOK
  <2>3. CASE Quit(t, l)
    BY <2>3, <1>4 DEF Quit
  <2> QED
    BY <1>9, <2>2, <2>3
<1>10. ASSUME NEW t \in Threads, NEW k \in Tasks, Submit(t, k) PROVE Hand(u)' = Hand(u)
  <2>1. pc[t] # "inline" /\ pc'[t] # "inline" /\ (u # t => pc'[u] = pc[u] /\ arg'[u] = arg[u])
    BY <1>10 DEF Submit, InUserCode, TypeOK
  <2> QED
    BY <1>1, <2>1
<1>11. CASE UNCHANGED vars
  BY <1>11, <1>4 DEF vars
<1> QED
  BY <1>2, <1>3, <1>5, <1>6, <1>7, <1>8, <1>9, <1>10, <1>11
     DEF Next, LoopStep, CallStep, Poll, PollIo, PollInterrupted

-----------------------------------------------------------------------------
\* A loop takes its creator for its own thread until loop() has been entered.
OwnerInv == \A l \in Loops : threadId[l] = IF Phase(l) = "idle" THEN Creator[l] ELSE l

Undecided == {"check", "inline", "push"}
Has(l, k) == In(Unrun(l), k)
NoDoublet(l) == Distinct(Unrun(l))
Waits(k) == Has(Target[k], k)

\* A functor is at one place at most: it has not been handed over, or is the
\* argument of one call that has neither pushed nor run it, or is queued once,
\* in its target's queue, or has been run.  A functor that is the tail call of
\* another is handed over by a run of that one only.
OnceInv ==
  /\ \A k \in Tasks \ submitted : ranBy[k] = None /\ ~ Waits(k) /\ \A t \in Threads : arg[t] # k
  /\ \A k \in Tasks : Follow[k] # None /\ Follow[k] \in submitted => ranBy[k] # None
  /\ \A t \in Threads : pc[t] \in Undecided => ranBy[arg[t]] = None /\ ~ Waits(arg[t])
  /\ \A t, u \in Threads : pc[t] \in Undecided /\ pc[u] \in Undecided /\ arg[t] = arg[u] => t = u
  /\ \A l \in Loops : NoDoublet(l)
  /\ \A l \in Loops : \A k \in Tasks : Has(l, k) => Target[k] = l /\ ranBy[k] = None

\* What is queued after a step, in terms of the sequence that is left.
LEMMA NextQueue ==
  ASSUME NEW l \in Loops, NEW s, Unrun(l)' = s
  PROVE  (NoDoublet(l)' <=> Distinct(s)) /\ \A x : Has(l, x)' <=> In(s, x)
BY DEF NoDoublet, Has, Distinct, In

\* loop_thread stores the thread's id before it calls loop().
LEMMA OwnerStep ==
  ASSUME TypeOK, OwnerInv, [Next]_vars PROVE OwnerInv'
<1> USE ConstantsAssumption DEF Threads
<1> SUFFICES ASSUME NEW m \in Loops
             PROVE  threadId'[m] = IF Phase(m)' = "idle" THEN Creator[m] ELSE m
  BY DEF OwnerInv
<1>0. threadId[m] = IF Phase(m) = "idle" THEN Creator[m] ELSE m
  BY DEF OwnerInv
<1>1. ASSUME NEW l \in Loops, EnterLoop(l) PROVE threadId'[m] = IF Phase(m)' = "idle" THEN Creator[m] ELSE m
  <2>1. Site(m)' = IF m = l THEN "test" ELSE Site(m)
    BY <1>1 DEF EnterLoop, Site, TypeOK, Calling
  <2>2. Phase(m)' = IF m = l THEN "running" ELSE Phase(m)
    BY <2>1 DEF Phase, InLoop
  <2> QED
    BY <1>0, <1>1, <2>2 DEF EnterLoop, TypeOK
<1>2. ASSUME NEW l \in Loops, TestQuit(l) PROVE threadId'[m] = IF Phase(m)' = "idle" THEN Creator[m] ELSE m
  <2>1. UNCHANGED threadId /\ (m # l => Site(m)' = Site(m))
    BY <1>2 DEF TestQuit, Site, TypeOK, loopVars
  <2>2. m = l => Site(m) = "test" /\ Site(m)' \in {"exit", "poll"}
    BY <1>2 DEF TestQuit, Site, TypeOK, Calling
  <2>3. Phase(m)' = "idle" <=> Phase(m) = "idle"
    BY <2>1, <2>2 DEF Phase, InLoop
  <2> QED
    BY <1>0, <2>1, <2>3
<1>3. CASE \A l \in Loops : ~ EnterLoop(l) /\ ~ TestQuit(l)
  <2>1. Phase(m)' = Phase(m)
    BY <1>3, PhaseOther
  <2>2. UNCHANGED threadId
    BY <1>3 DEF Next, LoopStep, CallStep, Poll, PollIo, PollInterrupted, PollReturns,
         HandleWakeup, HandleTimer, HandleIo, EndHandling, LockPending, RunPending, FinishPending,
         TimerExpire, Check, RunInline, Wake, Push, StopPool, Join, StartThread, Quit, Submit, vars, loopVars
  <2> QED
    BY <1>0, <2>1, <2>2
<1> QED
  BY <1>1, <1>2, <1>3

\* Running a functor that is at one place leaves every functor at one place.
LEMMA RunOnce ==
  ASSUME TypeOK, OnceInv, NEW t \in Threads, NEW k \in Tasks, NEW s \in Locations \ Calling,
         Run(t, k, s), k \in submitted, ranBy[k] = None,
         \A u \in Threads \ {t} : pc[u] \in Undecided => arg[u] # k,
         \A l \in Loops : NoDoublet(l)',
         \A l \in Loops, x \in Tasks : Has(l, x)' => Has(l, x) /\ x # k
  PROVE  OnceInv'
<1> USE ConstantsAssumption DEF TypeOK, OnceInv
<1> DEFINE f == Follow[k]
<1>1. /\ ranBy' = [ranBy EXCEPT ![k] = t] /\ arg' = [arg EXCEPT ![t] = f]
      /\ submitted' = IF f = None THEN submitted ELSE submitted \cup {f}
      /\ pc' = [pc EXCEPT ![t] = IF f = None THEN s ELSE "check"]
      /\ f \in Tasks \cup {None} /\ t # None /\ None \notin Tasks
  BY DEF Run, Threads
<1>2. \A x \in Tasks : Waits(x)' => Waits(x) /\ x # k
  BY DEF Waits
<1>3. f # None => f \notin submitted /\ f # k
  OBVIOUS
<1>4. ASSUME NEW x \in Tasks \ submitted'
      PROVE  ranBy'[x] = None /\ ~ Waits(x)' /\ \A u \in Threads : arg'[u] # x
  <2>1. x \in Tasks \ submitted /\ x # k /\ x # f
    BY <1>1
  <2> QED
    BY <1>1, <1>2, <2>1
<1>5. ASSUME NEW x \in Tasks, Follow[x] # None, Follow[x] \in submitted' PROVE ranBy'[x] # None
  <2>1. CASE Follow[x] \in submitted
    BY <1>1, <1>5, <2>1
  <2>2. CASE Follow[x] = f
    BY <1>1, <1>5, <2>2
  <2> QED
    BY <1>1, <1>5, <2>1, <2>2
<1>6. ASSUME NEW u \in Threads, pc'[u] \in Undecided
      PROVE  /\ ranBy'[arg'[u]] = None /\ ~ Waits(arg[u])'
             /\ u = t => f # None /\ arg'[u] = f
             /\ u # t => pc[u] \in Undecided /\ arg'[u] = arg[u] /\ arg[u] # f
  <2>1. CASE u = t
    <3>1. f # None /\ arg'[u] = f
      BY <1>1, <1>6, <2>1 DEF Undecided, Calling
    <3> QED
      BY <1>1, <1>2, <1>3, <2>1, <3>1
  <2>2. CASE u # t
    <3>1. pc[u] \in Undecided /\ arg'[u] = arg[u] /\ arg[u] \in Tasks
      BY <1>1, <1>6, <2>2 DEF Undecided, Calling
    <3>2. arg[u] # f
      BY <1>3, <3>1
    <3> QED
      BY <1>1, <1>2, <2>2, <3>1, <3>2
  <2> QED
    BY <2>1, <2>2
<1>7. ASSUME NEW u \in Threads, NEW v \in Threads, pc'[u] \in Undecided, pc'[v] \in Undecided, arg'[u] = arg'[v]
      PROVE  u = v
  <2>1. /\ u = t => f # None /\ arg'[u] = f
        /\ u # t => pc[u] \in Undecided /\ arg'[u] = arg[u] /\ arg[u] # f
    BY <1>6, <1>7
  <2>2. /\ v = t => f # None /\ arg'[v] = f
        /\ v # t => pc[v] \in Undecided /\ arg'[v] = arg[v] /\ arg[v] # f
    BY <1>6, <1>7
  <2> QED
    BY <1>7, <2>1, <2>2
<1>8. ASSUME NEW l \in Loops, NEW x \in Tasks, Has(l, x)' PROVE Target[x] = l /\ ranBy'[x] = None
  BY <1>1, <1>8
<1> QED
  BY <1>4, <1>5, <1>6, <1>7, <1>8

\* Every step leaves every functor at one place.
LEMMA OnceStep ==
  ASSUME TypeOK, CallInv, LockInv, OnceInv, [Next]_vars PROVE OnceInv'
<1> USE ConstantsAssumption DEF Threads
<1>1. ASSUME NEW l \in Loops, RunPending(l) PROVE OnceInv'
  <2> DEFINE q == Unrun(l)
             k == Head(q)
  <2>1. /\ l \in Threads /\ pc[l] = "run" /\ "run" \in Locations \ Calling /\ Site(l) = "run"
        /\ q # <<>> /\ q \in Seq(Tasks) /\ Run(l, k, Site(l))
        /\ \A m \in Loops : Unrun(m)' = IF m = l THEN Tail(q) ELSE Unrun(m)
    BY <1>1, UnrunRun, UnrunType DEF Locations, Calling, InLoop
  <2>2. k \in Tasks /\ In(q, k) /\ Distinct(q)
    <3> HIDE DEF q
    <3>1. Head(q) \in Tasks /\ In(q, Head(q))
      BY <2>1, TailOfQueue
    <3> QED
      BY <3>1 DEF OnceInv, NoDoublet, q
  <2>3. Distinct(Tail(q)) /\ \A x \in Tasks : In(Tail(q), x) => In(q, x) /\ x # k
    <3> HIDE DEF q
    <3> QED
      BY <2>1, <2>2, TailOfQueue
  <2>4. Target[k] = l /\ ranBy[k] = None /\ Waits(k)
    BY <2>2 DEF OnceInv, Waits, Has
  <2>5. k \in submitted /\ \A u \in Threads : pc[u] \in Undecided => arg[u] # k
    BY <2>2, <2>4 DEF OnceInv
  <2>6. \A m \in Loops : NoDoublet(m)'
    <3> SUFFICES ASSUME NEW m \in Loops PROVE NoDoublet(m)'
      OBVIOUS
    <3>1. Distinct(Unrun(m)) /\ Unrun(m)' = IF m = l THEN Tail(q) ELSE Unrun(m)
      BY <2>1 DEF OnceInv, NoDoublet
    <3> QED
      BY <2>3, <3>1, NextQueue
  <2>7. \A m \in Loops, x \in Tasks : Has(m, x)' => Has(m, x) /\ x # k
    <3> SUFFICES ASSUME NEW m \in Loops, NEW x \in Tasks, Has(m, x)' PROVE Has(m, x) /\ x # k
      OBVIOUS
    <3>1. CASE m = l
      BY <2>1, <2>3, <3>1, NextQueue DEF Has
    <3>2. CASE m # l
      <4>1. Has(m, x)
        BY <2>1, <3>2, NextQueue DEF Has
      <4>2. Target[x] = m
        BY <4>1 DEF OnceInv
      <4> QED
        BY <2>4, <3>2, <4>1, <4>2
    <3> QED
      BY <3>1, <3>2
  <2> HIDE DEF k, q
  <2> QED
    BY <2>1, <2>2, <2>4, <2>5, <2>6, <2>7, RunOnce
<1>2. ASSUME NEW t \in Threads, RunInline(t) PROVE OnceInv'
  <2>1. /\ pc[t] = "inline" /\ arg[t] \in Tasks /\ ret[t] \in Locations \ Calling /\ Run(t, arg[t], ret[t])
        /\ pc[t] \in Undecided
    BY <1>2 DEF RunInline, TypeOK, Calling, Undecided
  <2>2. \A m \in Loops : Unrun(m)' = Unrun(m)
    <3>1. Run(t, arg[t], Site(t)) /\ UNCHANGED <<pending, index>>
      BY <1>2 DEF RunInline, Site, Calling, loopVars
    <3> QED
      BY <3>1, RunSite DEF Unrun
  <2>3. ranBy[arg[t]] = None /\ ~ Waits(arg[t]) /\ arg[t] \in submitted
    BY <2>1 DEF OnceInv
  <2>4. \A u \in Threads \ {t} : pc[u] \in Undecided => arg[u] # arg[t]
    BY <2>1 DEF OnceInv
  <2>5. \A m \in Loops : NoDoublet(m)'
    BY <2>2, NextQueue DEF OnceInv, NoDoublet
  <2>6. \A m \in Loops, x \in Tasks : Has(m, x)' => Has(m, x) /\ x # arg[t]
    <3> SUFFICES ASSUME NEW m \in Loops, NEW x \in Tasks, Has(m, x)' PROVE Has(m, x) /\ x # arg[t]
      OBVIOUS
    <3>1. Has(m, x) /\ Target[x] = m
      BY <2>2, NextQueue DEF OnceInv, Has
    <3> QED
      BY <2>3, <3>1 DEF Waits
  <2> QED
    BY <2>1, <2>3, <2>4, <2>5, <2>6, RunOnce
<1>3. ASSUME NEW t \in Threads, Push(t) PROVE OnceInv'
  <2> DEFINE k == arg[t]
             l == Target[arg[t]]
  <2>1. /\ k \in Tasks /\ l \in Loops /\ pc[t] \in Undecided /\ UNCHANGED <<arg, ranBy, submitted>>
        /\ pc' = [pc EXCEPT ![t] = "wake"]
    BY <1>3 DEF Push, TypeOK, Calling, Undecided, taskVars
  <2>2. ranBy[k] = None /\ ~ In(Unrun(l), k) /\ k \in submitted
    BY <2>1 DEF OnceInv, Waits, Has
  <2>3. \A m \in Loops : Unrun(m)' = IF m = l THEN Append(Unrun(m), k) ELSE Unrun(m)
    BY <1>3, UnrunPush
  <2>4. /\ \A x : In(Append(Unrun(l), k), x) <=> In(Unrun(l), x) \/ x = k
        /\ Distinct(Append(Unrun(l), k))
    <3>1. Unrun(l) \in Seq(Tasks) /\ Distinct(Unrun(l))
      BY <2>1, UnrunType DEF OnceInv, NoDoublet
    <3> HIDE DEF k, l
    <3> QED
      BY <2>1, <2>2, <3>1, AppendToQueue
  <2>5. \A m \in Loops : NoDoublet(m)'
    <3> SUFFICES ASSUME NEW m \in Loops PROVE NoDoublet(m)'
      OBVIOUS
    <3>1. Distinct(Unrun(m))
      BY DEF OnceInv, NoDoublet
    <3> QED
      BY <2>3, <2>4, <3>1, NextQueue
  <2>6. \A m \in Loops, x \in Tasks : Has(m, x)' => Has(m, x) \/ (m = l /\ x = k)
    BY <2>3, <2>4, NextQueue DEF Has
  <2>7. \A x \in Tasks : Waits(x)' => Waits(x) \/ x = k
    BY <2>6 DEF Waits
  <2>8. \A u \in Threads : pc'[u] \in Undecided => u # t /\ pc[u] \in Undecided
    BY <2>1 DEF Undecided, TypeOK
  <2>9. \A u \in Threads : pc'[u] \in Undecided => arg[u] # k /\ arg[u] \in Tasks
    BY <2>1, <2>8 DEF OnceInv, TypeOK, Undecided, Calling
  <2>10. \A x \in Tasks \ submitted' : ranBy'[x] = None /\ ~ Waits(x)' /\ \A u \in Threads : arg'[u] # x
    BY <2>1, <2>2, <2>7 DEF OnceInv
  <2>11. \A u \in Threads : pc'[u] \in Undecided => ranBy'[arg'[u]] = None /\ ~ Waits(arg[u])'
    BY <2>1, <2>7, <2>8, <2>9 DEF OnceInv
  <2>12. \A m \in Loops : \A x \in Tasks : Has(m, x)' => Target[x] = m /\ ranBy'[x] = None
    BY <2>1, <2>2, <2>6 DEF OnceInv
  <2> HIDE DEF k, l
  <2> QED
    BY <2>1, <2>5, <2>8, <2>10, <2>11, <2>12 DEF OnceInv
\* No other step moves a functor in or out of a queue, or runs one.
<1>4. CASE (\A t \in Threads : ~ Push(t) /\ ~ RunInline(t)) /\ \A l \in Loops : ~ RunPending(l)
  <2>1. \A m \in Loops : Unrun(m)' = Unrun(m)
    BY <1>4, UnrunOther
  <2>0. \A m \in Loops : (NoDoublet(m)' <=> NoDoublet(m)) /\ \A x : Has(m, x)' <=> Has(m, x)
    BY <2>1, NextQueue DEF NoDoublet, Has
  <2>2. \A x \in Tasks : Waits(x)' <=> Waits(x)
    BY <2>0 DEF Waits
  <2>3. ASSUME UNCHANGED <<ranBy, submitted>>,
               \A u \in Threads : arg'[u] # None => arg'[u] = arg[u],
               \A u \in Threads : pc'[u] \in Undecided => pc[u] \in Undecided /\ arg'[u] = arg[u]
        PROVE  OnceInv'
    <3>1. \A u \in Threads : pc'[u] \in Undecided => ranBy'[arg'[u]] = None /\ ~ Waits(arg[u])'
      <4> SUFFICES ASSUME NEW u \in Threads, pc'[u] \in Undecided
                   PROVE  ranBy'[arg'[u]] = None /\ ~ Waits(arg[u])'
        OBVIOUS
      <4>1. pc[u] \in Undecided /\ arg'[u] = arg[u] /\ arg[u] \in Tasks
        BY <2>3 DEF TypeOK, Undecided, Calling
      <4> QED
        BY <2>2, <2>3, <4>1 DEF OnceInv
    <3>2. \A x \in Tasks \ submitted' : ranBy'[x] = None /\ ~ Waits(x)' /\ \A u \in Threads : arg'[u] # x
      BY <2>2, <2>3 DEF OnceInv
    <3> QED
      BY <2>0, <2>3, <3>1, <3>2 DEF OnceInv
  <2>4. ASSUME NEW t \in Threads, NEW k \in Tasks, Submit(t, k) PROVE OnceInv'
    <3>1. /\ k \notin submitted /\ submitted' = submitted \cup {k} /\ UNCHANGED ranBy
          /\ \A j \in Tasks : Follow[j] # k
          /\ arg' = [arg EXCEPT ![t] = k] /\ pc' = [pc EXCEPT ![t] = "check"]
      BY <2>4 DEF Submit, Roots
    <3>2. \A u \in Threads : pc'[u] \in Undecided =>
             (u = t /\ arg'[u] = k) \/ (u # t /\ pc[u] \in Undecided /\ arg'[u] = arg[u] /\ arg[u] # k /\ arg[u] \in Tasks)
      BY <3>1 DEF OnceInv, TypeOK, Undecided, Calling
    <3>3. ranBy[k] = None /\ ~ Waits(k)
      BY <3>1 DEF OnceInv
    <3>4. \A u \in Threads : pc'[u] \in Undecided => ranBy'[arg'[u]] = None /\ ~ Waits(arg[u])'
      BY <2>2, <3>1, <3>2, <3>3 DEF OnceInv
    <3>5. \A x \in Tasks \ submitted' : ranBy'[x] = None /\ ~ Waits(x)' /\ \A u \in Threads : arg'[u] # x
      BY <2>2, <3>1 DEF OnceInv, TypeOK
    <3>6. \A u, v \in Threads : pc'[u] \in Undecided /\ pc'[v] \in Undecided /\ arg'[u] = arg'[v] => u = v
      BY <3>2 DEF OnceInv
    <3>7. \A j \in Tasks : Follow[j] # None /\ Follow[j] \in submitted' => ranBy'[j] # None
      BY <3>1 DEF OnceInv
    <3>8. /\ \A l \in Loops : NoDoublet(l)'
          /\ \A l \in Loops : \A x \in Tasks : Has(l, x)' => Target[x] = l /\ ranBy'[x] = None
      BY <2>0, <3>1 DEF OnceInv
    <3> QED
      BY <3>4, <3>5, <3>6, <3>7, <3>8 DEF OnceInv
  <2>5. ASSUME NEW t \in Threads, Check(t) PROVE OnceInv'
    BY <2>3, <2>5 DEF Check, TypeOK, Undecided, taskVars
  <2>6. ASSUME NEW t \in Threads, Wake(t) PROVE OnceInv'
    BY <2>3, <2>6 DEF Wake, TypeOK, Undecided, Calling, taskVars
  <2>7. ASSUME NEW t \in Threads, StopPool(t) \/ Join(t) PROVE OnceInv'
    BY <2>3, <2>7 DEF StopPool, Join, TypeOK, Undecided, taskVars
  <2>8. ASSUME NEW t \in Threads, NEW l \in Loops, StartThread(t, l) \/ Quit(t, l) PROVE OnceInv'
    BY <2>3, <2>8 DEF StartThread, Quit, TypeOK, Undecided, taskVars
  <2>9. ASSUME NEW l \in Loops,
               EnterLoop(l) \/ TestQuit(l) \/ EndHandling(l) \/ LockPending(l) \/ FinishPending(l)
        PROVE  OnceInv'
    BY <2>3, <2>9 DEF EnterLoop, TestQuit, EndHandling, LockPending, FinishPending, TypeOK, Undecided, taskVars
  <2>10. ASSUME NEW l \in Loops, NEW events, PollReturns(l, events) PROVE OnceInv'
    BY <2>3, <2>10 DEF PollReturns, TypeOK, Undecided, taskVars
  <2>11. ASSUME NEW l \in Loops, HandleWakeup(l) \/ HandleTimer(l) \/ HandleIo(l) \/ TimerExpire(l) PROVE OnceInv'
    BY <2>3, <2>11 DEF HandleWakeup, HandleTimer, HandleIo, TimerExpire, TypeOK, Undecided, taskVars
  <2>12. CASE UNCHANGED vars
    BY <2>3, <2>12 DEF vars, taskVars
  <2> QED
    BY <1>4, <2>4, <2>5, <2>6, <2>7, <2>8, <2>9, <2>10, <2>11, <2>12
       DEF Next, LoopStep, CallStep, Poll, PollIo, PollInterrupted
<1> QED
  BY <1>1, <1>2, <1>3, <1>4

-----------------------------------------------------------------------------
\* A functor in a call that has not pushed or run it is new to the executor.
LEMMA UndecidedIsFresh ==
  ASSUME TypeOK, LockInv, OnceInv, NEW t \in Threads, pc[t] \in {"check", "push"}
  PROVE  Ex!Fresh(arg[t])
<1> USE ConstantsAssumption
<1>1. arg[t] \in Tasks /\ pc[t] \in Undecided /\ pc[t] # "inline"
  BY DEF TypeOK, Calling, Undecided
<1>2. ~ Ex!Queued(arg[t])
  <2>1. Target[arg[t]] \in Loops /\ ~ In(Unrun(Target[arg[t]]), arg[t])
    BY <1>1 DEF OnceInv, Waits, Has
  <2>2. Unrun(Target[arg[t]]) \in Seq(Tasks)
    BY <2>1, UnrunType
  <2>3. DOMAIN Unrun(Target[arg[t]]) = 1 .. Len(Unrun(Target[arg[t]]))
    BY <2>2
  <2> QED
    BY <2>1, <2>3 DEF Ex!Queued, In
<1>3. \A u \in Threads : Hand(u) # arg[t]
  <2> SUFFICES ASSUME NEW u \in Threads, Hand(u) = arg[t] PROVE FALSE
    OBVIOUS
  <2>1. pc[u] = "inline" /\ arg[u] = arg[t]
    BY <1>1 DEF Hand
  <2> QED
    BY <1>1, <2>1 DEF OnceInv, Undecided
<1> QED
  BY <1>1, <1>2, <1>3 DEF Ex!Fresh, OnceInv

\* Every step of a loop is a step of the executor, or changes nothing of it.
LEMMA RefinementStep ==
  ASSUME TypeOK, CallInv, LockInv, OwnerInv, OnceInv, [Next]_vars
  PROVE  [Ex!Next]_<<absQueue, absHand, ranBy, absPhase>>
<1> USE ConstantsAssumption DEF Threads
<1> DEFINE Same == UNCHANGED <<absQueue, absHand, ranBy, absPhase>>
<1>0. \A l \in Loops : Ex!Owner(l) = threadId[l]
  BY DEF OwnerInv, Ex!Owner
<1>1. ASSUME NEW l \in Loops, EnterLoop(l) PROVE Ex!Open(l)
  <2>1. \A m \in Loops : Site(m)' = IF m = l THEN "test" ELSE Site(m)
    BY <1>1 DEF EnterLoop, Site, TypeOK, Calling
  <2>2. Site(l) \in {"app", "started"}
    BY <1>1 DEF EnterLoop, Site, Calling
  <2>3. \A m \in Loops : Unrun(m)' = Unrun(m)
    BY <1>1, <2>1, <2>2 DEF EnterLoop, Unrun
  <2>4. \A m \in Loops : Phase(m)' = IF m = l THEN "running" ELSE Phase(m)
    BY <2>1 DEF Phase, InLoop
  <2>5. Phase(l) = "idle"
    BY <2>2 DEF Phase, InLoop
  <2>6. \A u \in Threads : Hand(u)' = Hand(u)
    BY <1>1 DEF EnterLoop, Hand, TypeOK
  <2> QED
    BY <1>1, <2>3, <2>4, <2>5, <2>6 DEF EnterLoop, Ex!Open, taskVars
<1>2. ASSUME NEW l \in Loops, TestQuit(l) PROVE Ex!Close(l) \/ Same
  <2>1. \A m \in Loops : Site(m)' = IF m = l THEN pc'[l] ELSE Site(m)
    BY <1>2 DEF TestQuit, Site, TypeOK, Calling
  <2>2. Site(l) = "test" /\ pc'[l] \in {"exit", "poll"}
    BY <1>2 DEF TestQuit, Site, TypeOK, Calling
  <2>3. \A m \in Loops : Unrun(m)' = Unrun(m)
    BY <1>2, <2>1, <2>2 DEF TestQuit, Unrun, loopVars
  <2>4. \A m \in Loops : Phase(m)' = IF m = l THEN IF pc'[l] = "exit" THEN "closed" ELSE "running" ELSE Phase(m)
    BY <2>1, <2>2 DEF Phase, InLoop
  <2>5. Phase(l) = "running"
    BY <2>2 DEF Phase, InLoop
  <2>6. \A u \in Threads : Hand(u)' = Hand(u)
    BY <1>2 DEF TestQuit, Hand, TypeOK
  <2>7. CASE pc'[l] = "exit"
    BY <1>2, <2>3, <2>4, <2>5, <2>6, <2>7 DEF TestQuit, Ex!Close, taskVars
  <2>8. CASE pc'[l] # "exit"
    <3>1. \A m \in Loops : Phase(m)' = Phase(m)
      BY <2>4, <2>5, <2>8
    <3> QED
      BY <1>2, <2>3, <2>6, <3>1 DEF TestQuit, taskVars, absQueue, absHand, absPhase
  <2> QED
    BY <2>7, <2>8
<1>3. ASSUME NEW l \in Loops, RunPending(l) PROVE Ex!RunNext(l)
  <2>1. /\ Site(l) = "run" /\ pc[l] = "run" /\ Unrun(l) # <<>> /\ Run(l, Head(Unrun(l)), Site(l))
        /\ \A m \in Loops : Unrun(m)' = IF m = l THEN Tail(Unrun(l)) ELSE Unrun(m)
    BY <1>3, UnrunRun
  <2>2. \A m \in Loops : Phase(m)' = Phase(m)
    BY <1>3, <2>1, RunSite DEF Phase
  <2>3. \A u \in Threads : Hand(u)' = Hand(u)
    BY <2>1 DEF Run, Hand, TypeOK
  <2>4. Phase(l) = "running" /\ Hand(l) = None /\ l \in Threads
    BY <2>1 DEF Phase, InLoop, Hand
  <2>5. ranBy' = [ranBy EXCEPT ![Head(Unrun(l))] = l]
    BY <2>1 DEF Run
  <2> QED
    BY <2>1, <2>2, <2>3, <2>4, <2>5 DEF Ex!RunNext
<1>4. ASSUME NEW t \in Threads, RunInline(t) PROVE Ex!RunNow(t)
  <2>1. pc[t] = "inline" /\ Run(t, arg[t], Site(t)) /\ UNCHANGED <<pending, index>> /\ Hand(t) = arg[t] /\ arg[t] # None
    BY <1>4 DEF RunInline, Site, Calling, loopVars, Hand, TypeOK
  <2>2. \A u \in Threads : Site(u)' = Site(u)
    BY <2>1, RunSite
  <2>3. \A m \in Loops : Unrun(m)' = Unrun(m) /\ Phase(m)' = Phase(m)
    BY <2>1, <2>2 DEF Unrun, Phase
  <2>4. \A u \in Threads : Hand(u)' = IF u = t THEN None ELSE Hand(u)
    <3>1. pc'[t] # "inline"
      BY <1>4, <2>1 DEF Run, RunInline, TypeOK, Calling
    <3> QED
      BY <2>1, <3>1 DEF Run, Hand, TypeOK
  <2>5. ranBy' = [ranBy EXCEPT ![Hand(t)] = t]
    BY <2>1 DEF Run
  <2> QED
    BY <2>1, <2>3, <2>4, <2>5 DEF Ex!RunNow
<1>5. ASSUME NEW t \in Threads, Push(t) PROVE arg[t] \in Tasks /\ Ex!Accept(t, arg[t])
  <2>1. Target[arg[t]] \in Loops /\ arg[t] \in Tasks /\ pc[t] = "push" /\ Hand(t) = None /\ UNCHANGED ranBy
    BY <1>5 DEF Push, TypeOK, Calling, Hand, taskVars
  <2>2. Ex!Fresh(arg[t])
    BY <2>1, UndecidedIsFresh
  <2>3. t # Ex!Owner(Target[arg[t]])
    BY <1>0, <2>1 DEF CallInv
  <2>4. \A m \in Loops : Unrun(m)' = IF m = Target[arg[t]] THEN Append(Unrun(m), arg[t]) ELSE Unrun(m)
    BY <1>5, UnrunPush
  <2>5. \A m \in Loops : Phase(m)' = Phase(m)
    BY <1>5 DEF Push, Site, TypeOK, Calling, Phase
  <2>6. \A u \in Threads : Hand(u)' = Hand(u)
    BY <1>5 DEF Push, Hand, TypeOK
  <2> QED
    BY <2>1, <2>2, <2>3, <2>4, <2>5, <2>6 DEF Ex!Accept
<1>6. ASSUME NEW t \in Threads, Check(t) PROVE (arg[t] \in Tasks /\ Ex!Claim(t, arg[t])) \/ Same
  <2>1. Target[arg[t]] \in Loops /\ arg[t] \in Tasks /\ pc[t] = "check" /\ Hand(t) = None
    BY <1>6 DEF Check, TypeOK, Calling, Hand
  <2>2. \A m \in Loops : Site(m)' = Site(m)
    BY <1>6 DEF Check, Site, TypeOK, Calling
  <2>3. UNCHANGED <<absQueue, ranBy, absPhase>>
    BY <1>6, <2>2 DEF Check, loopVars, taskVars, Unrun, Phase, absQueue, absPhase
  <2>4. CASE threadId[Target[arg[t]]] = t
    <3>1. \A u \in Threads : Hand(u)' = IF u = t THEN arg[t] ELSE Hand(u)
      BY <1>6, <2>4 DEF Check, InLoopThread, Hand, TypeOK
    <3>2. absHand' = [absHand EXCEPT ![t] = arg[t]]
      BY <3>1 DEF absHand
    <3>3. t = Ex!Owner(Target[arg[t]]) /\ Ex!Fresh(arg[t])
      BY <1>0, <2>1, <2>4, UndecidedIsFresh
    <3> QED
      BY <2>1, <2>3, <3>2, <3>3 DEF Ex!Claim, absQueue, absHand, absPhase
  <2>5. CASE threadId[Target[arg[t]]] # t
    <3>1. \A u \in Threads : Hand(u)' = Hand(u)
      BY <1>6, <2>5 DEF Check, InLoopThread, Hand, TypeOK
    <3> QED
      BY <2>3, <3>1 DEF absHand
  <2> QED
    BY <2>4, <2>5
<1>7. CASE /\ \A l \in Loops : ~ EnterLoop(l) /\ ~ TestQuit(l) /\ ~ RunPending(l)
           /\ \A t \in Threads : ~ RunInline(t) /\ ~ Push(t) /\ ~ Check(t)
  <2>1. \A m \in Loops : Unrun(m)' = Unrun(m) /\ Phase(m)' = Phase(m)
    BY <1>7, UnrunOther, PhaseOther
  <2>2. \A u \in Threads : Hand(u)' = Hand(u)
    BY <1>7, HandOther
  <2>3. UNCHANGED ranBy
    BY <1>7 DEF Next, LoopStep, CallStep, Poll, PollIo, PollInterrupted, PollReturns,
         HandleWakeup, HandleTimer, HandleIo, EndHandling, LockPending, FinishPending,
         TimerExpire, Wake, StopPool, Join, StartThread, Quit, Submit, vars, taskVars
  <2> QED
    BY <2>1, <2>2, <2>3 DEF absQueue, absHand, absPhase
<1> QED
  BY <1>1, <1>2, <1>3, <1>4, <1>5, <1>6, <1>7 DEF Ex!Next

\* The loops implement the executor: a functor is handed over once and run at
\* most once, by the thread the executor says; what other threads hand over
\* is run by the loop in the order of their pushes.  For any loops, threads
\* and functors.
THEOREM Refinement == Spec => ImplementsExecutor
<1> USE ConstantsAssumption
<1>1. ASSUME Init PROVE Ex!Init /\ OwnerInv /\ OnceInv
  <2>1. \A l \in Loops : Unrun(l) = <<>> /\ Phase(l) = "idle"
    BY <1>1 DEF Init, Unrun, Phase, Site, Calling, InLoop, Threads
  <2>2. \A t \in Threads : Hand(t) = None /\ pc[t] \notin Undecided
    BY <1>1 DEF Init, Hand, Undecided
  <2>3. Ex!Init
    BY <1>1, <2>1, <2>2 DEF Init, Ex!Init
  <2>4. OwnerInv
    BY <1>1, <2>1 DEF Init, OwnerInv
  <2>5. \A x : ~ In(<<>>, x)
    BY DEF In
  <2>6. OnceInv
    BY <1>1, <2>1, <2>2, <2>5 DEF Init, OnceInv, Waits, Has, NoDoublet, Distinct
  <2> QED
    BY <2>3, <2>4, <2>6
<1>2. IInv /\ OwnerInv /\ OnceInv /\ [Next]_vars => OwnerInv' /\ OnceInv' /\ [Ex!Next]_Ex!exVars
  BY OwnerStep, OnceStep, RefinementStep DEF IInv, Ex!exVars, absQueue, absHand, absPhase
<1> QED
  BY <1>1, <1>2, Invariance, PTL DEF Spec, ImplementsExecutor, Ex!Spec
=============================================================================
