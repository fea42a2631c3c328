----------------------------- MODULE TimingWheel -----------------------------
(***************************************************************************)
(* TimingWheel and SysTimer (src/src/reactor): a wheel of RoundSize slots  *)
(* of timer entries, advanced by one slot whenever the loop finds the      *)
(* interval timer's descriptor readable.  tick() walks the list of the     *)
(* current slot; a callback it runs may add timers, to that very list too, *)
(* and disable timers.                                                     *)
(*                                                                         *)
(* A timer stands for a TimerEntry object, which its maker adds once       *)
(* (Connector::retry, EchoServer's constructor); once it has left the      *)
(* wheel it stands for a new object.  A callback that adds an entry like   *)
(* its own, as Connector::connect does through retry, is two timers that   *)
(* add each other.                                                         *)
(***************************************************************************)
EXTENDS Naturals, Sequences

CONSTANTS
  Timers,
  TimeoutMs,   \* m_timeoutms of each timer
  Repeat,      \* the timers with m_repeat
  RoundSize,   \* ROUND_SIZE
  Interval,    \* m_interval, in ms
  MaxElapsed,  \* bound: expirations are counted up to this per timer
  None

ASSUME WheelAssumption ==
  /\ TimeoutMs \in [Timers -> Nat]
  /\ Repeat \subseteq Timers
  /\ RoundSize \in Nat \ {0} /\ Interval \in Nat \ {0} /\ MaxElapsed \in Nat
  /\ None \notin Timers

VARIABLES
  cur,       \* m_cur
  slots,     \* m_slots
  round,     \* m_round of each timer
  disabled,  \* the timers with m_disabled
  expired,   \* the timerfd has expired since it was read
  it,        \* tick's position in the current slot, 0 outside tick
  calling,   \* the timer whose callback runs, or None
  ticks,     \* history: the ticks begun since each timer on the wheel was added
  elapsed,   \* history: the expirations since then, up to MaxElapsed
  wrapped    \* history: the timers on it whose add went past the wheel's end

wheelVars == <<cur, slots, round>>
vars == <<wheelVars, disabled, expired, it, calling, ticks, elapsed, wrapped>>

Slots == 0 .. RoundSize - 1
Least(a, b) == IF a < b THEN a ELSE b
Steps(e) == TimeoutMs[e] \div Interval
InSlot(e, s) == \E i \in DOMAIN slots[s] : slots[s][i] = e
OnWheel(e) == \E s \in Slots : InSlot(e, s)
InTick == it # 0

Init ==
  /\ cur = 0
  /\ slots = [s \in Slots |-> <<>>]
  /\ round = [e \in Timers |-> 0]
  /\ disabled = {}
  /\ expired = FALSE
  /\ it = 0
  /\ calling = None
  /\ ticks = [e \in Timers |-> 0]
  /\ elapsed = [e \in Timers |-> 0]
  /\ wrapped = {}

\* Fault: the slot is taken relative to the wheel's start.
addEntry_FromStart(e, wheel) ==
  /\ round' = [round EXCEPT ![e] = (cur + Steps(e)) \div RoundSize]
  /\ slots' = [wheel EXCEPT ![Steps(e) % RoundSize] = Append(@, e)]
  /\ ticks' = [ticks EXCEPT ![e] = 0]
  /\ elapsed' = [elapsed EXCEPT ![e] = 0]
  /\ wrapped' = wrapped

\* Fault: the rounds to wait are forgotten.
addEntry_NoRound(e, wheel) ==
  /\ round' = [round EXCEPT ![e] = 0]
  /\ slots' = [wheel EXCEPT ![(cur + Steps(e)) % RoundSize] = Append(@, e)]
  /\ ticks' = [ticks EXCEPT ![e] = 0]
  /\ elapsed' = [elapsed EXCEPT ![e] = 0]
  /\ wrapped' = wrapped

\* The rounds to wait are counted from the wheel's start, although the slot
\* of a timer that goes past the end is first reached within Steps(e) ticks.
addEntry(e, wheel) ==
  /\ round' = [round EXCEPT ![e] = (cur + Steps(e)) \div RoundSize]
  /\ slots' = [wheel EXCEPT ![(cur + Steps(e)) % RoundSize] = Append(@, e)]
  /\ ticks' = [ticks EXCEPT ![e] = 0]
  /\ elapsed' = [elapsed EXCEPT ![e] = 0]
  /\ wrapped' = IF cur + (Steps(e) % RoundSize) >= RoundSize THEN wrapped \cup {e} ELSE wrapped \ {e}

\* EventLoop::addTimer in the loop's thread: between two ticks, or in a
\* callback.  The entry is a new object: it is on no wheel, and not disabled.
Add(e) ==
  /\ InTick => calling # None
  /\ ~OnWheel(e)
  /\ addEntry(e, slots)
  /\ UNCHANGED <<cur, disabled, expired, it, calling>>

\* TimerEntry::disable; of no effect on an entry that has left the wheel.
Disable(e) ==
  /\ InTick => calling # None
  /\ OnWheel(e)
  /\ disabled' = disabled \cup {e}
  /\ UNCHANGED <<wheelVars, expired, it, calling, ticks, elapsed, wrapped>>

-----------------------------------------------------------------------------
\* The timerfd and tick().

\* An interval has passed.  It may pass while the loop is busy elsewhere, or
\* in tick() itself, more than once.
Expire ==
  /\ expired' = TRUE
  /\ elapsed' = [e \in Timers |-> IF OnWheel(e) /\ elapsed[e] < MaxElapsed THEN elapsed[e] + 1 ELSE elapsed[e]]
  /\ UNCHANGED <<wheelVars, disabled, it, calling, ticks, wrapped>>

\* SysTimer::handleRead: the number of expirations it reads is not used.
handleRead ==
  /\ expired
  /\ ~InTick
  /\ expired' = FALSE
  /\ it' = 1
  /\ ticks' = [e \in Timers |-> IF OnWheel(e) THEN ticks[e] + 1 ELSE ticks[e]]
  /\ UNCHANGED <<wheelVars, disabled, calling, elapsed, wrapped>>

\* One entry of the list in tick's loop.
AtEntry(e) ==
  /\ InTick
  /\ calling = None
  /\ it <= Len(slots[cur])
  /\ slots[cur][it] = e

Erased(wheel, i) ==
  [wheel EXCEPT ![cur] = SubSeq(@, 1, i - 1) \o SubSeq(@, i + 1, Len(@))]

\* e has left the wheel; from now on it is the next entry of its kind.
Gone(e) ==
  /\ round' = [round EXCEPT ![e] = 0]
  /\ ticks' = [ticks EXCEPT ![e] = 0]
  /\ elapsed' = [elapsed EXCEPT ![e] = 0]
  /\ wrapped' = wrapped \ {e}
  /\ disabled' = disabled \ {e}

\* Fault: a disabled entry is passed over without being erased, by a continue
\* that leaves the iterator where it is.
DropDisabled_Kept(e) == AtEntry(e) /\ e \in disabled /\ UNCHANGED vars

DropDisabled(e) ==
  /\ AtEntry(e)
  /\ e \in disabled
  /\ slots' = Erased(slots, it)
  /\ Gone(e)
  /\ UNCHANGED <<cur, expired, it, calling>>

NextRound(e) ==
  /\ AtEntry(e)
  /\ e \notin disabled
  /\ round[e] > 0
  /\ round' = [round EXCEPT ![e] = @ - 1]
  /\ it' = it + 1
  /\ UNCHANGED <<cur, slots, disabled, expired, calling, ticks, elapsed, wrapped>>

CallBack(e) ==
  /\ AtEntry(e)
  /\ e \notin disabled
  /\ round[e] = 0
  /\ calling' = e
  /\ UNCHANGED <<wheelVars, disabled, expired, it, ticks, elapsed, wrapped>>

\* Fault: the entry that was called is not erased.
CalledBack_Kept(e) ==
  /\ calling = e
  /\ calling' = None
  /\ IF e \in Repeat
     THEN addEntry(e, slots) /\ UNCHANGED disabled
     ELSE UNCHANGED <<slots, round, disabled, ticks, elapsed, wrapped>>
  /\ it' = it + 1
  /\ UNCHANGED <<cur, expired>>

\* Fault: a repeated timer is not added again.
CalledBack_Once(e) ==
  /\ calling = e
  /\ calling' = None
  /\ slots' = Erased(slots, it)
  /\ Gone(e)
  /\ UNCHANGED <<cur, expired, it>>

\* The new place of a repeated timer is behind the old one, if it is in the
\* same list.
CalledBack(e) ==
  /\ calling = e
  /\ calling' = None
  /\ IF e \in Repeat
     THEN addEntry(e, Erased(slots, it)) /\ UNCHANGED disabled
     ELSE slots' = Erased(slots, it) /\ Gone(e)
  /\ UNCHANGED <<cur, expired, it>>

\* Fault: the wheel is not closed.
EndTick_NoModulo ==
  /\ InTick
  /\ calling = None
  /\ it > Len(slots[cur])
  /\ cur' = cur + 1
  /\ it' = 0
  /\ UNCHANGED <<slots, round, disabled, expired, calling, ticks, elapsed, wrapped>>

EndTick ==
  /\ InTick
  /\ calling = None
  /\ it > Len(slots[cur])
  /\ cur' = (cur + 1) % RoundSize
  /\ it' = 0
  /\ UNCHANGED <<slots, round, disabled, expired, calling, ticks, elapsed, wrapped>>

TickStep ==
  \/ EndTick
  \/ \E e \in Timers : DropDisabled(e) \/ NextRound(e) \/ CallBack(e) \/ CalledBack(e)

Next ==
  \/ Expire \/ handleRead \/ TickStep
  \/ \E e \in Timers : Add(e) \/ Disable(e)

Spec == Init /\ [][Next]_vars

\* The timerfd expires, the loop reads it and goes on with a tick it is in.
FairSpec == Spec /\ WF_vars(Expire) /\ WF_vars(handleRead) /\ WF_vars(TickStep)

-----------------------------------------------------------------------------
\* The state is well formed.
TypeOK ==
  /\ cur \in Slots
  /\ slots \in [Slots -> Seq(Timers)]
  /\ round \in [Timers -> Nat]
  /\ disabled \subseteq Timers /\ wrapped \subseteq Timers
  /\ expired \in BOOLEAN
  /\ it \in Nat
  /\ calling \in Timers \cup {None}
  /\ calling # None => it \in DOMAIN slots[cur] /\ slots[cur][it] = calling
  /\ ticks \in [Timers -> Nat] /\ elapsed \in [Timers -> 0 .. MaxElapsed]

\* An entry is in one place only: no callback can run twice for one add, and
\* tick's changes of the list it walks neither double nor skip an entry.
OnePlace ==
  \A e \in Timers : \A s1, s2 \in Slots :
    \A i \in DOMAIN slots[s1], j \in DOMAIN slots[s2] :
      slots[s1][i] = e /\ slots[s2][j] = e => s1 = s2 /\ i = j

\* A timer is called less than one interval early: the expiration it counts
\* first may lie before its add (the loop had not read it yet), no other one.
BarelyEarly ==
  [][\A e \in Timers :
       calling # e /\ calling' = e => elapsed[e] + 1 >= Least(Steps(e), MaxElapsed)]_vars

\* A timer is called in the tick after its timeout, or one revolution later
\* if adding it went past the end of the wheel, never after that.
AtMostOneRevolutionLate ==
  \A e \in Timers :
    OnWheel(e) /\ e \notin disabled
      => ticks[e] <= Steps(e) + 1 + (IF e \in wrapped THEN RoundSize ELSE 0)

\* A repeating timer below one interval goes back into the slot it is in.
Spinning == \E e \in Repeat \ disabled : Steps(e) = 0 /\ InSlot(e, cur)

\* tick() ends although its callbacks add timers to the list it walks: unless
\* they add timers for ever, or a repeating timer below one interval is in the
\* list; and with such a timer there it does not end.
TickEnds ==
  /\ []<>(~InTick \/ Spinning) \/ []<><<\E e \in Timers : Add(e)>>_vars
  /\ [][InTick /\ Spinning => InTick']_vars

\* As long as ticks end, a timer that repeats goes on being called until it is
\* disabled, in spite of late ticks and of all other timers.
KeepsRepeating ==
  []<>(~InTick) =>
    \A e \in Repeat :
      /\ OnWheel(e) /\ calling # e ~> calling = e \/ e \in disabled
      /\ calling = e ~> (OnWheel(e) /\ calling # e) \/ e \in disabled

\* "update idle connections in worker thread every 1000ms" (EchoServer.h:34):
\* a repeating timer is called once per timeout.
CalledEveryTimeout ==
  \A e \in Repeat : OnWheel(e) /\ e \notin disabled => ticks[e] <= Steps(e) + 1
=============================================================================
