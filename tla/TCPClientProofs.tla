--------------------------- MODULE TCPClientProofs ---------------------------
(***************************************************************************)
(* Every call of connect() is in one place and is answered at most once,   *)
(* and every open descriptor has an owner, for any number of calls and     *)
(* retries.                                                                *)
(*                                                                         *)
(* The count is kept by the fact that the numbers of attempts are fresh:   *)
(* an Event that m_event.reset destroys while it is registered is none of  *)
(* those that have been destroyed before.                                  *)
(*                                                                         *)
(* The descriptors of different attempts differ (OwnerInv), so that one    *)
(* is free as long as fewer attempts have been made than there are         *)
(* numbers; how many are made follows from the calls and the timers        *)
(* (BudgetInv).                                                            *)
(***************************************************************************)
EXTENDS TCPClient, FiniteSetTheorems, CommonLemmas

\* The counters are numbers.
CountersOK ==
  /\ requests \in Nat /\ posted \in Nat /\ timers \in Nat /\ answered \in Nat
  /\ retry_times \in Nat /\ created \in Nat

\* The attempts that have an Event are attempts that have been made, each once.
EventsAreFresh ==
  /\ watched \in (1 .. created) \cup {None}
  /\ orphans \subseteq 1 .. created
  /\ watched \notin orphans

AnswerInv == CountersOK /\ EventsAreFresh /\ OneAnswerPerRequest

\* What OneAnswerPerRequest counts.
countVars == <<requests, posted, timers, retry_times, created, watched, orphans, answered>>

-----------------------------------------------------------------------------
\* There are finitely many events that attempts made so far have had.
LEMMA FreshEventsAreFew ==
  ASSUME NEW n \in Nat, NEW S \in SUBSET (1 .. n)
  PROVE  IsFiniteSet(S) /\ Cardinality(S) \in Nat
<1>1. IsFiniteSet(1 .. n)
  BY FS_Interval
<1>2. IsFiniteSet(S)
  BY <1>1, FS_Subset
<1> QED  BY <1>2, FS_CardinalityType

\* The number of orphans when check() replaces the Event of m_event.
LEMMA OrphanCount ==
  ASSUME AnswerInv
  PROVE  /\ IsFiniteSet(orphans) /\ Cardinality(orphans) \in Nat
         /\ watched # None => Cardinality(orphans \cup {watched}) = Cardinality(orphans) + 1
<1>1. IsFiniteSet(orphans) /\ Cardinality(orphans) \in Nat
  BY FreshEventsAreFew DEF AnswerInv, CountersOK, EventsAreFresh
<1>2. watched # None => Cardinality(orphans \cup {watched}) = Cardinality(orphans) + 1
  BY <1>1, FS_AddElement DEF AnswerInv, EventsAreFresh
<1> QED  BY <1>1, <1>2

\* An attempt whose call has left m_pending or the wheel: it is watched, it
\* waits for a retry, or its call is answered.
LEMMA ConnectCounts ==
  ASSUME AnswerInv, NEW left \in Nat, Connect(left)
  PROVE  /\ created' \in Nat /\ retry_times' \in Nat /\ timers' \in Nat /\ answered' \in Nat
         /\ EventsAreFresh'
         /\ timers' + Watching' + Cardinality(orphans') + answered'
              = left + Watching + Cardinality(orphans) + answered + 1
<1> DEFINE a == created + 1
           f == Min({g \in Fds : owner[g] = None})
<1>1. /\ created' = a /\ a \in 1 .. a /\ 1 .. created \subseteq 1 .. a /\ a \notin 1 .. created
      /\ a # None
  BY ClientAssumption DEF Connect, AnswerInv, CountersOK
<1>2. Cardinality(orphans) \in Nat
  BY OrphanCount
<1>3. CASE Check(a, f) /\ timers' = left /\ UNCHANGED <<retry_times, abandoned, answered>>
  <2>1. watched' = a /\ orphans' = IF watched = None THEN orphans ELSE orphans \cup {watched}
    BY <1>3 DEF Check
  <2>2. EventsAreFresh'
    BY <1>1, <2>1 DEF AnswerInv, EventsAreFresh
  <2>3. Cardinality(orphans')
          = Watching + Cardinality(orphans)
    <3>1. CASE watched = None
      BY <1>2, <2>1, <3>1 DEF Watching
    <3>2. CASE watched # None
      <4>1. orphans' = orphans \cup {watched}
        BY <2>1, <3>2
      <4>2. Cardinality(orphans') = Cardinality(orphans) + 1
        BY <3>2, <4>1, OrphanCount
      <4> QED  BY <1>2, <3>2, <4>2 DEF Watching
    <3> QED  BY <3>1, <3>2
  <2> QED  BY <1>1, <1>2, <1>3, <2>1, <2>2, <2>3 DEF AnswerInv, CountersOK, Watching
<1>4. CASE Retry(left) /\ UNCHANGED <<owner, efd, socket, orphans, watched, abandoned>>
  <2>1. EventsAreFresh'
    BY <1>1, <1>4 DEF AnswerInv, EventsAreFresh
  <2> QED  BY <1>1, <1>2, <1>4, <2>1 DEF AnswerInv, CountersOK, Retry, Watching
<1>5. CASE /\ answered' = answered + 1 /\ timers' = left
           /\ UNCHANGED <<retry_times, efd, socket, orphans, watched>>
  <2>1. EventsAreFresh'
    BY <1>1, <1>5 DEF AnswerInv, EventsAreFresh
  <2> QED  BY <1>1, <1>2, <1>5, <2>1 DEF AnswerInv, CountersOK, Watching
<1> QED  BY <1>3, <1>4, <1>5 DEF Connect

\* A step that leaves the counted places alone.
LEMMA OtherSteps ==
  ASSUME AnswerInv, UNCHANGED countVars
  PROVE  AnswerInv'
BY DEF countVars, AnswerInv, CountersOK, EventsAreFresh, OneAnswerPerRequest, Watching

\* The Event of the attempt a is reported: the attempt leaves m_event for a
\* timer or an answer.
LEMMA WatchedLeaves ==
  ASSUME AnswerInv, NEW a \in Attempts, watched = a, watched' = None,
         UNCHANGED <<requests, posted, created, orphans>>,
         retry_times' \in Nat,
         \/ timers' = timers + 1 /\ answered' = answered
         \/ timers' = timers /\ answered' = answered + 1
  PROVE  AnswerInv'
<1>1. a # None
  BY ClientAssumption DEF Attempts
<1>2. Cardinality(orphans) \in Nat
  BY OrphanCount
<1>3. CountersOK'
  BY DEF AnswerInv, CountersOK
<1>4. None \notin orphans
  <2>1. \A i \in 1 .. created : i \in Nat
    BY DEF AnswerInv, CountersOK
  <2> QED  BY <2>1, ClientAssumption DEF AnswerInv, EventsAreFresh
<1>5. EventsAreFresh'
  BY <1>4 DEF AnswerInv, EventsAreFresh
<1>6. OneAnswerPerRequest'
  BY <1>1, <1>2 DEF AnswerInv, CountersOK, OneAnswerPerRequest, Watching
<1> QED  BY <1>3, <1>5, <1>6 DEF AnswerInv

-----------------------------------------------------------------------------
\* Nothing is asked for and nothing is watched when the client is built.
LEMMA InitAnswers == Init => AnswerInv
<1> SUFFICES ASSUME Init PROVE AnswerInv
  OBVIOUS
<1>1. Cardinality(orphans) = 0
  BY FS_EmptySet DEF Init
<1> QED  BY <1>1 DEF Init, AnswerInv, CountersOK, EventsAreFresh, OneAnswerPerRequest, Watching

\* Every step keeps the count.
LEMMA StepAnswers == AnswerInv /\ [Next]_vars => AnswerInv'
<1> SUFFICES ASSUME AnswerInv, [Next]_vars PROVE AnswerInv'
  OBVIOUS
<1>1. Cardinality(orphans) \in Nat
  BY OrphanCount
<1>2. CASE StartConnect
  BY <1>1, <1>2 DEF StartConnect, AnswerInv, CountersOK, EventsAreFresh, OneAnswerPerRequest, Watching
<1>3. CASE BeginSend \/ EndSend
  BY <1>3, OtherSteps DEF BeginSend, EndSend, connectorVars, countVars
<1>4. CASE RunConnect
  <2>1. posted > 0 /\ posted' = posted - 1 /\ Connect(timers) /\ requests' = requests
    BY <1>4 DEF RunConnect, Connect
  <2>2. timers \in Nat
    BY DEF AnswerInv, CountersOK
  <2>3. /\ created' \in Nat /\ retry_times' \in Nat /\ timers' \in Nat /\ answered' \in Nat
        /\ EventsAreFresh'
        /\ timers' + Watching' + Cardinality(orphans') + answered'
             = timers + Watching + Cardinality(orphans) + answered + 1
    BY <2>1, <2>2, ConnectCounts
  <2>4. CountersOK'
    BY <2>1, <2>3 DEF AnswerInv, CountersOK
  <2>5. IsFiniteSet(orphans') /\ Cardinality(orphans') \in Nat
    BY <2>3, FreshEventsAreFew DEF EventsAreFresh
  <2>6. posted + timers + Watching + Cardinality(orphans) + answered = requests
    BY DEF AnswerInv, OneAnswerPerRequest
  <2>7. Watching \in Nat /\ Watching' \in Nat
    BY DEF Watching
  <2>8. posted' + timers' + Watching' + Cardinality(orphans') + answered' = requests'
    BY <1>1, <2>1, <2>3, <2>4, <2>5, <2>6, <2>7 DEF AnswerInv, CountersOK
  <2>9. OneAnswerPerRequest'
    BY <2>8 DEF OneAnswerPerRequest
  <2> QED  BY <2>3, <2>4, <2>9 DEF AnswerInv
<1>5. CASE RetryTimer
  <2>1. timers > 0 /\ Connect(timers - 1) /\ UNCHANGED <<posted, requests>>
    BY <1>5 DEF RetryTimer, Connect
  <2>2. timers - 1 \in Nat
    BY <2>1 DEF AnswerInv, CountersOK
  <2>3. /\ created' \in Nat /\ retry_times' \in Nat /\ timers' \in Nat /\ answered' \in Nat
        /\ EventsAreFresh'
        /\ timers' + Watching' + Cardinality(orphans') + answered'
             = (timers - 1) + Watching + Cardinality(orphans) + answered + 1
    BY <2>1, <2>2, ConnectCounts
  <2>4. CountersOK'
    BY <2>1, <2>3 DEF AnswerInv, CountersOK
  <2>5. IsFiniteSet(orphans') /\ Cardinality(orphans') \in Nat
    BY <2>3, FreshEventsAreFew DEF EventsAreFresh
  <2>6. posted + timers + Watching + Cardinality(orphans) + answered = requests
    BY DEF AnswerInv, OneAnswerPerRequest
  <2>7. Watching \in Nat /\ Watching' \in Nat
    BY DEF Watching
  <2>8. posted' + timers' + Watching' + Cardinality(orphans') + answered' = requests'
    BY <1>1, <2>1, <2>3, <2>4, <2>5, <2>6, <2>7 DEF AnswerInv, CountersOK
  <2>9. OneAnswerPerRequest'
    BY <2>8 DEF OneAnswerPerRequest
  <2> QED  BY <2>3, <2>4, <2>9 DEF AnswerInv
<1>6. ASSUME NEW a \in Attempts, Resolve(a) PROVE AnswerInv'
  BY <1>6, OtherSteps DEF Resolve, countVars
<1>7. ASSUME NEW a \in Attempts, Established(a) PROVE AnswerInv'
  <2>1. CASE sending
    BY <1>7, <2>1, OtherSteps DEF Established, BecomesUndefined, connectorVars, countVars
  <2>2. CASE ~sending
    BY <1>7, <2>2, WatchedLeaves DEF Established, AnswerInv, CountersOK
  <2> QED  BY <2>1, <2>2
<1>8. ASSUME NEW a \in Attempts, ConnectFailed(a) PROVE AnswerInv'
  <2>1. PICK self \in BOOLEAN : IF self THEN Retry(timers) ELSE Report
    BY <1>8 DEF ConnectFailed
  <2>2. /\ retry_times' \in Nat
        /\ \/ timers' = timers + 1 /\ answered' = answered
           \/ timers' = timers /\ answered' = answered + 1
    BY <2>1 DEF Retry, Report, AnswerInv, CountersOK
  <2> QED  BY <1>8, <2>2, WatchedLeaves DEF ConnectFailed
<1>9. ASSUME NEW a \in Attempts, OrphanReported(a) PROVE AnswerInv'
  BY <1>9, OtherSteps DEF OrphanReported, BecomesUndefined, connectorVars, countVars
<1>10. ASSUME NEW a \in Attempts, HandleClose(a) PROVE AnswerInv'
  BY <1>10, OtherSteps DEF HandleClose, connectorVars, countVars
<1>11. CASE UNCHANGED vars
  BY <1>11, OtherSteps DEF vars, connectorVars, countVars
<1> QED
  BY <1>2, <1>3, <1>4, <1>5, <1>6, <1>7, <1>8, <1>9, <1>10, <1>11 DEF Next, HandleWrite

-----------------------------------------------------------------------------
\* The retry timers that have been added.
Added == IF retry_times < MaxRetries THEN retry_times ELSE MaxRetries - 1

\* A request is one attempt, and so is each timer; an attempt is retried once.
BudgetInv ==
  /\ requests <= MaxRequests
  /\ created + posted + timers = requests + Added
  /\ requests <= created + posted
  /\ retry_times + Watching + Cardinality(orphans) <= created

TypeInv ==
  /\ place \in {"running", "undefined"} /\ sending \in BOOLEAN
  /\ owner \in [Fds -> Attempts \cup {None}]
  /\ socket \in [Attempts -> {"none", "connecting", "connected", "failed"}]
  /\ watched \in Attempts \cup {None}
  /\ orphans \subseteq Attempts /\ polling \subseteq Attempts /\ abandoned \subseteq Attempts
  /\ conns \in [Fds -> Attempts \cup {None}]
  /\ efd \in [Attempts -> Fds \cup {None}]

\* An attempt has at most one descriptor, and those that have one were made.
OwnerInv ==
  /\ \A f \in Fds : owner[f] # None => owner[f] \in 1 .. created
  /\ \A f, g \in Fds : owner[f] # None /\ owner[f] = owner[g] => f = g
  /\ polling \subseteq 1 .. created
  /\ polling \cap orphans = {}

IInv == AnswerInv /\ BudgetInv /\ TypeInv /\ OwnerInv /\ DescriptorsAreOwned

\* What the proofs use of the constants.
LEMMA Bounds ==
  /\ MaxRequests \in Nat \ {0} /\ MaxRetries \in Nat \ {0}
  /\ Attempts \subseteq Nat /\ Fds = Attempts /\ None \notin Attempts
  /\ \A n \in Nat : n \in Attempts <=> 1 <= n /\ n <= MaxRequests + MaxRetries - 1
BY ClientAssumption DEF Attempts, Fds

\* The counts that are bounded by others are bounded by constants.
LEMMA CountsAreBounded ==
  ASSUME AnswerInv, BudgetInv
  PROVE  /\ created <= MaxRequests + MaxRetries - 1 /\ timers <= MaxRetries - 1
         /\ posted + timers > 0 => created + 1 <= MaxRequests + MaxRetries - 1
         /\ posted <= requests /\ answered <= requests /\ retry_times <= created
<1>1. Cardinality(orphans) \in Nat /\ Watching \in Nat
  BY OrphanCount DEF Watching
<1>2. PICK c, w : c = Cardinality(orphans) /\ w = Watching
  OBVIOUS
<1>3. c \in Nat /\ w \in Nat /\ posted + timers + w + c + answered = requests /\ retry_times + w + c <= created
  BY <1>1, <1>2 DEF AnswerInv, OneAnswerPerRequest, BudgetInv
<1>4. /\ requests \in Nat /\ posted \in Nat /\ timers \in Nat /\ answered \in Nat
      /\ retry_times \in Nat /\ created \in Nat
  BY DEF AnswerInv, CountersOK
<1>5. Added \in Nat /\ Added <= MaxRetries - 1
  BY <1>4, Bounds DEF Added
<1> QED  BY <1>3, <1>4, <1>5, Bounds DEF BudgetInv

\* When an attempt is made there is a free descriptor: those in use belong to
\* different attempts, of which there have been fewer than there are numbers.
LEMMA FreeDescriptor ==
  ASSUME TypeInv, OwnerInv, created \in Nat, created + 1 <= MaxRequests + MaxRetries - 1
  PROVE  Min({g \in Fds : owner[g] = None}) \in {g \in Fds : owner[g] = None}
<1> DEFINE n == MaxRequests + MaxRetries - 1
           T == {g \in Fds : owner[g] = None}
<1>1. n \in Nat /\ created < n /\ Fds = 1 .. n
  BY Bounds DEF Fds, Attempts
<1>2. T # {}
  <2> SUFFICES ASSUME T = {} PROVE FALSE
    OBVIOUS
  <2>1. owner \in [Fds -> 1 .. created]
    BY DEF TypeInv, OwnerInv
  <2>2. IsFiniteSet(Fds) /\ Cardinality(Fds) = n
    BY <1>1, FS_Interval
  <2>3. IsFiniteSet(1 .. created) /\ Cardinality(1 .. created) = created
    BY FS_Interval
  <2>4. Cardinality(1 .. created) < Cardinality(Fds)
    BY <1>1, <2>2, <2>3
  <2>5. \E f, g \in Fds : f # g /\ owner[f] = owner[g]
    BY <2>1, <2>2, <2>3, <2>4, FS_PigeonHole
  <2> QED  BY <2>5 DEF OwnerInv
<1>3. T \subseteq Nat
  BY Bounds
<1> HIDE DEF T
<1>4. Min(T) \in T
  BY <1>2, <1>3, MinProperties
<1> QED  BY <1>4 DEF T

\* A retry adds a timer or gives up.
LEMMA RetryBudget ==
  ASSUME retry_times \in Nat, NEW left \in Nat, Retry(left)
  PROVE  /\ retry_times' = retry_times + 1 /\ retry_times' \in Nat
         /\ timers' \in Nat /\ timers' + Added = left + Added'
BY Bounds DEF Retry, Added

-----------------------------------------------------------------------------
\* The client begins with no call, no attempt and no descriptor.
LEMMA InitInv == Init => IInv
<1> SUFFICES ASSUME Init PROVE IInv
  OBVIOUS
<1>1. AnswerInv
  BY InitAnswers
<1>2. Cardinality(orphans) = 0
  BY FS_EmptySet DEF Init
<1>3. BudgetInv
  BY <1>2, Bounds DEF Init, BudgetInv, Added, Watching
<1>4. TypeInv /\ OwnerInv /\ DescriptorsAreOwned
  BY Bounds DEF Init, TypeInv, OwnerInv, DescriptorsAreOwned
<1> QED  BY <1>1, <1>3, <1>4 DEF IInv

\* An attempt: of the counts, one leaves m_pending or the wheel.
LEMMA ConnectBudget ==
  ASSUME IInv, NEW left \in Nat, Connect(left), posted' \in Nat,
         posted' + left + 1 = posted + timers, posted' + 1 >= posted
  PROVE  BudgetInv'
<1> DEFINE a == created + 1
           f == Min({g \in Fds : owner[g] = None})
<1>1. /\ requests \in Nat /\ posted \in Nat /\ timers \in Nat /\ answered \in Nat
      /\ retry_times \in Nat /\ created \in Nat
  BY DEF IInv, AnswerInv, CountersOK
<1>2. created' = created + 1 /\ requests' = requests
  BY DEF Connect
<1>3. /\ timers' \in Nat /\ retry_times' \in Nat /\ answered' \in Nat /\ EventsAreFresh'
      /\ timers' + Watching' + Cardinality(orphans') + answered'
           = left + Watching + Cardinality(orphans) + answered + 1
  BY ConnectCounts DEF IInv
<1>4. PICK c, w, cc, ww : c = Cardinality(orphans) /\ w = Watching /\ cc = Cardinality(orphans') /\ ww = Watching'
  OBVIOUS
<1>5. c \in Nat /\ w \in Nat /\ cc \in Nat /\ ww \in Nat
  <2>1. IsFiniteSet(orphans') /\ Cardinality(orphans') \in Nat
    <3>1. created' \in Nat /\ orphans' \subseteq 1 .. created'
      BY <1>1, <1>2, <1>3 DEF EventsAreFresh
    <3> QED  BY <3>1, FreshEventsAreFew
  <2> QED  BY <1>4, <2>1, OrphanCount DEF IInv, Watching
<1>6. PICK u, v : u = Added /\ v = Added'
  OBVIOUS
<1>7. u \in Nat /\ v \in Nat
  BY <1>1, <1>3, <1>6, Bounds DEF Added
<1>8. timers' + u = left + v /\ retry_times' + ww + cc <= retry_times + w + c + 1
  <2>1. CASE /\ timers' = left
             /\ UNCHANGED <<retry_times, abandoned, answered>>
    <3>1. v = u
      BY <1>6, <2>1 DEF Added
    <3>2. ww + cc = w + c + 1
      BY <1>1, <1>3, <1>4, <1>5, <2>1
    <3> QED  BY <1>1, <1>5, <1>7, <2>1, <3>1, <3>2
  <2>2. CASE Retry(left) /\ UNCHANGED <<owner, efd, socket, orphans, watched, abandoned>>
    <3>1. ww = w /\ cc = c
      BY <1>4, <2>2 DEF Watching
    <3>2. retry_times' = retry_times + 1 /\ timers' + u = left + v
      BY <1>1, <1>6, <2>2, RetryBudget
    <3> QED  BY <1>1, <1>5, <3>1, <3>2
  <2>3. CASE timers' = left /\ UNCHANGED <<retry_times, efd, socket, orphans, watched>>
    <3>1. ww = w /\ cc = c
      BY <1>4, <2>3 DEF Watching
    <3>2. v = u
      BY <1>6, <2>3 DEF Added
    <3> QED  BY <1>1, <1>5, <1>7, <2>3, <3>1, <3>2
  <2> QED  BY <2>1, <2>2, <2>3 DEF Connect
<1>9. /\ requests <= MaxRequests /\ created + posted + timers = requests + u /\ requests <= created + posted
      /\ retry_times + w + c <= created
  BY <1>4, <1>6 DEF IInv, BudgetInv
<1>10. PICK t, p, r : t = timers' /\ p = posted' /\ r = retry_times'
  OBVIOUS
<1>11. /\ t \in Nat /\ p \in Nat /\ r \in Nat /\ t + u = left + v /\ r + ww + cc <= retry_times + w + c + 1
       /\ p + left + 1 = posted + timers /\ p + 1 >= posted
  BY <1>3, <1>8, <1>10
<1>12. /\ (created + 1) + p + t = requests + v /\ requests <= (created + 1) + p /\ r + ww + cc <= created + 1
  BY <1>1, <1>5, <1>7, <1>9, <1>11
<1> QED  BY <1>2, <1>4, <1>6, <1>9, <1>10, <1>12 DEF BudgetInv

\* An attempt: check() gives it the lowest free descriptor, the error that is
\* not retried leaves it with one nobody knows.
LEMMA ConnectDescriptors ==
  ASSUME IInv, NEW left \in Nat, Connect(left), created + 1 <= MaxRequests + MaxRetries - 1
  PROVE  TypeInv' /\ OwnerInv' /\ DescriptorsAreOwned'
<1> USE Bounds
<1>1. PICK a, f : a = created + 1 /\ f = Min({g \in Fds : owner[g] = None})
  OBVIOUS
<1>2. created \in Nat /\ TypeInv /\ OwnerInv /\ DescriptorsAreOwned /\ EventsAreFresh
  BY DEF IInv, AnswerInv, CountersOK
<1>3. a \in Nat /\ a \in Attempts /\ a # None /\ a \notin 1 .. created
  BY <1>1, <1>2
<1>4. f \in Fds /\ owner[f] = None
  BY <1>1, <1>2, FreeDescriptor
<1>5. created' = a /\ 1 .. created \subseteq 1 .. a /\ a \in 1 .. a /\ UNCHANGED <<place, sending, conns, polling>>
  BY <1>1, <1>2 DEF Connect
<1>6. \A x \in polling \cup orphans \cup ({watched} \ {None}) :
        x \in Attempts /\ x # a /\ efd[x] # None /\ owner[efd[x]] = x /\ efd[x] \in Fds /\ efd[x] # f
  <2>1. \A x \in polling \cup orphans \cup ({watched} \ {None}) :
          x \in 1 .. created /\ x \in Attempts /\ efd[x] # None /\ owner[efd[x]] = x
    BY <1>2 DEF TypeInv, OwnerInv, EventsAreFresh, DescriptorsAreOwned
  <2> QED  BY <1>2, <1>3, <1>4, <2>1 DEF TypeInv
<1>7. CASE Check(a, f) /\ abandoned' = abandoned
  <2>1. PICK s \in {"connecting", "connected"} : socket' = [socket EXCEPT ![a] = s]
    BY <1>7 DEF Check
  <2>2. /\ owner' = [owner EXCEPT ![f] = a] /\ efd' = [efd EXCEPT ![a] = f] /\ watched' = a
        /\ orphans' = orphans \cup ({watched} \ {None})
    BY <1>2, <1>7 DEF Check
  <2>3. abandoned' = abandoned
    BY <1>7
  <2>4. TypeInv'
    BY <1>2, <1>3, <1>4, <1>5, <2>1, <2>2, <2>3 DEF TypeInv
  <2>5. owner'[f] = a /\ efd'[a] = f /\ (\A g \in Fds : g # f => owner'[g] = owner[g])
        /\ \A x \in Attempts : x # a => efd'[x] = efd[x]
    BY <1>2, <1>3, <1>4, <2>2 DEF TypeInv
  <2>6. OwnerInv'
    <3>1. \A g \in Fds : owner'[g] # None => owner'[g] \in 1 .. a
      BY <1>2, <1>5, <2>5 DEF OwnerInv
    <3>2. ASSUME NEW g \in Fds, NEW h \in Fds, owner'[g] # None, owner'[g] = owner'[h] PROVE g = h
      BY <1>2, <1>3, <2>5, <3>2 DEF OwnerInv
    <3>3. polling \subseteq 1 .. a /\ polling \cap orphans' = {}
      <4>1. watched \notin polling
        BY <1>2 DEF DescriptorsAreOwned
      <4>2. polling \subseteq 1 .. created /\ polling \cap orphans = {}
        BY <1>2 DEF OwnerInv
      <4> QED  BY <1>5, <2>2, <4>1, <4>2
    <3> QED  BY <1>5, <3>1, <3>2, <3>3 DEF OwnerInv
  <2>7. DescriptorsAreOwned'
    <3>1. ASSUME NEW g \in Fds, owner'[g] # None
          PROVE  owner'[g] \in polling \cup orphans' \cup abandoned \cup {watched'}
      BY <1>2, <2>2, <2>5, <3>1 DEF DescriptorsAreOwned
    <3>2. ASSUME NEW x \in polling \cup orphans' \cup ({watched'} \ {None})
          PROVE  efd'[x] # None /\ owner'[efd'[x]] = x
      BY <1>3, <1>4, <1>6, <2>2, <2>5, <3>2
    <3>3. ASSUME NEW c \in polling PROVE conns[efd'[c]] = c /\ c # watched'
      BY <1>2, <1>6, <2>2, <2>5, <3>3 DEF DescriptorsAreOwned
    <3> QED  BY <1>5, <2>3, <3>1, <3>2, <3>3 DEF DescriptorsAreOwned
  <2> QED  BY <2>4, <2>6, <2>7
<1>8. CASE UNCHANGED <<owner, efd, socket, orphans, watched, abandoned>>
  BY <1>2, <1>5, <1>8 DEF TypeInv, OwnerInv, DescriptorsAreOwned
<1>9. CASE /\ owner' = [owner EXCEPT ![f] = a] /\ abandoned' = abandoned \cup {a}
           /\ UNCHANGED <<efd, socket, orphans, watched>>
  <2>1. TypeInv'
    BY <1>2, <1>3, <1>4, <1>5, <1>9 DEF TypeInv
  <2>2. owner'[f] = a /\ \A g \in Fds : g # f => owner'[g] = owner[g]
    BY <1>2, <1>4, <1>9 DEF TypeInv
  <2>3. OwnerInv'
    BY <1>2, <1>3, <1>4, <1>5, <1>9, <2>2 DEF OwnerInv
  <2>4. DescriptorsAreOwned'
    <3>1. ASSUME NEW g \in Fds, owner'[g] # None
          PROVE  owner'[g] \in polling \cup orphans \cup abandoned' \cup {watched}
      BY <1>2, <1>9, <2>2, <3>1 DEF DescriptorsAreOwned
    <3>2. ASSUME NEW x \in polling \cup orphans \cup ({watched} \ {None})
          PROVE  efd[x] # None /\ owner'[efd[x]] = x
      BY <1>6, <2>2, <3>2
    <3>3. \A c \in polling : conns[efd[c]] = c /\ c # watched
      BY <1>2 DEF DescriptorsAreOwned
    <3> QED  BY <1>5, <1>9, <3>1, <3>2, <3>3 DEF DescriptorsAreOwned
  <2> QED  BY <2>1, <2>3, <2>4
<1>10. \/ Check(a, f) /\ abandoned' = abandoned
       \/ UNCHANGED <<owner, efd, socket, orphans, watched, abandoned>>
       \/ /\ owner' = [owner EXCEPT ![f] = a] /\ abandoned' = abandoned \cup {a}
          /\ UNCHANGED <<efd, socket, orphans, watched>>
  BY Zenon, <1>1 DEF Connect
<1> QED  BY <1>7, <1>8, <1>9, <1>10

\* The attempt that is reported, or the connection that is ended, loses its
\* descriptor.
LEMMA Closed ==
  ASSUME IInv, NEW a \in Attempts, a \in polling \cup ({watched} \ {None}),
         owner' = [owner EXCEPT ![efd[a]] = None], efd' = [efd EXCEPT ![a] = None],
         polling' = polling \ {a}, watched' = (IF watched = a THEN None ELSE watched),
         UNCHANGED <<place, sending, created, orphans, conns, abandoned, socket>>
  PROVE  TypeInv' /\ OwnerInv' /\ DescriptorsAreOwned'
<1> USE Bounds
<1>1. created \in Nat /\ TypeInv /\ OwnerInv /\ DescriptorsAreOwned /\ EventsAreFresh
  BY DEF IInv, AnswerInv, CountersOK
<1>2. PICK f : f = efd[a]
  OBVIOUS
<1>3. f \in Fds /\ owner[f] = a /\ a # None /\ a \notin orphans
  BY <1>1, <1>2 DEF TypeInv, OwnerInv, EventsAreFresh, DescriptorsAreOwned
<1>4. owner'[f] = None /\ (\A g \in Fds : g # f => owner'[g] = owner[g] /\ owner[g] # a)
      /\ \A x \in Attempts : x # a => efd'[x] = efd[x]
  BY <1>1, <1>2, <1>3 DEF TypeInv, OwnerInv
<1>5. TypeInv'
  BY <1>1, <1>2, <1>3 DEF TypeInv
<1>6. OwnerInv'
  BY <1>1, <1>4 DEF OwnerInv
<1>7. ASSUME NEW g \in Fds, owner'[g] # None
      PROVE  owner'[g] \in polling' \cup orphans \cup abandoned \cup {watched'}
  BY <1>1, <1>4, <1>7 DEF DescriptorsAreOwned
<1>8. ASSUME NEW x \in polling' \cup orphans \cup ({watched'} \ {None})
      PROVE  efd'[x] # None /\ owner'[efd'[x]] = x
  <2>1. x \in Attempts /\ x # a /\ efd[x] # None /\ owner[efd[x]] = x
    BY <1>1, <1>3, <1>8 DEF TypeInv, DescriptorsAreOwned
  <2>2. efd[x] \in Fds /\ efd[x] # f
    BY <1>1, <1>3, <2>1 DEF TypeInv
  <2> QED  BY <1>4, <2>1, <2>2
<1>9. ASSUME NEW c \in polling' PROVE conns[efd'[c]] = c /\ c # watched'
  BY <1>1, <1>4, <1>9 DEF DescriptorsAreOwned, TypeInv
<1> QED  BY <1>5, <1>6, <1>7, <1>8, <1>9 DEF DescriptorsAreOwned

-----------------------------------------------------------------------------
\* Every step keeps the invariant.  Its first part is that of AnsweredOnce.
LEMMA Inductive == IInv /\ [Next]_vars => IInv'
<1> DEFINE Rest == BudgetInv /\ TypeInv /\ OwnerInv /\ DescriptorsAreOwned
<1>1. IInv /\ [Next]_vars => AnswerInv'
  BY StepAnswers DEF IInv
<1> SUFFICES ASSUME IInv, [Next]_vars PROVE Rest'
  BY <1>1 DEF IInv
<1> USE Bounds
<1>2. /\ requests \in Nat /\ posted \in Nat /\ timers \in Nat /\ answered \in Nat
      /\ retry_times \in Nat /\ created \in Nat
  BY DEF IInv, AnswerInv, CountersOK
<1>3. Cardinality(orphans) \in Nat /\ Watching \in Nat
  BY OrphanCount DEF IInv, Watching
<1>4. CASE StartConnect
  <2>1. BudgetInv'
    BY <1>2, <1>4 DEF StartConnect, IInv, BudgetInv, Added, Watching
  <2> QED
    BY <1>4, <2>1 DEF StartConnect, clientVars, IInv, TypeInv, OwnerInv, DescriptorsAreOwned
<1>5. CASE BeginSend \/ EndSend
  <2>1. sending' \in BOOLEAN /\ UNCHANGED <<place, requests, connectorVars, owner, clientVars, abandoned>>
    BY <1>5 DEF BeginSend, EndSend
  <2>2. BudgetInv'
    BY <2>1 DEF connectorVars, IInv, BudgetInv, Added, Watching
  <2>3. TypeInv'
    BY <2>1 DEF connectorVars, clientVars, IInv, TypeInv
  <2> QED
    BY <2>1, <2>2, <2>3 DEF connectorVars, clientVars, IInv, OwnerInv, DescriptorsAreOwned
<1>6. CASE RunConnect
  <2>1. posted > 0 /\ posted' = posted - 1 /\ Connect(timers)
    BY <1>6 DEF RunConnect
  <2>2. posted' \in Nat /\ posted' + timers + 1 = posted + timers /\ posted' + 1 >= posted
    BY <1>2, <2>1
  <2>3. created + 1 <= MaxRequests + MaxRetries - 1
    BY <1>2, <2>1, CountsAreBounded DEF IInv
  <2> QED  BY <1>2, <2>1, <2>2, <2>3, ConnectBudget, ConnectDescriptors
<1>7. CASE RetryTimer
  <2>1. timers > 0 /\ posted' = posted /\ Connect(timers - 1)
    BY <1>7 DEF RetryTimer
  <2>2. timers - 1 \in Nat /\ posted' \in Nat /\ posted' + (timers - 1) + 1 = posted + timers /\ posted' + 1 >= posted
    BY <1>2, <2>1
  <2>3. created + 1 <= MaxRequests + MaxRetries - 1
    BY <1>2, <2>1, CountsAreBounded DEF IInv
  <2> QED  BY <2>1, <2>2, <2>3, ConnectBudget, ConnectDescriptors
<1>8. ASSUME NEW a \in Attempts, Resolve(a) PROVE Rest'
  <2>1. PICK s \in {"connected", "failed"} : socket' = [socket EXCEPT ![a] = s]
    BY <1>8 DEF Resolve
  <2>2. TypeInv'
    BY <1>8, <2>1 DEF Resolve, clientVars, IInv, TypeInv
  <2> QED
    BY <1>8, <2>2 DEF Resolve, clientVars, IInv, BudgetInv, Added, Watching, OwnerInv, DescriptorsAreOwned
<1>9. CASE \E a \in Attempts : OrphanReported(a) \/ (Established(a) /\ sending)
  <2>1. BecomesUndefined
    BY <1>9 DEF OrphanReported, Established
  <2> QED
    BY <2>1 DEF BecomesUndefined, connectorVars, clientVars, IInv, BudgetInv, Added, Watching,
                TypeInv, OwnerInv, DescriptorsAreOwned
<1>10. ASSUME NEW a \in Attempts, Established(a), ~sending PROVE Rest'
  <2>1. /\ watched = a /\ watched' = None
        /\ conns' = [conns EXCEPT ![efd[a]] = a] /\ polling' = polling \cup {a}
        /\ UNCHANGED <<place, sending, requests, posted, timers, retry_times, created, socket, orphans,
                       owner, efd, abandoned>>
    BY <1>10 DEF Established
  <2>2. BudgetInv'
    BY <1>2, <1>3, <2>1 DEF IInv, BudgetInv, Added, Watching
  <2>3. a # None /\ efd[a] \in Fds /\ owner[efd[a]] = a /\ a \in 1 .. created /\ a \notin orphans
    BY <2>1 DEF IInv, TypeInv, DescriptorsAreOwned, AnswerInv, EventsAreFresh
  <2>4. TypeInv' /\ OwnerInv'
    BY <2>1, <2>3 DEF IInv, TypeInv, OwnerInv
  <2>5. ASSUME NEW c \in polling' PROVE conns'[efd[c]] = c /\ c # None
    BY <2>1, <2>3, <2>5 DEF IInv, TypeInv, DescriptorsAreOwned
  <2>6. DescriptorsAreOwned'
    BY <2>1, <2>3, <2>5 DEF IInv, DescriptorsAreOwned
  <2> QED  BY <2>2, <2>4, <2>6
<1>11. ASSUME NEW a \in Attempts, ConnectFailed(a) PROVE Rest'
  <2>1. /\ watched = a /\ watched' = None
        /\ owner' = [owner EXCEPT ![efd[a]] = None] /\ efd' = [efd EXCEPT ![a] = None]
        /\ UNCHANGED <<place, sending, requests, posted, created, socket, orphans, conns, polling, abandoned>>
    BY <1>11 DEF ConnectFailed
  <2>2. PICK self \in BOOLEAN : IF self THEN Retry(timers) ELSE Report
    BY <1>11 DEF ConnectFailed
  <2>3. a \notin polling /\ a # None
    BY <2>1 DEF IInv, DescriptorsAreOwned
  <2>4. TypeInv' /\ OwnerInv' /\ DescriptorsAreOwned'
    BY <2>1, <2>3, Closed
  <2>5. /\ retry_times' \in Nat /\ timers' \in Nat /\ timers' + Added = timers + Added'
        /\ retry_times' <= retry_times + 1
    <3>1. CASE self
      BY <1>2, <2>2, <3>1, RetryBudget
    <3>2. CASE ~self
      BY <1>2, <2>2, <3>2 DEF Report, Added
    <3> QED  BY <3>1, <3>2
  <2>6. BudgetInv'
    <3>1. PICK u, v, t, r, c : u = Added /\ v = Added' /\ t = timers' /\ r = retry_times' /\ c = Cardinality(orphans)
      OBVIOUS
    <3>2. /\ u \in Nat /\ v \in Nat /\ t \in Nat /\ r \in Nat /\ c \in Nat
          /\ t + u = timers + v /\ r <= retry_times + 1
      <4>1. Added \in Nat /\ Added' \in Nat
        BY <1>2, <2>5 DEF Added
      <4> QED  BY <1>3, <2>5, <3>1, <4>1
    <3>3. /\ requests <= MaxRequests /\ created + posted + timers = requests + u
          /\ requests <= created + posted /\ retry_times + 1 + c <= created
      BY <2>1, <2>3, <3>1 DEF IInv, BudgetInv, Watching
    <3>4. created + posted + t = requests + v /\ r + 0 + c <= created
      BY <1>2, <3>2, <3>3
    <3> QED  BY <2>1, <3>1, <3>3, <3>4 DEF BudgetInv, Watching
  <2> QED  BY <2>4, <2>6
<1>12. ASSUME NEW a \in Attempts, HandleClose(a) PROVE Rest'
  <2>1. /\ a \in polling /\ polling' = polling \ {a}
        /\ owner' = [owner EXCEPT ![efd[a]] = None] /\ efd' = [efd EXCEPT ![a] = None]
        /\ UNCHANGED <<place, sending, requests, connectorVars, conns, abandoned, answered>>
    BY <1>12 DEF HandleClose
  <2>2. BudgetInv'
    BY <2>1 DEF connectorVars, IInv, BudgetInv, Added, Watching
  <2>3. watched # a
    BY <2>1 DEF IInv, DescriptorsAreOwned
  <2>4. TypeInv' /\ OwnerInv' /\ DescriptorsAreOwned'
    BY <2>1, <2>3, Closed DEF connectorVars
  <2> QED  BY <2>2, <2>4
<1>13. CASE UNCHANGED vars
  BY <1>13 DEF vars, connectorVars, clientVars, IInv, BudgetInv, Added, Watching,
               TypeInv, OwnerInv, DescriptorsAreOwned
<1> QED
  BY <1>4, <1>5, <1>6, <1>7, <1>8, <1>9, <1>10, <1>11, <1>12, <1>13 DEF Next, HandleWrite, IInv

\* IInv holds in every reachable state.
LEMMA Invariance == Spec => []IInv
  BY InitInv, Inductive, PTL DEF Spec

\* The state is well formed; the attempts are at most one for each call and
\* one for each retry, of which the process has MaxRetries - 1 (Connector::retry).
THEOREM TypeCorrect == Spec => []TypeOK
<1>1. IInv => TypeOK
  <2> SUFFICES ASSUME IInv PROVE TypeOK
    OBVIOUS
  <2>1. /\ requests \in Nat /\ posted \in Nat /\ timers \in Nat /\ answered \in Nat
        /\ retry_times \in Nat /\ created \in Nat
    BY DEF IInv, AnswerInv, CountersOK
  <2>2. /\ created <= MaxRequests + MaxRetries - 1 /\ timers <= MaxRetries - 1
        /\ posted <= requests /\ answered <= requests /\ retry_times <= created /\ requests <= MaxRequests
    BY CountsAreBounded DEF IInv, BudgetInv
  <2> QED  BY <2>1, <2>2, Bounds DEF IInv, TypeInv, TypeOK
<1> QED  BY <1>1, Invariance, PTL

\* Descriptors are not lost except in the two ways the code has, and what the
\* poller points to has the descriptor and the entry of m_conns it was given
\* (Connector::check and handleWrite, TCPClient::connected, handleClose).
THEOREM DescriptorsStayOwned == Spec => []DescriptorsAreOwned
<1>1. IInv => DescriptorsAreOwned
  BY DEF IInv
<1> QED  BY <1>1, Invariance, PTL

\* Each call of connect() is in one place: no order of retries, failures and
\* further calls answers it twice or loses it (Connector.cpp, retry, check and
\* handleWrite).
THEOREM AnsweredOnce == Spec => []OneAnswerPerRequest
<1>1. AnswerInv => OneAnswerPerRequest
  BY DEF AnswerInv
<1> QED  BY <1>1, InitAnswers, StepAnswers, PTL DEF Spec
=============================================================================
