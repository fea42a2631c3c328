------------------------------ MODULE TCPClient ------------------------------
(***************************************************************************)
(* TCPClient and its Connector (src/src/net): the application's thread     *)
(* calls connect() and send(); the client's loop thread runs               *)
(* Connector::connect, waits for the descriptor to become writable,        *)
(* retries with a timer, and turns an established socket into a            *)
(* connection in m_conns.                                                  *)
(*                                                                         *)
(* An attempt is one call of Connector::connect; the connection it leads   *)
(* to has its number.  The loop thread's handlers do not wait for anything *)
(* and share only m_conns with the application, so that each is a step.    *)
(* The thread of the loop has started (EventLoop.tla has its start).       *)
(*                                                                         *)
(* An event that is reported after its Event was destroyed and two         *)
(* overlapping uses of m_conns have no defined outcome: the model ends.    *)
(***************************************************************************)
EXTENDS Naturals, FiniteSets, FiniteSetsExt

CONSTANTS
  MaxRequests, \* bound: calls of connect()
  MaxRetries,  \* retry gives up at this count of failures
  None

ASSUME ClientAssumption ==
  MaxRequests \in Nat \ {0} /\ MaxRetries \in Nat \ {0} /\ None \notin Nat

\* A request is one attempt and one more for each retry, and the retries of
\* the whole process are counted together.
Attempts == 1 .. MaxRequests + MaxRetries - 1
\* Every attempt may keep its descriptor.
Fds == Attempts

VARIABLES
  place,      \* "running", or "undefined" when the model has ended
  sending,    \* the application is inside send()'s loop over m_conns
  requests,   \* calls of connect() so far
  posted,     \* the functors of startConnect in m_pending
  timers,     \* the retry timers in the wheel
  retry_times,
  created,    \* attempts so far
  owner,      \* the kernel's table: the attempt each descriptor belongs to
  socket,     \* attempts: "none", "connecting", "connected" or "failed"
  watched,    \* the attempt whose Event, m_event, is registered, or None
  orphans,    \* attempts whose Event was destroyed while it was registered
  conns,      \* m_conns
  efd,        \* m_event.m_fd of each connection, None for -1
  polling,    \* the connections registered with the poller
  abandoned,  \* history: attempts whose descriptor was neither used nor closed
  answered    \* history: calls of the success and the failed callback

connectorVars == <<posted, timers, retry_times, created, socket, watched, orphans>>
clientVars == <<conns, efd, polling>>
vars == <<place, sending, requests, connectorVars, owner, clientVars, abandoned, answered>>

Init ==
  /\ place = "running" /\ sending = FALSE /\ requests = 0
  /\ posted = 0 /\ timers = 0 /\ retry_times = 0 /\ created = 0
  /\ owner = [f \in Fds |-> None]
  /\ socket = [a \in Attempts |-> "none"]
  /\ watched = None /\ orphans = {}
  /\ conns = [f \in Fds |-> None] /\ efd = [a \in Attempts |-> None] /\ polling = {}
  /\ abandoned = {} /\ answered = 0

undefined == place = "undefined"
BecomesUndefined == place' = "undefined" /\ UNCHANGED <<requests, connectorVars, owner, clientVars,
                                                       abandoned, answered, sending>>

\* The poller reports the descriptor of an attempt that the kernel has ended;
\* getSocketError then tells whether it has failed.
Writable(a) == socket[a] # "connecting"
SocketError(a) == socket[a] = "failed"

-----------------------------------------------------------------------------
\* The application's thread.

\* connect(): Connector::startConnect posts Connector::connect.
StartConnect ==
  /\ ~undefined
  /\ requests < MaxRequests
  /\ requests' = requests + 1
  /\ posted' = posted + 1
  /\ UNCHANGED <<place, sending, timers, retry_times, created, socket, watched, orphans, owner,
                 clientVars, abandoned, answered>>

\* send() walks m_conns.
BeginSend ==
  /\ ~undefined
  /\ ~sending
  /\ sending' = TRUE
  /\ UNCHANGED <<place, requests, connectorVars, owner, clientVars, abandoned, answered>>

EndSend ==
  /\ ~undefined
  /\ sending
  /\ sending' = FALSE
  /\ UNCHANGED <<place, requests, connectorVars, owner, clientVars, abandoned, answered>>

-----------------------------------------------------------------------------
\* Connector, in the loop's thread.

\* Fault: the failed callback is called although a timer was added.
Retry_CallsBack(left) ==
  /\ retry_times' = retry_times + 1
  /\ timers' = IF retry_times' < MaxRetries THEN left + 1 ELSE left
  /\ answered' = answered + 1

\* Fault: nobody is told when the retries are used up.
Retry_Silent(left) ==
  /\ retry_times' = retry_times + 1
  /\ timers' = IF retry_times' < MaxRetries THEN left + 1 ELSE left
  /\ UNCHANGED answered

\* retry() without its close: `left' timers are in the wheel besides the new one.
Retry(left) ==
  /\ retry_times' = retry_times + 1
  /\ IF retry_times' < MaxRetries
     THEN timers' = left + 1 /\ UNCHANGED answered
     ELSE timers' = left /\ answered' = answered + 1

\* The failed callback.
Report == answered' = answered + 1 /\ UNCHANGED <<timers, retry_times>>

\* check(): the Event of an attempt still under way is destroyed by
\* m_event.reset, but stays registered.
Check(a, f) ==
  /\ owner' = [owner EXCEPT ![f] = a]
  /\ efd' = [efd EXCEPT ![a] = f]
  /\ \E s \in {"connecting", "connected"} : socket' = [socket EXCEPT ![a] = s]
  /\ orphans' = IF watched = None THEN orphans ELSE orphans \cup {watched}
  /\ watched' = a

\* connect(): ::connect has succeeded or is in progress (check), has failed in
\* a way that is retried, or in one that is reported at once; the descriptor
\* is not closed then.  `left' timers remain in the wheel.
Connect(left) ==
  LET a == created + 1
      f == Min({g \in Fds : owner[g] = None})
  IN  /\ created' = a
      /\ \/ /\ Check(a, f)
            /\ timers' = left
            /\ UNCHANGED <<retry_times, abandoned, answered>>
         \/ /\ Retry(left)
            /\ UNCHANGED <<owner, efd, socket, orphans, watched, abandoned>>
         \/ /\ owner' = [owner EXCEPT ![f] = a]
            /\ abandoned' = abandoned \cup {a}
            /\ answered' = answered + 1
            /\ timers' = left
            /\ UNCHANGED <<retry_times, efd, socket, orphans, watched>>
      /\ UNCHANGED <<place, sending, requests, conns, polling>>

RunConnect ==
  /\ ~undefined
  /\ posted > 0
  /\ posted' = posted - 1
  /\ Connect(timers)

\* A retry timer: 5 ms are less than an interval of the wheel, so that the
\* next tick, or the one that is running, calls it.
RetryTimer ==
  /\ ~undefined
  /\ timers > 0
  /\ Connect(timers - 1)
  /\ UNCHANGED posted

\* The kernel ends the attempt of a non-blocking ::connect.
Resolve(a) ==
  /\ ~undefined
  /\ socket[a] = "connecting"
  /\ \E s \in {"connected", "failed"} : socket' = [socket EXCEPT ![a] = s]
  /\ UNCHANGED <<place, sending, requests, posted, timers, retry_times, created, watched, orphans,
                 owner, clientVars, abandoned, answered>>

\* handleWrite for an established socket, with the success callback
\* TCPClient::connected: a connection that has been closed under the same
\* number is replaced.
Established(a) ==
  /\ ~undefined
  /\ watched = a
  /\ Writable(a) /\ ~SocketError(a)
  /\ IF sending
     THEN BecomesUndefined
     ELSE /\ watched' = None
          /\ conns' = [conns EXCEPT ![efd[a]] = a]
          /\ polling' = polling \cup {a}
          /\ answered' = answered + 1
          /\ UNCHANGED <<place, sending, requests, posted, timers, retry_times, created, socket,
                         orphans, owner, efd, abandoned>>

\* Fault: the descriptor of a failed attempt is left open.
ConnectFailed_NoClose(a) ==
  /\ ~undefined
  /\ watched = a
  /\ Writable(a) /\ SocketError(a)
  /\ watched' = None
  /\ \E self \in BOOLEAN : IF self THEN Retry(timers) ELSE Report
  /\ UNCHANGED <<place, sending, requests, posted, created, socket, orphans, owner, efd, conns,
                 polling, abandoned>>

\* handleWrite for a failed attempt: retried if isSelfConnect says so of the
\* addresses the kernel gives for the failed socket, reported if not.
ConnectFailed(a) ==
  /\ ~undefined
  /\ watched = a
  /\ Writable(a) /\ SocketError(a)
  /\ watched' = None
  /\ owner' = [owner EXCEPT ![efd[a]] = None]
  /\ efd' = [efd EXCEPT ![a] = None]
  /\ \E self \in BOOLEAN : IF self THEN Retry(timers) ELSE Report
  /\ UNCHANGED <<place, sending, requests, posted, created, socket, orphans, conns, polling,
                 abandoned>>

\* The poller reports an Event that is gone.
OrphanReported(a) ==
  /\ ~undefined
  /\ a \in orphans
  /\ Writable(a)
  /\ BecomesUndefined

-----------------------------------------------------------------------------
\* The peer ends a connection.  closeCallback erases the entry of descriptor
\* -1, of which there is none: the connection stays in m_conns.
HandleClose(c) ==
  /\ ~undefined
  /\ c \in polling
  /\ polling' = polling \ {c}
  /\ owner' = [owner EXCEPT ![efd[c]] = None]
  /\ efd' = [efd EXCEPT ![c] = None]
  /\ UNCHANGED <<place, sending, requests, connectorVars, conns, abandoned, answered>>

-----------------------------------------------------------------------------
HandleWrite(a) == Established(a) \/ ConnectFailed(a) \/ OrphanReported(a)

Next ==
  \/ StartConnect \/ BeginSend \/ EndSend
  \/ RunConnect \/ RetryTimer
  \/ \E a \in Attempts : Resolve(a) \/ HandleWrite(a) \/ HandleClose(a)

Spec == Init /\ [][Next]_vars

\* Functors and timers are run (EventLoop.tla, TimingWheel.tla), the kernel
\* ends every attempt, and what is ready is reported.  A peer need not close a
\* connection, nor the application end a send.
FairSpec ==
  /\ Spec
  /\ WF_vars(RunConnect) /\ WF_vars(RetryTimer)
  /\ \A a \in Attempts : WF_vars(Resolve(a)) /\ WF_vars(HandleWrite(a))

-----------------------------------------------------------------------------
\* The state is well formed; the retries of the whole process stay within the
\* attempts the bounds allow.
TypeOK ==
  /\ place \in {"running", "undefined"} /\ sending \in BOOLEAN
  /\ requests \in 0 .. MaxRequests /\ posted \in 0 .. requests
  /\ timers \in 0 .. MaxRetries - 1 /\ retry_times \in 0 .. created
  /\ created \in 0 .. MaxRequests + MaxRetries - 1
  /\ owner \in [Fds -> Attempts \cup {None}]
  /\ socket \in [Attempts -> {"none", "connecting", "connected", "failed"}]
  /\ watched \in Attempts \cup {None}
  /\ orphans \subseteq Attempts /\ polling \subseteq Attempts /\ abandoned \subseteq Attempts
  /\ conns \in [Fds -> Attempts \cup {None}]
  /\ efd \in [Attempts -> Fds \cup {None}]
  /\ answered \in 0 .. requests

\* The number of attempts m_event is registered for.
Watching == IF watched = None THEN 0 ELSE 1

\* Each call of connect() is in one place: posted, waiting for a retry, being
\* watched, lost with a destroyed Event, or answered by one callback.  No
\* order of retries, failures and further calls answers twice or loses one.
OneAnswerPerRequest ==
  posted + timers + Watching + Cardinality(orphans) + answered = requests

\* An open descriptor belongs to the attempt being watched, to a connection
\* the poller knows, or to one of the two kinds of attempts that leak it; and
\* what the poller has a pointer to has a descriptor of its own and, if it is
\* a connection, an owner in m_conns, although descriptors are reused and
\* closed connections are left in the map.
DescriptorsAreOwned ==
  /\ \A f \in Fds :
       owner[f] # None => owner[f] \in polling \cup orphans \cup abandoned \cup {watched}
  /\ \A a \in polling \cup orphans \cup ({watched} \ {None}) : efd[a] # None /\ owner[efd[a]] = a
  /\ \A c \in polling : conns[efd[c]] = c /\ c # watched

\* A call of connect() is answered, unless a later one has destroyed its Event.
EveryRequestIsAnswered ==
  \A n \in 1 .. MaxRequests :
    requests >= n ~> answered >= n \/ orphans # {} \/ undefined
=============================================================================
