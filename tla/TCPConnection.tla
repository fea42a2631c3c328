---------------------------- MODULE TCPConnection ----------------------------
(***************************************************************************)
(* A TCPConnection (src/src/net): init has the loop's thread call the      *)
(* connected callback and register the connection with the poller; any     *)
(* thread may then call sendMsg, which appends to m_wbuf under m_wlock,    *)
(* asks for EPOLLOUT and has the poller told so by the loop's thread;      *)
(* handleEvent, in the loop's thread, calls handleError, handleRead and    *)
(* handleWrite for what the poller reported; handleClose ends all of it.   *)
(*                                                                         *)
(* m_wbuf is a Buffer: an array with a read and a write position, which go *)
(* back to its start only when everything has been read.                   *)
(*                                                                         *)
(* Functors posted to the loop are run in order, once, by its thread: what *)
(* Executor.tla promises.  shutdown, the end of an idle connection, is in  *)
(* TCPServer.tla.                                                          *)
(***************************************************************************)
EXTENDS Naturals, Sequences, FiniteSets

CONSTANTS
  Senders,   \* threads other than the loop's
  Loop,      \* the thread of m_loop
  Messages,  \* the messages each thread sends, each a sequence of bytes
  Bytes,
  Capacity,  \* of m_wbuf
  Room,      \* of the socket's send buffer
  None

Threads == Senders \cup {Loop}

ASSUME ConnectionAssumption ==
  /\ Loop \notin Senders
  /\ None \notin Threads \cup Bytes
  /\ Capacity \in Nat \ {0} /\ Room \in Nat \ {0}
  /\ Messages \in [Threads -> Seq(Seq(Bytes) \ {<<>>})]

VARIABLES
  array,      \* m_wbuf's bytes
  rptr,       \* m_rptr - m_data
  wptr,       \* m_wptr - m_data
  wlock,      \* the holder of m_wlock, or None
  writeOn,    \* EPOLLOUT is in m_events
  interest,   \* EPOLLOUT is among the events the poller watches
  posted,     \* modifyEvent's functors the loop has not run yet
  polling,    \* m_polling
  revents,    \* m_revents, without the bits handleEvent has dealt with
  errnoReset, \* errno of the loop's thread is ECONNRESET
  pc,         \* where each thread is
  next,       \* the message each thread sends now or next
  outcome,    \* of handleWrite's send: all or part of the data is written, or it failed
  peer,       \* the peer's end
  room,       \* free bytes in the socket's send buffer
  sent,       \* history: the bytes the socket has accepted
  accepted,   \* history: the bytes m_wbuf has accepted
  stranded    \* history: a failed write has given EPOLLOUT up since it was last asked for

bufferVars == <<array, rptr, wptr, sent, accepted>>
eventVars == <<writeOn, interest, posted, polling>>
handlerVars == <<revents, errnoReset>>
outVars == <<outcome, stranded>>
peerVars == <<peer, room>>
vars == <<bufferVars, wlock, eventVars, handlerVars, pc, next, outVars, peerVars>>

Least(a, b) == IF a < b THEN a ELSE b
Message(t) == Messages[t][next[t]]
Unsent == [i \in 1 .. wptr - rptr |-> array[rptr + i - 1]]

\* How much of t's message fits behind the write position.
Fitting(t) == Least(Len(Message(t)), Capacity - wptr)

Init ==
  /\ array = [i \in 0 .. Capacity - 1 |-> None]
  /\ rptr = 0 /\ wptr = 0
  /\ wlock = None
  /\ writeOn = FALSE /\ interest = FALSE /\ posted = 0 /\ polling = FALSE
  /\ revents = {} /\ errnoReset \in BOOLEAN
  /\ pc = [t \in Threads |-> IF t = Loop THEN "init" ELSE "idle"]
  /\ next = [t \in Threads |-> 1]
  /\ outcome = "all" /\ stranded = FALSE
  /\ peer = "open" /\ room = Room
  /\ sent = <<>> /\ accepted = <<>>

Goto(t, place) == pc' = [pc EXCEPT ![t] = place]

\* A failed assertion ends the process, with all its threads.
aborted == \A t \in Threads : pc[t] = "aborted"

closed == ~polling /\ pc[Loop] \in {"event", "idle"}

-----------------------------------------------------------------------------
\* init.

\* The callback hands the connection to the application: from now on every
\* thread may send.
RunInit ==
  /\ pc[Loop] = "init"
  /\ Goto(Loop, "connected")
  /\ UNCHANGED <<bufferVars, wlock, eventVars, handlerVars, next, outVars, peerVars>>

AddEvent ==
  /\ pc[Loop] = "connected"
  /\ polling' = TRUE
  /\ interest' = writeOn
  /\ Goto(Loop, "idle")
  /\ UNCHANGED <<bufferVars, wlock, writeOn, posted, handlerVars, next, outVars, peerVars>>

-----------------------------------------------------------------------------
\* sendMsg.

\* The loop's thread sends from the connected and the message callback; other
\* threads cannot tell whether the connection has been closed.
MaySend(t) ==
  /\ next[t] <= Len(Messages[t])
  /\ IF t = Loop THEN pc[t] \in {"connected", "callback"}
                 ELSE pc[t] = "idle" /\ pc[Loop] # "init"

\* Fault: m_wlock is not taken.
SendMsg_NoLock(t) ==
  /\ MaySend(t)
  /\ Goto(t, "copy")
  /\ UNCHANGED <<bufferVars, wlock, eventVars, handlerVars, next, outVars, peerVars>>

SendMsg(t) ==
  /\ MaySend(t)
  /\ wlock = None
  /\ wlock' = t
  /\ Goto(t, "copy")
  /\ UNCHANGED <<bufferVars, eventVars, handlerVars, next, outVars, peerVars>>

CopyMsg(t) ==
  /\ pc[t] = "copy"
  /\ array' = [i \in DOMAIN array |->
                 IF i \in wptr .. wptr + Fitting(t) - 1 THEN Message(t)[i - wptr + 1] ELSE array[i]]
  /\ Goto(t, "advance")
  /\ UNCHANGED <<rptr, wptr, sent, accepted, wlock, eventVars, handlerVars, next, outVars, peerVars>>

\* What does not fit is dropped.
AdvanceMsg(t) ==
  /\ pc[t] = "advance"
  /\ wptr' = wptr + Fitting(t)
  /\ accepted' = accepted \o SubSeq(Message(t), 1, Fitting(t))
  /\ wlock' = None
  /\ Goto(t, "enable")
  /\ UNCHANGED <<array, rptr, sent, eventVars, handlerVars, next, outVars, peerVars>>

\* m_events is changed outside the lock, by plain reads and writes that may
\* overlap another thread's; EPOLLOUT is the only bit of it that ever changes,
\* so that the outcome is that of one write after the other.
EnableWrite(t) ==
  /\ pc[t] = "enable"
  /\ writeOn' = TRUE
  /\ stranded' = FALSE
  /\ Goto(t, "modify")
  /\ UNCHANGED <<bufferVars, wlock, interest, posted, polling, handlerVars, next, outcome, peerVars>>

SentFrom(t) == IF t = Loop THEN "callback" ELSE "idle"

\* Fault: the poller is told in the loop's thread only.
ModifyEvent_NoPost(t) ==
  /\ pc[t] = "modify"
  /\ next' = [next EXCEPT ![t] = @ + 1]
  /\ IF polling THEN Goto(t, SentFrom(t)) ELSE pc' = [u \in Threads |-> "aborted"]
  /\ interest' = IF polling /\ t = Loop THEN writeOn ELSE interest
  /\ UNCHANGED <<bufferVars, wlock, writeOn, posted, polling, handlerVars, outVars, peerVars>>

\* modifyEvent asserts isPolling().
ModifyEvent(t) ==
  /\ pc[t] = "modify"
  /\ next' = [next EXCEPT ![t] = @ + 1]
  /\ IF polling THEN Goto(t, SentFrom(t)) ELSE pc' = [u \in Threads |-> "aborted"]
  /\ interest' = IF polling /\ t = Loop THEN writeOn ELSE interest
  /\ posted' = IF polling /\ t # Loop THEN posted + 1 ELSE posted
  /\ UNCHANGED <<bufferVars, wlock, writeOn, polling, handlerVars, outVars, peerVars>>

-----------------------------------------------------------------------------
\* The loop's thread.

\* epoll_ctl fails for a descriptor that has been closed.
RunPosted ==
  /\ pc[Loop] = "idle"
  /\ posted > 0
  /\ posted' = posted - 1
  /\ interest' = (polling /\ writeOn)
  /\ UNCHANGED <<bufferVars, wlock, writeOn, polling, handlerVars, pc, next, outVars, peerVars>>

\* A recv or send for another connection of the loop fails, with ECONNRESET or
\* another error; errno keeps it.
AnotherHandler ==
  /\ pc[Loop] = "idle"
  /\ polling
  /\ errnoReset' = ~errnoReset
  /\ UNCHANGED <<bufferVars, wlock, eventVars, revents, pc, next, outVars, peerVars>>

\* Level triggered; a peer that has closed leaves the socket readable for
\* ever, and EPOLLERR is reported whether it is asked for or not.  (EPOLLHUP
\* comes with EPOLLIN, and EPOLLRDHUP is not asked for: handleEvent's branches
\* for them are not taken by a connection.)
Report ==
  /\ pc[Loop] = "idle"
  /\ polling
  /\ revents' \in SUBSET {"err", "in", "out"} \ {{}}
  /\ "err" \in revents' <=> peer = "reset"
  /\ peer # "open" => "in" \in revents'
  /\ "out" \in revents' <=> interest /\ (room > 0 \/ peer = "reset")
  /\ Goto(Loop, "event")
  /\ UNCHANGED <<bufferVars, wlock, eventVars, errnoReset, next, outVars, peerVars>>

HandleError ==
  /\ pc[Loop] = "event"
  /\ "err" \in revents
  /\ revents' = revents \ {"err"}
  /\ Goto(Loop, "close")
  /\ UNCHANGED <<bufferVars, wlock, eventVars, errnoReset, next, outVars, peerVars>>

\* What recv may return.  A reset is reported once, by a send perhaps.
ReadResults ==
  CASE peer = "open" -> {"data", "again"}
    [] peer = "closed" -> {"data", "eof"}
    [] peer = "reset" -> {"reset", "eof"}

\* Fault: every recv without data is taken for the end.
HandleRead_AnyError ==
  /\ pc[Loop] = "event"
  /\ "err" \notin revents /\ "in" \in revents
  /\ revents' = revents \ {"in"}
  /\ \E r \in ReadResults :
       /\ errnoReset' = (r = "reset" \/ (errnoReset /\ r # "again"))
       /\ Goto(Loop, IF r # "data" \/ errnoReset' THEN "close" ELSE "callback")
  /\ UNCHANGED <<bufferVars, wlock, eventVars, next, outVars, peerVars>>

\* errno is tested whether recv has failed or not.
HandleRead ==
  /\ pc[Loop] = "event"
  /\ "err" \notin revents /\ "in" \in revents
  /\ revents' = revents \ {"in"}
  /\ \E r \in ReadResults :
       /\ errnoReset' = (r = "reset" \/ (errnoReset /\ r # "again"))
       /\ Goto(Loop, IF r = "eof" \/ errnoReset' THEN "close" ELSE "callback")
  /\ UNCHANGED <<bufferVars, wlock, eventVars, next, outVars, peerVars>>

EndCallback ==
  /\ pc[Loop] = "callback"
  /\ Goto(Loop, "event")
  /\ UNCHANGED <<bufferVars, wlock, eventVars, handlerVars, next, outVars, peerVars>>

LockForWrite ==
  /\ pc[Loop] = "event"
  /\ revents = {"out"}
  /\ revents' = {}
  /\ wlock = None
  /\ wlock' = Loop
  /\ Goto(Loop, "send")
  /\ UNCHANGED <<bufferVars, eventVars, errnoReset, next, outVars, peerVars>>

NothingToSend ==
  /\ pc[Loop] = "send"
  /\ Unsent = <<>>
  /\ writeOn' = FALSE
  /\ interest' = FALSE
  /\ wlock' = None
  /\ Goto(Loop, "event")
  /\ UNCHANGED <<bufferVars, posted, polling, handlerVars, next, outVars, peerVars>>

\* Fault: the positions do not go back to the start of an empty buffer.
WriteOut_NoClear(n) ==
  /\ pc[Loop] = "send"
  /\ n <= Len(Unsent) /\ n <= room /\ peer # "reset"
  /\ sent' = sent \o SubSeq(Unsent, 1, n)
  /\ rptr' = rptr + n
  /\ room' = room - n
  /\ outcome' = IF n < Len(Unsent) THEN "part" ELSE "all"
  /\ Goto(Loop, "rearm")
  /\ UNCHANGED <<array, wptr, accepted, wlock, eventVars, handlerVars, next, stranded, peer>>

\* write() takes n > 0 bytes; an empty buffer is cleared.
WriteOut(n) ==
  /\ pc[Loop] = "send"
  /\ n <= Len(Unsent) /\ n <= room /\ peer # "reset"
  /\ sent' = sent \o SubSeq(Unsent, 1, n)
  /\ IF n = Len(Unsent) THEN rptr' = 0 /\ wptr' = 0 ELSE rptr' = rptr + n /\ UNCHANGED wptr
  /\ room' = room - n
  /\ outcome' = IF n < Len(Unsent) THEN "part" ELSE "all"
  /\ Goto(Loop, "rearm")
  /\ UNCHANGED <<array, accepted, wlock, eventVars, handlerVars, next, stranded, peer>>

\* write() returns -1: the peer has reset the connection, or, with EAGAIN, the
\* send buffer is short of memory although it was reported writable.  (A write
\* after the one that reported the reset ends the process by SIGPIPE, unless the
\* application ignores that; the model goes on as if it did.)
WriteFails ==
  /\ pc[Loop] = "send"
  /\ Unsent # <<>>
  /\ outcome' = "failed"
  /\ errnoReset' \in {FALSE, peer = "reset"}
  /\ Goto(Loop, "rearm")
  /\ UNCHANGED <<bufferVars, wlock, eventVars, revents, next, stranded, peerVars>>

\* Fault: EPOLLOUT is given up after a partial write too.
Rearm_Always ==
  /\ pc[Loop] = "rearm"
  /\ writeOn' = FALSE
  /\ interest' = FALSE
  /\ stranded' = (stranded \/ outcome = "failed")
  /\ wlock' = None
  /\ Goto(Loop, "event")
  /\ UNCHANGED <<bufferVars, posted, polling, handlerVars, next, outcome, peerVars>>

\* The branch for a complete write is taken by a failed one too.
Rearm ==
  /\ pc[Loop] = "rearm"
  /\ writeOn' = (writeOn /\ outcome = "part")
  /\ interest' = (interest /\ outcome = "part")
  /\ stranded' = (stranded \/ outcome = "failed")
  /\ wlock' = None
  /\ Goto(Loop, "event")
  /\ UNCHANGED <<bufferVars, posted, polling, handlerVars, next, outcome, peerVars>>

EndEvent ==
  /\ pc[Loop] = "event"
  /\ revents = {}
  /\ Goto(Loop, "idle")
  /\ UNCHANGED <<bufferVars, wlock, eventVars, handlerVars, next, outVars, peerVars>>

\* Fault: m_revents is not cleared.
HandleClose_KeepRevents ==
  /\ pc[Loop] = "close"
  /\ polling' = FALSE
  /\ interest' = FALSE
  /\ Goto(Loop, "event")
  /\ UNCHANGED <<bufferVars, wlock, writeOn, posted, handlerVars, next, outVars, peerVars>>

\* removeEvent and the close of the descriptor; m_revents is cleared for
\* handleEvent, which goes on behind it.
HandleClose ==
  /\ pc[Loop] = "close"
  /\ revents' = {}
  /\ polling' = FALSE
  /\ interest' = FALSE
  /\ Goto(Loop, "event")
  /\ UNCHANGED <<bufferVars, wlock, writeOn, posted, errnoReset, next, outVars, peerVars>>

-----------------------------------------------------------------------------
\* The peer.

Drain ==
  /\ peer = "open"
  /\ room < Room
  /\ room' = room + 1
  /\ UNCHANGED <<bufferVars, wlock, eventVars, handlerVars, pc, next, outVars, peer>>

PeerLeaves ==
  /\ peer # "reset"
  /\ peer' \in {"closed", "reset"} \ {peer}
  /\ ~closed
  /\ UNCHANGED <<bufferVars, wlock, eventVars, handlerVars, pc, next, outVars, room>>

-----------------------------------------------------------------------------
SendStep(t) == CopyMsg(t) \/ AdvanceMsg(t) \/ EnableWrite(t) \/ ModifyEvent(t)

HandlerStep ==
  \/ RunInit \/ AddEvent
  \/ HandleError \/ HandleRead \/ EndCallback \/ EndEvent \/ HandleClose
  \/ NothingToSend \/ WriteFails \/ Rearm
  \/ \E n \in 1 .. Room : WriteOut(n)

Next ==
  \/ \E t \in Threads : SendMsg(t) \/ SendStep(t)
  \/ RunPosted \/ AnotherHandler \/ Report \/ LockForWrite \/ HandlerStep
  \/ Drain \/ PeerLeaves

Spec == Init /\ [][Next]_vars

\* A thread goes on with a call it has begun, and the loop with its iterations:
\* it polls again and again, and a poll reports what is there.  m_wlock is not
\* handed to others for ever, and a peer that is there reads.
FairSpec ==
  /\ Spec
  /\ \A t \in Threads : WF_vars(SendStep(t))
  /\ WF_vars(HandlerStep)
  /\ SF_vars(Report /\ "out" \in revents') /\ WF_vars(Report /\ peer # "open")
  /\ SF_vars(LockForWrite)
  /\ SF_vars(RunPosted)
  /\ WF_vars(Drain)

-----------------------------------------------------------------------------
\* The state is well formed; in particular m_wlock is held exactly inside its
\* two scopes and the positions stay inside m_wbuf.
TypeOK ==
  /\ array \in [0 .. Capacity - 1 -> Bytes \cup {None}]
  /\ rptr \in 0 .. wptr /\ wptr \in 0 .. Capacity
  /\ \A t \in Threads : ~aborted => (wlock = t <=> pc[t] \in {"copy", "advance", "send", "rearm"})
  /\ {writeOn, interest, polling, errnoReset, stranded} \subseteq BOOLEAN
  /\ posted \in Nat
  /\ revents \subseteq {"err", "in", "out"}
  /\ pc \in [Threads -> {"init", "connected", "idle", "event", "callback", "close", "copy", "advance",
                       "enable", "modify", "send", "rearm", "aborted"}]
  /\ \A t \in Threads : next[t] \in 1 .. Len(Messages[t]) + 1
  /\ outcome \in {"all", "part", "failed"}
  /\ peer \in {"open", "closed", "reset"} /\ room \in 0 .. Room
  /\ sent \in Seq(Bytes) /\ accepted \in Seq(Bytes)

\* What m_wbuf has accepted is on the socket or still to be sent, in order,
\* however the threads' appends and the loop's writes interleave.
NothingLost == accepted = sent \o Unsent

\* Output waits for EPOLLOUT, or for a thread that is about to ask for it: no
\* order of enableWrite(true) and enableWrite(false), which sendMsg calls
\* outside the lock and handleWrite inside, leaves output without a writer.
\* A failed write is the only thing that does, until the next sendMsg.
OutputArmed ==
  polling /\ ~stranded /\ Unsent # <<>> =>
    \/ interest
    \/ posted > 0 /\ writeOn
    \/ \E t \in Threads : pc[t] \in {"enable", "modify"}

\* The handlers leave a closed connection alone, whatever else the poller has
\* reported with the event that ended it: none reads, writes, calls back or
\* closes once more ("clear revents !!!").
ClosedIsLeftAlone == pc[Loop] \in {"callback", "close", "send", "rearm"} => polling

\* A connection whose peer is there is ended only by a value that the failure
\* of another connection's call has left in errno.
HealthyIsKept == closed /\ peer = "open" => errnoReset

\* m_wbuf cuts a message that would fit into it only if there is unsent output
\* before it.
CutOnlyBehindOutput ==
  [][\A t \in Threads :
       pc[t] = "advance" /\ pc'[t] = "enable" /\ Fitting(t) < Len(Message(t))
         => Unsent # <<>> \/ Len(Message(t)) > Capacity]_vars

\* What append may accept of a message.
Beginnings ==
  {d \in Seq(Bytes) : \E t \in Threads : \E i \in 1 .. Len(Messages[t]) :
                       \E n \in 0 .. Len(Messages[t][i]) : d = SubSeq(Messages[t][i], 1, n)}

Q == INSTANCE BoundedQueue WITH Pieces <- Beginnings, Bound <- Capacity,
       put <- accepted, queue <- Unsent, taken <- sent, failed <- FALSE

\* m_wbuf is a queue: whichever threads append while the loop's writes and its
\* positions go back to the start, each append adds the beginning of a single
\* message behind what is there, and each write sends what is in front.
OutputIsQueue == Q!Spec

\* m_wbuf is emptied, which with OutputIsQueue says that what it has accepted
\* reaches the socket, if the peer goes on reading and no write fails.
EventuallySent ==
  Unsent # <<>> ~> Unsent = <<>> \/ stranded \/ peer # "open" \/ closed \/ aborted

\* "assert(event->isPolling() == true)" (EventLoop.cpp:132): modifyEvent is
\* called for events that are registered with the poller.
ModifiesPolledEvents == ~aborted
=============================================================================
