------------------------- MODULE TCPConnectionProofs -------------------------
(***************************************************************************)
(* The invariants of TCPConnection, for any threads, messages, capacity    *)
(* and socket.                                                             *)
(*                                                                         *)
(* The invariant is built in layers: where the threads are (PlaceInv), who *)
(* holds m_wlock (LockInv), what the lock protects (BufferInv), that       *)
(* output waits for EPOLLOUT (ArmedInv), and what may be left to do for a  *)
(* connection that is closed (CloseInv).                                   *)
(***************************************************************************)
EXTENDS TCPConnection, CommonLemmas

Calling == {"copy", "advance", "enable", "modify"}
Locking == {"copy", "advance", "send", "rearm"}
Places == {"init", "connected", "idle", "event", "callback", "close", "copy", "advance",
           "enable", "modify", "send", "rearm", "aborted"}

\* Only the loop's thread is in a handler; all threads are aborted together,
\* and a thread in sendMsg has a message to send.
PlaceInv ==
  /\ pc \in [Threads -> Places]
  /\ \A t \in Senders : pc[t] \in Calling \cup {"idle", "aborted"}
  /\ \A t \in Threads : pc[t] = "aborted" => aborted
  /\ next \in [Threads -> Nat]
  /\ \A t \in Threads : next[t] \in 1 .. Len(Messages[t]) + 1
  /\ \A t \in Threads : pc[t] \in Calling => next[t] <= Len(Messages[t])

\* m_wlock is held in its two scopes.
LockInv ==
  /\ wlock \in Threads \cup {None}
  /\ ~aborted => \A t \in Threads : wlock = t <=> pc[t] \in Locking

Inv1 == PlaceInv /\ LockInv

\* A message is a sequence of bytes, and not empty.
LEMMA MessagesAreSequences ==
  ASSUME NEW t \in Threads
  PROVE  Messages[t] \in Seq(Seq(Bytes) \ {<<>>}) /\ Len(Messages[t]) \in Nat
BY ConnectionAssumption

\* The threads begin outside of all calls, with m_wlock free.
LEMMA InitPlace == Init => PlaceInv /\ LockInv
<1> SUFFICES ASSUME Init PROVE PlaceInv /\ LockInv
  OBVIOUS
<1>1. PlaceInv
  BY ConnectionAssumption, MessagesAreSequences DEF Init, PlaceInv, Places, Calling, Threads, aborted
<1>2. LockInv
  BY ConnectionAssumption DEF Init, LockInv, Locking, Threads
<1> QED  BY <1>1, <1>2

\* Each thread stays where its calls and handlers lead.
LEMMA StepPlace == Inv1 /\ Next => PlaceInv'
<1> SUFFICES ASSUME Inv1, Next PROVE PlaceInv'
  OBVIOUS
<1> USE MessagesAreSequences DEF Inv1, PlaceInv, Places, Calling, Goto, aborted
<1>1. ASSUME NEW t \in Threads, SendMsg(t) PROVE PlaceInv'
  BY <1>1 DEF SendMsg, MaySend, Threads
<1>2. ASSUME NEW t \in Threads, CopyMsg(t) PROVE PlaceInv'
  BY <1>2 DEF CopyMsg, Threads
<1>3. ASSUME NEW t \in Threads, AdvanceMsg(t) PROVE PlaceInv'
  BY <1>3 DEF AdvanceMsg, Threads
<1>4. ASSUME NEW t \in Threads, EnableWrite(t) PROVE PlaceInv'
  BY <1>4 DEF EnableWrite, Threads
<1>5. ASSUME NEW t \in Threads, ModifyEvent(t) PROVE PlaceInv'
  <2>1. CASE polling
    <3>1. /\ t = Loop => SentFrom(t) = "callback"
          /\ t # Loop => SentFrom(t) = "idle"
      BY DEF SentFrom
    <3>2. pc[t] = "modify" /\ pc' = [pc EXCEPT ![t] = SentFrom(t)] /\ next' = [next EXCEPT ![t] = @ + 1]
      BY <1>5, <2>1 DEF ModifyEvent
    <3>3. pc' \in [Threads -> Places] /\ next' \in [Threads -> Nat]
      BY <3>1, <3>2
    <3>4. \A u \in Threads : next'[u] \in 1 .. Len(Messages[u]) + 1
      BY <3>2
    <3> QED  BY <3>1, <3>2, <3>3, <3>4, ConnectionAssumption DEF Threads
  <2>2. CASE ~polling
    BY <1>5, <2>2 DEF ModifyEvent, Threads
  <2> QED  BY <2>1, <2>2
<1>6. CASE UNCHANGED <<pc, next>>
  BY <1>6
<1>7. ASSUME next' = next, NEW p \in Places \ (Calling \cup {"aborted"}), pc' = [pc EXCEPT ![Loop] = p],
             pc[Loop] # "aborted"
      PROVE  PlaceInv'
  BY <1>7, ConnectionAssumption DEF Threads
<1> QED
  BY <1>1, <1>2, <1>3, <1>4, <1>5, <1>6, <1>7
     DEF Next, SendStep, HandlerStep, RunInit, AddEvent, RunPosted, AnotherHandler, Report, HandleError,
         HandleRead, EndCallback, LockForWrite, NothingToSend, WriteOut, WriteFails, Rearm, EndEvent,
         HandleClose, Drain, PeerLeaves

\* m_wlock is taken when it is free and given back by its holder.
LEMMA StepLock == Inv1 /\ Next => LockInv'
<1> SUFFICES ASSUME Inv1, Next PROVE LockInv'
  OBVIOUS
<1> USE ConnectionAssumption DEF Inv1, LockInv, PlaceInv, Places, Locking, Goto
<1>1. ASSUME NEW t \in Threads, SendMsg(t) PROVE LockInv'
  BY <1>1 DEF SendMsg, MaySend, aborted
<1>2. ASSUME NEW t \in Threads, CopyMsg(t) PROVE LockInv'
  BY <1>2 DEF CopyMsg, aborted
<1>3. ASSUME NEW t \in Threads, AdvanceMsg(t) PROVE LockInv'
  BY <1>3 DEF AdvanceMsg, aborted
<1>4. ASSUME NEW t \in Threads, EnableWrite(t) PROVE LockInv'
  BY <1>4 DEF EnableWrite, aborted
<1>5. ASSUME NEW t \in Threads, ModifyEvent(t) PROVE LockInv'
  <2>1. CASE polling
    BY <1>5, <2>1 DEF ModifyEvent, SentFrom, aborted
  <2>2. CASE ~polling
    BY <1>5, <2>2 DEF ModifyEvent, aborted
  <2> QED  BY <2>1, <2>2
<1>6. CASE UNCHANGED <<pc, wlock>>
  BY <1>6 DEF aborted
<1>7. ASSUME wlock' = wlock, NEW p \in Places \ (Locking \cup {"aborted"}), pc' = [pc EXCEPT ![Loop] = p],
             pc[Loop] \notin Locking \cup {"aborted"}
      PROVE  LockInv'
  BY <1>7 DEF Threads, aborted
<1>8. CASE LockForWrite
  BY <1>8 DEF LockForWrite, Threads, aborted
<1>9. ASSUME wlock' = None, pc[Loop] \in {"send", "rearm"}, pc' = [pc EXCEPT ![Loop] = "event"]
      PROVE  LockInv'
  BY <1>9 DEF Threads, aborted
<1>10. ASSUME wlock' = wlock, pc[Loop] = "send", pc' = [pc EXCEPT ![Loop] = "rearm"]
      PROVE  LockInv'
  BY <1>10 DEF Threads, aborted
<1> QED
  BY <1>1, <1>2, <1>3, <1>4, <1>5, <1>6, <1>7, <1>8, <1>9, <1>10
     DEF Next, SendStep, HandlerStep, RunInit, AddEvent, RunPosted, AnotherHandler, Report, HandleError,
         HandleRead, EndCallback, NothingToSend, WriteOut, WriteFails, Rearm, EndEvent,
         HandleClose, Drain, PeerLeaves

-----------------------------------------------------------------------------
\* What append accepts of t's message.
Piece(t) == SubSeq(Message(t), 1, Fitting(t))

\* The buffer holds what has been accepted and not sent; an empty buffer starts
\* from the front; a message lies behind the write position when it is copied.
BufferInv ==
  /\ array \in [0 .. Capacity - 1 -> Bytes \cup {None}]
  /\ wptr \in 0 .. Capacity /\ rptr \in 0 .. wptr
  /\ Holds(array, rptr, Unsent, Bytes) /\ Len(Unsent) = wptr - rptr
  /\ sent \in Seq(Bytes) /\ accepted \in Seq(Bytes)
  /\ NothingLost
  /\ rptr = wptr => wptr = 0
  /\ \A t \in Threads :
       pc[t] = "advance" => Holds(array, wptr, Piece(t), Bytes)

\* What append accepts of a message fits behind m_wptr, and is all of it or
\* all that fits.
LEMMA FittingProperties ==
  ASSUME Inv1, wptr \in 0 .. Capacity, NEW t \in Threads, pc[t] \in Calling
  PROVE  /\ Message(t) \in Seq(Bytes) /\ Len(Message(t)) \in Nat \ {0}
         /\ Fitting(t) \in 0 .. Len(Message(t)) /\ wptr + Fitting(t) \in wptr .. Capacity
         /\ Fitting(t) < Len(Message(t)) => Fitting(t) = Capacity - wptr
<1>1. Message(t) \in Seq(Bytes) \ {<<>>}
  BY MessagesAreSequences DEF Message, Inv1, PlaceInv
<1>2. Len(Message(t)) \in Nat \ {0}
  BY <1>1, EmptySeq
<1> QED  BY <1>1, <1>2, ConnectionAssumption DEF Fitting, Least

\* m_wbuf is empty at first.
LEMMA InitBuffer == Init => BufferInv
<1> SUFFICES ASSUME Init PROVE BufferInv
  OBVIOUS
<1>1. Unsent = <<>>
  BY DEF Init, Unsent
<1>2. Holds(array, rptr, Unsent, Bytes) /\ Len(Unsent) = wptr - rptr
  BY <1>1 DEF Init, Holds
<1>3. NothingLost
  BY <1>1 DEF Init, NothingLost
<1>4. \A t \in Threads : pc[t] # "advance"
  BY DEF Init
<1> QED  BY <1>2, <1>3, <1>4, ConnectionAssumption DEF Init, BufferInv

\* The unsent bytes lie from m_rptr to m_wptr.
LEMMA UnsentProperties ==
  ASSUME BufferInv
  PROVE  /\ rptr \in Nat /\ wptr \in Nat /\ rptr <= wptr /\ wptr <= Capacity /\ Capacity \in Nat
         /\ Unsent \in Seq(Bytes) /\ Len(Unsent) = wptr - rptr /\ Holds(array, rptr, Unsent, Bytes)
BY ConnectionAssumption DEF BufferInv, Holds

\* sendMsg's memcpy stays behind the unsent bytes.
LEMMA CopyLeavesUnsent ==
  ASSUME Inv1, BufferInv, NEW t \in Threads, CopyMsg(t)
  PROVE  Unsent' = Unsent /\ Holds(array', rptr, Unsent, Bytes)
<1>0. /\ rptr \in Nat /\ wptr \in Nat /\ rptr <= wptr /\ wptr <= Capacity /\ Capacity \in Nat
      /\ Unsent \in Seq(Bytes) /\ Len(Unsent) = wptr - rptr /\ Holds(array, rptr, Unsent, Bytes)
  BY UnsentProperties
<1>1. \A i \in rptr .. rptr + Len(Unsent) - 1 : array[i] = array'[i]
  BY <1>0 DEF CopyMsg, BufferInv
<1>2. Holds(array', rptr, Unsent, Bytes)
  BY <1>0, <1>1, HoldsSame
<1>3. [i \in 1 .. wptr - rptr |-> array'[rptr + i - 1]] = Unsent
  BY <1>0, <1>2, HoldsAll
<1>4. rptr' = rptr /\ wptr' = wptr
  BY DEF CopyMsg
<1> QED  BY <1>2, <1>3, <1>4 DEF Unsent

\* Its move of m_wptr puts what was copied behind them.
LEMMA AppendAddsUnsent ==
  ASSUME Inv1, BufferInv, NEW t \in Threads, AdvanceMsg(t)
  PROVE  /\ Unsent' = Unsent \o Piece(t) /\ Holds(array, rptr, Unsent \o Piece(t), Bytes)
         /\ Piece(t) \in Seq(Bytes) /\ Len(Piece(t)) = Fitting(t) /\ Fitting(t) \in 0 .. Len(Message(t))
         /\ wptr + Fitting(t) <= Capacity /\ Len(Unsent \o Piece(t)) = (wptr + Fitting(t)) - rptr
<1> DEFINE f == Fitting(t)
           m == Piece(t)
           both == Unsent \o m
<1>0. /\ rptr \in Nat /\ wptr \in Nat /\ rptr <= wptr /\ wptr <= Capacity /\ Capacity \in Nat
      /\ Unsent \in Seq(Bytes) /\ Len(Unsent) = wptr - rptr /\ Holds(array, rptr, Unsent, Bytes)
  BY UnsentProperties
<1>1. pc[t] = "advance" /\ wptr' = wptr + f /\ UNCHANGED <<array, rptr>>
  BY DEF AdvanceMsg
<1>2. m \in Seq(Bytes) /\ Len(m) = f /\ f \in 0 .. Len(Message(t)) /\ f \in Nat /\ wptr + f <= Capacity
  <2>1. /\ Message(t) \in Seq(Bytes) /\ f \in 0 .. Len(Message(t)) /\ f \in Nat
        /\ wptr + f \in wptr .. Capacity
    BY <1>1, FittingProperties DEF Calling, BufferInv
  <2>2. m = SubSeq(Message(t), 1, f)
    BY DEF Piece
  <2> HIDE DEF f, m
  <2>3. m \in Seq(Bytes) /\ Len(m) = f
    BY <2>1, <2>2, SeqSplit
  <2>4. wptr + f <= Capacity
    BY <1>0, <2>1
  <2> QED  BY <2>1, <2>3, <2>4
<1>3. Holds(array, wptr, m, Bytes)
  BY <1>1 DEF BufferInv
<1> HIDE DEF f, m
<1>4. Holds(array, rptr, both, Bytes) /\ Len(both) = (wptr + f) - rptr
  <2>1. rptr + Len(Unsent) = wptr
    BY <1>0
  <2>2. Holds(array, rptr, both, Bytes) /\ Len(both) = Len(Unsent) + Len(m)
    BY <1>0, <1>3, <2>1, HoldsConcat
  <2> QED  BY <1>0, <1>2, <2>2
<1> HIDE DEF both
<1>5. Unsent' = both
  <2>1. wptr + f \in Nat
    BY <1>0, <1>2
  <2>2. [i \in 1 .. (wptr + f) - rptr |-> array[rptr + i - 1]] = both
    BY <1>0, <1>4, <2>1, HoldsAll
  <2> QED  BY <1>1, <2>2 DEF Unsent
<1> QED  BY <1>2, <1>4, <1>5 DEF f, m, both

\* A write takes the first of them.
LEMMA WriteTakesUnsent ==
  ASSUME BufferInv, NEW n \in 1 .. Room, WriteOut(n)
  PROVE  /\ n \in 0 .. Len(Unsent) /\ Unsent' = SubSeq(Unsent, n + 1, Len(Unsent))
         /\ Holds(array', rptr', Unsent', Bytes) /\ Len(Unsent') = wptr' - rptr'
         /\ wptr' \in 0 .. Capacity /\ rptr' \in 0 .. wptr' /\ (rptr' = wptr' => wptr' = 0)
<1> DEFINE rest == SubSeq(Unsent, n + 1, Len(Unsent))
<1>0. /\ rptr \in Nat /\ wptr \in Nat /\ rptr <= wptr /\ wptr <= Capacity /\ Capacity \in Nat
      /\ Unsent \in Seq(Bytes) /\ Len(Unsent) = wptr - rptr /\ Holds(array, rptr, Unsent, Bytes)
  BY UnsentProperties
<1>1. n \in Nat \ {0} /\ n <= Len(Unsent) /\ n \in 0 .. Len(Unsent) /\ array' = array
  BY <1>0, ConnectionAssumption DEF WriteOut
<1>2. rest \in Seq(Bytes) /\ Len(rest) = Len(Unsent) - n
  BY <1>0, <1>1, SeqSplit
<1>3. Holds(array, rptr + n, rest, Bytes)
  <2> HIDE DEF Unsent
  <2> QED  BY <1>0, <1>1, HoldsRest
<1> HIDE DEF rest
<1>4. CASE n = Len(Unsent)
  <2>1. rptr' = 0 /\ wptr' = 0
    BY <1>4 DEF WriteOut
  <2>2. Unsent' = <<>>
    BY <2>1 DEF Unsent
  <2>3. rest = <<>>
    BY <1>0, <1>2, <1>4
  <2>4. Holds(array', rptr', Unsent', Bytes) /\ Len(Unsent') = wptr' - rptr'
    <3>1. <<>> \in Seq(Bytes) /\ Len(<<>>) = 0
      OBVIOUS
    <3> QED  BY <2>1, <2>2, <3>1 DEF Holds
  <2>5. Unsent' = SubSeq(Unsent, n + 1, Len(Unsent))
    BY <2>2, <2>3 DEF rest
  <2> QED  BY <1>0, <1>1, <2>1, <2>4, <2>5
<1>5. CASE n # Len(Unsent)
  <2>1. rptr' = rptr + n /\ wptr' = wptr
    BY <1>5 DEF WriteOut
  <2>2. rptr + n \in Nat /\ Len(rest) = wptr - (rptr + n) /\ rptr + n < wptr
    BY <1>0, <1>1, <1>2, <1>5
  <2>3. [i \in 1 .. wptr - (rptr + n) |-> array[rptr + n + i - 1]] = rest
    BY <1>0, <1>3, <2>2, HoldsAll
  <2>4. Unsent' = rest
    BY <1>1, <2>1, <2>3 DEF Unsent
  <2>5. wptr' \in 0 .. Capacity /\ rptr' \in 0 .. wptr' /\ (rptr' = wptr' => wptr' = 0)
    BY <1>0, <2>1, <2>2
  <2>6. Holds(array', rptr', Unsent', Bytes) /\ Len(Unsent') = wptr' - rptr'
    BY <1>1, <1>3, <2>1, <2>2, <2>4
  <2>7. Unsent' = SubSeq(Unsent, n + 1, Len(Unsent))
    BY <2>4 DEF rest
  <2> QED  BY <1>1, <2>5, <2>6, <2>7
<1> QED  BY <1>4, <1>5

\* Appends and writes, in whatever order, keep the unsent bytes in their
\* places.
LEMMA StepBuffer == Inv1 /\ BufferInv /\ Next => BufferInv'
<1> SUFFICES ASSUME Inv1, BufferInv, Next PROVE BufferInv'
  OBVIOUS
<1>0. /\ rptr \in Nat /\ wptr \in Nat /\ rptr <= wptr /\ wptr <= Capacity /\ Capacity \in Nat
      /\ Unsent \in Seq(Bytes) /\ Len(Unsent) = wptr - rptr /\ Holds(array, rptr, Unsent, Bytes)
  BY UnsentProperties
<1>1. ASSUME NEW t \in Threads, CopyMsg(t) PROVE BufferInv'
  <2> DEFINE m == Piece(t)
  <2>1. pc[t] = "copy" /\ UNCHANGED <<rptr, wptr, sent, accepted, next>>
    BY <1>1 DEF CopyMsg
  <2>2. /\ Message(t) \in Seq(Bytes) /\ Fitting(t) \in 0 .. Len(Message(t))
        /\ wptr + Fitting(t) \in wptr .. Capacity
    BY <2>1, FittingProperties DEF Calling, BufferInv
  <2>3. m \in Seq(Bytes) /\ Len(m) = Fitting(t) /\ \A i \in 1 .. Fitting(t) : m[i] = Message(t)[i]
    BY <2>2 DEF Piece
  <2>4. array' \in [0 .. Capacity - 1 -> Bytes \cup {None}]
    <3>1. /\ array \in [0 .. Capacity - 1 -> Bytes \cup {None}]
          /\ array' = [i \in DOMAIN array |->
                         IF i \in wptr .. wptr + Fitting(t) - 1 THEN Message(t)[i - wptr + 1] ELSE array[i]]
      BY <1>1 DEF CopyMsg, BufferInv
    <3>2. \A i \in wptr .. wptr + Fitting(t) - 1 : i - wptr + 1 \in 1 .. Len(Message(t))
      BY <1>0, <2>2
    <3>3. \A k \in 1 .. Len(Message(t)) : Message(t)[k] \in Bytes
      BY <2>2, ElementOfSeq
    <3> QED  BY <3>1, <3>2, <3>3
  <2>5. Unsent' = Unsent /\ Holds(array', rptr, Unsent, Bytes)
    BY <1>1, CopyLeavesUnsent
  <2>6. Holds(array', wptr, m, Bytes)
    <3>1. \A i \in 1 .. Fitting(t) : array'[wptr + i - 1] = Message(t)[i]
      BY <1>0, <1>1, <2>2 DEF CopyMsg, BufferInv
    <3> HIDE DEF m
    <3> QED  BY <2>3, <3>1 DEF Holds
  <2>7. \A u \in Threads : Fitting(u)' = Fitting(u) /\ Message(u)' = Message(u)
    BY <2>1 DEF Fitting, Message
  <2>8. \A u \in Threads : pc'[u] = "advance" => u = t
    BY <1>1 DEF CopyMsg, Inv1, PlaceInv, LockInv, Goto, Locking, aborted
  <2>9. NothingLost'
    BY <2>1, <2>5 DEF NothingLost, BufferInv
  <2> QED  BY <1>0, <2>1, <2>4, <2>5, <2>6, <2>7, <2>8, <2>9 DEF BufferInv, Piece
<1>2. ASSUME NEW t \in Threads, AdvanceMsg(t) PROVE BufferInv'
  <2> DEFINE f == Fitting(t)
             m == Piece(t)
             both == Unsent \o m
  <2>1. /\ pc[t] = "advance" /\ wptr' = wptr + f /\ accepted' = accepted \o m
        /\ UNCHANGED <<array, rptr, sent, next>>
    BY <1>2 DEF AdvanceMsg, Piece
  <2>2. m \in Seq(Bytes) /\ Len(m) = f /\ f \in Nat /\ wptr + f <= Capacity
    BY <1>2, AppendAddsUnsent
  <2>4. Unsent' = both /\ Holds(array, rptr, both, Bytes) /\ Len(both) = (wptr + f) - rptr
    BY <1>2, AppendAddsUnsent
  <2> HIDE DEF f, m, both
  <2>6. NothingLost' /\ accepted' \in Seq(Bytes)
    <3>1. sent \in Seq(Bytes) /\ accepted = sent \o Unsent
      BY DEF BufferInv, NothingLost
    <3>2. (sent \o Unsent) \o m = sent \o (Unsent \o m)
      <4> HIDE DEF m
      <4>1. Unsent \in Seq(Bytes) /\ m \in Seq(Bytes)
        BY <1>0, <2>2
      <4> QED  BY <3>1, <4>1, ConcatAssociative, SMTT(20)
    <3>3. accepted \o m \in Seq(Bytes)
      BY <2>2, ConcatProperties DEF BufferInv
    <3> QED  BY <2>1, <2>4, <3>1, <3>2, <3>3 DEF NothingLost, both
  <2>7. \A u \in Threads : pc'[u] # "advance"
    BY <1>2 DEF AdvanceMsg, Inv1, PlaceInv, LockInv, Goto, Locking, aborted
  <2>8. /\ wptr' \in 0 .. Capacity /\ rptr' \in 0 .. wptr'
        /\ rptr' = wptr' => wptr' = 0
    BY <1>0, <2>1, <2>2 DEF BufferInv
  <2>9. Holds(array', rptr', Unsent', Bytes) /\ Len(Unsent') = wptr' - rptr'
    BY <2>1, <2>4
  <2>10. array' \in [0 .. Capacity - 1 -> Bytes \cup {None}] /\ sent' \in Seq(Bytes)
    BY <2>1 DEF BufferInv
  <2> QED  BY <2>6, <2>7, <2>8, <2>9, <2>10 DEF BufferInv
<1>3. ASSUME NEW n \in 1 .. Room, WriteOut(n) PROVE BufferInv'
  <2> DEFINE first == SubSeq(Unsent, 1, n)
             rest == SubSeq(Unsent, n + 1, Len(Unsent))
  <2>1. n \in Nat \ {0} /\ n <= Len(Unsent) /\ sent' = sent \o first /\ UNCHANGED <<array, accepted>>
    BY <1>3, ConnectionAssumption DEF WriteOut
  <2>2. first \in Seq(Bytes) /\ rest \in Seq(Bytes) /\ Len(rest) = Len(Unsent) - n /\ first \o rest = Unsent
    BY <1>0, <2>1, SeqSplit
  <2> HIDE DEF first
  <2>4. /\ Unsent' = rest /\ Holds(array', rptr', Unsent', Bytes) /\ Len(Unsent') = wptr' - rptr'
        /\ wptr' \in 0 .. Capacity /\ rptr' \in 0 .. wptr' /\ (rptr' = wptr' => wptr' = 0)
    BY <1>3, WriteTakesUnsent
  <2> HIDE DEF rest
  <2>5. NothingLost' /\ sent' \in Seq(Bytes)
    <3>1. sent \in Seq(Bytes) /\ accepted = sent \o Unsent
      BY DEF BufferInv, NothingLost
    <3>0. sent \in Seq(Bytes) /\ first \in Seq(Bytes) /\ rest \in Seq(Bytes)
      BY <2>2, <3>1
    <3>2. (sent \o first) \o rest = sent \o (first \o rest)
      <4> HIDE DEF first, rest
      <4> QED  BY <3>0, ConcatAssociative, SMTT(20)
    <3>3. sent \o first \in Seq(Bytes)
      BY <2>2, <3>1, ConcatProperties
    <3>4. sent' = sent \o first /\ accepted' = accepted /\ first \o rest = Unsent /\ Unsent' = rest
      BY <2>1, <2>2, <2>4
    <3> HIDE DEF first, rest
    <3> QED  BY <3>1, <3>2, <3>3, <3>4 DEF NothingLost
  <2>6. \A t \in Threads : pc'[t] # "advance"
    BY <1>3 DEF WriteOut, Inv1, PlaceInv, LockInv, Goto, Locking, Threads, aborted
  <2> QED  BY <2>1, <2>4, <2>5, <2>6 DEF BufferInv
<1>4. ASSUME UNCHANGED bufferVars,
             \A t \in Threads : pc'[t] = "advance" => pc[t] = "advance" /\ next'[t] = next[t]
      PROVE  BufferInv'
  <2>1. Unsent' = Unsent
    BY <1>4 DEF bufferVars, Unsent
  <2>2. \A t \in Threads : pc'[t] = "advance" => Message(t)' = Message(t) /\ Fitting(t)' = Fitting(t)
    BY <1>4 DEF bufferVars, Message, Fitting
  <2> QED  BY <1>4, <2>1, <2>2 DEF BufferInv, Piece, NothingLost, bufferVars
<1>5. ASSUME NEW t \in Threads, SendMsg(t) \/ EnableWrite(t) PROVE BufferInv'
  BY <1>4, <1>5 DEF SendMsg, EnableWrite, Goto, Inv1, PlaceInv
<1>6. ASSUME NEW t \in Threads, ModifyEvent(t) PROVE BufferInv'
  <2>1. UNCHANGED bufferVars /\ pc[t] = "modify" /\ next' = [next EXCEPT ![t] = @ + 1]
    BY <1>6 DEF ModifyEvent
  <2>2. \A u \in Threads : pc'[u] = "advance" => pc[u] = "advance"
    BY <1>6 DEF ModifyEvent, Goto, SentFrom, Inv1, PlaceInv
  <2> QED  BY <1>4, <2>1, <2>2 DEF Inv1, PlaceInv
<1>7. ASSUME UNCHANGED <<bufferVars, next>>, NEW p \in Places \ {"advance"}, pc' = [pc EXCEPT ![Loop] = p]
      PROVE  BufferInv'
  BY <1>4, <1>7 DEF Inv1, PlaceInv
<1>8. CASE UNCHANGED <<bufferVars, next, pc>>
  BY <1>4, <1>8
<1> QED
  BY <1>1, <1>2, <1>3, <1>5, <1>6, <1>7, <1>8
     DEF Next, SendStep, HandlerStep, RunInit, AddEvent, RunPosted, AnotherHandler, Report, HandleError,
         HandleRead, EndCallback, LockForWrite, NothingToSend, WriteFails, Rearm, EndEvent,
         HandleClose, Drain, PeerLeaves, Goto, Places
-----------------------------------------------------------------------------
\* The remaining variables have their types.
ValueInv ==
  /\ {writeOn, interest, polling, errnoReset, stranded} \subseteq BOOLEAN
  /\ posted \in Nat
  /\ revents \subseteq {"err", "in", "out"}
  /\ outcome \in {"all", "part", "failed"}
  /\ peer \in {"open", "closed", "reset"} /\ room \in 0 .. Room

\* The other variables have their types at first,
LEMMA InitValue == Init => ValueInv
BY ConnectionAssumption DEF Init, ValueInv

\* and keep them.
LEMMA StepValue == Inv1 /\ ValueInv /\ Next => ValueInv'
<1> SUFFICES ASSUME Inv1, ValueInv, Next PROVE ValueInv'
  OBVIOUS
<1> USE DEF ValueInv
<1>1. ASSUME NEW t \in Threads, SendMsg(t) \/ SendStep(t) PROVE ValueInv'
  <2> USE DEF bufferVars, eventVars, handlerVars, outVars, peerVars
  <2>1. CASE SendMsg(t) \/ CopyMsg(t) \/ AdvanceMsg(t)
    BY <2>1 DEF SendMsg, CopyMsg, AdvanceMsg
  <2>2. CASE EnableWrite(t)
    BY <2>2 DEF EnableWrite
  <2>3. CASE ModifyEvent(t)
    <3>1. interest' \in BOOLEAN /\ posted' \in Nat
      BY <2>3 DEF ModifyEvent
    <3> QED  BY <2>3, <3>1 DEF ModifyEvent
  <2> QED  BY <1>1, <2>1, <2>2, <2>3 DEF SendStep
<1>2. CASE RunPosted \/ AnotherHandler \/ Report \/ LockForWrite \/ Drain \/ PeerLeaves
  <2> USE ConnectionAssumption DEF bufferVars, eventVars, handlerVars, outVars, peerVars
  <2>1. CASE RunPosted
    BY <2>1 DEF RunPosted
  <2>2. CASE AnotherHandler
    BY <2>2 DEF AnotherHandler
  <2>3. CASE Report
    BY <2>3 DEF Report
  <2>4. CASE LockForWrite
    BY <2>4 DEF LockForWrite
  <2>5. CASE Drain
    BY <2>5 DEF Drain
  <2>6. CASE PeerLeaves
    BY <2>6 DEF PeerLeaves
  <2> QED  BY <1>2, <2>1, <2>2, <2>3, <2>4, <2>5, <2>6
<1>3. ASSUME NEW n \in 1 .. Room, WriteOut(n) PROVE ValueInv'
  <2>1. room' \in 0 .. Room
    BY <1>3, ConnectionAssumption DEF WriteOut
  <2>2. outcome' \in {"part", "all"} /\ UNCHANGED <<eventVars, handlerVars, stranded, peer>>
    BY <1>3 DEF WriteOut
  <2> QED  BY <2>1, <2>2 DEF eventVars, handlerVars
<1>4. CASE HandleRead
  BY <1>4 DEF HandleRead, bufferVars, eventVars, outVars, peerVars
<1>5. CASE RunInit \/ AddEvent \/ HandleError \/ EndCallback \/ EndEvent \/ HandleClose
  BY <1>5 DEF RunInit, AddEvent, HandleError, EndCallback, EndEvent, HandleClose, bufferVars, eventVars,
              handlerVars, outVars, peerVars
<1>6. CASE NothingToSend \/ WriteFails \/ Rearm
  BY <1>6 DEF NothingToSend, WriteFails, Rearm, bufferVars, eventVars, handlerVars, outVars, peerVars
<1> QED  BY <1>1, <1>2, <1>3, <1>4, <1>5, <1>6 DEF Next, HandlerStep

-----------------------------------------------------------------------------
\* Unless a failed write has given EPOLLOUT up, whoever leaves output behind
\* has left EPOLLOUT in m_events, or a thread is about to put it there; and
\* the poller, which AddEvent and modifyEvent's functors tell what m_events
\* holds, is watching for it or will be told.
ArmedInv ==
  /\ ~stranded /\ rptr # wptr /\ ~aborted => writeOn \/ \E t \in Threads : pc[t] = "enable"
  /\ polling /\ ~stranded /\ rptr # wptr =>
       interest \/ (posted > 0 /\ writeOn) \/ \E t \in Threads : pc[t] \in {"enable", "modify"}
  /\ pc[Loop] = "rearm" /\ outcome = "all" => rptr = wptr
  /\ aborted => ~polling

\* Nothing is unsent exactly if the two positions of m_wbuf meet.
LEMMA NothingUnsent == BufferInv => (Unsent = <<>> <=> rptr = wptr)
<1> SUFFICES ASSUME BufferInv PROVE Unsent = <<>> <=> rptr = wptr
  OBVIOUS
<1>1. Unsent \in Seq(Bytes) /\ Len(Unsent) = wptr - rptr /\ wptr \in Nat /\ rptr \in Nat
  BY ConnectionAssumption DEF BufferInv, Holds
<1> HIDE DEF Unsent
<1> QED  BY <1>1, EmptySeq

\* There is no output at first.
LEMMA InitArmed == Init => ArmedInv
BY ConnectionAssumption DEF Init, ArmedInv, aborted, Threads

\* No order of sendMsg, handleWrite and the functors of modifyEvent leaves
\* output behind EPOLLOUT.
LEMMA StepArmed == Inv1 /\ BufferInv /\ ValueInv /\ ArmedInv /\ Next => ArmedInv'
<1> SUFFICES ASSUME Inv1, BufferInv, ValueInv, ArmedInv, Next PROVE ArmedInv'
  OBVIOUS
<1> USE ConnectionAssumption
    DEF Inv1, PlaceInv, Places, LockInv, Locking, Calling, ValueInv, ArmedInv, Goto, aborted
<1>1. ASSUME NEW t \in Threads, SendMsg(t) PROVE ArmedInv'
  <2>1. /\ pc[t] \in {"idle", "callback", "connected"} /\ pc' = [pc EXCEPT ![t] = "copy"] /\ wlock = None
        /\ UNCHANGED <<stranded, rptr, wptr, writeOn, polling, interest, posted, outcome>>
    BY <1>1 DEF SendMsg, MaySend, bufferVars, eventVars, outVars
  <2>2. \A u \in Threads : u # t => pc'[u] = pc[u]
    BY <2>1
  <2> QED  BY <2>1, <2>2, SMTT(20)
<1>2. ASSUME NEW t \in Threads, CopyMsg(t) PROVE ArmedInv'
  BY <1>2 DEF CopyMsg, eventVars, outVars
<1>3. ASSUME NEW t \in Threads, AdvanceMsg(t) PROVE ArmedInv'
  BY <1>3 DEF AdvanceMsg, eventVars, outVars, Threads
<1>4. ASSUME NEW t \in Threads, EnableWrite(t) PROVE ArmedInv'
  BY <1>4 DEF EnableWrite, bufferVars
<1>5. ASSUME NEW t \in Threads, ModifyEvent(t) PROVE ArmedInv'
  <2>0. Loop \in Threads
    BY DEF Threads
  <2>1. CASE polling
    <3>1. /\ pc[t] = "modify" /\ pc' = [pc EXCEPT ![t] = SentFrom(t)] /\ SentFrom(t) \in {"callback", "idle"}
          /\ polling' = polling /\ UNCHANGED <<rptr, wptr, writeOn, stranded, outcome>>
          /\ (interest' = writeOn \/ (interest' = interest /\ posted' = posted + 1))
      BY <1>5, <2>1 DEF ModifyEvent, SentFrom, bufferVars, outVars
    <3>2. \A u \in Threads : pc[u] = "enable" => pc'[u] = "enable"
      BY <3>1
    <3>3. ~aborted /\ ~aborted' /\ (pc'[Loop] = "rearm" => pc[Loop] = "rearm")
      BY <2>0, <3>1
    <3>4. ~stranded /\ rptr # wptr => writeOn \/ \E u \in Threads : pc'[u] = "enable"
      BY <3>2, <3>3
    <3>5. posted + 1 > 0
      OBVIOUS
    <3>6. ~stranded /\ rptr # wptr =>
            interest' \/ (posted' > 0 /\ writeOn) \/ \E u \in Threads : pc'[u] \in {"enable", "modify"}
      BY <3>1, <3>4, <3>5
    <3> QED  BY <3>1, <3>3, <3>4, <3>6
  <2>2. CASE ~polling
    BY <1>5, <2>0, <2>2 DEF ModifyEvent, bufferVars, outVars
  <2> QED  BY <2>1, <2>2
<1>6. CASE RunPosted
  <2>1. ~aborted /\ ~aborted'
    BY <1>6 DEF RunPosted, Threads
  <2> QED  BY <1>6, <2>1 DEF RunPosted, bufferVars, outVars
<1>7. CASE AddEvent
  <2>1. pc[Loop] = "connected" /\ pc' = [pc EXCEPT ![Loop] = "idle"] /\ interest' = writeOn
        /\ UNCHANGED <<rptr, wptr, writeOn, stranded>>
    BY <1>7 DEF AddEvent, bufferVars, outVars
  <2>2. Loop \in Threads /\ ~aborted /\ ~aborted'
    BY <2>1 DEF Threads
  <2>3. \A t \in Threads : pc[t] = "enable" => pc'[t] = "enable"
    BY <2>1
  <2> QED  BY <2>1, <2>2, <2>3
<1>8. ASSUME NEW n \in 1 .. Room, WriteOut(n) PROVE ArmedInv'
  <2>1. rptr # wptr
    <3> HIDE DEF Unsent
    <3> QED  BY <1>8 DEF WriteOut, BufferInv
  <2>2. outcome' = "all" => n = Len(Unsent)
    <3> HIDE DEF Unsent
    <3> QED  BY <1>8 DEF WriteOut, BufferInv
  <2> QED  BY <1>8, <2>1, <2>2 DEF WriteOut, eventVars, Threads
<1>9. CASE NothingToSend
  BY <1>9, NothingUnsent DEF NothingToSend, bufferVars, Threads
<1>10. CASE WriteFails
  BY <1>10 DEF WriteFails, bufferVars, eventVars, Threads
<1>11. CASE Rearm
  BY <1>11 DEF Rearm, bufferVars, Threads
<1>12. CASE HandleClose
  BY <1>12 DEF HandleClose, bufferVars, outVars, Threads
<1>13. ASSUME UNCHANGED <<rptr, wptr, writeOn, interest, posted, polling, outVars>>,
              NEW p \in Places \ {"rearm", "aborted"}, pc' = [pc EXCEPT ![Loop] = p],
              pc[Loop] \notin {"enable", "modify", "aborted"}
       PROVE  ArmedInv'
  BY <1>13 DEF outVars, Threads
<1>14. CASE UNCHANGED <<rptr, wptr, writeOn, interest, posted, polling, outVars, pc>>
  BY <1>14 DEF outVars
<1> QED
  BY <1>1, <1>2, <1>3, <1>4, <1>5, <1>6, <1>7, <1>8, <1>9, <1>10, <1>11, <1>12, <1>13, <1>14
     DEF Next, SendStep, HandlerStep, RunInit, AnotherHandler, Report, HandleError, HandleRead, EndCallback,
         LockForWrite, EndEvent, Drain, PeerLeaves, bufferVars, eventVars

-----------------------------------------------------------------------------
\* The poller has reported nothing more for a closed connection; and a
\* connection is closed for the state of the peer or of errno.
CloseInv ==
  /\ ClosedIsLeftAlone
  /\ pc[Loop] = "event" /\ revents # {} => polling
  /\ "err" \in revents => peer = "reset"
  /\ pc[Loop] = "close" /\ peer = "open" => errnoReset
  /\ HealthyIsKept

\* The connection is open at first.
LEMMA InitClose == Init => CloseInv
BY ConnectionAssumption DEF Init, CloseInv, ClosedIsLeftAlone, HealthyIsKept, closed, Threads

\* Closing clears what the poller has reported, and has a reason.
LEMMA StepClose == Inv1 /\ ValueInv /\ CloseInv /\ Next => CloseInv'
<1> SUFFICES ASSUME Inv1, ValueInv, CloseInv, Next PROVE CloseInv'
  OBVIOUS
<1> USE ConnectionAssumption
    DEF Inv1, PlaceInv, Places, Calling, ValueInv, CloseInv, ClosedIsLeftAlone, HealthyIsKept, closed, Goto, Threads
<1>1. ASSUME NEW t \in Threads, UNCHANGED <<polling, revents, errnoReset, peer>>,
             NEW p \in Calling \cup {"idle"}, pc' = [pc EXCEPT ![t] = p],
             t = Loop => p # "idle"
      PROVE  CloseInv'
  BY <1>1
<1>2. ASSUME NEW t \in Threads, ModifyEvent(t) PROVE CloseInv'
  <2>1. CASE polling
    BY <1>2, <2>1 DEF ModifyEvent, SentFrom, handlerVars, peerVars
  <2>2. CASE ~polling
    BY <1>2, <2>2 DEF ModifyEvent, handlerVars, peerVars
  <2> QED  BY <2>1, <2>2
<1>3. CASE RunInit \/ AddEvent \/ EndCallback \/ EndEvent
  BY <1>3 DEF RunInit, AddEvent, EndCallback, EndEvent, eventVars, handlerVars, peerVars
<1>4. CASE AnotherHandler \/ Report
  BY <1>4 DEF AnotherHandler, Report, eventVars, peerVars
<1>5. CASE HandleError
  BY <1>5 DEF HandleError, eventVars, peerVars
<1>6. CASE HandleRead
  BY <1>6 DEF HandleRead, ReadResults, eventVars, peerVars
<1>7. CASE LockForWrite \/ NothingToSend
  BY <1>7 DEF LockForWrite, NothingToSend, eventVars, handlerVars, peerVars
<1>8. ASSUME NEW n \in 1 .. Room, WriteOut(n) PROVE CloseInv'
  BY <1>8 DEF WriteOut, eventVars, handlerVars
<1>9. CASE WriteFails \/ Rearm
  BY <1>9 DEF WriteFails, Rearm, eventVars, handlerVars, peerVars
<1>10. CASE HandleClose
  BY <1>10 DEF HandleClose, peerVars
<1>11. CASE PeerLeaves
  BY <1>11 DEF PeerLeaves, eventVars, handlerVars
<1>12. CASE UNCHANGED <<polling, revents, errnoReset, peer, pc>>
  BY <1>12
<1> QED
  BY <1>1, <1>2, <1>3, <1>4, <1>5, <1>6, <1>7, <1>8, <1>9, <1>10, <1>11, <1>12
     DEF Next, SendStep, HandlerStep, SendMsg, CopyMsg, AdvanceMsg, EnableWrite, RunPosted, Drain,
         eventVars, handlerVars, peerVars

-----------------------------------------------------------------------------
IInv == Inv1 /\ BufferInv /\ ValueInv /\ ArmedInv /\ CloseInv

\* IInv holds in every reachable state.
LEMMA Inductive == Spec => []IInv
<1>1. Init => IInv
  BY InitPlace, InitBuffer, InitValue, InitArmed, InitClose DEF IInv, Inv1
<1>2. IInv /\ Next => IInv'
  BY StepPlace, StepLock, StepBuffer, StepValue, StepArmed, StepClose DEF IInv, Inv1
<1>3. IInv /\ UNCHANGED vars => IInv'
  <2> SUFFICES ASSUME IInv, UNCHANGED vars PROVE IInv'
    OBVIOUS
  <2>1. UNCHANGED <<bufferVars, wlock, eventVars, handlerVars, pc, next, outVars, peerVars>>
    BY DEF vars
  <2>2. UNCHANGED <<Unsent, aborted, closed>> /\ \A t \in Threads : UNCHANGED <<Message(t), Fitting(t)>>
    BY <2>1 DEF Unsent, aborted, closed, Message, Fitting, bufferVars, eventVars
  <2>3. Inv1' /\ BufferInv'
    BY <2>1, <2>2 DEF IInv, Inv1, PlaceInv, LockInv, BufferInv, Piece, NothingLost, bufferVars
  <2>4. ValueInv' /\ ArmedInv' /\ CloseInv'
    BY <2>1, <2>2 DEF IInv, ValueInv, ArmedInv, CloseInv, ClosedIsLeftAlone, HealthyIsKept,
                      bufferVars, eventVars, handlerVars, outVars, peerVars
  <2> QED  BY <2>3, <2>4 DEF IInv
<1> QED  BY <1>1, <1>2, <1>3, PTL DEF Spec

\* The state is well formed whatever the threads, the poller and the peer do:
\* m_wlock is held exactly inside sendMsg's and handleWrite's scopes, and the
\* positions stay inside m_wbuf.
THEOREM TypeCorrect == Spec => []TypeOK
<1>1. IInv => TypeOK
  BY ConnectionAssumption
     DEF IInv, Inv1, PlaceInv, Places, LockInv, Locking, BufferInv, ValueInv, TypeOK
<1> QED  BY <1>1, Inductive, PTL

\* sendMsg and handleWrite: what m_wbuf has accepted is on the socket or still
\* to be sent, in order.
THEOREM NothingIsLost == Spec => []NothingLost
<1>1. IInv => NothingLost
  BY DEF IInv, BufferInv
<1> QED  BY <1>1, Inductive, PTL

\* sendMsg, handleWrite and modifyEvent: unsent output waits for EPOLLOUT or
\* for a thread that is about to ask for it, unless a write has failed.
THEOREM OutputIsArmed == Spec => []OutputArmed
<1>1. IInv => OutputArmed
  BY NothingUnsent DEF IInv, ArmedInv, OutputArmed
<1> QED  BY <1>1, Inductive, PTL

\* handleEvent and handleClose: the handlers that come after the one that has
\* closed the connection find nothing to do.
THEOREM ClosedStaysAlone == Spec => []ClosedIsLeftAlone
<1>1. IInv => ClosedIsLeftAlone
  BY DEF IInv, CloseInv
<1> QED  BY <1>1, Inductive, PTL

\* handleRead and handleError: a connection whose peer is there is ended only
\* by the errno of another connection's call.
THEOREM HealthyStays == Spec => []HealthyIsKept
<1>1. IInv => HealthyIsKept
  BY DEF IInv, CloseInv
<1> QED  BY <1>1, Inductive, PTL

\* Buffer::append behind sendMsg: a message that would fit into m_wbuf is cut
\* only if there is unsent output before it.
THEOREM CutBehindOutput == Spec => CutOnlyBehindOutput
<1> DEFINE A == \A t \in Threads :
       pc[t] = "advance" /\ pc'[t] = "enable" /\ Fitting(t) < Len(Message(t))
         => Unsent # <<>> \/ Len(Message(t)) > Capacity
<1>1. IInv => A
  <2> SUFFICES ASSUME IInv, NEW t \in Threads, pc[t] = "advance", Fitting(t) < Len(Message(t)), Unsent = <<>>
               PROVE  Len(Message(t)) > Capacity
    OBVIOUS
  <2>1. wptr = 0
    BY NothingUnsent DEF IInv, BufferInv
  <2>2. Fitting(t) = Capacity - wptr
    BY FittingProperties DEF IInv, BufferInv, Calling
  <2> QED  BY <2>1, <2>2, ConnectionAssumption
<1> QED  BY <1>1, Inductive, PTL DEF CutOnlyBehindOutput

-----------------------------------------------------------------------------
\* Every step of a connection is a step of the queue, or leaves it as it is:
\* AdvanceMsg puts, WriteOut takes.
LEMMA QueueStep ==
  ASSUME IInv, [Next]_vars
  PROVE  Q!Next \/ UNCHANGED <<accepted, Unsent, sent, FALSE>>
<1>0. Inv1 /\ BufferInv
  BY DEF IInv
<1>1. ASSUME NEW t \in Threads, AdvanceMsg(t) PROVE Q!Put
  <2>1. /\ Unsent' = Unsent \o Piece(t) /\ Piece(t) \in Seq(Bytes) /\ Len(Unsent') <= Capacity
        /\ Fitting(t) \in 0 .. Len(Message(t))
    BY <1>0, <1>1, AppendAddsUnsent, UnsentProperties
  <2>4. accepted' = accepted \o Piece(t) /\ sent' = sent
    BY <1>1 DEF AdvanceMsg, Piece
  <2>2. Q!Added = Piece(t)
    <3>1. Unsent \in Seq(Bytes)
      BY <1>0, UnsentProperties
    <3> QED  BY <2>1, <3>1, SeqSplit DEF Q!Added
  <2>3. Piece(t) \in Beginnings
    <3>1. next[t] \in 1 .. Len(Messages[t])
      BY <1>0, <1>1 DEF AdvanceMsg, Inv1, PlaceInv, Calling
    <3> QED  BY <2>1, <3>1 DEF Beginnings, Piece, Message
  <2> QED  BY <2>1, <2>2, <2>3, <2>4 DEF Q!Put
<1>2. ASSUME NEW n \in 1 .. Room, WriteOut(n) PROVE Q!Take
  <2>1. n \in 0 .. Len(Unsent) /\ Unsent' = SubSeq(Unsent, n + 1, Len(Unsent))
    BY <1>0, <1>2, WriteTakesUnsent
  <2>2. sent' = sent \o SubSeq(Unsent, 1, n) /\ accepted' = accepted
    BY <1>2 DEF WriteOut
  <2> QED  BY <2>1, <2>2 DEF Q!Take
<1>3. ASSUME NEW t \in Threads, CopyMsg(t) PROVE UNCHANGED <<accepted, Unsent, sent, FALSE>>
  BY <1>0, <1>3, CopyLeavesUnsent DEF CopyMsg
<1>4. CASE UNCHANGED bufferVars
  BY <1>4 DEF bufferVars, Unsent
<1> QED
  BY <1>1, <1>2, <1>3, <1>4
     DEF Q!Next, Next, vars, SendMsg, SendStep, EnableWrite, ModifyEvent, HandlerStep, RunInit, AddEvent,
         RunPosted, AnotherHandler, Report, HandleError, HandleRead, EndCallback, LockForWrite, NothingToSend,
         WriteFails, Rearm, EndEvent, HandleClose, Drain, PeerLeaves

\* sendMsg and handleWrite: m_wbuf implements the queue of BoundedQueue, so that
\* nothing but an append of the beginning of one message and a write changes
\* what is to be sent.
THEOREM OutputImplementsQueue == Spec => OutputIsQueue
<1>1. Init => Q!Init
  BY DEF Init, Q!Init, Unsent
<1>2. IInv /\ [Next]_vars => [Q!Next]_Q!queueVars
  BY QueueStep DEF Q!queueVars
<1> QED  BY <1>1, <1>2, Inductive, PTL DEF Spec, OutputIsQueue, Q!Spec
=============================================================================
