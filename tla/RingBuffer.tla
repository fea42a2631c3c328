------------------------------ MODULE RingBuffer ------------------------------
(***************************************************************************)
(* The lock-free ring of AsyncLogger (src/src/log/RingBuffer): one thread  *)
(* appends, one thread retrieves, m_in and m_out are atomics and the bytes *)
(* are copied outside any lock.  An append or a retrive is at most two     *)
(* parts, one on each side of the end of the array; a part is a memcpy     *)
(* (CopyIn, CopyOut) followed by the store of the index (PublishIn,        *)
(* PublishOut), and the other thread may move between the two.             *)
(*                                                                         *)
(* Bytes are abstract.  A user of the ring drives it with StartAppend and  *)
(* StartRetrive and finds what an append returned in nWritten.             *)
(***************************************************************************)
EXTENDS Integers, Sequences

CONSTANTS Size, Bytes, None

ASSUME SizeAssumption == Size \in Nat \ {0} /\ None \notin Bytes

VARIABLES
  in,        \* m_in
  out,       \* m_out
  buf,       \* m_buf, None where nothing was written yet
  wpc,       \* the appending thread: "idle", "copy", "publish" or "crashed"
  wdata,     \* what is left to append in this call, the current part included
  wlen,      \* the length of the current part
  wout,      \* append's copy of m_out
  wsize,     \* append's parameter size
  nWritten,  \* what append has written so far, then its result
  rpc,       \* the retrieving thread: "idle", "copy" or "publish"
  rrest,     \* what is left to retrieve after the current part
  rlen,      \* the length of the current part
  rin,       \* retrive's copy of m_in
  rdata,     \* the destination of the retrieving thread
  appended,  \* history: the bytes append accepted, in order
  overrun    \* history: m_in has caught up with m_out over unread bytes, or
             \* memcpy has been called with a negative length

writerVars == <<wpc, wdata, wlen, wout, wsize, nWritten, appended, overrun>>
readerVars == <<rpc, rrest, rlen, rin, rdata>>
ringVars == <<in, out, buf, writerVars, readerVars>>

Slots == 0 .. Size - 1
Least(a, b) == IF a < b THEN a ELSE b
Most(a, b) == IF a < b THEN b ELSE a
Part(from, len) == from .. from + len - 1

\* The slot k behind slot o, around the end of the array.
Slot(o, k) == IF o + k < Size THEN o + k ELSE o + k - Size

RingInit ==
  /\ in = 0 /\ out = 0
  /\ buf = [i \in Slots |-> None]
  /\ wpc = "idle" /\ wdata = <<>> /\ wlen = 0 /\ wout = 0 /\ wsize = 0 /\ nWritten = 0
  /\ rpc = "idle" /\ rrest = 0 /\ rlen = 0 /\ rin = 0 /\ rdata = <<>>
  /\ appended = <<>>
  /\ overrun = FALSE

empty == in = out
data_size == IF in >= out THEN in - out ELSE Size - out + in

-----------------------------------------------------------------------------
\* append.

\* Fault: append does not look at m_out.
StartAppend_IgnoreOut(data) ==
  /\ wpc = "idle"
  /\ data # <<>>
  /\ wout' = out
  /\ wsize' = Len(data)
  /\ nWritten' = 0
  /\ wlen' = Least(Len(data), Size - in)
  /\ wdata' = data
  /\ wpc' = "copy"
  /\ UNCHANGED <<in, out, buf, appended, overrun, readerVars>>

\* Nothing is kept for a second part when m_in is below m_out: the free
\* slots then do not go round the end.
StartAppend(data) ==
  /\ wpc = "idle"
  /\ data # <<>>
  /\ wout' = out
  /\ wsize' = Len(data)
  /\ nWritten' = 0
  /\ LET room == IF in >= out THEN Size - in ELSE out - in - 1
     IN  /\ wlen' = Least(Len(data), room)
         /\ wdata' = IF in >= out THEN data ELSE SubSeq(data, 1, wlen')
  /\ wpc' = "copy"
  /\ UNCHANGED <<in, out, buf, appended, overrun, readerVars>>

CopyIn ==
  /\ wpc = "copy"
  /\ buf' = [i \in Slots |-> IF i \in Part(in, wlen) THEN wdata[i - in + 1] ELSE buf[i]]
  /\ wpc' = "publish"
  /\ UNCHANGED <<in, out, wdata, wlen, wout, wsize, nWritten, appended, overrun, readerVars>>

\* Fault: the second part keeps two slots free below m_out.
PublishIn_WideGap ==
  LET rest == SubSeq(wdata, wlen + 1, Len(wdata))
      len2 == IF wout = 0 THEN -1 ELSE Least(Len(rest), Most(wout - 2, 0))
  IN  /\ wpc = "publish"
      /\ in' = (in + wlen) % Size
      /\ nWritten' = nWritten + wlen
      /\ appended' = appended \o SubSeq(wdata, 1, wlen)
      /\ overrun' = (overrun \/ (wlen > 0 /\ in' = out) \/ (rest # <<>> /\ len2 < 0))
      /\ wlen' = IF rest = <<>> THEN 0 ELSE len2
      /\ wdata' = SubSeq(rest, 1, wlen')
      /\ wpc' = CASE rest = <<>> -> "idle" [] rest # <<>> /\ len2 < 0 -> "crashed" [] OTHER -> "copy"
      /\ UNCHANGED <<out, buf, wout, wsize, readerVars>>

\* The store of m_in; the second part, if there is one, stops short of m_out
\* as it was when append began, which is below the first slot if that was 0.
PublishIn ==
  LET rest == SubSeq(wdata, wlen + 1, Len(wdata))
      len2 == Least(Len(rest), wout - 1)
  IN  /\ wpc = "publish"
      /\ in' = (in + wlen) % Size
      /\ nWritten' = nWritten + wlen
      /\ appended' = appended \o SubSeq(wdata, 1, wlen)
      /\ overrun' = (overrun \/ (wlen > 0 /\ in' = out) \/ (rest # <<>> /\ len2 < 0))
      /\ wlen' = IF rest = <<>> THEN 0 ELSE len2
      /\ wdata' = SubSeq(rest, 1, wlen')
      /\ wpc' = CASE rest = <<>> -> "idle" [] rest # <<>> /\ len2 < 0 -> "crashed" [] OTHER -> "copy"
      /\ UNCHANGED <<out, buf, wout, wsize, readerVars>>

-----------------------------------------------------------------------------
\* retrive.

\* Fault: retrive does not look at m_in in its first branch.
StartRetrive_PastIn(n) ==
  /\ rpc = "idle"
  /\ n > 0
  /\ rin' = in
  /\ rlen' = Least(n, Size - out)
  /\ rrest' = IF in >= out THEN 0 ELSE n - rlen'
  /\ rpc' = "copy"
  /\ UNCHANGED <<in, out, buf, rdata, writerVars>>

StartRetrive(n) ==
  /\ rpc = "idle"
  /\ n > 0
  /\ rin' = in
  /\ rlen' = Least(n, IF in >= out THEN in - out ELSE Size - out)
  /\ rrest' = IF in >= out THEN 0 ELSE n - rlen'
  /\ rpc' = "copy"
  /\ UNCHANGED <<in, out, buf, rdata, writerVars>>

CopyOut ==
  /\ rpc = "copy"
  /\ rdata' = rdata \o [i \in 1 .. rlen |-> buf[out + i - 1]]
  /\ rpc' = "publish"
  /\ UNCHANGED <<in, out, buf, rrest, rlen, rin, writerVars>>

PublishOut ==
  /\ rpc = "publish"
  /\ out' = (out + rlen) % Size
  /\ rlen' = IF rrest > 0 THEN Least(rrest, rin) ELSE 0
  /\ rrest' = 0
  /\ rpc' = IF rrest > 0 THEN "copy" ELSE "idle"
  /\ UNCHANGED <<in, buf, rin, rdata, writerVars>>

WriterStep == CopyIn \/ PublishIn
ReaderStep == CopyOut \/ PublishOut

-----------------------------------------------------------------------------
\* The state is well formed.
RingTypeOK ==
  /\ in \in Slots /\ out \in Slots
  /\ buf \in [Slots -> Bytes \cup {None}]
  /\ wpc \in {"idle", "copy", "publish", "crashed"}
  /\ wdata \in Seq(Bytes) /\ wlen \in -1 .. Len(wdata) /\ wout \in Slots
  /\ nWritten \in 0 .. Size
  /\ rpc \in {"idle", "copy", "publish"}
  /\ rrest \in Nat /\ rlen \in 0 .. Size /\ rin \in Slots
  /\ rdata \in Seq(Bytes \cup {None})
  /\ appended \in Seq(Bytes)
  /\ overrun \in BOOLEAN

\* Until m_in runs over unread bytes, what the reader has is what the writer
\* handed over, in order and without a gap, whatever the two threads do
\* between a memcpy and the store that publishes it.
Fifo == ~overrun => /\ Len(rdata) <= Len(appended)
                    /\ rdata = SubSeq(appended, 1, Len(rdata))

\* Until then, the two threads' memcpys never touch the same slot at the same
\* time.
NoDataRace ==
  ~overrun /\ wpc = "copy" /\ rpc = "copy" => Part(in, wlen) \cap Part(out, rlen) = {}

\* An append that returns short has filled the ring up to one slot below
\* m_out as it found it: it never gives up early.
ShortAppendFillsRing ==
  [][wpc = "publish" /\ wpc' = "idle" /\ ~overrun' /\ nWritten' < wsize
       => (in' + 1) % Size = wout]_ringVars

\* What the reader has, without a part whose slots are still its own.
Got == Len(rdata) - (IF rpc = "publish" THEN rlen ELSE 0)

\* The bytes from m_out to m_in.
Contents == [k \in 1 .. data_size |-> buf[Slot(out, k - 1)]]

Q == INSTANCE BoundedQueue WITH Pieces <- Seq(Bytes), Bound <- Size - 1,
       put <- appended, queue <- Contents, taken <- SubSeq(rdata, 1, Got), failed <- overrun

\* The ring is a queue of all slots but one, whatever the two threads do
\* between a memcpy and a store: no copy and no store of one thread changes
\* what the other has yet to read or has written, and what the reader gets is
\* what was there, until m_in runs over it.
RingIsQueue == Q!Spec
=============================================================================
