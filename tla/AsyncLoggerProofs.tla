--------------------------- MODULE AsyncLoggerProofs ---------------------------
(***************************************************************************)
(* The invariants of AsyncLogger and of the ring it drives, for a ring, a  *)
(* buffer and lines of any size.                                           *)
(*                                                                         *)
(* The ring's invariant says where the unread bytes lie: Unread slots from *)
(* m_out on, around the end of the array (CountInv), which hold what was   *)
(* appended (ContentInv).  Each thread knows the other's position only as  *)
(* it was: WriterInv and ReaderInv say what may have changed since.  These *)
(* two hold even after append has run over unread bytes, the first two     *)
(* until then.                                                             *)
(*                                                                         *)
(* What the ring has taken of the lines lies at the start of all lines in  *)
(* a row, and the rest of the line being appended behind it (LinesInv).    *)
(*                                                                         *)
(* What lies from m_out to m_in is then what was appended and not read,    *)
(* and every step of the ring is a step of the queue of BoundedQueue or    *)
(* leaves it as it is (RingQueueStep).                                     *)
(***************************************************************************)
EXTENDS AsyncLogger, CommonLemmas

-----------------------------------------------------------------------------
\* The ring.

Unread == Len(appended) - Got

Appending == wpc \in {"copy", "publish"}

RingInv ==
  /\ in \in Slots /\ out \in Slots
  /\ buf \in [Slots -> Bytes \cup {None}]
  /\ appended \in Seq(Bytes) /\ rdata \in Seq(Bytes \cup {None})
  /\ overrun \in BOOLEAN

\* A part lies in one piece in the array; a second part follows only if the
\* first has gone to the end of the array, and append gives up only when it has
\* come up to m_out.
WriterInv ==
  /\ wpc \in {"idle", "copy", "publish", "crashed"}
  /\ wdata \in Seq(Bytes) /\ wlen \in -1 .. Len(wdata)
  /\ wout \in Slots /\ wsize \in Nat /\ nWritten \in 0 .. Size
  /\ wpc = "crashed" => overrun
  /\ Appending =>
       /\ wlen >= 0 /\ in + wlen <= Size /\ nWritten + wlen <= Size
       /\ wlen < Len(wdata) =>
            wout <= in /\ in + wlen = Size /\ nWritten = 0 /\ wsize = Len(wdata)
       /\ wlen = Len(wdata) => nWritten + wlen = wsize \/ in + wlen + 1 = wout

ReaderInv ==
  /\ rpc \in {"idle", "copy", "publish"}
  /\ rrest \in Nat /\ rlen \in 0 .. Size /\ rin \in Slots
  /\ rpc # "idle" => out + rlen <= Size
  /\ rpc = "publish" => rlen <= Len(rdata)
  /\ rrest > 0 => rpc # "idle" /\ out + rlen = Size

\* The slots from m_out to m_in are the unread ones, the reader is at work in
\* them, the writer outside of them.
CountInv ==
  /\ Unread \in 0 .. Size - 1 /\ in = Slot(out, Unread)
  /\ rpc # "idle" => rlen <= Unread
  /\ rrest > 0 => rlen + rin <= Unread
  /\ Appending => wlen <= Size - Unread /\ (wlen < Len(wdata) => wout <= out /\ out <= in)

\* They hold what was appended; and so do the slots just copied to.
ContentInv ==
  /\ \A k \in 1 .. Unread : buf[Slot(out, k - 1)] = appended[Got + k]
  /\ \A i \in 1 .. Len(rdata) : rdata[i] = appended[i]
  /\ wpc = "publish" => \A i \in 1 .. wlen : buf[in + i - 1] = wdata[i]

RingOrdered == ~overrun => CountInv /\ ContentInv

\* One step of a part around the end of the array: the modulus of append and
\* retrive.
LEMMA Wrap ==
  ASSUME NEW a \in Nat, NEW b \in Nat, a + b <= Size
  PROVE  (a + b) % Size = IF a + b < Size THEN a + b ELSE a + b - Size
<1>1. CASE a + b < Size
  BY <1>1, SizeAssumption
<1>2. CASE a + b = Size
  BY <1>2, SizeAssumption
<1> QED  BY <1>1, <1>2, SizeAssumption

\* The constructor leaves an empty ring.
LEMMA InitRing == RingInit => RingInv /\ WriterInv /\ ReaderInv /\ CountInv /\ ContentInv
<1> SUFFICES ASSUME RingInit PROVE RingInv /\ WriterInv /\ ReaderInv /\ CountInv /\ ContentInv
  OBVIOUS
<1>1. Unread = 0 /\ Got = 0
  BY DEF RingInit, Unread, Got
<1>2. RingInv
  <2>1. <<>> \in Seq(Bytes) /\ <<>> \in Seq(Bytes \cup {None})
    OBVIOUS
  <2>2. buf \in [Slots -> Bytes \cup {None}]
    BY DEF RingInit
  <2>3. in \in Slots /\ out \in Slots
    BY SizeAssumption DEF RingInit, Slots
  <2>4. rdata = <<>> /\ appended = <<>> /\ overrun = FALSE
    BY DEF RingInit
  <2> QED  BY <2>1, <2>2, <2>3, <2>4, Zenon DEF RingInv
<1>5. WriterInv
  BY SizeAssumption DEF RingInit, WriterInv, Appending, Slots
<1>6. ReaderInv
  BY SizeAssumption DEF RingInit, ReaderInv, Slots
<1>3. CountInv
  BY <1>1, SizeAssumption DEF RingInit, CountInv, Appending, Slot
<1>4. ContentInv
  BY <1>1 DEF RingInit, ContentInv
<1> QED  BY <1>2, <1>3, <1>4, <1>5, <1>6

\* append's reading of m_out, and the length of its first part.
LEMMA StepStartAppend ==
  ASSUME RingInv, WriterInv, ReaderInv, RingOrdered, NEW data \in Seq(Bytes) \ {<<>>}, StartAppend(data)
  PROVE  RingInv' /\ WriterInv' /\ ReaderInv' /\ RingOrdered'
<1>1. /\ wpc' = "copy" /\ wout' = out /\ wsize' = Len(data) /\ nWritten' = 0 /\ wpc = "idle"
      /\ UNCHANGED <<in, out, buf, appended, overrun, readerVars>>
  BY DEF StartAppend
<1>2. Len(data) \in Nat \ {0} /\ data \in Seq(Bytes)
  BY EmptySeq
<1>3. Size \in Nat \ {0} /\ in \in 0 .. Size - 1 /\ out \in 0 .. Size - 1
  BY SizeAssumption DEF RingInv, Slots
<1>4. CASE in >= out
  <2>1. wlen' = Least(Len(data), Size - in) /\ wdata' = data
    BY <1>4 DEF StartAppend
  <2>2. wlen' \in 0 .. Len(data) /\ wlen' <= Size - in /\ (wlen' = Len(data) \/ wlen' = Size - in)
    BY <1>2, <1>3, <1>4, <2>1 DEF Least
  <2>3. WriterInv'
    BY <1>1, <1>2, <1>3, <1>4, <2>1, <2>2 DEF WriterInv, Appending, Slots
  <2>4. ~overrun => CountInv'
    BY <1>1, <1>2, <1>3, <1>4, <2>1, <2>2
       DEF RingOrdered, CountInv, Appending, Slot, Unread, Got, readerVars
  <2>5. RingInv' /\ ReaderInv' /\ (~overrun => ContentInv')
    BY <1>1 DEF RingInv, ReaderInv, RingOrdered, ContentInv, Slot, Unread, Got, readerVars
  <2> QED  BY <1>1, <2>3, <2>4, <2>5 DEF RingOrdered
<1>5. CASE in < out
  <2> DEFINE w == Least(Len(data), out - in - 1)
             part == SubSeq(data, 1, w)
  <2>0. ~(in >= out)
    BY <1>3, <1>5
  <2>1. wlen' = w /\ wdata' = SubSeq(data, 1, wlen')
    BY <2>0, Zenon DEF StartAppend
  <2>2. wlen' = w /\ wdata' = part
    BY <2>1
  <2>3. w \in 0 .. Len(data) /\ w <= out - in - 1 /\ (w = Len(data) \/ w = out - in - 1)
    BY <1>2, <1>3, <1>5 DEF Least
  <2>4. part \in Seq(Bytes) /\ Len(part) = w
    BY <1>2, <2>3, SeqSplit
  <2> HIDE DEF w, part
  <2>5. in + w + 1 <= out /\ in + w <= Size /\ w <= Size /\ (w = Len(data) \/ in + w + 1 = out)
        /\ ~(w < Len(part)) /\ w \in -1 .. Len(part) /\ w >= 0
    BY <1>2, <1>3, <2>3, <2>4
  <2>6. WriterInv'
    BY <1>1, <1>2, <1>3, <2>2, <2>3, <2>4, <2>5 DEF WriterInv, Appending, Slots
  <2>7. ~overrun => CountInv'
    <3> SUFFICES ASSUME ~overrun PROVE CountInv'
      OBVIOUS
    <3>1. Got' = Got /\ Unread' = Unread
      BY <1>1 DEF Unread, Got, readerVars
    <3>2. /\ Unread \in 0 .. Size - 1 /\ in = IF out + Unread < Size THEN out + Unread ELSE out + Unread - Size
          /\ rpc # "idle" => rlen <= Unread
          /\ rrest > 0 => rlen + rin <= Unread
      BY DEF RingOrdered, CountInv, Slot
    <3>3. w <= Size - Unread
      BY <1>3, <1>5, <2>3, <3>2
    <3> QED  BY <1>1, <2>2, <2>5, <3>1, <3>2, <3>3 DEF CountInv, Slot, Appending, readerVars
  <2>8. RingInv' /\ ReaderInv' /\ (~overrun => ContentInv')
    BY <1>1 DEF RingInv, ReaderInv, RingOrdered, ContentInv, Slot, Unread, Got, readerVars
  <2> QED  BY <1>1, <2>6, <2>7, <2>8 DEF RingOrdered
<1> QED  BY <1>3, <1>4, <1>5

\* retrive's reading of m_in, and the length of its first part.
LEMMA StepStartRetrive ==
  ASSUME RingInv, WriterInv, ReaderInv, RingOrdered, NEW n \in Nat, StartRetrive(n)
  PROVE  RingInv' /\ WriterInv' /\ ReaderInv' /\ RingOrdered'
<1>1. /\ rpc' = "copy" /\ rpc = "idle" /\ rin' = in /\ n > 0
      /\ rlen' = Least(n, IF in >= out THEN in - out ELSE Size - out)
      /\ rrest' = IF in >= out THEN 0 ELSE n - rlen'
      /\ UNCHANGED <<in, out, buf, rdata, writerVars>>
  BY DEF StartRetrive
<1>2. Size \in Nat \ {0} /\ in \in 0 .. Size - 1 /\ out \in 0 .. Size - 1
  BY SizeAssumption DEF RingInv, Slots
<1>3. ReaderInv'
  BY <1>1, <1>2 DEF ReaderInv, Least, Slots
<1>4. ~overrun => CountInv'
  <2> SUFFICES ASSUME ~overrun PROVE CountInv'
    OBVIOUS
  <2>1. Got' = Got /\ Unread' = Unread
    BY <1>1 DEF Unread, Got, writerVars
  <2>2. /\ Unread \in 0 .. Size - 1 /\ in = IF out + Unread < Size THEN out + Unread ELSE out + Unread - Size
        /\ Appending => wlen <= Size - Unread /\ (wlen < Len(wdata) => wout <= out /\ out <= in)
    BY DEF RingOrdered, CountInv, Slot
  <2>3. rlen' <= Unread /\ (rrest' > 0 => rlen' + rin' <= Unread)
    BY <1>1, <1>2, <2>2 DEF Least
  <2> QED  BY <1>1, <2>1, <2>2, <2>3 DEF CountInv, Slot, Appending, writerVars
<1>5. RingInv' /\ WriterInv' /\ (~overrun => ContentInv')
  BY <1>1 DEF RingInv, WriterInv, Appending, RingOrdered, ContentInv, Slot, Unread, Got, writerVars
<1> QED  BY <1>1, <1>3, <1>4, <1>5 DEF RingOrdered, writerVars

\* append's memcpy stays outside of the unread slots.
LEMMA StepCopyIn ==
  ASSUME RingInv, WriterInv, ReaderInv, RingOrdered, CopyIn
  PROVE  RingInv' /\ WriterInv' /\ ReaderInv' /\ RingOrdered'
<1>1. /\ wpc = "copy" /\ wpc' = "publish"
      /\ buf' = [i \in Slots |-> IF i \in Part(in, wlen) THEN wdata[i - in + 1] ELSE buf[i]]
      /\ UNCHANGED <<in, out, wdata, wlen, wout, wsize, nWritten, appended, overrun, readerVars>>
  BY DEF CopyIn
<1>2. Size \in Nat \ {0} /\ in \in 0 .. Size - 1 /\ out \in 0 .. Size - 1
  BY SizeAssumption DEF RingInv, Slots
<1>3. wdata \in Seq(Bytes) /\ wlen \in 0 .. Len(wdata) /\ in + wlen <= Size
  BY <1>1 DEF WriterInv, Appending
<1>4. buf' \in [Slots -> Bytes \cup {None}]
  <2>1. \A i \in Part(in, wlen) : wdata[i - in + 1] \in Bytes
    BY <1>2, <1>3 DEF Part
  <2> QED  BY <1>1, <2>1 DEF RingInv
<1>5. RingInv' /\ WriterInv' /\ ReaderInv'
  BY <1>1, <1>4 DEF RingInv, WriterInv, ReaderInv, Appending, readerVars
<1>6. ~overrun => CountInv'
  BY <1>1 DEF RingOrdered, CountInv, Slot, Unread, Got, Appending, readerVars
<1>7. ASSUME ~overrun PROVE ContentInv'
  <2>1. /\ Unread \in 0 .. Size - 1 /\ in = IF out + Unread < Size THEN out + Unread ELSE out + Unread - Size
        /\ wlen <= Size - Unread
    BY <1>1, <1>7 DEF RingOrdered, CountInv, Slot, Appending
  <2>2. Got' = Got /\ Unread' = Unread
    BY <1>1 DEF Unread, Got, readerVars
  <2>3. ASSUME NEW k \in 1 .. Unread PROVE buf'[Slot(out, k - 1)] = appended[Got + k]
    <3>1. Slot(out, k - 1) \in Slots \ Part(in, wlen)
      BY <1>2, <1>3, <2>1 DEF Slot, Slots, Part
    <3>2. buf'[Slot(out, k - 1)] = buf[Slot(out, k - 1)]
      BY <1>1, <3>1
    <3> QED  BY <1>7, <3>2 DEF RingOrdered, ContentInv
  <2>4. ASSUME NEW i \in 1 .. wlen PROVE buf'[in + i - 1] = wdata[i]
    <3>1. in + i - 1 \in Slots /\ in + i - 1 \in Part(in, wlen) /\ (in + i - 1) - in + 1 = i
      BY <1>2, <1>3 DEF Slots, Part
    <3> QED  BY <1>1, <3>1
  <2> QED  BY <1>1, <1>7, <2>2, <2>3, <2>4 DEF RingOrdered, ContentInv, Slot, readerVars
<1> QED  BY <1>1, <1>5, <1>6, <1>7 DEF RingOrdered

\* retrive's memcpy takes the oldest unread bytes.
LEMMA StepCopyOut ==
  ASSUME RingInv, WriterInv, ReaderInv, RingOrdered, CopyOut
  PROVE  RingInv' /\ WriterInv' /\ ReaderInv' /\ RingOrdered' /\ Len(rdata') = Len(rdata) + rlen
<1> DEFINE part == [i \in 1 .. rlen |-> buf[out + i - 1]]
<1>1. /\ rpc = "copy" /\ rpc' = "publish" /\ rdata' = rdata \o part
      /\ UNCHANGED <<in, out, buf, rrest, rlen, rin, writerVars>>
  BY DEF CopyOut
<1>2. Size \in Nat \ {0} /\ in \in 0 .. Size - 1 /\ out \in 0 .. Size - 1
  BY SizeAssumption DEF RingInv, Slots
<1>3. rlen \in Nat /\ out + rlen <= Size /\ rdata \in Seq(Bytes \cup {None}) /\ Len(rdata) \in Nat
  BY <1>1, <1>2 DEF ReaderInv, RingInv
<1>4. part \in Seq(Bytes \cup {None}) /\ Len(part) = rlen /\ \A i \in 1 .. rlen : part[i] = buf[out + i - 1]
  <2>1. \A i \in 1 .. rlen : buf[out + i - 1] \in Bytes \cup {None}
    BY <1>2, <1>3 DEF RingInv, Slots
  <2>2. part \in [1 .. rlen -> Bytes \cup {None}] /\ \A i \in 1 .. rlen : part[i] = buf[out + i - 1]
    BY <2>1
  <2> HIDE DEF part
  <2>3. part \in Seq(Bytes \cup {None}) /\ Len(part) = rlen
    BY <1>3, <2>2
  <2> QED  BY <2>2, <2>3
<1> HIDE DEF part
<1>5. /\ rdata' \in Seq(Bytes \cup {None}) /\ Len(rdata') = Len(rdata) + rlen
      /\ \A i \in 1 .. Len(rdata) + rlen :
           rdata'[i] = IF i <= Len(rdata) THEN rdata[i] ELSE part[i - Len(rdata)]
  BY <1>1, <1>3, <1>4, ConcatProperties
<1>6. RingInv' /\ WriterInv' /\ ReaderInv'
  BY <1>1, <1>5 DEF RingInv, WriterInv, ReaderInv, Appending, writerVars
<1>7. Got = Len(rdata) /\ Got' = Got /\ Unread' = Unread
  BY <1>1, <1>3, <1>5 DEF Unread, Got, writerVars
<1>8. ~overrun => CountInv'
  BY <1>1, <1>7 DEF RingOrdered, CountInv, Slot, Appending, writerVars
<1>9. ASSUME ~overrun PROVE ContentInv'
  <2>1. /\ Unread \in 0 .. Size - 1 /\ rlen <= Unread
        /\ \A k \in 1 .. Unread : buf[Slot(out, k - 1)] = appended[Got + k]
        /\ \A i \in 1 .. Len(rdata) : rdata[i] = appended[i]
        /\ wpc = "publish" => \A i \in 1 .. wlen : buf[in + i - 1] = wdata[i]
    BY <1>1, <1>9 DEF RingOrdered, CountInv, ContentInv
  <2>2. ASSUME NEW i \in 1 .. Len(rdata) + rlen PROVE rdata'[i] = appended[i]
    <3>1. CASE i <= Len(rdata)
      BY <1>3, <1>5, <2>1, <3>1
    <3>2. CASE i > Len(rdata)
      <4> DEFINE k == i - Len(rdata)
      <4>1. k \in 1 .. rlen /\ k \in 1 .. Unread /\ Slot(out, k - 1) = out + k - 1 /\ Got + k = i
        BY <1>2, <1>3, <1>7, <2>1, <3>2 DEF Slot
      <4>2. rdata'[i] = part[k]
        BY <1>3, <1>5, <3>2
      <4> HIDE DEF k
      <4> QED  BY <1>4, <2>1, <4>1, <4>2
    <3> QED  BY <1>3, <3>1, <3>2
  <2> QED  BY <1>1, <1>5, <1>7, <2>1, <2>2 DEF ContentInv, Slot, writerVars
<1> QED  BY <1>1, <1>5, <1>6, <1>8, <1>9 DEF RingOrdered, writerVars

\* The store of m_out gives up the slots just read and no others.
LEMMA StepPublishOut ==
  ASSUME RingInv, WriterInv, ReaderInv, RingOrdered, PublishOut
  PROVE  RingInv' /\ WriterInv' /\ ReaderInv' /\ RingOrdered'
<1> DEFINE o == (out + rlen) % Size
           l == IF rrest > 0 THEN Least(rrest, rin) ELSE 0
<1>1. Size \in Nat \ {0} /\ in \in 0 .. Size - 1 /\ out \in 0 .. Size - 1
  BY SizeAssumption DEF RingInv, Slots
<1>2. rpc = "publish" /\ rlen \in Nat /\ out + rlen <= Size /\ rin \in 0 .. Size - 1 /\ rrest \in Nat
  BY <1>1 DEF PublishOut, ReaderInv, Slots
<1>3. o = IF out + rlen < Size THEN out + rlen ELSE out + rlen - Size
  BY <1>1, <1>2, Wrap
<1>4. /\ out' = o /\ rlen' = l /\ rrest' = 0 /\ rpc' = IF rrest > 0 THEN "copy" ELSE "idle"
      /\ UNCHANGED <<in, buf, rin, rdata, writerVars>>
  BY DEF PublishOut
<1>5. /\ o \in 0 .. Size - 1 /\ l \in 0 .. Size
      /\ rrest > 0 => out + rlen = Size /\ o = 0 /\ l <= rin
      /\ rrest <= 0 => l = 0
  BY <1>1, <1>2, <1>3 DEF ReaderInv, Least
<1> HIDE DEF o, l
<1>6. RingInv' /\ WriterInv' /\ ReaderInv'
  <2>1. RingInv' /\ WriterInv'
    BY <1>4, <1>5 DEF RingInv, WriterInv, Appending, Slots, writerVars
  <2>2. ReaderInv'
    BY <1>1, <1>2, <1>4, <1>5 DEF ReaderInv
  <2> QED  BY <2>1, <2>2
<1>7. ASSUME ~overrun PROVE CountInv' /\ ContentInv'
  <2>1. Got = Len(rdata) - rlen /\ Got' = Len(rdata) /\ Len(rdata) \in Nat /\ Len(appended) \in Nat
    BY <1>2, <1>4 DEF Got, RingInv
  <2>2. Got' = Got + rlen /\ Unread' = Unread - rlen /\ Unread = Len(appended) - Got
    BY <1>2, <1>4, <2>1 DEF Unread, writerVars
  <2>3. /\ Unread \in 0 .. Size - 1 /\ in = IF out + Unread < Size THEN out + Unread ELSE out + Unread - Size
        /\ rlen <= Unread /\ (rrest > 0 => rlen + rin <= Unread)
        /\ Appending => wlen <= Size - Unread /\ (wlen < Len(wdata) => wout <= out /\ out <= in)
    BY <1>2, <1>7 DEF RingOrdered, CountInv, Slot
  <2> DEFINE u == Unread - rlen
  <2>4. /\ u \in 0 .. Size - 1 /\ in = IF o + u < Size THEN o + u ELSE o + u - Size
        /\ rrest > 0 => l <= u
    BY <1>1, <1>2, <1>5, <2>3 DEF o
  <2>5. Appending => wlen <= Size - u /\ (wlen < Len(wdata) => wout <= o /\ o <= in)
    BY <1>1, <1>2, <1>3, <2>3 DEF WriterInv, Slots, Appending
  <2>6. CountInv'
    BY <1>2, <1>4, <1>5, <2>2, <2>4, <2>5 DEF CountInv, Slot, Appending, writerVars
  <2>7. ASSUME NEW k \in 1 .. u PROVE buf[Slot(o, k - 1)] = appended[(Got + rlen) + k]
    <3> DEFINE j == rlen + k
    <3>1. j \in 1 .. Unread /\ Slot(o, k - 1) = Slot(out, j - 1) /\ (Got + rlen) + k = Got + j
      BY <1>1, <1>2, <1>3, <2>1, <2>3 DEF Slot
    <3> HIDE DEF j
    <3>2. buf[Slot(out, j - 1)] = appended[Got + j]
      BY <1>7, <3>1 DEF RingOrdered, ContentInv
    <3> QED  BY <3>1, <3>2
  <2>8. ContentInv'
    BY <1>4, <1>7, <2>2, <2>7 DEF RingOrdered, ContentInv, Slot, writerVars
  <2> QED  BY <2>6, <2>8
<1> QED  BY <1>4, <1>6, <1>7 DEF RingOrdered, writerVars

\* The store of m_in makes the slots just written the last unread ones.
LEMMA StepPublishIn ==
  ASSUME RingInv, WriterInv, ReaderInv, RingOrdered, PublishIn
  PROVE  RingInv' /\ WriterInv' /\ ReaderInv' /\ RingOrdered' /\ Len(appended) <= Len(appended')
<1> DEFINE rest == SubSeq(wdata, wlen + 1, Len(wdata))
           first == SubSeq(wdata, 1, wlen)
           i2 == (in + wlen) % Size
           len2 == Least(Len(rest), wout - 1)
           l == IF rest = <<>> THEN 0 ELSE len2
           part2 == SubSeq(rest, 1, l)
           all == appended \o first
<1>1. Size \in Nat \ {0} /\ in \in 0 .. Size - 1 /\ out \in 0 .. Size - 1 /\ wout \in 0 .. Size - 1
  BY SizeAssumption DEF RingInv, WriterInv, Slots
<1>2. /\ wpc = "publish" /\ wdata \in Seq(Bytes) /\ wlen \in 0 .. Len(wdata) /\ in + wlen <= Size
      /\ nWritten \in Nat /\ nWritten + wlen <= Size /\ wsize \in Nat /\ Len(wdata) \in Nat
      /\ wlen < Len(wdata) => wout <= in /\ in + wlen = Size /\ nWritten = 0 /\ wsize = Len(wdata)
  BY DEF PublishIn, WriterInv, Appending
<1>3. i2 = IF in + wlen < Size THEN in + wlen ELSE in + wlen - Size
  BY <1>1, <1>2, Wrap
<1>4. /\ in' = i2 /\ nWritten' = nWritten + wlen
      /\ appended' = all
      /\ overrun' = (overrun \/ (wlen > 0 /\ i2 = out) \/ (rest # <<>> /\ len2 < 0))
      /\ wlen' = l /\ wdata' = part2
      /\ wpc' = CASE rest = <<>> -> "idle" [] rest # <<>> /\ len2 < 0 -> "crashed" [] OTHER -> "copy"
      /\ UNCHANGED <<out, buf, wout, wsize, readerVars>>
  <2>1. in' = i2
    BY Zenon DEF PublishIn
  <2>2. wlen' = l /\ wdata' = SubSeq(rest, 1, wlen')
    BY Zenon DEF PublishIn
  <2> QED  BY <2>1, <2>2, Zenon DEF PublishIn
<1>5. /\ rest \in Seq(Bytes) /\ Len(rest) = Len(wdata) - wlen
      /\ first \in Seq(Bytes) /\ Len(first) = wlen /\ \A i \in 1 .. wlen : first[i] = wdata[i]
  BY <1>2, SeqSplit
<1> HIDE DEF rest, first
<1>6. rest = <<>> <=> wlen = Len(wdata)
  BY <1>2, <1>5, EmptySeq
<1>7. /\ len2 \in Int /\ len2 <= Len(rest) /\ len2 <= wout - 1
      /\ rest # <<>> => (len2 < 0 <=> wout = 0) /\ (len2 = Len(rest) \/ len2 = wout - 1)
  BY <1>1, <1>2, <1>5, <1>6 DEF Least
<1>8. /\ part2 \in Seq(Bytes) /\ l \in -1 .. Len(part2)
      /\ (wpc' = "copy" => l >= 0 /\ Len(part2) = l)
  <2>1. CASE rest = <<>>
    <3>1. l = 0 /\ part2 = <<>> /\ wpc' = "idle"
      BY <1>4, <2>1
    <3> QED  BY <3>1
  <2>2. CASE rest # <<>> /\ len2 < 0
    <3>1. l = -1 /\ wpc' = "crashed"
      BY <1>1, <1>4, <1>7, <1>5, <1>2, <1>6, <2>2 DEF Least
    <3>2. part2 = <<>>
      BY <3>1
    <3> QED  BY <3>1, <3>2
  <2>3. CASE rest # <<>> /\ len2 >= 0
    <3>1. l \in 0 .. Len(rest)
      BY <1>5, <1>7, <2>3
    <3> HIDE DEF l
    <3>2. part2 \in Seq(Bytes) /\ Len(part2) = l
      BY <1>5, <3>1, SeqSplit
    <3> QED  BY <3>1, <3>2
  <2> QED  BY <1>7, <2>1, <2>2, <2>3
<1>9. /\ wpc' \in {"idle", "crashed", "copy"} /\ (wpc' = "crashed" => overrun')
      /\ wpc' = "copy" => wlen < Len(wdata) /\ wout >= 1 /\ l <= wout - 1 /\ (l = Len(rest) \/ l = wout - 1)
  <2>1. CASE rest = <<>>
    BY <1>4, <2>1
  <2>2. CASE rest # <<>> /\ len2 < 0
    BY <1>4, <2>2
  <2>3. CASE rest # <<>> /\ ~(len2 < 0)
    <3>1. l = len2 /\ wpc' = "copy"
      BY <1>4, <2>3
    <3>2. wlen < Len(wdata) /\ wout >= 1
      BY <1>1, <1>2, <1>6, <1>7, <2>3
    <3> QED  BY <1>7, <2>3, <3>1, <3>2
  <2> QED  BY <2>1, <2>2, <2>3
<1>10. ~overrun' => ~overrun /\ ~(wlen > 0 /\ i2 = out)
  BY <1>4
<1>11. i2 \in 0 .. Size - 1 /\ (in + wlen = Size => i2 = 0) /\ (in + wlen < Size => i2 = in + wlen)
  BY <1>1, <1>2, <1>3
<1> HIDE DEF i2, len2, l, part2
<1>12. /\ appended \in Seq(Bytes) /\ all \in Seq(Bytes)
       /\ Len(all) = Len(appended) + wlen /\ Len(appended) \in Nat
       /\ \A i \in 1 .. Len(appended) + wlen :
            all[i] = IF i <= Len(appended) THEN appended[i] ELSE first[i - Len(appended)]
  <2>1. appended \in Seq(Bytes) /\ Len(appended) \in Nat
    BY DEF RingInv
  <2>2. all \in Seq(Bytes) /\ Len(all) = Len(appended) + Len(first)
        /\ \A i \in 1 .. Len(appended) + Len(first) :
             all[i] = IF i <= Len(appended) THEN appended[i] ELSE first[i - Len(appended)]
    BY <1>5, <2>1, ConcatProperties
  <2> HIDE DEF all
  <2> QED  BY <1>5, <2>1, <2>2
<1> HIDE DEF all
<1>13. RingInv' /\ ReaderInv'
  <2>1. overrun' \in BOOLEAN
    BY <1>4
  <2>2. RingInv'
    BY <1>4, <1>11, <1>12, <2>1 DEF RingInv, Slots, readerVars
  <2>3. ReaderInv'
    BY <1>4 DEF ReaderInv, readerVars
  <2> QED  BY <2>2, <2>3
<1>14. WriterInv'
  <2>1. CASE wpc' = "copy"
    <3>1. /\ in + wlen = Size /\ i2 = 0 /\ nWritten + wlen = Size - in /\ wout <= in
          /\ l >= 0 /\ l <= wout - 1 /\ Len(part2) = l /\ l \in Int
          /\ (l = Len(wdata) - wlen \/ l = wout - 1) /\ wsize = Len(wdata) /\ nWritten = 0
      BY <1>1, <1>2, <1>5, <1>8, <1>9, <1>11, <2>1
    <3>2. /\ i2 + l <= Size /\ (nWritten + wlen) + l <= Size
          /\ (nWritten + wlen) + l = wsize \/ i2 + l + 1 = wout
          /\ ~(l < Len(part2)) /\ nWritten + wlen \in 0 .. Size
      BY <1>1, <1>2, <3>1
    <3> QED  BY <1>1, <1>2, <1>4, <1>8, <2>1, <3>1, <3>2 DEF WriterInv, Appending, Slots
  <2>2. CASE wpc' # "copy"
    <3>1. nWritten + wlen \in 0 .. Size
      BY <1>1, <1>2
    <3> QED  BY <1>1, <1>2, <1>4, <1>8, <1>9, <2>2, <3>1 DEF WriterInv, Appending, Slots
  <2> QED  BY <2>1, <2>2
<1>15. ASSUME ~overrun' PROVE CountInv' /\ ContentInv'
  <2> DEFINE u == Unread + wlen
  <2>1. Got' = Got /\ Got \in Nat /\ Unread' = u /\ Len(appended) = Got + Unread
    <3>1. Got' = Got
      BY <1>4 DEF Got, readerVars
    <3>2. Got \in Nat
      BY DEF Got, RingInv, ReaderInv
    <3> HIDE DEF Got
    <3>3. Len(appended) = Got + Unread
      BY <1>12, <3>2 DEF Unread
    <3>4. Unread' = u
      BY <1>2, <1>4, <1>12, <3>1, <3>2 DEF Unread
    <3> QED  BY <3>1, <3>2, <3>3, <3>4
  <2>2. /\ Unread \in 0 .. Size - 1 /\ in = IF out + Unread < Size THEN out + Unread ELSE out + Unread - Size
        /\ rpc # "idle" => rlen <= Unread
        /\ rrest > 0 => rlen + rin <= Unread
        /\ wlen <= Size - Unread /\ (wlen < Len(wdata) => wout <= out /\ out <= in)
    BY <1>2, <1>10, <1>15 DEF RingOrdered, CountInv, Slot, Appending
  <2>3. u \in 0 .. Size - 1 /\ i2 = IF out + u < Size THEN out + u ELSE out + u - Size
    BY <1>1, <1>2, <1>10, <1>11, <1>15, <2>2
  <2>4. wpc' = "copy" => l <= Size - u /\ ~(l < Len(part2))
    BY <1>1, <1>2, <1>8, <1>9, <2>2
  <2>5. rlen \in Nat /\ rin \in Nat /\ rrest \in Nat
    BY <1>1 DEF ReaderInv, Slots
  <2> HIDE DEF u
  <2>6. u >= Unread /\ u \in Int /\ Unread \in Int
    BY <1>2, <2>2 DEF u
  <2>7. CountInv'
    <3>1. (rpc # "idle" => rlen <= u) /\ (rrest > 0 => rlen + rin <= u)
      BY <2>2, <2>5, <2>6
    <3> QED  BY <1>4, <1>9, <2>1, <2>3, <2>4, <3>1 DEF CountInv, Slot, Appending, readerVars
  <2>8. ASSUME NEW k \in 1 .. u PROVE buf[Slot(out, k - 1)] = all[Got + k]
    <3>1. CASE k <= Unread
      <4>1. buf[Slot(out, k - 1)] = appended[Got + k]
        BY <1>10, <1>15, <2>2, <3>1 DEF RingOrdered, ContentInv
      <4> QED  BY <1>2, <1>12, <2>1, <2>2, <3>1, <4>1
    <3>2. CASE k > Unread
      <4> DEFINE i == k - Unread
      <4>1. i \in 1 .. wlen /\ Slot(out, k - 1) = in + i - 1
        BY <1>1, <1>2, <2>2, <3>2 DEF u, Slot
      <4>2. Got + k \in 1 .. Len(appended) + wlen /\ ~(Got + k <= Len(appended)) /\ (Got + k) - Len(appended) = i
        BY <1>2, <1>12, <2>1, <2>2, <3>2 DEF u
      <4>3. all[Got + k] = first[i]
        BY <1>12, <4>2
      <4> HIDE DEF i
      <4>4. buf[in + i - 1] = wdata[i]
        BY <1>2, <1>10, <1>15, <4>1 DEF RingOrdered, ContentInv
      <4> QED  BY <1>5, <4>1, <4>3, <4>4
    <3> QED  BY <2>2, <3>1, <3>2 DEF u
  <2>9. ASSUME NEW i \in 1 .. Len(rdata) PROVE rdata[i] = all[i]
    <3>1. Len(rdata) \in Nat /\ Len(rdata) <= Len(appended)
      BY <2>1, <2>2, <2>5 DEF Got, RingInv
    <3>2. rdata[i] = appended[i]
      BY <1>10, <1>15 DEF RingOrdered, ContentInv
    <3> QED  BY <1>2, <1>12, <3>1, <3>2
  <2>10. ContentInv'
    BY <1>4, <1>9, <2>1, <2>8, <2>9 DEF ContentInv, Slot, readerVars
  <2> QED  BY <2>7, <2>10
<1>16. Len(appended) <= Len(appended')
  BY <1>2, <1>4, <1>12
<1> QED  BY <1>13, <1>14, <1>15, <1>16 DEF RingOrdered

-----------------------------------------------------------------------------
\* The logger drives the ring by its operations.
OneRing == RingInv /\ WriterInv /\ ReaderInv /\ RingOrdered

RingStep ==
  \/ \E data \in Seq(Bytes) \ {<<>>} : StartAppend(data)
  \/ CopyIn \/ PublishIn
  \/ \E n \in Nat : StartRetrive(n)
  \/ CopyOut \/ PublishOut

\* Whatever the two threads do to the ring, in whatever order, it stays one.
LEMMA StepRing == OneRing /\ (RingStep \/ UNCHANGED ringVars) => OneRing'
<1> SUFFICES ASSUME OneRing, RingStep \/ UNCHANGED ringVars PROVE OneRing'
  OBVIOUS
<1>1. CASE RingStep
  BY <1>1, StepStartAppend, StepCopyIn, StepPublishIn, StepStartRetrive, StepCopyOut, StepPublishOut
     DEF OneRing, RingStep
<1>2. CASE UNCHANGED ringVars
  <2>1. UNCHANGED <<in, out, buf, writerVars, readerVars>>
    BY <1>2 DEF ringVars
  <2>2. UNCHANGED <<Got, Unread, Appending>> /\ \A o, k : Slot(o, k)' = Slot(o, k)
    BY <2>1 DEF Got, Unread, Appending, Slot, writerVars, readerVars
  <2>3. RingInv' /\ WriterInv' /\ ReaderInv'
    BY <2>1, <2>2 DEF OneRing, RingInv, WriterInv, ReaderInv, writerVars, readerVars
  <2>4. RingOrdered'
    BY <2>1, <2>2 DEF OneRing, RingOrdered, CountInv, ContentInv, writerVars, readerVars
  <2> QED  BY <2>3, <2>4 DEF OneRing
<1> QED  BY <1>1, <1>2

LogInv ==
  /\ lpc \in {"idle", "append"}
  /\ next \in 1 .. Len(Messages) + 1
  /\ lpc = "append" => next <= Len(Messages)
  /\ remain \in Int
  /\ {running, draining, polled, partial} \subseteq BOOLEAN
  /\ tpc \in {"top", "ring", "take", "low", "final", "done"}
  /\ linesAtStop \in Nat

\* threadFunc asks for no more than its buffer can take, and has room whenever
\* it goes to the ring.
ThreadInv ==
  /\ written \in Nat /\ written <= Len(rdata)
  /\ tpc # "take" => rpc = "idle"
  /\ Held + rrest + (IF rpc = "copy" THEN rlen ELSE 0) <= BufferSize
  /\ tpc \in {"top", "ring", "low"} => Held < BufferSize

\* The flush condition is evaluated between two moves of the clock.
TimeInv ==
  /\ since \in 0 .. 6 /\ heldFor \in Clock
  /\ polled => since <= 5
  /\ Held > 0 => heldFor <= since

\* Once threadFunc has seen m_running FALSE, it goes on until the ring is empty.
StopInv ==
  /\ atStop \in Nat /\ atStop <= Len(appended)
  /\ draining => ~running
  /\ tpc \in {"final", "done"} => draining
  /\ tpc \in {"final", "done"} /\ ~overrun => atStop <= Len(rdata)
  /\ tpc = "done" => written = Len(rdata)

\* A line is a sequence of bytes, and not empty.
LEMMA LinesAreSequences ==
  /\ Len(Messages) \in Nat
  /\ \A i \in 1 .. Len(Messages) : Messages[i] \in Seq(Bytes) \ {<<>>}
BY LoggerAssumption

\* The logger is constructed with an empty ring and nothing held back.
LEMMA InitLogger == Init => OneRing /\ LogInv /\ ThreadInv /\ TimeInv /\ StopInv
<1> SUFFICES ASSUME Init PROVE OneRing /\ LogInv /\ ThreadInv /\ TimeInv /\ StopInv
  OBVIOUS
<1>1. OneRing
  BY InitRing DEF Init, OneRing, RingOrdered
<1>2. rdata = <<>> /\ appended = <<>> /\ rpc = "idle" /\ rrest = 0 /\ rlen = 0 /\ Held = 0
  BY DEF Init, RingInit, Held
<1>3. LogInv
  <2>1. next \in 1 .. Len(Messages) + 1 /\ next = 1
    BY LinesAreSequences DEF Init
  <2>2. {running, draining, polled, partial} \subseteq BOOLEAN
    BY DEF Init
  <2> QED  BY <2>1, <2>2 DEF Init, LogInv
<1>4. ThreadInv
  BY <1>2, LoggerAssumption DEF Init, ThreadInv
<1>5. TimeInv /\ StopInv
  BY <1>2 DEF Init, TimeInv, StopInv, Clock
<1> QED  BY <1>1, <1>3, <1>4, <1>5

\* What threadFunc holds fits its buffer, and the buffer's water marks lie
\* inside.
LEMMA HeldProperties ==
  ASSUME OneRing, ThreadInv
  PROVE  /\ Len(rdata) \in Nat /\ Held \in Nat /\ Held = Len(rdata) - written /\ Held <= BufferSize
         /\ {BufferSize, HighWater, LowWater} \subseteq Nat /\ HighWater < BufferSize
         /\ rrest \in Nat /\ rlen \in Nat /\ rin \in Nat /\ written \in Nat
<1>1. Len(rdata) \in Nat /\ rrest \in Nat /\ rlen \in Nat /\ rin \in Nat /\ written \in Nat
  BY SizeAssumption DEF OneRing, RingInv, ReaderInv, Slots, ThreadInv
<1>2. Held \in Nat /\ Held = Len(rdata) - written
  BY <1>1 DEF Held, ThreadInv
<1>3. {BufferSize, HighWater, LowWater} \subseteq Nat /\ HighWater < BufferSize
  BY LoggerAssumption
<1> QED  BY <1>1, <1>2, <1>3 DEF ThreadInv

\* What threadFunc's steps do to what it holds.
LEMMA RetriveSteps ==
  ASSUME OneRing, LogInv, ThreadInv
  PROVE  /\ TakeFromRing => \E n \in Nat : StartRetrive(n) /\ rlen' + rrest' <= BufferSize - Held
         /\ CopyOut => Len(rdata') = Len(rdata) + rlen
         /\ PublishOut => rdata' = rdata /\ rlen' \in Nat /\ rlen' <= rrest /\ rrest' = 0
<1>1. ASSUME TakeFromRing
      PROVE  \E n \in Nat : StartRetrive(n) /\ rlen' + rrest' <= BufferSize - Held
  <2> DEFINE n == BufferSize - Held
  <2>1. StartRetrive(n) /\ n \in Nat
    BY <1>1, HeldProperties DEF TakeFromRing
  <2> HIDE DEF n
  <2>2. in \in Nat /\ out \in Nat /\ Size - out \in Nat
    BY SizeAssumption DEF OneRing, RingInv, Slots
  <2>3. rlen' + rrest' <= n
    BY <2>1, <2>2 DEF StartRetrive, Least
  <2> QED  BY <2>1, <2>3 DEF n
<1>2. CopyOut => Len(rdata') = Len(rdata) + rlen
  BY StepCopyOut DEF OneRing
<1>3. ASSUME PublishOut PROVE rdata' = rdata /\ rlen' \in Nat /\ rlen' <= rrest /\ rrest' = 0
  BY <1>3, HeldProperties DEF PublishOut, Least
<1> QED  BY <1>1, <1>2, <1>3

\* The logger uses the ring by append and retrive alone.
LEMMA NextIsRing == OneRing /\ LogInv /\ ThreadInv /\ Next => RingStep \/ UNCHANGED ringVars
<1> SUFFICES ASSUME OneRing, LogInv, ThreadInv, Next PROVE RingStep \/ UNCHANGED ringVars
  OBVIOUS
<1>1. CASE BeginLog
  BY <1>1, LinesAreSequences DEF BeginLog, LogInv, RingStep
<1>2. CASE AppendReturns
  BY <1>2, LinesAreSequences DEF AppendReturns, LogInv, RingStep
<1>3. CASE AppendStep
  BY <1>3 DEF AppendStep, WriterStep, RingStep
<1>4. CASE TakeFromRing
  BY <1>4, RetriveSteps DEF RingStep
<1>5. CASE RetriveStep
  BY <1>5 DEF RetriveStep, ReaderStep, RingStep
<1>6. CASE Stop \/ TestRunning \/ RingEmpty \/ Taken \/ FlushIfDue \/ FinalFlush \/ Tick
  BY <1>6 DEF Stop, TestRunning, RingEmpty, Taken, FlushIfDue, FinalFlush, Tick
<1> QED  BY <1>1, <1>2, <1>3, <1>4, <1>5, <1>6 DEF Next, LoggingStep, ThreadStep

\* AsyncLogger's variables keep their types.
LEMMA StepLog == OneRing /\ LogInv /\ ThreadInv /\ Next => LogInv'
<1> SUFFICES ASSUME OneRing, LogInv, ThreadInv, Next PROVE LogInv'
  OBVIOUS
<1>1. CASE BeginLog
  BY <1>1, LinesAreSequences DEF BeginLog, LogInv, threadVars, historyVars
<1>2. CASE AppendReturns
  <2>1. /\ next' \in 1 .. Len(Messages) + 1 /\ lpc' \in {"idle", "append"}
        /\ lpc' = "append" => next' <= Len(Messages)
    BY <1>2, LinesAreSequences DEF AppendReturns, LogInv
  <2>2. remain' \in Int
    BY <1>2 DEF AppendReturns, LogInv, OneRing, WriterInv
  <2>3. UNCHANGED <<running, draining, polled, tpc, linesAtStop>> /\ partial' \in BOOLEAN
    BY <1>2 DEF AppendReturns, LogInv, threadVars, historyVars
  <2> QED  BY <2>1, <2>2, <2>3 DEF LogInv
<1>3. CASE AppendStep
  BY <1>3 DEF AppendStep, LogInv, logVars, threadVars, historyVars
<1>4. CASE Stop
  <2>1. next - 1 \in Nat
    BY LinesAreSequences DEF LogInv
  <2> QED  BY <1>4, <2>1 DEF Stop, LogInv, logVars, threadVars
<1>5. CASE TestRunning
  BY <1>5 DEF TestRunning, LogInv, logVars, historyVars
<1>6. CASE TakeFromRing \/ RingEmpty \/ RetriveStep \/ Taken
  BY <1>6 DEF TakeFromRing, RingEmpty, RetriveStep, Taken, LogInv, logVars, historyVars
<1>7. CASE FlushIfDue \/ FinalFlush \/ Tick
  BY <1>7 DEF FlushIfDue, FinalFlush, Tick, LogInv, logVars, historyVars
<1> QED
  BY <1>1, <1>2, <1>3, <1>4, <1>5, <1>6, <1>7 DEF Next, LoggingStep, ThreadStep

\* The steps of the other threads leave threadFunc's part of the ring alone.
LEMMA OtherSteps ==
  ASSUME LoggingStep \/ Stop \/ Tick
  PROVE  UNCHANGED <<readerVars, tpc, written, draining>>
BY DEF LoggingStep, BeginLog, AppendReturns, AppendStep, WriterStep, StartAppend, CopyIn, PublishIn, Stop,
       Tick, ringVars, threadVars

\* threadFunc never asks the ring for more than its buffer can take.
LEMMA StepThread == OneRing /\ LogInv /\ ThreadInv /\ Next => ThreadInv'
<1> SUFFICES ASSUME OneRing, LogInv, ThreadInv, Next PROVE ThreadInv'
  OBVIOUS
<1>0. /\ Len(rdata) \in Nat /\ Held \in Nat /\ Held = Len(rdata) - written
      /\ BufferSize \in Nat /\ HighWater \in Nat /\ HighWater < BufferSize
      /\ rrest \in Nat /\ rlen \in Nat /\ written \in Nat
      /\ Held' = Len(rdata') - written'
  BY HeldProperties DEF Held
<1>1. CASE LoggingStep \/ Stop \/ Tick
  BY <1>1, OtherSteps DEF ThreadInv, Held, readerVars
<1>2. CASE TestRunning \/ RingEmpty
  <2>1. UNCHANGED <<ringVars, written>> /\ tpc \in {"top", "ring"} /\ tpc' \in {"ring", "low", "final"}
    BY <1>2 DEF TestRunning, RingEmpty
  <2>2. UNCHANGED <<rdata, rpc, rrest, rlen, Held>>
    BY <2>1 DEF ringVars, readerVars, Held
  <2> QED  BY <2>1, <2>2 DEF ThreadInv
<1>3. CASE TakeFromRing
  <2>1. PICK n \in Nat : StartRetrive(n) /\ rlen' + rrest' <= BufferSize - Held
    BY <1>3, RetriveSteps
  <2>2. tpc' = "take" /\ UNCHANGED <<rdata, written>> /\ rpc' = "copy" /\ Held' = Held
    BY <1>0, <1>3, <2>1 DEF TakeFromRing, StartRetrive
  <2>3. rlen' \in Nat /\ rrest' \in Nat
    BY <2>1, StepStartRetrive, SizeAssumption DEF OneRing, ReaderInv
  <2>4. Held + rrest' + rlen' <= BufferSize
    BY <1>0, <2>1, <2>3
  <2>5. Held' + rrest' + (IF rpc' = "copy" THEN rlen' ELSE 0) <= BufferSize
    BY <2>2, <2>4
  <2> QED  BY <2>2, <2>5 DEF ThreadInv
<1>4. CASE RetriveStep
  <2>1. tpc' = tpc /\ written' = written /\ tpc = "take"
    BY <1>4 DEF RetriveStep, ReaderStep, CopyOut, PublishOut, ThreadInv
  <2>2. CASE CopyOut
    <3>1. Len(rdata') = Len(rdata) + rlen /\ rpc = "copy" /\ rpc' = "publish" /\ UNCHANGED <<rrest, rlen>>
      BY <2>2, RetriveSteps DEF CopyOut
    <3>2. Held' = Held + rlen /\ written <= Len(rdata')
      BY <1>0, <2>1, <3>1 DEF ThreadInv
    <3>3. Held' + rrest' <= BufferSize
      BY <1>0, <3>1, <3>2 DEF ThreadInv
    <3> QED  BY <1>0, <2>1, <3>1, <3>2, <3>3 DEF ThreadInv
  <2>3. CASE PublishOut
    <3>1. rdata' = rdata /\ rlen' \in Nat /\ rlen' <= rrest /\ rrest' = 0 /\ rpc = "publish"
      BY <2>3, RetriveSteps DEF PublishOut
    <3>2. Held' = Held
      BY <1>0, <2>1, <3>1
    <3>3. Held + rrest <= BufferSize
      BY <1>0, <3>1 DEF ThreadInv
    <3>4. Held + 0 + (IF rpc' = "copy" THEN rlen' ELSE 0) <= BufferSize
      BY <1>0, <3>1, <3>3
    <3> QED  BY <2>1, <3>1, <3>2, <3>4 DEF ThreadInv
  <2> QED  BY <1>4, <2>2, <2>3 DEF RetriveStep, ReaderStep
<1>5. CASE Taken \/ FlushIfDue \/ FinalFlush
  <2>1. /\ UNCHANGED ringVars /\ written' \in {written, Len(rdata)} /\ tpc' \in {"ring", "top", "done"}
        /\ rpc = "idle" /\ (tpc \in {"take", "low", "final"})
        /\ tpc' \in {"ring", "top"} =>
             written' = Len(rdata) \/ tpc = "low" \/ (tpc = "take" /\ ~(Held > HighWater))
    BY <1>5 DEF Taken, FlushIfDue, FinalFlush, ThreadInv
  <2>2. UNCHANGED <<rdata, rpc, rrest, rlen>>
    BY <2>1 DEF ringVars, readerVars
  <2>3. /\ written' \in Nat /\ written' <= Len(rdata) /\ Held' <= Held /\ Held' \in Int
        /\ written' = Len(rdata) => Held' = 0
    BY <1>0, <2>1, <2>2 DEF ThreadInv
  <2>4. Held' + rrest <= BufferSize
    <3>1. Held + rrest <= BufferSize
      BY <1>0 DEF ThreadInv
    <3>2. {Held, rrest, BufferSize, Held'} \subseteq Int /\ Held' <= Held
      BY <1>0, <2>3
    <3> QED  BY <3>1, <3>2
  <2>5. tpc' \in {"ring", "top"} => Held' < BufferSize
    BY <1>0, <2>1, <2>3 DEF ThreadInv
  <2>6. Held' + rrest' + (IF rpc' = "copy" THEN rlen' ELSE 0) <= BufferSize
    BY <1>0, <2>1, <2>2, <2>3, <2>4
  <2>7. tpc' # "low" /\ rpc' = "idle"
    BY <2>1, <2>2
  <2> QED  BY <2>2, <2>3, <2>5, <2>6, <2>7 DEF ThreadInv
<1> QED  BY <1>1, <1>2, <1>3, <1>4, <1>5 DEF Next, ThreadStep

\* Output is not held back beyond the flush that is due.
LEMMA StepTime == OneRing /\ LogInv /\ ThreadInv /\ TimeInv /\ Next => TimeInv'
<1> SUFFICES ASSUME OneRing, LogInv, ThreadInv, TimeInv, Next PROVE TimeInv'
  OBVIOUS
<1>0. /\ Len(rdata) \in Nat /\ Held \in Nat /\ Held = Len(rdata) - written /\ written \in Nat
      /\ rlen \in Nat /\ LowWater \in Nat /\ HighWater \in Nat /\ Held' = Len(rdata') - written'
  BY HeldProperties DEF Held
<1>1. CASE LoggingStep \/ Stop
  <2>1. UNCHANGED <<rdata, written>>
    BY <1>1, OtherSteps DEF readerVars
  <2>2. UNCHANGED <<since, heldFor, polled>>
    BY <1>1 DEF LoggingStep, BeginLog, AppendReturns, AppendStep, Stop, threadVars
  <2> QED  BY <1>0, <2>1, <2>2 DEF TimeInv
<1>2. CASE Tick
  <2>1. UNCHANGED <<rdata, written>>
    BY <1>2, OtherSteps DEF readerVars
  <2>2. since <= 5 /\ since' = since + 1 /\ heldFor' = Least(heldFor + 1, 7) /\ polled' = FALSE
    BY <1>2 DEF Tick, TimeInv
  <2> QED  BY <1>0, <2>1, <2>2 DEF TimeInv, Least, Clock
<1>3. CASE TestRunning \/ TakeFromRing \/ RingEmpty
  <2>1. UNCHANGED <<rdata, written, since, heldFor, polled>>
    BY <1>3 DEF TestRunning, TakeFromRing, RingEmpty, StartRetrive, ringVars, readerVars
  <2> QED  BY <1>0, <2>1 DEF TimeInv
<1>4. CASE RetriveStep
  <2>1. UNCHANGED <<written, since, polled>> /\ heldFor' = IF Held = 0 THEN 0 ELSE heldFor
    BY <1>4 DEF RetriveStep
  <2> QED  BY <1>0, <2>1 DEF TimeInv, Clock
<1>5. CASE Taken \/ FinalFlush
  <2>1. UNCHANGED <<rdata, since, heldFor, polled>> /\ written' \in {written, Len(rdata)}
    BY <1>5 DEF Taken, FinalFlush, ringVars, readerVars
  <2> QED  BY <1>0, <2>1 DEF TimeInv
<1>6. CASE FlushIfDue
  <2>1. UNCHANGED <<rdata, heldFor>> /\ polled' = TRUE
    BY <1>6 DEF FlushIfDue, ringVars, readerVars
  <2>2. CASE Held > LowWater \/ since \div 2 > 2
    <3>1. written' = Len(rdata) /\ since' = since % 2
      BY <1>6, <2>2 DEF FlushIfDue
    <3>2. since % 2 \in 0 .. 1
      BY DEF TimeInv
    <3>3. Held' = 0
      BY <1>0, <2>1, <3>1
    <3> QED  BY <2>1, <3>1, <3>2, <3>3 DEF TimeInv
  <2>3. CASE ~(Held > LowWater \/ since \div 2 > 2)
    <3>1. written' = written /\ since' = since
      BY <1>6, <2>3 DEF FlushIfDue
    <3>2. since <= 5
      BY <2>3 DEF TimeInv
    <3> QED  BY <1>0, <2>1, <3>1, <3>2 DEF TimeInv
  <2> QED  BY <2>2, <2>3
<1> QED  BY <1>1, <1>2, <1>3, <1>4, <1>5, <1>6 DEF Next, ThreadStep

\* threadFunc does not end before it has met an empty ring after stop().
LEMMA StepStop == OneRing /\ LogInv /\ ThreadInv /\ StopInv /\ Next => StopInv'
<1> SUFFICES ASSUME OneRing, LogInv, ThreadInv, StopInv, Next PROVE StopInv'
  OBVIOUS
<1>0. Len(appended) \in Nat /\ Len(rdata) \in Nat
  BY DEF OneRing, RingInv
<1>1. CASE LoggingStep
  <2>1. UNCHANGED <<rdata, tpc, written, draining>>
    BY <1>1, OtherSteps DEF readerVars
  <2>2. UNCHANGED <<running, atStop>>
    BY <1>1 DEF LoggingStep, BeginLog, AppendReturns, AppendStep, historyVars
  <2>3. Len(appended') \in Nat /\ Len(appended) <= Len(appended')
    <3>1. CASE PublishIn
      BY <3>1, StepPublishIn DEF OneRing, RingInv
    <3>2. CASE ~PublishIn
      <4>1. appended' = appended
        BY <1>1, <3>2 DEF LoggingStep, BeginLog, AppendReturns, AppendStep, WriterStep, StartAppend, CopyIn,
                          ringVars, writerVars
      <4> QED  BY <1>0, <4>1
    <3> QED  BY <3>1, <3>2
  <2>4. overrun => overrun'
    BY <1>1 DEF LoggingStep, BeginLog, AppendReturns, AppendStep, WriterStep, StartAppend, CopyIn, PublishIn,
                ringVars, writerVars
  <2> QED  BY <1>0, <2>1, <2>2, <2>3, <2>4 DEF StopInv
<1>2. CASE Stop
  <2>1. running /\ running' = FALSE /\ atStop' = Len(appended) /\ UNCHANGED <<appended, tpc, draining>>
    BY <1>2 DEF Stop, ringVars, writerVars, threadVars
  <2> QED  BY <1>0, <2>1 DEF StopInv
<1>3. CASE RingEmpty
  <2>1. /\ UNCHANGED <<rdata, appended, overrun, draining, running, atStop>> /\ in = out /\ rpc = "idle"
        /\ tpc' = IF draining THEN "final" ELSE "low"
    BY <1>3 DEF RingEmpty, empty, ringVars, writerVars, readerVars, historyVars, ThreadInv
  <2>2. ASSUME ~overrun PROVE Len(rdata) = Len(appended)
    <3>1. Got = Len(rdata)
      BY <1>0, <2>1 DEF Got
    <3>2. Unread \in 0 .. Size - 1 /\ in = IF out + Unread < Size THEN out + Unread ELSE out + Unread - Size
      BY <2>2 DEF OneRing, RingOrdered, CountInv, Slot
    <3>3. Unread = 0
      BY <2>1, <3>2, SizeAssumption DEF OneRing, RingInv, Slots
    <3> QED  BY <1>0, <3>1, <3>3 DEF Unread
  <2> QED  BY <2>1, <2>2 DEF StopInv
<1>4. CASE TestRunning
  BY <1>4 DEF TestRunning, StopInv, ringVars, writerVars, readerVars, historyVars
<1>5. CASE TakeFromRing \/ RetriveStep
  <2>1. UNCHANGED <<appended, overrun, running, draining, atStop>> /\ tpc' = "take"
    BY <1>5 DEF TakeFromRing, RetriveStep, StartRetrive, ReaderStep, CopyOut, PublishOut, writerVars,
                historyVars, ThreadInv
  <2> QED  BY <2>1 DEF StopInv
<1>6. CASE Taken \/ FlushIfDue \/ FinalFlush
  <2>1. /\ UNCHANGED <<ringVars, running, draining, atStop>>
        /\ tpc' \in {"ring", "top"} \/ (tpc = "final" /\ tpc' = "done" /\ written' = Len(rdata))
    BY <1>6 DEF Taken, FlushIfDue, FinalFlush, historyVars
  <2> QED  BY <2>1 DEF StopInv, ringVars, writerVars, readerVars
<1>7. CASE Tick
  BY <1>7 DEF Tick, StopInv, ringVars, writerVars, readerVars, historyVars
<1> QED  BY <1>1, <1>2, <1>3, <1>4, <1>5, <1>6, <1>7 DEF Next, ThreadStep

-----------------------------------------------------------------------------
\* Lines in a row.

\* What FlattenSeq computes is a function that satisfies its equations.
LEMMA FlattenIs ==
  ASSUME NEW S, NEW M \in Seq(Seq(S)), NEW G \in [1 .. Len(M) -> Seq(S)], M # <<>>,
         G[1] = M[1], \A i \in 1 .. Len(M) : i # 1 => G[i] = G[i - 1] \o M[i]
  PROVE  SeqExt!FlattenSeq(M) = G[Len(M)]
<1>1. Len(M) \in Nat /\ Len(M) # 0
  BY EmptySeq
<1> DEFINE n == Len(M)
           Step(g) == [i \in 1 .. n |-> IF i = 1 THEN M[i] ELSE g[i - 1] \o M[i]]
           h == CHOOSE g : g = Step(g)
<1>2. SeqExt!FlattenSeq(M) = h[n]
  BY <1>1 DEF SeqExt!FlattenSeq
<1>3. G = Step(G)
  OBVIOUS
<1>4. h = Step(h)
  <2> HIDE DEF Step
  <2> QED  BY <1>3
<1> HIDE DEF h
<1>5. \A i \in 1 .. n : h[i] = IF i = 1 THEN M[i] ELSE h[i - 1] \o M[i]
  BY <1>4
<1>6. PICK k : k = n
  OBVIOUS
<1>7. k \in Nat /\ k # 0 /\ (\A i \in 1 .. k : h[i] = IF i = 1 THEN M[i] ELSE h[i - 1] \o M[i])
      /\ G[1] = M[1] /\ \A i \in 1 .. k : i # 1 => G[i] = G[i - 1] \o M[i]
  BY <1>1, <1>5, <1>6
<1> DEFINE T == {i \in Nat : i \in 1 .. k => h[i] = G[i]}
<1>8. ASSUME NEW i \in Nat, i \in T, i + 1 \in 1 .. k PROVE h[i + 1] = G[i + 1]
  <2>1. CASE i = 0
    BY <1>7, <2>1
  <2>2. CASE i # 0
    <3>1. i \in 1 .. k /\ (i + 1) - 1 = i /\ i + 1 # 1
      BY <1>7, <1>8, <2>2
    <3>2. h[i] = G[i]
      BY <1>8, <3>1
    <3> HIDE DEF T
    <3>3. h[i + 1] = h[i] \o M[i + 1] /\ G[i + 1] = G[i] \o M[i + 1]
      BY <1>7, <1>8, <3>1
    <3> QED  BY <3>2, <3>3
  <2> QED  BY <2>1, <2>2
<1>9. T \in SUBSET Nat /\ 0 \in T /\ \A i \in T : i + 1 \in T
  BY <1>8
<1>10. T = Nat
  <2> HIDE DEF T
  <2> QED  BY <1>9, SetInduction
<1>11. k \in 1 .. k
  BY <1>7
<1>12. h[k] = G[k]
  BY <1>7, <1>10, <1>11
<1> QED  BY <1>2, <1>6, <1>12

\* There is a function with these equations, from 0 on.
LEMMA RowsExist ==
  ASSUME NEW S, NEW M \in Seq(Seq(S))
  PROVE  \E G \in [0 .. Len(M) -> Seq(S)] : /\ G[0] = <<>>
                                            /\ \A k \in 1 .. Len(M) : G[k] = G[k - 1] \o M[k]
<1>1. PICK n : n = Len(M)
  OBVIOUS
<1>2. n \in Nat /\ \A k \in 1 .. n : M[k] \in Seq(S)
  BY <1>1
<1> DEFINE Rows(G, i) == G \in [0 .. i -> Seq(S)] /\ G[0] = <<>> /\ \A k \in 1 .. i : G[k] = G[k - 1] \o M[k]
           T == {i \in Nat : i <= n => \E G : Rows(G, i)}
<1>3. 0 \in T
  <2> DEFINE G == [k \in {0} |-> <<>>]
  <2>1. <<>> \in Seq(S) /\ 0 .. 0 = {0} /\ 1 .. 0 = {}
    BY EmptySeq
  <2>2. Rows(G, 0)
    BY <2>1
  <2> HIDE DEF Rows
  <2> QED  BY <2>2
<1>4. ASSUME NEW i \in Nat, i \in T, i + 1 <= n PROVE \E G : Rows(G, i + 1)
  <2>1. i \in Nat /\ i <= n /\ i + 1 \in 1 .. n
    BY <1>2, <1>4
  <2>2. PICK G : Rows(G, i)
    <3> HIDE DEF Rows
    <3> QED  BY <1>4, <2>1
  <2> DEFINE H == [k \in 0 .. i + 1 |-> IF k <= i THEN G[k] ELSE G[i] \o M[i + 1]]
  <2>3. \A k \in 0 .. i : G[k] \in Seq(S) /\ k \in 0 .. i + 1 /\ k <= i
    BY <2>1, <2>2
  <2>4. G[i] \o M[i + 1] \in Seq(S)
    BY <1>2, <2>1, <2>3, ConcatProperties
  <2>5. \A k \in 0 .. i + 1 : k \in 0 .. i \/ (k = i + 1 /\ ~(k <= i))
    BY <2>1
  <2>6. H \in [0 .. i + 1 -> Seq(S)]
    BY <2>3, <2>4, <2>5
  <2>7. \A k \in 0 .. i : H[k] = G[k]
    BY <2>3
  <2>8. H[i + 1] = G[i] \o M[i + 1]
    <3>1. i + 1 \in 0 .. i + 1 /\ ~(i + 1 <= i)
      BY <2>1
    <3> HIDE DEF T
    <3> QED  BY Zenon, <3>1
  <2> HIDE DEF H
  <2>9. ASSUME NEW k \in 1 .. i + 1 PROVE H[k] = H[k - 1] \o M[k]
    <3>1. k - 1 \in 0 .. i /\ H[k - 1] = G[k - 1]
      BY <2>1, <2>7
    <3>2. CASE k \in 1 .. i
      <4>1. G[k] = G[k - 1] \o M[k]
        BY Zenon, <2>2, <3>2
      <4>2. k \in 0 .. i
        BY <2>1, <3>2
      <4> QED  BY <2>7, <3>1, <4>1, <4>2
    <3>3. CASE k = i + 1
      <4>1. k - 1 = i
        BY <2>1, <3>3
      <4> QED  BY <2>8, <3>1, <3>3, <4>1
    <3>4. k \in 1 .. i \/ k = i + 1
      BY <2>1
    <3> QED  BY <3>2, <3>3, <3>4
  <2>10. H[0] = <<>>
    BY <2>1, <2>2, <2>7
  <2>11. Rows(H, i + 1)
    BY <2>6, <2>9, <2>10
  <2> QED  BY <2>11
<1>5. T = Nat
  <2> HIDE DEF T
  <2>1. T \in SUBSET Nat /\ \A i \in T : i + 1 \in T
    <3> HIDE DEF Rows
    <3> QED  BY <1>4 DEF T
  <2> QED  BY <1>3, <2>1, SetInduction
<1>6. n \in T
  BY <1>2, <1>5
<1>7. PICK G : Rows(G, n)
  <2> HIDE DEF Rows
  <2> QED  BY <1>2, <1>6
<1> QED  BY <1>1, <1>7

\* The first k lines of Messages, and all of them.
Row(k) == SeqExt!FlattenSeq(SubSeq(Messages, 1, k))
All == SeqExt!FlattenSeq(Messages)

\* The lines in a row: none at first, all in the end, one more at each place.
LEMMA Rows ==
  /\ Row(0) = <<>> /\ Row(Len(Messages)) = All
  /\ \A k \in 0 .. Len(Messages) : Row(k) \in Seq(Bytes)
  /\ \A k \in 1 .. Len(Messages) : Row(k) = Row(k - 1) \o Messages[k]
<1>1. PICK n : n = Len(Messages)
  OBVIOUS
<1>2. n \in Nat /\ Messages \in Seq(Seq(Bytes)) /\ \A k \in 1 .. n : Messages[k] \in Seq(Bytes)
  BY <1>1, LinesAreSequences, LoggerAssumption
<1>3. PICK G \in [0 .. n -> Seq(Bytes)] : G[0] = <<>> /\ \A k \in 1 .. n : G[k] = G[k - 1] \o Messages[k]
  BY <1>1, <1>2, RowsExist
<1>4. Row(0) = <<>>
  <2>1. SubSeq(Messages, 1, 0) = <<>> /\ Len(<<>>) = 0
    BY SubSeqEmpty, EmptySeq
  <2> QED  BY <2>1 DEF Row, SeqExt!FlattenSeq
<1>5. ASSUME NEW k \in 1 .. n PROVE Row(k) = G[k]
  <2>1. PICK s : s = SubSeq(Messages, 1, k)
    OBVIOUS
  <2>2. /\ s \in Seq(Seq(Bytes)) /\ Len(s) = k /\ s # <<>>
        /\ \A i \in 1 .. k : s[i] = Messages[i]
    <3>1. k \in 0 .. n /\ k # 0 /\ k \in Nat
      BY <1>2
    <3>2. s \in Seq(Seq(Bytes)) /\ Len(s) = k /\ \A i \in 1 .. k : s[i] = Messages[i]
      BY <1>1, <1>2, <2>1, <3>1
    <3> QED  BY <3>1, <3>2, EmptySeq
  <2> DEFINE g == [i \in 1 .. k |-> G[i]]
  <2>3. k \in Nat /\ \A i \in 1 .. k : i \in 0 .. n /\ i \in 1 .. n /\ (i # 1 => i - 1 \in 1 .. k)
    BY <1>2
  <2>4. g \in [1 .. k -> Seq(Bytes)]
    BY <1>3, <2>3
  <2>5. \A i \in 1 .. k : g[i] = G[i]
    OBVIOUS
  <2> HIDE DEF g
  <2>6. g[1] = s[1]
    <3>1. 1 \in 1 .. k /\ 1 \in 1 .. n /\ 1 - 1 = 0
      BY <2>3, <1>2
    <3>2. G[1] = G[0] \o Messages[1] /\ Messages[1] \in Seq(Bytes)
      BY <1>2, <1>3, <3>1
    <3>3. G[1] = Messages[1]
      BY <1>3, <3>2, ConcatEmptySeq
    <3> QED  BY <2>2, <2>5, <3>1, <3>3
  <2>7. \A i \in 1 .. k : i # 1 => g[i] = g[i - 1] \o s[i]
    BY <1>3, <2>2, <2>3, <2>5
  <2>8. g[k] = SeqExt!FlattenSeq(s)
    BY <2>2, <2>4, <2>6, <2>7, FlattenIs
  <2>9. k \in 1 .. k
    BY <2>3
  <2> QED  BY <2>1, <2>5, <2>8, <2>9 DEF Row
<1>6. \A k \in 0 .. n : k = 0 \/ k \in 1 .. n
  BY <1>2
<1>7. \A k \in 0 .. n : Row(k) = G[k]
  BY <1>3, <1>4, <1>5, <1>6
<1>8. Row(n) = All
  <2>1. SubSeq(Messages, 1, n) = Messages
    BY <1>1, <1>2, SubSeqFull
  <2> QED  BY <2>1 DEF Row, All
<1>9. \A k \in 1 .. n : k \in 0 .. n /\ k - 1 \in 0 .. n
  BY <1>2
<1> QED  BY <1>1, <1>3, <1>4, <1>7, <1>8, <1>9

\* The lines lie in All one behind the other.
LEMMA RowsLie ==
  /\ All \in Seq(Bytes) /\ Holds(All, 1, All, Bytes)
  /\ \A k \in 0 .. Len(Messages) : /\ Holds(All, 1, Row(k), Bytes)
                                   /\ Len(Row(k)) \in Nat /\ Len(Row(k)) <= Len(All)
  /\ \A k \in 1 .. Len(Messages) : /\ Holds(All, 1 + Len(Row(k - 1)), Messages[k], Bytes)
                                   /\ Len(Row(k)) = Len(Row(k - 1)) + Len(Messages[k])
<1>1. PICK n : n = Len(Messages)
  OBVIOUS
<1>2. n \in Nat /\ \A k \in 1 .. n : Messages[k] \in Seq(Bytes)
  BY <1>1, LinesAreSequences
<1>3. /\ Row(0) = <<>> /\ Row(n) = All
      /\ \A k \in 0 .. n : Row(k) \in Seq(Bytes)
      /\ \A k \in 1 .. n : Row(k) = Row(k - 1) \o Messages[k]
  BY <1>1, Rows
<1>4. All \in Seq(Bytes) /\ Holds(All, 1, All, Bytes)
  <2>1. All \in Seq(Bytes) /\ \A i \in 1 .. Len(All) : 1 + i - 1 = i
    BY <1>2, <1>3
  <2> QED  BY <2>1 DEF Holds
<1>5. \A k \in 0 .. n : Len(Row(k)) \in Nat
  BY <1>3
<1> DEFINE Lies(k) == Holds(All, 1, Row(k), Bytes) /\ Len(Row(k)) <= Len(All)
<1>6. ASSUME NEW k \in 1 .. n, Lies(k)
      PROVE  /\ Lies(k - 1) /\ Holds(All, 1 + Len(Row(k - 1)), Messages[k], Bytes)
             /\ Len(Row(k)) = Len(Row(k - 1)) + Len(Messages[k])
  <2>1. k \in 0 .. n /\ k - 1 \in 0 .. n
    BY <1>2
  <2>2. Row(k - 1) \in Seq(Bytes) /\ Messages[k] \in Seq(Bytes) /\ Row(k) = Row(k - 1) \o Messages[k]
    BY <1>2, <1>3, <2>1
  <2>3. Holds(All, 1, Row(k - 1) \o Messages[k], Bytes)
    BY <1>6, <2>2
  <2>4. Len(Row(k)) = Len(Row(k - 1)) + Len(Messages[k])
    BY <2>2, ConcatProperties
  <2>5. PICK x, y, z : x = Len(Row(k - 1)) /\ y = Len(Messages[k]) /\ z = Len(All)
    OBVIOUS
  <2>6. x \in Nat /\ y \in Nat /\ z \in Nat /\ x <= z
    <3>1. x \in Nat
      BY <1>5, <2>1, <2>5
    <3>2. y \in Nat /\ z \in Nat
      BY <1>4, <2>2, <2>5
    <3>3. x + y <= z
      BY <1>6, <2>4, <2>5
    <3> QED  BY <3>1, <3>2, <3>3
  <2>7. Len(Row(k - 1)) <= Len(All)
    BY <2>5, <2>6
  <2> QED  BY <2>2, <2>3, <2>4, <2>7, HoldsParts
<1>7. Lies(n)
  <2>1. Len(All) \in Nat
    BY <1>4
  <2> QED  BY <1>3, <1>4, <2>1
<1> HIDE DEF Lies
<1> DEFINE T == {i \in Nat : i <= n => Lies(n - i)}
<1>8. ASSUME NEW i \in Nat, i \in T, i + 1 <= n PROVE Lies(n - (i + 1))
  <2>1. i <= n /\ n - i \in 1 .. n /\ (n - i) - 1 = n - (i + 1)
    BY <1>2, <1>8
  <2> QED  BY <1>6, <1>8, <2>1
<1>9. T \in SUBSET Nat /\ 0 \in T /\ \A i \in T : i + 1 \in T
  <2>1. n - 0 = n
    BY <1>2
  <2> QED  BY <1>7, <1>8, <2>1
<1>10. T = Nat
  <2> HIDE DEF T
  <2> QED  BY <1>9, SetInduction
<1>11. ASSUME NEW k \in 0 .. n PROVE Lies(k)
  <2>1. n - k \in Nat /\ n - k <= n /\ n - (n - k) = k
    BY <1>2
  <2>2. n - k \in T
    BY <1>10, <2>1
  <2> QED  BY <2>1, <2>2
<1>12. \A k \in 1 .. n : k \in 0 .. n
  BY <1>2
<1> QED  BY <1>1, <1>4, <1>5, <1>6, <1>11, <1>12 DEF Lies

\* What lies at the start of All is a prefix of anything longer there.
LEMMA PrefixOfAll ==
  ASSUME NEW s, NEW t, Holds(All, 1, s, Bytes), Holds(All, 1, t, Bytes), Len(s) <= Len(t)
  PROVE  SeqExt!IsPrefix(s, t)
<1>1. PICK m : m = Len(s)
  OBVIOUS
<1>2. s \in Seq(Bytes) /\ t \in Seq(Bytes) /\ m \in Nat /\ Len(t) \in Nat /\ m \in 0 .. Len(t)
  BY <1>1 DEF Holds
<1>3. Holds(All, 1, SubSeq(t, 1, m), Bytes) /\ Len(SubSeq(t, 1, m)) = m
  BY <1>2, HoldsFirst, SeqSplit
<1>4. SubSeq(t, 1, m) = s
  BY <1>1, <1>3, HoldsOne
<1>5. SubSeq(s, 1, m) = s
  BY <1>1, <1>2, SubSeqFull
<1> QED  BY <1>1, <1>4, <1>5 DEF SeqExt!IsPrefix

-----------------------------------------------------------------------------
\* What the ring has accepted of the lines, as long as no line met a ring that
\* took only a part of it: it lies at the start of All, and what append still
\* has in hand lies behind it.
InLine ==
  /\ Holds(All, 1, appended, Bytes)
  /\ Len(appended) = Len(Row(next - 1)) + (IF lpc = "append" THEN nWritten ELSE 0)
  /\ lpc = "append" => remain = Len(Messages[next]) /\ nWritten <= remain
  /\ Appending => Holds(All, 1 + Len(appended), wdata, Bytes) /\ nWritten + Len(wdata) <= remain

LinesInv ==
  /\ lpc = "idle" => wpc = "idle"
  /\ ~partial /\ ~overrun => InLine

\* Before the first line is logged, the ring has taken nothing.
LEMMA InitLines == Init => LinesInv
<1> SUFFICES ASSUME Init PROVE LinesInv
  OBVIOUS
<1>1. appended = <<>> /\ lpc = "idle" /\ wpc = "idle" /\ next = 1
  BY DEF Init, RingInit
<1>2. Len(appended) = 0 /\ appended \in Seq(Bytes) /\ Len(Row(next - 1)) = 0
  BY <1>1, Rows, EmptySeq
<1>3. Holds(All, 1, appended, Bytes)
  BY <1>2 DEF Holds
<1> QED  BY <1>1, <1>2, <1>3 DEF LinesInv, InLine, Appending

\* A line, or the line once more, is handed to the ring.
LEMMA LineBegins ==
  ASSUME next \in 1 .. Len(Messages), StartAppend(Messages[next]),
         Holds(All, 1, appended, Bytes), Len(appended) = Len(Row(next - 1)),
         next' = next, lpc' = "append", remain' = Len(Messages[next]), OneRing
  PROVE  InLine'
<1>1. PICK m, d, w : m = Messages[next] /\ d = wdata' /\ w = wlen'
  OBVIOUS
<1>2. /\ wpc' = "copy" /\ nWritten' = 0 /\ appended' = appended
      /\ d = m \/ d = SubSeq(m, 1, w)
      /\ w = Least(Len(m), IF in >= out THEN Size - in ELSE out - in - 1)
  BY <1>1 DEF StartAppend
<1>3. m \in Seq(Bytes) /\ Len(m) \in Nat /\ Holds(All, 1 + Len(Row(next - 1)), m, Bytes)
  <2>1. m \in Seq(Bytes)
    BY <1>1, LinesAreSequences
  <2>2. Holds(All, 1 + Len(Row(next - 1)), m, Bytes)
    BY <1>1, RowsLie
  <2> QED  BY <2>1, <2>2
<1>4. Len(appended) \in Nat
  BY DEF OneRing, RingInv
<1>5. w \in 0 .. Len(m)
  <2>1. in \in 0 .. Size - 1 /\ out \in 0 .. Size - 1 /\ Size \in Nat
    BY SizeAssumption DEF OneRing, RingInv, Slots
  <2> QED  BY <1>2, <1>3, <2>1 DEF Least
<1>6. Holds(All, 1 + Len(appended), d, Bytes) /\ Len(d) <= Len(m) /\ Len(d) \in Nat
  <2>1. CASE d = m
    BY <1>3, <2>1
  <2>2. CASE d = SubSeq(m, 1, w)
    <3>1. Len(d) = w
      BY <1>3, <1>5, <2>2, SeqSplit
    <3>2. 1 + Len(appended) \in Nat
      BY <1>4
    <3>3. Holds(All, 1 + Len(appended), m, Bytes)
      BY <1>3
    <3>4. Holds(All, 1 + Len(appended), d, Bytes)
      BY <1>5, <2>2, <3>2, <3>3, HoldsFirst
    <3> QED  BY <1>3, <1>5, <3>1, <3>4
  <2> QED  BY <1>2, <2>1, <2>2
<1>7. 0 + Len(d) <= Len(m) /\ 0 <= Len(m) /\ Len(appended) = Len(appended) + 0
  BY <1>3, <1>4, <1>6
<1> QED  BY <1>1, <1>2, <1>6, <1>7 DEF InLine, Appending

\* A line that meets room for all of it lies behind the lines before it.
LEMMA StepLines == OneRing /\ LogInv /\ ThreadInv /\ LinesInv /\ Next => LinesInv'
<1> SUFFICES ASSUME OneRing, LogInv, ThreadInv, LinesInv, Next PROVE LinesInv'
  OBVIOUS
<1>1. Len(appended) \in Nat /\ appended \in Seq(Bytes) /\ Len(Messages) \in Nat /\ nWritten \in Nat
      /\ partial \in BOOLEAN /\ overrun \in BOOLEAN
  BY LinesAreSequences, SizeAssumption DEF OneRing, RingInv, WriterInv, LogInv
<1>2. CASE BeginLog
  <2>1. /\ lpc = "idle" /\ next \in 1 .. Len(Messages) /\ StartAppend(Messages[next])
        /\ remain' = Len(Messages[next]) /\ lpc' = "append" /\ UNCHANGED <<next, partial, overrun>>
    BY <1>2 DEF BeginLog, LogInv, StartAppend
  <2>2. ~partial /\ ~overrun => Holds(All, 1, appended, Bytes) /\ Len(appended) = Len(Row(next - 1)) + 0
    BY <2>1 DEF LinesInv, InLine
  <2>3. next - 1 \in 0 .. Len(Messages)
    BY <1>1, <2>1
  <2>4. \A n \in Nat : n + 0 = n
    OBVIOUS
  <2>5. ~partial /\ ~overrun => Len(appended) = Len(Row(next - 1))
    BY <2>2, <2>3, <2>4, RowsLie
  <2>6. ~partial /\ ~overrun => InLine'
    BY <2>1, <2>2, <2>5, LineBegins
  <2> QED  BY <2>1, <2>6 DEF LinesInv
<1>3. CASE AppendReturns
  <2>1. lpc = "append" /\ wpc = "idle" /\ remain' = remain - nWritten /\ next \in 1 .. Len(Messages)
    BY <1>3 DEF AppendReturns, LogInv
  <2>2. next - 1 \in 0 .. Len(Messages) /\ (next + 1) - 1 = next
    BY <1>1, <2>1
  <2>3. PICK r, m, a : r = remain /\ m = Len(Messages[next]) /\ a = Len(Row(next - 1))
    OBVIOUS
  <2>4. m \in Nat /\ a \in Nat /\ Len(Row(next)) = a + m /\ r \in Int
    <3>1. Messages[next] \in Seq(Bytes)
      BY <2>1, LinesAreSequences
    <3>2. m \in Nat /\ r \in Int
      BY <2>3, <3>1 DEF LogInv
    <3>3. a \in Nat
      BY <2>2, <2>3, RowsLie
    <3>4. Len(Row(next)) = a + m
      BY <2>1, <2>3, RowsLie
    <3> QED  BY <3>2, <3>3, <3>4
  <2>5. ~partial /\ ~overrun => /\ Holds(All, 1, appended, Bytes) /\ Len(appended) = a + nWritten
                                /\ r = m /\ nWritten <= r
    BY <2>1, <2>3 DEF LinesInv, InLine
  <2>6. CASE remain' > 0
    <3>1. /\ StartAppend(Messages[next]) /\ partial' = (partial \/ nWritten > 0) /\ UNCHANGED <<lpc, next>>
          /\ overrun' = overrun
      BY <1>3, <2>6 DEF AppendReturns, StartAppend
    <3>2. ASSUME ~partial', ~overrun' PROVE InLine'
      <4>1. ~partial /\ ~overrun /\ nWritten = 0
        <5>1. ~(partial \/ nWritten > 0) /\ ~overrun
          BY Zenon, <3>1, <3>2
        <5> QED  BY <1>1, <5>1
      <4>2. Len(appended) = a /\ r - nWritten = m
        BY <2>4, <2>5, <4>1
      <4>3. Len(appended) = Len(Row(next - 1)) /\ remain' = Len(Messages[next])
        BY <2>1, <2>3, <4>2
      <4> QED  BY <2>1, <2>5, <3>1, <4>1, <4>3, LineBegins
    <3> QED  BY <2>1, <3>1, <3>2 DEF LinesInv
  <2>7. CASE ~(remain' > 0)
    <3>1. lpc' = "idle" /\ next' = next + 1 /\ UNCHANGED <<ringVars, partial>>
      BY <1>3, <2>7 DEF AppendReturns
    <3>2. UNCHANGED <<appended, wpc, overrun>>
      BY <3>1 DEF ringVars, writerVars
    <3>3. ASSUME ~partial, ~overrun PROVE InLine'
      <4>1. r - nWritten <= 0
        BY <1>1, <2>1, <2>3, <2>4, <2>7
      <4>2. Len(appended) = a + m
        BY <1>1, <2>4, <2>5, <3>3, <4>1
      <4>3. Len(appended) = Len(Row(next)) + 0
        BY <1>1, <2>4, <4>2
      <4> QED  BY <2>1, <2>2, <2>5, <3>1, <3>2, <3>3, <4>3 DEF InLine, Appending
    <3> QED  BY <2>1, <3>1, <3>2, <3>3 DEF LinesInv
  <2> QED  BY <2>6, <2>7
<1>4. CASE AppendStep /\ CopyIn
  BY <1>4 DEF AppendStep, CopyIn, logVars, LinesInv, InLine, Appending
<1>5. CASE AppendStep /\ PublishIn
  <2>1. wpc = "publish" /\ UNCHANGED <<lpc, next, remain, partial>> /\ lpc = "append"
    BY <1>5 DEF AppendStep, PublishIn, logVars, LinesInv, LogInv
  <2>2. PICK rest, w, len2 : /\ rest = SubSeq(wdata, wlen + 1, Len(wdata)) /\ w = wlen'
                             /\ len2 = Least(Len(rest), wout - 1)
    OBVIOUS
  <2>3. PICK d : d = wdata'
    OBVIOUS
  <2>4. /\ nWritten' = nWritten + wlen /\ appended' = appended \o SubSeq(wdata, 1, wlen)
        /\ overrun' = (overrun \/ (wlen > 0 /\ in' = out) \/ (rest # <<>> /\ len2 < 0))
        /\ w = (IF rest = <<>> THEN 0 ELSE len2) /\ d = SubSeq(rest, 1, w)
        /\ wpc' \in {"idle", "copy", "crashed"} /\ (rest = <<>> => wpc' = "idle")
    <3>1. wlen' = (IF rest = <<>> THEN 0 ELSE len2) /\ wdata' = SubSeq(rest, 1, wlen')
      BY Zenon, <1>5, <2>2 DEF PublishIn
    <3> QED  BY <1>5, <2>2, <2>3, <3>1 DEF PublishIn
  <2>5. /\ wdata \in Seq(Bytes) /\ wlen \in 0 .. Len(wdata) /\ Len(wdata) \in Nat /\ wout \in 0 .. Size - 1
        /\ Size \in Nat
    BY <2>1, SizeAssumption DEF OneRing, WriterInv, Appending, Slots
  <2>6. ASSUME ~partial', ~overrun' PROVE InLine'
    <3>1. ~partial /\ ~overrun /\ (rest = <<>> \/ len2 >= 0)
      <4>1. ~overrun /\ ~(rest # <<>> /\ len2 < 0)
        BY Zenon, <2>4, <2>6
      <4>2. rest \in Seq(Bytes) /\ Len(rest) \in Nat
        BY <2>2, <2>5, SeqSplit
      <4>3. len2 \in Int
        BY <2>2, <2>5, <4>2 DEF Least
      <4>4. ~partial
        BY <2>1, <2>6
      <4> QED  BY <4>1, <4>3, <4>4
    <3>2. /\ Holds(All, 1, appended, Bytes) /\ Len(appended) = Len(Row(next - 1)) + nWritten
          /\ remain = Len(Messages[next]) /\ Holds(All, 1 + Len(appended), wdata, Bytes)
          /\ nWritten + Len(wdata) <= remain
      BY <2>1, <3>1 DEF LinesInv, InLine, Appending
    <3>3. PICK first : first = SubSeq(wdata, 1, wlen)
      OBVIOUS
    <3>4. Len(first) = wlen /\ rest \in Seq(Bytes) /\ Len(rest) = Len(wdata) - wlen
      BY <2>2, <2>5, <3>3, SeqSplit
    <3>5. PICK a, x, y : a = Len(appended) /\ x = Len(wdata) /\ y = Len(Row(next - 1))
      OBVIOUS
    <3>6. a \in Nat /\ x \in Nat /\ y \in Nat /\ wlen \in Nat /\ wlen <= x /\ 1 + a \in Nat
      <4>1. next - 1 \in 0 .. Len(Messages)
        BY <1>1, <2>1 DEF LogInv
      <4> QED  BY <1>1, <2>5, <3>5, <4>1, RowsLie
    <3>7. Holds(All, 1 + a, wdata, Bytes) /\ Holds(All, 1, appended, Bytes) /\ wlen \in 0 .. Len(wdata)
      BY <2>5, <3>2, <3>5
    <3>8. Holds(All, 1 + a, first, Bytes) /\ Holds(All, (1 + a) + wlen, rest, Bytes)
      BY <2>2, <3>3, <3>6, <3>7, HoldsFirst, HoldsRest
    <3>9. Holds(All, 1, appended \o first, Bytes) /\ Len(appended \o first) = a + wlen
      <4>1. Holds(All, 1 + Len(appended), first, Bytes)
        BY <3>5, <3>8
      <4>2. Holds(All, 1, appended \o first, Bytes) /\ Len(appended \o first) = Len(appended) + Len(first)
        BY <3>7, <4>1, HoldsConcat
      <4> QED  BY <3>4, <3>5, <4>2
    <3>10. w \in 0 .. Len(rest) /\ Len(rest) \in Nat
      <4>1. Len(rest) \in Nat
        BY <3>4
      <4>2. CASE rest = <<>>
        BY <2>4, <4>1, <4>2
      <4>3. CASE rest # <<>>
        BY <2>2, <2>4, <2>5, <3>1, <4>1, <4>3 DEF Least
      <4> QED  BY <4>2, <4>3
    <3>11. Holds(All, (1 + a) + wlen, d, Bytes) /\ Len(d) = w
      <4>1. (1 + a) + wlen \in Nat
        BY <3>6
      <4> QED  BY <2>4, <3>4, <3>8, <3>10, <4>1, HoldsFirst, SeqSplit
    <3>12. (1 + a) + wlen = 1 + (a + wlen)
      BY <3>6
    <3>13. Holds(All, 1, appended', Bytes) /\ Len(appended') = a + wlen /\ Holds(All, 1 + Len(appended'), d, Bytes)
      BY <2>4, <3>3, <3>9, <3>11, <3>12
    <3>14. PICK r, k : r = remain /\ k = Len(rest)
      OBVIOUS
    <3>15. /\ r \in Int /\ nWritten + x <= r /\ a = y + nWritten /\ k = x - wlen
           /\ w <= k /\ w \in Nat
      BY <3>2, <3>4, <3>5, <3>10, <3>14 DEF LogInv
    <3>16. a + wlen = y + (nWritten + wlen) /\ nWritten + wlen <= r /\ (nWritten + wlen) + w <= r
      BY <1>1, <3>6, <3>15
    <3>17. Len(appended') = Len(Row(next - 1)) + nWritten' /\ nWritten' <= remain /\ nWritten' + Len(d) <= remain
      BY <2>4, <3>5, <3>11, <3>13, <3>14, <3>16
    <3> QED  BY <2>1, <2>3, <3>2, <3>13, <3>17 DEF InLine, Appending
  <2> QED  BY <2>1, <2>6 DEF LinesInv
<1>6. CASE Stop \/ ThreadStep \/ Tick
  <2>1. UNCHANGED <<lpc, wpc, partial, overrun, appended, next, nWritten, remain, wdata>>
    BY <1>6 DEF Stop, ThreadStep, TestRunning, TakeFromRing, StartRetrive, RingEmpty, RetriveStep, ReaderStep,
                CopyOut, PublishOut, Taken, FlushIfDue, FinalFlush, Tick, ringVars, writerVars, logVars
  <2> QED  BY <2>1 DEF LinesInv, InLine, Appending
<1> QED  BY <1>2, <1>3, <1>4, <1>5, <1>6 DEF Next, LoggingStep, AppendStep, WriterStep

-----------------------------------------------------------------------------
IInv == OneRing /\ LogInv /\ ThreadInv /\ TimeInv /\ StopInv /\ LinesInv

\* IInv holds in every reachable state of the logger.
LEMMA Inductive == Spec => []IInv
<1>1. Init => IInv
  BY InitLogger, InitLines DEF IInv
<1>2. IInv /\ Next => IInv'
  <2> SUFFICES ASSUME IInv, Next PROVE IInv'
    OBVIOUS
  <2>1. OneRing'
    BY StepRing, NextIsRing DEF IInv
  <2> QED  BY <2>1, StepLog, StepThread, StepTime, StepStop, StepLines DEF IInv
<1>3. IInv /\ UNCHANGED vars => IInv'
  <2> SUFFICES ASSUME IInv, UNCHANGED vars PROVE IInv'
    OBVIOUS
  <2>1. UNCHANGED <<ringVars, logVars, running, threadVars, historyVars>>
    BY DEF vars
  <2>2. OneRing'
    BY <2>1, StepRing DEF IInv
  <2>3. UNCHANGED <<writerVars, readerVars, Held>>
    BY <2>1 DEF ringVars, threadVars, readerVars, Held
  <2>4. LogInv' /\ ThreadInv' /\ TimeInv' /\ StopInv'
    BY <2>1, <2>3 DEF IInv, LogInv, ThreadInv, TimeInv, StopInv, logVars, threadVars, historyVars,
                      writerVars, readerVars
  <2>5. LinesInv'
    BY <2>1, <2>3 DEF IInv, LinesInv, InLine, Appending, logVars, writerVars
  <2> QED  BY <2>2, <2>4, <2>5 DEF IInv
<1> QED  BY <1>1, <1>2, <1>3, PTL DEF Spec

\* append, retrive and threadFunc keep the state well formed, even after
\* append has run over unread bytes; threadFunc never asks the ring for more
\* than its buffer can take, or for nothing.
THEOREM TypeCorrect == Spec => []TypeOK
<1>1. IInv => TypeOK
  <2> SUFFICES ASSUME IInv PROVE TypeOK
    OBVIOUS
  <2>1. RingTypeOK
    BY DEF IInv, OneRing, RingInv, WriterInv, ReaderInv, RingTypeOK
  <2>2. Held \in 0 .. BufferSize
    BY HeldProperties DEF IInv
  <2> QED  BY <2>1, <2>2, LinesAreSequences DEF IInv, LogInv, ThreadInv, TimeInv, StopInv, TypeOK, Clock
<1> QED  BY <1>1, Inductive, PTL

\* What the logger's thread has read is the beginning of what was appended.
LEMMA ReaderHasPrefix == IInv => Fifo
<1> SUFFICES ASSUME IInv, ~overrun
             PROVE  Len(rdata) <= Len(appended) /\ rdata = SubSeq(appended, 1, Len(rdata))
  BY DEF Fifo
<1>1. Len(rdata) \in Nat /\ Len(appended) \in Nat /\ rdata \in Seq(Bytes \cup {None}) /\ appended \in Seq(Bytes)
  BY DEF IInv, OneRing, RingInv
<1>2. rlen \in Nat /\ Unread \in Nat /\ (rpc # "idle" => rlen <= Unread) /\ rpc \in {"idle", "copy", "publish"}
  BY SizeAssumption DEF IInv, OneRing, RingOrdered, ReaderInv, CountInv
<1>3. Len(rdata) <= Len(appended)
  BY <1>1, <1>2 DEF Unread, Got
<1> DEFINE s == SubSeq(appended, 1, Len(rdata))
<1>4. /\ s \in Seq(Bytes) /\ Len(s) = Len(rdata)
      /\ \A i \in 1 .. Len(rdata) : s[i] = appended[i]
  BY <1>1, <1>3
<1>5. \A i \in 1 .. Len(rdata) : rdata[i] = appended[i]
  BY DEF IInv, OneRing, RingOrdered, ContentInv
<1> HIDE DEF s
<1>6. s \in Seq(Bytes \cup {None})
  BY <1>4
<1>7. s = rdata
  BY <1>1, <1>4, <1>5, <1>6, SeqEqual
<1> QED  BY <1>3, <1>7 DEF s

\* append and retrive: what the reader has is what the writer handed over, in
\* order and without a gap, for a ring and lines of any size.
THEOREM FirstInFirstOut == Spec => []Fifo
  BY ReaderHasPrefix, Inductive, PTL

\* append and threadFunc: until a line meets a ring with room for only a part
\* of it, the lines whose append has returned are in the ring, and what
\* threadFunc has taken is the lines in the order they were logged.
THEOREM LinesStayInOrder == Spec => []LinesInOrder
<1>1. IInv => LinesInOrder
  <2> SUFFICES ASSUME IInv, ~partial, ~overrun
               PROVE  SeqExt!IsPrefix(Row(next - 1), appended) /\ SeqExt!IsPrefix(rdata, All)
    BY DEF LinesInOrder, Row, All
  <2>1. /\ appended \in Seq(Bytes) /\ Len(rdata) \in Nat /\ nWritten \in Nat
        /\ next - 1 \in 0 .. Len(Messages) /\ lpc \in {"idle", "append"}
    BY LinesAreSequences, SizeAssumption DEF IInv, OneRing, RingInv, WriterInv, LogInv
  <2>2. /\ Holds(All, 1, appended, Bytes)
        /\ Len(appended) = Len(Row(next - 1)) + (IF lpc = "append" THEN nWritten ELSE 0)
        /\ lpc = "append" => remain = Len(Messages[next]) /\ nWritten <= remain /\ next \in 1 .. Len(Messages)
    BY LinesAreSequences DEF IInv, LinesInv, InLine, LogInv
  <2>3. PICK a, b, c : a = Len(appended) /\ b = Len(Row(next - 1)) /\ c = Len(All)
    OBVIOUS
  <2>4. Holds(All, 1, Row(next - 1), Bytes) /\ a \in Nat /\ b \in Nat /\ c \in Nat /\ b <= c
    BY <2>1, <2>3, RowsLie
  <2>5. b <= a /\ a <= c
    <3>1. CASE lpc = "idle"
      BY <2>1, <2>2, <2>3, <2>4, <3>1
    <3>2. CASE lpc = "append"
      <4>1. PICK m : m = Len(Messages[next])
        OBVIOUS
      <4>2. next \in 1 .. Len(Messages) /\ a = b + nWritten /\ nWritten <= m
        BY <2>2, <2>3, <3>2, <4>1
      <4>3. next \in 0 .. Len(Messages) /\ m \in Nat
        BY <4>1, <4>2, LinesAreSequences
      <4>4. Len(Row(next)) = b + m
        BY <2>3, <4>1, <4>2, RowsLie
      <4>5. b + m <= c
        BY <2>3, <4>3, <4>4, RowsLie
      <4> QED  BY <2>1, <2>4, <4>2, <4>3, <4>5
    <3> QED  BY <2>1, <3>1, <3>2
  <2>6. SeqExt!IsPrefix(Row(next - 1), appended)
    BY <2>2, <2>3, <2>4, <2>5, PrefixOfAll
  <2>7. Len(rdata) <= Len(appended) /\ rdata = SubSeq(appended, 1, Len(rdata))
    BY ReaderHasPrefix DEF Fifo
  <2>8. PICK d, k : d = SubSeq(appended, 1, k) /\ k = Len(rdata)
    OBVIOUS
  <2>9. k \in 0 .. Len(appended) /\ k <= c /\ d = rdata
    BY <2>1, <2>3, <2>4, <2>5, <2>7, <2>8
  <2>10. Holds(All, 1, d, Bytes)
    BY <2>2, <2>8, <2>9, HoldsFirst
  <2>11. Holds(All, 1, All, Bytes) /\ Len(rdata) <= Len(All)
    BY <2>3, <2>8, <2>9, RowsLie
  <2> QED  BY <2>6, <2>9, <2>10, <2>11, PrefixOfAll
<1> QED  BY <1>1, Inductive, PTL

\* append and retrive: the two threads' memcpys are in different slots.
THEOREM SlotsAreNotShared == Spec => []NoDataRace
<1>1. IInv => NoDataRace
  <2> SUFFICES ASSUME IInv, ~overrun, wpc = "copy", rpc = "copy", NEW i \in Part(in, wlen), i \in Part(out, rlen)
               PROVE  FALSE
    BY DEF NoDataRace
  <2>1. /\ in \in 0 .. Size - 1 /\ out \in 0 .. Size - 1 /\ Size \in Nat
        /\ Unread \in 0 .. Size - 1 /\ in = IF out + Unread < Size THEN out + Unread ELSE out + Unread - Size
        /\ rlen \in Nat /\ rlen <= Unread /\ out + rlen <= Size
        /\ wlen \in Int /\ wlen <= Size - Unread /\ in + wlen <= Size
    BY SizeAssumption DEF IInv, OneRing, RingOrdered, RingInv, WriterInv, ReaderInv, CountInv, Appending, Slot, Slots
  <2>2. i \in Int /\ in <= i /\ i < in + wlen /\ out <= i /\ i < out + rlen
    BY <2>1 DEF Part
  <2> QED  BY <2>1, <2>2
<1> QED  BY <1>1, Inductive, PTL

\* append: a call that returns short has filled the ring up to one slot below
\* m_out as it found it, in one part or in two.
THEOREM ShortAppendHasFilled == Spec => ShortAppendFillsRing
<1> DEFINE A == wpc = "publish" /\ wpc' = "idle" /\ ~overrun' /\ nWritten' < wsize => (in' + 1) % Size = wout
<1>1. IInv /\ Next => A
  <2> SUFFICES ASSUME IInv, Next, wpc = "publish", wpc' = "idle", nWritten' < wsize
               PROVE  (in' + 1) % Size = wout
    OBVIOUS
  <2>1. PublishIn
    BY DEF Next, LoggingStep, ThreadStep, BeginLog, AppendReturns, AppendStep, WriterStep, StartAppend, CopyIn,
           Stop, Tick, TestRunning, TakeFromRing, RingEmpty, RetriveStep, Taken, FlushIfDue, FinalFlush,
           ReaderStep, StartRetrive, CopyOut, PublishOut, ringVars, writerVars
  <2> DEFINE rest == SubSeq(wdata, wlen + 1, Len(wdata))
             i2 == (in + wlen) % Size
  <2>2. in' = i2 /\ nWritten' = nWritten + wlen /\ rest = <<>>
    BY <2>1 DEF PublishIn
  <2>3. /\ wdata \in Seq(Bytes) /\ wlen \in 0 .. Len(wdata) /\ Size \in Nat /\ wout \in 0 .. Size - 1
        /\ in \in 0 .. Size - 1 /\ nWritten \in Nat /\ wsize \in Nat
        /\ wlen = Len(wdata) => nWritten + wlen = wsize \/ in + wlen + 1 = wout
    BY SizeAssumption DEF IInv, OneRing, RingInv, WriterInv, Appending, Slots
  <2>4. wlen = Len(wdata)
    <3>1. Len(rest) = Len(wdata) - wlen
      BY <2>3, SeqSplit
    <3> HIDE DEF rest
    <3> QED  BY <2>2, <2>3, <3>1
  <2>5. in + wlen + 1 = wout
    BY <2>2, <2>3, <2>4
  <2>6. in + wlen \in Nat /\ in + wlen < Size - 1 /\ in + wlen <= Size
    BY <2>3, <2>5
  <2>7. i2 = in + wlen
    BY <2>3, <2>6, Wrap
  <2>8. wout % Size = wout
    BY <2>3, SizeAssumption
  <2> HIDE DEF i2
  <2> QED  BY <2>2, <2>3, <2>5, <2>7, <2>8
<1> HIDE DEF A
<1>2. IInv /\ [Next]_vars => [A]_ringVars
  BY <1>1 DEF vars
<1> QED  BY <1>2, Inductive, PTL DEF ShortAppendFillsRing, Spec, A

\* stop, and the drain behind threadFunc's loop: when the thread has ended,
\* what the ring had accepted before stop() was called is written.
THEOREM DrainIsComplete == Spec => []DrainTakesAll
<1>1. IInv => DrainTakesAll
  BY DEF IInv, StopInv, DrainTakesAll
<1> QED  BY <1>1, Inductive, PTL

\* threadFunc's flush condition: no byte stays in its buffer for more than
\* three seconds.
THEOREM HeldBriefly == Spec => []HeldAtMostThreeSeconds
<1>1. IInv => HeldAtMostThreeSeconds
  <2> SUFFICES ASSUME IInv, Held > 0 PROVE heldFor <= 6
    BY DEF HeldAtMostThreeSeconds
  <2> QED  BY DEF IInv, TimeInv, Clock
<1> QED  BY <1>1, Inductive, PTL

-----------------------------------------------------------------------------
\* The ring as a queue.

\* What lies from m_out to m_in is what was appended and has not been read, and
\* what the reader has is what was appended before.
ContentsInv ==
  /\ Contents = SubSeq(appended, Got + 1, Len(appended))
  /\ Contents \in Seq(Bytes) /\ Len(Contents) = Unread /\ Unread \in 0 .. Size - 1
  /\ appended \in Seq(Bytes) /\ Got \in 0 .. Len(appended) /\ Unread = Len(appended) - Got
  /\ SubSeq(rdata, 1, Got) = SubSeq(appended, 1, Got)

\* That follows from where the unread bytes lie.
LEMMA ContentsAreUnread == RingInv /\ ReaderInv /\ CountInv /\ ContentInv => ContentsInv
<1> SUFFICES ASSUME RingInv, ReaderInv, CountInv, ContentInv PROVE ContentsInv
  OBVIOUS
<1>1. appended \in Seq(Bytes) /\ Len(appended) \in Nat /\ Got \in Nat /\ Unread = Len(appended) - Got
  BY DEF RingInv, ReaderInv, Got, Unread
<1>2. /\ Unread \in 0 .. Size - 1 /\ Size \in Nat /\ in \in 0 .. Size - 1 /\ out \in 0 .. Size - 1
      /\ in = IF out + Unread < Size THEN out + Unread ELSE out + Unread - Size
  BY SizeAssumption DEF RingInv, CountInv, Slot, Slots
<1>3. data_size = Unread
  BY <1>2 DEF data_size
<1>4. Contents = [k \in 1 .. Unread |-> buf[Slot(out, k - 1)]]
  BY <1>3, Zenon DEF Contents
<1>5. PICK g, m, s, u : g = Got /\ m = Len(appended) /\ s = SubSeq(appended, g + 1, m) /\ u = Unread
  OBVIOUS
<1>6. s \in Seq(Bytes) /\ u \in Nat /\ Len(s) = u /\ \A k \in 1 .. u : s[k] = appended[g + k]
  <2>1. m \in Nat /\ g \in Nat /\ u = m - g /\ u \in Nat
    BY <1>1, <1>2, <1>5
  <2>2. g \in 0 .. m
    BY <2>1
  <2> QED  BY <1>1, <1>5, <2>1, <2>2
<1>7. \A k \in 1 .. u : buf[Slot(out, k - 1)] = s[k] /\ s[k] \in Bytes
  <2>1. \A k \in 1 .. u : buf[Slot(out, k - 1)] = appended[g + k]
    BY <1>5 DEF ContentInv
  <2>2. \A k \in 1 .. u : s[k] \in Bytes
    BY <1>6
  <2> QED  BY <1>6, <2>1, <2>2
<1>8. PICK c : c = [k \in 1 .. u |-> buf[Slot(out, k - 1)]]
  OBVIOUS
<1>9. c \in [1 .. u -> Bytes] /\ \A k \in 1 .. u : c[k] = s[k]
  BY <1>7, <1>8
<1>10. c \in Seq(Bytes) /\ Len(c) = u
  BY <1>6, <1>9
<1>11. c = s
  BY <1>6, <1>9, <1>10, SeqEqual
<1>12. Got \in 0 .. Len(appended)
  BY <1>1, <1>2
<1>13. SubSeq(rdata, 1, Got) = SubSeq(appended, 1, Got)
  <2>1. PICK x, y : x = SubSeq(rdata, 1, g) /\ y = SubSeq(appended, 1, g)
    OBVIOUS
  <2>2. g \in 0 .. Len(rdata) /\ g \in 0 .. Len(appended) /\ rdata \in Seq(Bytes \cup {None})
    BY <1>1, <1>5, <1>12 DEF Got, RingInv, ReaderInv
  <2>3. x \in Seq(Bytes \cup {None}) /\ Len(x) = g /\ \A i \in 1 .. g : x[i] = rdata[i]
    BY <2>1, <2>2
  <2>4. appended \in Seq(Bytes \cup {None})
    BY <1>1
  <2>5. y \in Seq(Bytes \cup {None}) /\ Len(y) = g /\ \A i \in 1 .. g : y[i] = appended[i]
    BY <2>1, <2>2, <2>4
  <2>6. \A i \in 1 .. g : i \in 1 .. Len(rdata)
    BY <2>2
  <2>7. \A i \in 1 .. g : rdata[i] = appended[i]
    BY <2>6 DEF ContentInv
  <2>8. x = y
    BY <2>3, <2>5, <2>7, SeqEqual
  <2> QED  BY <1>5, <2>1, <2>8
<1> QED  BY <1>1, <1>2, <1>4, <1>5, <1>6, <1>8, <1>11, <1>12, <1>13 DEF ContentsInv

\* An append that has not run over unread bytes, and a retrive, are steps of
\* the queue when they store their index, and leave it as it is before.
LEMMA RingQueueStep ==
  ASSUME OneRing, OneRing', RingStep \/ UNCHANGED ringVars
  PROVE  Q!Next \/ UNCHANGED <<appended, Contents, SubSeq(rdata, 1, Got), overrun>>
<1> DEFINE taken == SubSeq(rdata, 1, Got)
           Same == UNCHANGED <<appended, Contents, taken, overrun>>
<1>1. overrun' \in BOOLEAN
  BY DEF OneRing, RingInv
<1>2. CASE overrun'
  BY <1>1, <1>2 DEF Q!Next, Q!Fail
<1>3. CASE ~overrun'
  <2>1. overrun' = overrun
    <3>1. overrun => overrun'
      BY DEF RingStep, StartAppend, CopyIn, PublishIn, StartRetrive, CopyOut, PublishOut, ringVars, writerVars
    <3> QED  BY <1>1, <1>3, <3>1 DEF OneRing, RingInv
  <2>2. /\ Contents = SubSeq(appended, Got + 1, Len(appended))
        /\ Contents \in Seq(Bytes) /\ Len(Contents) = Unread
        /\ appended \in Seq(Bytes) /\ Got \in 0 .. Len(appended) /\ Unread = Len(appended) - Got
        /\ taken = SubSeq(appended, 1, Got)
    BY <1>3, <2>1, ContentsAreUnread DEF OneRing, RingOrdered, ContentsInv
  <2>3. /\ Contents' = SubSeq(appended', Got' + 1, Len(appended'))
        /\ Contents' \in Seq(Bytes) /\ Len(Contents') = Unread' /\ Unread' \in 0 .. Size - 1
        /\ taken' = SubSeq(appended', 1, Got')
    <3>1. RingInv' /\ ReaderInv' /\ CountInv' /\ ContentInv'
      BY <1>3 DEF OneRing, RingOrdered
    <3>2. ContentsInv'
      BY <3>1, ContentsAreUnread, PTL
    <3> QED  BY <3>2 DEF ContentsInv
  <2>4. CASE PublishIn
    <3> DEFINE first == SubSeq(wdata, 1, wlen)
    <3>1. appended' = appended \o first /\ Got' = Got /\ taken' = taken
      BY <2>4 DEF PublishIn, Got, readerVars
    <3>2. first \in Seq(Bytes)
      <4>1. wdata \in Seq(Bytes) /\ wlen \in 0 .. Len(wdata)
        BY <2>4 DEF PublishIn, OneRing, WriterInv, Appending
      <4> QED  BY <4>1, SeqSplit
    <3> HIDE DEF first
    <3>3. Contents' = Contents \o first
      <4>1. PICK a, g : a = appended /\ g = Got
        OBVIOUS
      <4>2. a \in Seq(Bytes) /\ g \in 0 .. Len(a)
        BY <2>2, <4>1
      <4>3. SubSeq(a \o first, g + 1, Len(a \o first)) = SubSeq(a, g + 1, Len(a)) \o first
        BY <3>2, <4>2, RestOfConcat
      <4> QED  BY <2>2, <2>3, <3>1, <4>1, <4>3
    <3>4. Q!Added = first
      <4>1. PICK c, d : c = Contents /\ d = Contents'
        OBVIOUS
      <4>2. c \in Seq(Bytes) /\ d = c \o first
        BY <2>2, <3>3, <4>1
      <4>3. SubSeq(d, Len(c) + 1, Len(d)) = first
        BY <3>2, <4>2
      <4> QED  BY <4>1, <4>3 DEF Q!Added
    <3>5. Len(Contents') <= Size - 1
      BY <2>3, SizeAssumption
    <3>6. Q!Put
      BY <2>1, <3>1, <3>2, <3>3, <3>4, <3>5 DEF Q!Put
    <3> QED  BY <3>6 DEF Q!Next
  <2>5. CASE PublishOut
    <3>1. /\ appended' = appended /\ Got' = Got + rlen /\ rlen \in 0 .. Unread
      <4>1. rpc = "publish" /\ rpc' # "publish" /\ rdata' = rdata /\ appended' = appended
        BY <2>5 DEF PublishOut, writerVars
      <4>2. rlen \in Nat /\ rlen <= Unread /\ Len(rdata) \in Nat /\ Unread \in Nat
        BY <1>3, <2>1, <4>1, SizeAssumption DEF OneRing, RingOrdered, RingInv, ReaderInv, CountInv
      <4> QED  BY <4>1, <4>2 DEF Got
    <3>2. PICK a, g, n : a = appended /\ g = Got /\ n = rlen
      OBVIOUS
    <3>3. a \in Seq(Bytes) /\ g \in 0 .. Len(a) /\ n \in 0 .. Len(a) - g
      BY <2>2, <3>1, <3>2
    <3>4. SubSeq(SubSeq(a, g + 1, Len(a)), n + 1, Len(a) - g) = SubSeq(a, (g + n) + 1, Len(a))
      BY <3>3, RestOfRest
    <3>5. Contents' = SubSeq(Contents, rlen + 1, Len(Contents)) /\ rlen \in 0 .. Len(Contents)
      BY <2>2, <2>3, <3>1, <3>2, <3>4
    <3>6. SubSeq(a, 1, g + n) = SubSeq(a, 1, g) \o SubSeq(SubSeq(a, g + 1, Len(a)), 1, n)
      BY <3>3, FirstOfRest
    <3>7. taken' = taken \o SubSeq(Contents, 1, rlen)
      BY <2>2, <2>3, <3>1, <3>2, <3>6
    <3>8. Q!Take
      BY <2>1, <3>1, <3>5, <3>7 DEF Q!Take
    <3> QED  BY <3>8 DEF Q!Next
  <2>6. ASSUME appended' = appended, Got' = Got PROVE Same
    BY <2>1, <2>2, <2>3, <2>6
  <2>7. CASE UNCHANGED ringVars
    BY <2>6, <2>7 DEF ringVars, writerVars, readerVars, Got
  <2>8. ASSUME NEW data \in Seq(Bytes) \ {<<>>}, StartAppend(data) PROVE Same
    BY <2>6, <2>8 DEF StartAppend, readerVars, Got
  <2>9. CASE CopyIn
    BY <2>6, <2>9 DEF CopyIn, readerVars, Got
  <2>10. ASSUME NEW n \in Nat, StartRetrive(n) PROVE Same
    BY <2>6, <2>10 DEF StartRetrive, writerVars, Got
  <2>11. CASE CopyOut
    <3>1. Len(rdata') = Len(rdata) + rlen /\ Len(rdata) \in Nat /\ rlen \in Nat
      BY <2>11, StepCopyOut, SizeAssumption DEF OneRing, RingInv, ReaderInv
    <3>2. rpc = "copy" /\ rpc' = "publish" /\ rlen' = rlen /\ appended' = appended
      BY <2>11 DEF CopyOut, writerVars
    <3>3. Got' = Got
      BY <3>1, <3>2 DEF Got
    <3> QED  BY <2>6, <3>2, <3>3
  <2> QED  BY <2>4, <2>5, <2>7, <2>8, <2>9, <2>10, <2>11 DEF RingStep
<1> QED  BY <1>2, <1>3

\* append and retrive: the ring implements the queue of BoundedQueue with all
\* slots but one, for a ring and lines of any size: only the stores of the
\* indices change what it holds, however the copies are interleaved.
THEOREM RingImplementsQueue == Spec => RingIsQueue
<1>1. Init => Q!Init
  BY SizeAssumption DEF Init, RingInit, Q!Init, Contents, Got, data_size
<1>2. IInv /\ IInv' /\ [Next]_vars => [Q!Next]_Q!queueVars
  <2> SUFFICES ASSUME IInv, IInv', [Next]_vars PROVE Q!Next \/ UNCHANGED Q!queueVars
    OBVIOUS
  <2>1. RingStep \/ UNCHANGED ringVars
    BY NextIsRing DEF IInv, vars
  <2> QED  BY <2>1, RingQueueStep DEF IInv, Q!queueVars
<1> QED  BY <1>1, <1>2, Inductive, PTL DEF Spec, RingIsQueue, Q!Spec
=============================================================================
