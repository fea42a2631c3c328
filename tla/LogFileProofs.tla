---------------------------- MODULE LogFileProofs ----------------------------
(***************************************************************************)
(* The invariants of LogFile, for any loggers, lines and sizes.            *)
(*                                                                         *)
(* The reason that lines are kept is that a file that has not been opened  *)
(* again has one writer, which writes at its end lines that are newer than *)
(* all it has (AppendInv).  For any other file only the lengths count:     *)
(* m_writtenBytes does not go beyond the file's end (PlaceInv).            *)
(***************************************************************************)
EXTENDS LogFile, CommonLemmas

TypeInv ==
  /\ disk \in [Names -> Seq(Lines) \cup {None}]
  /\ clock \in 0 .. MaxSecond /\ run \in 1 .. MaxRuns /\ next \in 1 .. Len(Length) + 1
  /\ pc \in [Logs -> {"none", "idle", "write", "open"}]
  /\ line \in [Logs -> Lines \cup {None}]
  /\ name \in [Logs -> Names \cup {None}]
  /\ written \in [Logs -> 0 .. MaxSize]
  /\ overlaid \subseteq Names
  /\ kept \in [Lines -> Names \cup {None}]

Exists(f) == disk[f] # None
Opened(l) == pc[l] # "none"

SizeInv == \A f \in Names : Exists(f) => Len(disk[f]) <= MaxSize

PlaceInv ==
  \A l \in Logs :
    /\ line[l] # None <=> pc[l] \in {"write", "open"}
    /\ line[l] # None => line[l] < next
    /\ Opened(l) => name[l] \in Names /\ Exists(name[l]) /\ written[l] <= Len(disk[name[l]])

\* The bytes of a file are older than a line that is put behind them.
Below(d, i) == \A j \in 1 .. Len(d) : d[j] < i
Sorted(d) == \A j, k \in 1 .. Len(d) : j < k => d[j] <= d[k]

\* All of line i is in one piece in d.
Piece(d, i) == \E j \in 0 .. Len(d) - Fitting(i) : \A m \in 1 .. Fitting(i) : d[j + m] = i

AppendInv ==
  \A l \in Logs :
    Opened(l) /\ name[l] \notin overlaid =>
      /\ written[l] = Len(disk[name[l]])
      /\ \A k \in Logs : Opened(k) /\ name[k] = name[l] => k = l
      /\ line[l] # None => Below(disk[name[l]], line[l])

OrderInv ==
  \A f \in Names : Exists(f) => /\ Below(disk[f], next)
                                /\ f \notin overlaid => Sorted(disk[f])

KeptInv ==
  \A i \in Lines : kept[i] # None => /\ kept[i] \in Names /\ Exists(kept[i])
                                     /\ kept[i] \notin overlaid => Piece(disk[kept[i]], i)

IInv == TypeInv /\ SizeInv /\ PlaceInv /\ AppendInv /\ OrderInv /\ KeptInv

-----------------------------------------------------------------------------
\* What the proofs use of the constants: a line cut to its stream fits a
\* file.
LEMMA Constants ==
  /\ MaxSize \in Nat /\ StreamSize \in 1 .. MaxSize /\ Len(Length) \in Nat /\ Lines = 1 .. Len(Length)
  /\ Lines \subseteq Nat /\ None \notin Lines
  /\ \A i \in Lines : Fitting(i) \in 1 .. MaxSize
  /\ \A s \in Seq(Lines) : s # None
  /\ MaxSecond \in Nat /\ MaxRuns \in Nat \ {0}
<1>1. Length \in Seq(Nat \ {0}) /\ MaxSize \in Nat /\ StreamSize \in 1 .. MaxSize
  BY LogFileAssumption
<1>2. Len(Length) \in Nat /\ Lines = 1 .. Len(Length) /\ \A i \in Lines : Length[i] \in Nat \ {0}
  BY <1>1 DEF Lines
<1>3. Lines \subseteq Nat
  BY <1>2
<1> HIDE DEF Lines
<1>4. \A i \in Lines : Fitting(i) \in 1 .. MaxSize
  BY <1>1, <1>2 DEF Fitting
<1>5. \A s \in Seq(Lines) : s # None
  <2>1. \A s \in Seq(Lines) : s \in Seq(Nat)
    BY <1>3, SeqMonotonic
  <2> QED  BY <2>1, LogFileAssumption
<1> QED  BY <1>1, <1>2, <1>3, <1>4, <1>5, LogFileAssumption

\* The bytes of a line are its number, repeated.
LEMMA LineBytes ==
  ASSUME NEW i \in Lines, NEW n \in Nat
  PROVE  Bytes(i, n) \in Seq(Lines) /\ Len(Bytes(i, n)) = n /\ \A j \in 1 .. n : Bytes(i, n)[j] = i
<1>1. Bytes(i, n) \in [1 .. n -> Lines]
  BY DEF Bytes
<1>2. Bytes(i, n) \in Seq(Lines)
  BY <1>1, SeqDef
<1>3. Len(Bytes(i, n)) = n
  BY <1>1, <1>2, LenProperties
<1> QED  BY <1>2, <1>3 DEF Bytes

\* e is d with n bytes of line i behind its end.
Longer(e, d, i, n) ==
  /\ Len(e) = Len(d) + n
  /\ \A j \in 1 .. Len(d) : e[j] = d[j]
  /\ \A j \in 1 .. n : e[Len(d) + j] = i

\* e is d after n bytes of line i have been written at an offset of it.
Overwritten(e, d, at, i, n) ==
  /\ e \in Seq(Lines) /\ Len(e) = (IF at + n <= Len(d) THEN Len(d) ELSE at + n)
  /\ \A j \in 1 .. Len(e) : e[j] = i \/ (j \in 1 .. Len(d) /\ e[j] = d[j])
  /\ at = Len(d) => Longer(e, d, i, n)

\* What write() makes of a file, at its end and elsewhere.
LEMMA Overlaid ==
  ASSUME NEW d \in Seq(Lines), NEW at \in 0 .. Len(d), NEW i \in Lines, NEW n \in Nat
  PROVE  Overwritten(Overlay(d, at, Bytes(i, n)), d, at, i, n)
<1> DEFINE b == Bytes(i, n)
           p == SubSeq(d, 1, at)
           q == SubSeq(d, at + n + 1, Len(d))
           u == p \o b
           e == Overlay(d, at, Bytes(i, n))
<1>1. b \in Seq(Lines) /\ Len(b) = n /\ \A j \in 1 .. n : b[j] = i
  BY LineBytes
<1> HIDE DEF b
<1>2. Len(d) \in Nat /\ at \in Nat /\ at <= Len(d)
  OBVIOUS
<1>3. p \in Seq(Lines) /\ Len(p) = at /\ \A j \in 1 .. at : p[j] = d[j]
  BY <1>2
<1>4. /\ q \in Seq(Lines) /\ Len(q) = (IF at + n <= Len(d) THEN Len(d) - (at + n) ELSE 0)
      /\ \A j \in 1 .. Len(q) : q[j] = d[(at + n) + j]
      /\ Len(q) \in Nat
  <2>1. CASE at + n < Len(d)
    BY <1>2, <2>1
  <2>2. CASE at + n >= Len(d)
    BY <1>2, <2>2
  <2> QED  BY <1>2, <2>1, <2>2
<1> HIDE DEF p, q
<1>5. /\ u \in Seq(Lines) /\ Len(u) = at + n
      /\ \A j \in 1 .. at + n : u[j] = IF j <= at THEN p[j] ELSE b[j - at]
  <2>1. /\ p \o b \in Seq(Lines) /\ Len(p \o b) = Len(p) + Len(b)
        /\ \A j \in 1 .. Len(p) + Len(b) : (p \o b)[j] = IF j <= Len(p) THEN p[j] ELSE b[j - Len(p)]
    BY <1>1, <1>3, ConcatProperties
  <2> QED  BY <1>1, <1>3, <2>1
<1> HIDE DEF u
<1>6. e = u \o q
  BY <1>1 DEF Overlay, p, q, b, u
<1> HIDE DEF e
<1>7. /\ e \in Seq(Lines) /\ Len(e) = (at + n) + Len(q)
      /\ \A j \in 1 .. (at + n) + Len(q) : e[j] = IF j <= at + n THEN u[j] ELSE q[j - (at + n)]
  <2>1. /\ u \o q \in Seq(Lines) /\ Len(u \o q) = Len(u) + Len(q)
        /\ \A j \in 1 .. Len(u) + Len(q) : (u \o q)[j] = IF j <= Len(u) THEN u[j] ELSE q[j - Len(u)]
    BY <1>4, <1>5, ConcatProperties
  <2> QED  BY <1>5, <1>6, <2>1
<1>8. PICK k, m : k = Len(q) /\ m = Len(d)
  OBVIOUS
<1>9. /\ m \in Nat /\ at \in Nat /\ at <= m /\ n \in Nat /\ k \in Nat
      /\ k = IF at + n <= m THEN m - (at + n) ELSE 0
  BY <1>2, <1>4, <1>8
<1>10. /\ \A j \in 1 .. (at + n) + k : e[j] = IF j <= at + n THEN u[j] ELSE q[j - (at + n)]
       /\ \A j \in 1 .. k : q[j] = d[(at + n) + j]
  BY <1>4, <1>7, <1>8
<1>11. (at + n) + k = (IF at + n <= m THEN m ELSE at + n)
  BY <1>9
<1>12. ASSUME NEW j \in 1 .. at PROVE e[j] = d[j] /\ j \in 1 .. m
  <2>1. j \in 1 .. at + n /\ j <= at /\ j <= at + n /\ j \in 1 .. (at + n) + k /\ j \in 1 .. m
    BY <1>9
  <2> QED  BY <1>3, <1>5, <1>10, <2>1
<1>13. ASSUME NEW j \in 1 .. n PROVE e[at + j] = i
  <2>1. /\ at + j \in 1 .. at + n /\ ~(at + j <= at) /\ (at + j) - at = j /\ at + j \in 1 .. (at + n) + k
        /\ at + j <= at + n
    BY <1>9
  <2> QED  BY <1>1, <1>5, <1>10, <2>1
<1>14. ASSUME NEW j \in 1 .. (at + n) + k, j > at + n PROVE e[j] = d[j] /\ j \in 1 .. m
  <2>1. j - (at + n) \in 1 .. k /\ (at + n) + (j - (at + n)) = j /\ ~(j <= at + n) /\ j \in 1 .. m
    BY <1>9, <1>14
  <2> QED  BY <1>10, <2>1
<1>15. ASSUME NEW j \in 1 .. (at + n) + k PROVE e[j] = i \/ (j \in 1 .. m /\ e[j] = d[j])
  <2>1. CASE j <= at
    BY <1>9, <1>12, <2>1
  <2>2. CASE j > at /\ j <= at + n
    <3>1. j - at \in 1 .. n /\ at + (j - at) = j
      BY <1>9, <2>2
    <3> QED  BY <1>13, <3>1
  <2>3. CASE j > at + n
    BY <1>14, <2>3
  <2> QED  BY <1>9, <2>1, <2>2, <2>3
<1>16. at = m => /\ \A j \in 1 .. m : e[j] = d[j]
                 /\ \A j \in 1 .. n : e[m + j] = i
                 /\ (at + n) + k = m + n
  BY <1>9, <1>11, <1>12, <1>13
<1>17. Overwritten(e, d, at, i, n)
  BY <1>7, <1>8, <1>9, <1>11, <1>15, <1>16 DEF Overwritten, Longer
<1> QED  BY <1>17 DEF e

\* A line put at the end of a file that is older.
LEMMA Appended ==
  ASSUME NEW d \in Seq(Lines), NEW i \in Lines, NEW n \in Nat, NEW e \in Seq(Lines), Longer(e, d, i, n)
  PROVE  /\ \A k \in Lines : Piece(d, k) => Piece(e, k)
         /\ n = Fitting(i) => Piece(e, i)
         /\ Sorted(d) /\ Below(d, i) => Sorted(e)
         /\ \A k \in Nat : Below(d, k) /\ i < k => Below(e, k)
<1> USE DEF Longer
<1>1. Len(d) \in Nat /\ Len(e) \in Nat /\ \A j \in 1 .. Len(d) : d[j] \in Nat
  <2>1. \A j \in 1 .. Len(d) : d[j] \in Lines
    BY ElementOfSeq
  <2>2. Lines \subseteq Nat
    BY Constants
  <2>3. Len(d) \in Nat /\ Len(e) \in Nat
    OBVIOUS
  <2> QED  BY <2>1, <2>2, <2>3
<1>2. \A k \in Lines : Fitting(k) \in Nat
  BY Constants
<1>3. \A j \in 1 .. Len(e) : j \in 1 .. Len(d) \/ (j > Len(d) /\ j - Len(d) \in 1 .. n /\ Len(d) + (j - Len(d)) = j)
  BY <1>1
<1>4. \A j \in 1 .. Len(e) : IF j <= Len(d) THEN e[j] = d[j] ELSE e[j] = i
  <2>1. ASSUME NEW j \in 1 .. Len(e), j <= Len(d) PROVE e[j] = d[j]
    BY <1>1, <2>1
  <2>2. ASSUME NEW j \in 1 .. Len(e), ~(j <= Len(d)) PROVE e[j] = i
    <3>1. PICK m \in 1 .. n : Len(d) + m = j
      BY <1>1, <1>3, <2>2
    <3> QED  BY <3>1
  <2> QED  BY <2>1, <2>2
<1>5. ASSUME NEW k \in Lines, Piece(d, k) PROVE Piece(e, k)
  <2>1. PICK j \in 0 .. Len(d) - Fitting(k) : \A m \in 1 .. Fitting(k) : d[j + m] = k
    BY <1>5 DEF Piece
  <2>2. j \in 0 .. Len(e) - Fitting(k) /\ \A m \in 1 .. Fitting(k) : j + m \in 1 .. Len(d)
    BY <1>1, <1>2, <2>1
  <2> QED  BY <2>1, <2>2 DEF Piece
<1>6. n = Fitting(i) => Piece(e, i)
  <2>1. Len(d) \in 0 .. Len(e) - n
    BY <1>1
  <2> QED  BY <2>1 DEF Piece
<1>7. Sorted(d) /\ Below(d, i) => Sorted(e)
  <2>1. ASSUME Sorted(d), Below(d, i), NEW j \in 1 .. Len(e), NEW k \in 1 .. Len(e), j < k PROVE e[j] <= e[k]
    <3>1. CASE k <= Len(d)
      BY <1>1, <1>4, <2>1, <3>1 DEF Sorted
    <3>2. CASE k > Len(d) /\ j <= Len(d)
      <4>1. e[k] = i /\ e[j] = d[j] /\ d[j] < i /\ i \in Nat /\ d[j] \in Nat
        <5>1. j \in 1 .. Len(d) /\ ~(k <= Len(d)) /\ i \in Nat
          BY <1>1, <2>1, <3>2, Constants
        <5>2. d[j] < i
          BY <2>1, <5>1 DEF Below
        <5> QED  BY <1>1, <1>4, <3>2, <5>1, <5>2
      <4> QED  BY <4>1
    <3>3. CASE j > Len(d)
      <4>1. e[k] = i /\ e[j] = i /\ i \in Nat
        <5>1. ~(j <= Len(d)) /\ ~(k <= Len(d)) /\ i \in Nat
          BY <1>1, <2>1, <3>3, Constants
        <5> QED  BY <1>4, <5>1
      <4> QED  BY <4>1
    <3> QED  BY <1>1, <3>1, <3>2, <3>3
  <2> QED  BY <2>1 DEF Sorted
<1>8. ASSUME NEW k \in Nat, Below(d, k), i < k PROVE Below(e, k)
  BY <1>1, <1>4, <1>8 DEF Below
<1> QED  BY <1>5, <1>6, <1>7, <1>8

\* No file is open before the first LogFile is constructed.
LEMMA InitInv == Init => IInv
<1> SUFFICES ASSUME Init PROVE IInv
  OBVIOUS
<1> USE Constants DEF Init
<1>1. TypeInv
  BY DEF TypeInv
<1>2. PlaceInv /\ AppendInv
  BY DEF PlaceInv, AppendInv, Opened
<1>3. SizeInv /\ OrderInv /\ KeptInv
  BY DEF SizeInv, OrderInv, KeptInv, Exists
<1> QED  BY <1>1, <1>2, <1>3 DEF IInv

-----------------------------------------------------------------------------
\* A file is opened by l: it is new, or it is overlaid from now on.
LEMMA OpenStep ==
  ASSUME IInv, NEW l \in Logs, NEW f \in Names, f = GivenName \/ f = <<clock, run>>, Open(l, f),
         NEW p \in {"idle", "write"}, pc' = [pc EXCEPT ![l] = p],
         line[l] # None <=> p = "write",
         UNCHANGED <<clock, run, next, line, kept>>
  PROVE  IInv'
<1> USE Constants DEF IInv
<1>1. /\ disk' = IF disk[f] = None THEN [disk EXCEPT ![f] = <<>>] ELSE disk
      /\ overlaid' = IF disk[f] # None THEN overlaid \cup {f} ELSE overlaid
      /\ name' = [name EXCEPT ![l] = f] /\ written' = [written EXCEPT ![l] = 0]
  BY DEF Open
<1>2. <<>> \in Seq(Lines) /\ Len(<<>>) = 0 /\ <<>> # None
  <2>1. <<>> \in Seq(Lines) /\ Len(<<>>) = 0
    BY EmptySeq
  <2> QED  BY <2>1
<1>3. /\ disk'[f] \in Seq(Lines) /\ (disk[f] = None => disk'[f] = <<>>)
      /\ \A g \in Names : Exists(g) => disk'[g] = disk[g] /\ disk'[g] # None
      /\ \A g \in Names : g # f => disk'[g] = disk[g]
      /\ disk'[f] # None
  BY <1>1, <1>2 DEF TypeInv, Exists
<1>4. TypeInv'
  BY <1>1, <1>2 DEF TypeInv
<1>5. SizeInv'
  BY <1>2, <1>3 DEF SizeInv, Exists
<1>6. /\ name'[l] = f /\ written'[l] = 0 /\ Opened(l)' /\ pc'[l] = p
      /\ \A k \in Logs : k # l => name'[k] = name[k] /\ written'[k] = written[k] /\ pc'[k] = pc[k]
  BY <1>1 DEF TypeInv, Opened
<1>7. PlaceInv'
  <2>1. ASSUME NEW k \in Logs
        PROVE  /\ line[k] # None <=> pc'[k] \in {"write", "open"}
               /\ line[k] # None => line[k] < next
               /\ Opened(k)' => name'[k] \in Names /\ disk'[name'[k]] # None /\ written'[k] <= Len(disk'[name'[k]])
    <3>1. CASE k = l
      <4>1. PICK c, w : c = disk'[f] /\ w = written'[l]
        OBVIOUS
      <4>2. Len(c) \in Nat /\ w = 0
        BY <1>3, <1>6, <4>1
      <4>3. w <= Len(c)
        BY <4>2
      <4>4. name'[k] = f /\ written'[k] <= Len(disk'[f])
        BY <1>6, <3>1, <4>1, <4>3
      <4>5. (line[k] # None => line[k] < next) /\ (line[k] # None <=> pc'[k] \in {"write", "open"})
        BY <1>6, <3>1 DEF PlaceInv
      <4> QED  BY <1>3, <4>4, <4>5
    <3>2. CASE k # l
      <4>1. name'[k] = name[k] /\ written'[k] = written[k] /\ pc'[k] = pc[k]
        BY <1>6, <3>2
      <4>2. ASSUME Opened(k)
            PROVE  name[k] \in Names /\ disk'[name[k]] # None /\ disk'[name[k]] = disk[name[k]]
                   /\ written[k] <= Len(disk[name[k]])
        BY <1>3, <4>2 DEF PlaceInv
      <4>3. Opened(k)' => Opened(k)
        BY <4>1 DEF Opened
      <4> HIDE DEF IInv
      <4>4. Opened(k)' => name'[k] \in Names /\ disk'[name'[k]] # None /\ written'[k] <= Len(disk'[name'[k]])
        BY Zenon, <4>1, <4>2, <4>3 DEF Exists
      <4>5. (line[k] # None => line[k] < next) /\ (line[k] # None <=> pc'[k] \in {"write", "open"})
        BY <4>1 DEF PlaceInv, IInv
      <4> QED  BY <4>4, <4>5
    <3> QED  BY <3>1, <3>2
  <2> QED  BY <2>1 DEF PlaceInv, Exists, Opened
<1>8. ASSUME NEW k \in Logs, Opened(k)', name'[k] \notin overlaid'
      PROVE  /\ written'[k] = Len(disk'[name'[k]])
             /\ \A m \in Logs : Opened(m)' /\ name'[m] = name'[k] => m = k
             /\ line[k] # None => Below(disk'[name'[k]], line[k])
  <2>1. CASE k = l
    <3>1. disk[f] = None
      BY <1>1, <1>6, <1>8, <2>1
    <3>2. \A m \in Logs : Opened(m)' /\ name'[m] = f => m = l
      BY <1>6, <3>1 DEF PlaceInv, Opened, Exists
    <3>3. Below(<<>>, line[l])
      BY <1>2 DEF Below
    <3> QED  BY <1>2, <1>3, <1>6, <2>1, <3>1, <3>2, <3>3
  <2>2. CASE k # l
    <3>1. Opened(k) /\ name'[k] = name[k] /\ name[k] \notin overlaid /\ name[k] \in Names /\ Exists(name[k])
      BY <1>1, <1>6, <1>8, <2>2 DEF Opened, PlaceInv
    <3>2. name[k] # f
      BY <1>1, <1>8, <3>1 DEF Exists
    <3> QED  BY <1>3, <1>6, <2>2, <3>1, <3>2 DEF AppendInv, Opened
  <2> QED  BY <2>1, <2>2
<1>9. AppendInv'
  BY <1>8 DEF AppendInv, Opened
<1>10. OrderInv'
  <2>1. ASSUME NEW g \in Names, disk'[g] # None PROVE Below(disk'[g], next) /\ (g \notin overlaid' => Sorted(disk'[g]))
    <3>1. CASE Exists(g)
      BY <1>1, <1>3, <3>1 DEF OrderInv
    <3>2. CASE ~Exists(g)
      <4>1. disk'[g] = <<>>
        BY <1>3, <2>1, <3>2 DEF Exists
      <4> QED  BY <1>2, <4>1 DEF Below, Sorted
    <3> QED  BY <3>1, <3>2
  <2> QED  BY <2>1 DEF OrderInv, Exists
<1>11. KeptInv'
  BY <1>1, <1>3 DEF KeptInv, Exists
<1> QED  BY <1>4, <1>5, <1>7, <1>9, <1>10, <1>11 DEF IInv

\* A LogFile is constructed, or rolls: only a file that is opened again loses
\* what the invariant says of files with one writer.
LEMMA Openings ==
  ASSUME IInv, NEW l \in Logs, Construct(l) \/ Roll(l) PROVE IInv'
<1> USE DEF IInv
<1>1. <<clock, run>> \in Names /\ GivenName \in Names
  BY DEF TypeInv, Names, Generated
<1>2. CASE Construct(l)
  <2>1. PICK f \in Names : (f = GivenName \/ f = <<clock, run>>) /\ Open(l, f)
    BY <1>1, <1>2 DEF Construct, genFileName
  <2>2. /\ pc' = [pc EXCEPT ![l] = "idle"] /\ line[l] = None /\ UNCHANGED <<clock, run, next, line, kept>>
    BY <1>2 DEF Construct, PlaceInv
  <2> QED  BY <2>1, <2>2, OpenStep
<1>3. CASE Roll(l)
  <2>1. Open(l, <<clock, run>>)
    BY <1>3 DEF Roll, genFileName
  <2>2. /\ pc' = [pc EXCEPT ![l] = "write"] /\ line[l] # None /\ UNCHANGED <<clock, run, next, line, kept>>
    BY <1>3 DEF Roll, PlaceInv
  <2> QED  BY <1>1, <2>1, <2>2, OpenStep
<1> QED  BY <1>2, <1>3

\* A write, short or whole, at the place of the descriptor.
LEMMA WriteStep == ASSUME IInv, NEW l \in Logs, Write(l) PROVE IInv'
<1> USE Constants DEF IInv
<1>1. PICK n \in 1 .. Fitting(line[l]) : WriteBytes(l, n)
  BY DEF Write
<1>2. pc[l] = "write" /\ HasRoom(l) /\ UNCHANGED <<clock, run, next, name, overlaid>>
  BY DEF Write
<1>3. PICK i, f, at, d, e :
        i = line[l] /\ f = name[l] /\ at = written[l] /\ d = disk[f] /\ e = Overlay(d, at, Bytes(i, n))
  OBVIOUS
<1>4. /\ i \in Lines /\ i < next /\ i \in Nat /\ f \in Names /\ Exists(f) /\ Opened(l) /\ d \in Seq(Lines)
      /\ at \in 0 .. Len(d) /\ at \in Nat
  BY <1>2, <1>3 DEF TypeInv, PlaceInv, Opened, Exists
<1>5. n \in Nat /\ n >= 1 /\ n <= Fitting(i) /\ Fitting(i) \in Nat /\ at + n <= MaxSize
  BY <1>2, <1>3, <1>4 DEF HasRoom, TypeInv
<1>6. /\ disk' = [disk EXCEPT ![f] = e] /\ written' = [written EXCEPT ![l] = at + n]
      /\ kept' = IF n = Fitting(i) THEN [kept EXCEPT ![i] = f] ELSE kept
      /\ line' = [line EXCEPT ![l] = None] /\ pc' = [pc EXCEPT ![l] = "idle"]
  BY <1>1, <1>3 DEF WriteBytes
<1>7. Overwritten(e, d, at, i, n)
  BY Zenon, <1>3, <1>4, <1>5, Overlaid
<1>8. e # None /\ Len(e) \in Nat /\ Len(d) \in Nat /\ Len(e) <= MaxSize /\ Len(d) <= Len(e) /\ at + n <= Len(e)
  <2>1. PICK k, m : k = Len(e) /\ m = Len(d)
    OBVIOUS
  <2>2. e \in Seq(Lines) /\ k = (IF at + n <= m THEN m ELSE at + n)
    BY <1>7, <2>1 DEF Overwritten
  <2>3. m \in Nat /\ m <= MaxSize
    BY <1>3, <1>4, <2>1 DEF SizeInv
  <2>4. k \in Nat /\ k <= MaxSize /\ m <= k /\ at + n <= k
    BY <1>4, <1>5, <2>2, <2>3
  <2> QED  BY <2>1, <2>2, <2>3, <2>4
<1>9. /\ disk'[f] = e /\ disk'[f] # None /\ \A g \in Names : g # f => disk'[g] = disk[g]
      /\ \A g \in Names : Exists(g) <=> disk'[g] # None
  BY <1>3, <1>4, <1>6, <1>8 DEF TypeInv, Exists
<1>10. /\ line'[l] = None /\ pc'[l] = "idle" /\ written'[l] = at + n
       /\ \A k \in Logs : k # l => line'[k] = line[k] /\ pc'[k] = pc[k] /\ written'[k] = written[k]
       /\ \A k \in Logs : Opened(k)' <=> Opened(k)
  BY <1>4, <1>6 DEF TypeInv, Opened
<1>11. TypeInv'
  <2>1. written' \in [Logs -> 0 .. MaxSize]
    BY <1>4, <1>5, <1>6 DEF TypeInv
  <2> QED  BY <1>2, <1>4, <1>6, <1>7, <2>1 DEF TypeInv, Overwritten
<1>12. SizeInv'
  BY <1>8, <1>9 DEF SizeInv, Exists
<1>13. PlaceInv'
  <2>1. ASSUME NEW k \in Logs, Opened(k) PROVE disk'[name[k]] # None /\ written'[k] <= Len(disk'[name[k]])
    <3>1. name[k] \in Names /\ Exists(name[k]) /\ written[k] <= Len(disk[name[k]]) /\ written[k] \in Nat
      BY <2>1 DEF PlaceInv, TypeInv
    <3>2. CASE k = l
      <4>1. name[k] = f /\ disk'[name[k]] = e /\ written'[k] = at + n /\ disk'[f] # None
        BY <1>3, <1>9, <1>10, <3>2
      <4> QED  BY <1>8, <4>1
    <3>3. CASE k # l /\ name[k] = f
      <4>1. written'[k] = written[k] /\ disk[name[k]] = d /\ disk'[name[k]] = e
        BY <1>3, <1>9, <1>10, <3>3
      <4>2. PICK w : w = written[k]
        OBVIOUS
      <4>3. w \in Nat /\ w <= Len(d) /\ Len(d) <= Len(e) /\ Len(d) \in Nat /\ Len(e) \in Nat
        BY <1>8, <3>1, <4>1, <4>2
      <4>4. w <= Len(e)
        BY <4>3
      <4> QED  BY <1>9, <3>3, <4>1, <4>2, <4>4
    <3>4. CASE k # l /\ name[k] # f
      <4>1. written'[k] = written[k] /\ disk'[name[k]] = disk[name[k]] /\ disk'[name[k]] # None
        BY <1>9, <1>10, <3>1, <3>4
      <4> QED  BY <3>1, <4>1
    <3> QED  BY <3>2, <3>3, <3>4
  <2> QED  BY <1>2, <1>10, <2>1 DEF PlaceInv, Exists, Opened
<1>14. f \notin overlaid => /\ at = Len(d) /\ Below(d, i) /\ Sorted(d)
                            /\ \A k \in Logs : Opened(k) /\ name[k] = f => k = l
  BY <1>3, <1>4 DEF AppendInv, OrderInv
<1>15. f \notin overlaid => /\ Len(e) = Len(d) + n /\ Sorted(e)
                            /\ \A k \in Lines : Piece(d, k) => Piece(e, k)
                            /\ n = Fitting(i) => Piece(e, i)
  <2> SUFFICES ASSUME f \notin overlaid
               PROVE  /\ Len(e) = Len(d) + n /\ Sorted(e)
                      /\ \A k \in Lines : Piece(d, k) => Piece(e, k)
                      /\ n = Fitting(i) => Piece(e, i)
    OBVIOUS
  <2>1. at = Len(d) /\ Below(d, i) /\ Sorted(d)
    BY <1>14
  <2>2. e \in Seq(Lines) /\ Longer(e, d, i, n)
    BY <1>7, <2>1 DEF Overwritten
  <2>3. /\ \A k \in Lines : Piece(d, k) => Piece(e, k)
        /\ n = Fitting(i) => Piece(e, i)
        /\ Sorted(d) /\ Below(d, i) => Sorted(e)
    BY Zenon, <1>4, <1>5, <2>2, Appended
  <2> QED  BY <2>1, <2>2, <2>3 DEF Longer
<1>16. AppendInv'
  <2>1. ASSUME NEW k \in Logs, Opened(k), name[k] \notin overlaid
        PROVE  /\ written'[k] = Len(disk'[name[k]])
               /\ \A m \in Logs : Opened(m) /\ name[m] = name[k] => m = k
               /\ line'[k] # None => Below(disk'[name[k]], line'[k])
    <3>1. CASE k = l
      BY <1>3, <1>9, <1>10, <1>14, <1>15, <2>1, <3>1
    <3>2. CASE k # l
      <4>1. name[k] # f /\ name[k] \in Names
        BY <1>14, <2>1, <3>2 DEF PlaceInv
      <4> QED  BY <1>9, <1>10, <2>1, <3>2, <4>1 DEF AppendInv
    <3> QED  BY <3>1, <3>2
  <2> QED  BY <1>2, <1>10, <2>1 DEF AppendInv
<1>17. OrderInv'
  <2>1. Below(e, next)
    BY <1>3, <1>4, <1>7 DEF OrderInv, Below, Overwritten
  <2>2. ASSUME NEW g \in Names, Exists(g) PROVE Below(disk'[g], next) /\ (g \notin overlaid => Sorted(disk'[g]))
    BY <1>9, <1>15, <2>1, <2>2 DEF OrderInv
  <2> QED  BY <1>2, <1>9, <2>2 DEF OrderInv, Exists
<1>18. KeptInv'
  <2>1. ASSUME NEW k \in Lines, kept'[k] # None
        PROVE  /\ kept'[k] \in Names /\ disk'[kept'[k]] # None
               /\ kept'[k] \notin overlaid => Piece(disk'[kept'[k]], k)
    <3>1. CASE k = i /\ n = Fitting(i)
      <4>1. kept'[k] = f
        BY <1>4, <1>6, <3>1 DEF TypeInv
      <4> QED  BY <1>4, <1>9, <1>15, <3>1, <4>1
    <3>2. CASE ~(k = i /\ n = Fitting(i))
      <4>1. kept'[k] = kept[k]
        BY <1>4, <1>6, <3>2 DEF TypeInv
      <4>2. kept[k] \in Names /\ Exists(kept[k]) /\ (kept[k] \notin overlaid => Piece(disk[kept[k]], k))
        BY <2>1, <4>1 DEF KeptInv
      <4>3. CASE kept[k] = f
        BY <1>3, <1>9, <1>15, <4>1, <4>2, <4>3
      <4>4. CASE kept[k] # f
        BY <1>9, <4>1, <4>2, <4>4
      <4> QED  BY <4>3, <4>4
    <3> QED  BY <3>1, <3>2
  <2> QED  BY <1>2, <1>9, <2>1 DEF KeptInv, Exists
<1> QED  BY <1>11, <1>12, <1>13, <1>16, <1>17, <1>18 DEF IInv

-----------------------------------------------------------------------------
\* A line is newer than all that have been written.
LEMMA LogLineStep == ASSUME IInv, NEW l \in Logs, LogLine(l) PROVE IInv'
<1> USE Constants DEF IInv
<1>1. /\ pc[l] = "idle" /\ next <= Len(Length) /\ next' = next + 1
      /\ line' = [line EXCEPT ![l] = next] /\ pc' = [pc EXCEPT ![l] = "write"]
      /\ UNCHANGED <<disk, clock, run, name, written, overlaid, kept>>
  BY DEF LogLine
<1>2. next \in Lines /\ next \in Nat /\ next' = next + 1
  BY <1>1 DEF TypeInv
<1>3. /\ line'[l] = next /\ pc'[l] = "write"
      /\ \A k \in Logs : k # l => line'[k] = line[k] /\ pc'[k] = pc[k]
      /\ \A k \in Logs : Opened(k)' <=> Opened(k)
  BY <1>1 DEF TypeInv, Opened
<1>4. \A k \in Logs : line[k] # None => line[k] \in Nat
  BY DEF TypeInv
<1>5. TypeInv'
  BY <1>1, <1>2 DEF TypeInv
<1>6. SizeInv' /\ KeptInv'
  BY <1>1 DEF SizeInv, KeptInv, Exists
<1>7. PlaceInv'
  <2>1. ASSUME NEW k \in Logs
        PROVE  /\ line'[k] # None <=> pc'[k] \in {"write", "open"}
               /\ line'[k] # None => line'[k] < next'
    <3>1. CASE k = l
      BY <1>2, <1>3, <3>1
    <3>2. CASE k # l
      <4>1. line'[k] = line[k] /\ pc'[k] = pc[k]
        BY <1>3, <3>2
      <4>2. (line[k] # None <=> pc[k] \in {"write", "open"}) /\ (line[k] # None => line[k] < next)
        BY DEF PlaceInv
      <4>3. line[k] # None => line[k] < next + 1
        BY <1>2, <1>4, <4>2
      <4> QED  BY <1>2, <4>1, <4>2, <4>3
    <3> QED  BY <3>1, <3>2
  <2>2. \A k \in Logs : Opened(k)' => name[k] \in Names /\ Exists(name[k]) /\ written[k] <= Len(disk[name[k]])
    BY <1>3 DEF PlaceInv
  <2> QED  BY <1>1, <2>1, <2>2 DEF PlaceInv, Exists, Opened
<1>8. AppendInv'
  <2>1. ASSUME NEW k \in Logs, Opened(k), name[k] \notin overlaid
        PROVE  line'[k] # None => Below(disk[name[k]], line'[k])
    <3>1. CASE k = l
      BY <1>3, <2>1, <3>1 DEF OrderInv, PlaceInv
    <3>2. CASE k # l
      BY <1>3, <2>1, <3>2 DEF AppendInv
    <3> QED  BY <3>1, <3>2
  <2> QED  BY <1>1, <1>3, <2>1 DEF AppendInv
<1>9. OrderInv'
  <2>1. ASSUME NEW f \in Names, Exists(f) PROVE Below(disk[f], next + 1)
    <3>1. PICK d : d = disk[f]
      OBVIOUS
    <3>2. d \in Seq(Lines) /\ Below(d, next)
      BY <2>1, <3>1 DEF TypeInv, Exists, OrderInv
    <3>3. \A j \in 1 .. Len(d) : d[j] \in Nat
      BY <3>2
    <3> QED  BY <1>2, <3>1, <3>2, <3>3 DEF Below
  <2> QED  BY <1>1, <1>2, <2>1 DEF OrderInv, Exists
<1> QED  BY <1>5, <1>6, <1>7, <1>8, <1>9 DEF IInv

\* A file is closed before its LogFile opens the next.
LEMMA CloseStep == ASSUME IInv, NEW l \in Logs, Close(l) PROVE IInv'
<1> USE DEF IInv
<1>1. /\ pc[l] = "write" /\ pc' = [pc EXCEPT ![l] = "open"]
      /\ UNCHANGED <<disk, clock, run, next, line, name, written, overlaid, kept>>
  BY DEF Close
<1>2. TypeInv' /\ SizeInv' /\ OrderInv' /\ KeptInv'
  BY <1>1 DEF TypeInv, SizeInv, OrderInv, KeptInv, Exists
<1>3. \A k \in Logs : (Opened(k)' <=> Opened(k))
                      /\ (pc'[k] \in {"write", "open"} <=> pc[k] \in {"write", "open"})
  BY <1>1 DEF Opened, TypeInv
<1>4. PlaceInv' /\ AppendInv'
  BY <1>1, <1>3 DEF PlaceInv, AppendInv, Exists
<1> QED  BY <1>2, <1>4 DEF IInv

\* With the second, the names of the files to come change.
LEMMA TickStep == ASSUME IInv, Tick PROVE IInv'
<1> USE Constants DEF IInv
<1>1. clock < MaxSecond /\ clock' = clock + 1 /\ UNCHANGED <<disk, run, next, objectVars, overlaid, kept>>
  BY DEF Tick
<1>2. TypeInv'
  BY <1>1 DEF TypeInv, objectVars
<1> QED
  BY <1>1, <1>2
     DEF IInv, SizeInv, PlaceInv, AppendInv, OrderInv, KeptInv, Exists, Opened, objectVars

\* A run of the process ends at any time: its files stay.
LEMMA RestartStep == ASSUME IInv, Restart PROVE IInv'
<1> USE Constants DEF IInv
<1>1. /\ run < MaxRuns /\ run' = run + 1 /\ UNCHANGED <<disk, clock, next, overlaid, kept>>
      /\ pc' = [l \in Logs |-> "none"] /\ line' = [l \in Logs |-> None]
      /\ name' = [l \in Logs |-> None] /\ written' = [l \in Logs |-> 0]
  BY DEF Restart
<1>2. TypeInv'
  BY <1>1 DEF TypeInv
<1>3. PlaceInv' /\ AppendInv'
  BY <1>1 DEF PlaceInv, AppendInv, Opened
<1>4. SizeInv' /\ OrderInv' /\ KeptInv'
  BY <1>1 DEF SizeInv, OrderInv, KeptInv, Exists
<1> QED  BY <1>2, <1>3, <1>4 DEF IInv

\* IInv is inductive.
LEMMA Inductive == IInv /\ [Next]_vars => IInv'
<1> SUFFICES ASSUME IInv, [Next]_vars PROVE IInv'
  OBVIOUS
<1>1. CASE UNCHANGED vars
  BY <1>1 DEF vars, objectVars, IInv, TypeInv, SizeInv, PlaceInv, AppendInv, OrderInv, KeptInv, Exists, Opened
<1>2. ASSUME NEW l \in Logs, Construct(l) \/ LogLine(l) \/ Write(l) \/ Close(l) \/ Roll(l) PROVE IInv'
  BY <1>2, Openings, LogLineStep, WriteStep, CloseStep
<1> QED  BY <1>1, <1>2, TickStep, RestartStep DEF Next

\* IInv holds in every reachable state.
LEMMA Invariance == Spec => []IInv
  BY InitInv, Inductive, PTL DEF Spec

-----------------------------------------------------------------------------
\* The state is well formed and no file has more than MaxSize bytes, whoever
\* writes to it and however often it is opened (FileUtil's reachMaxSize).
THEOREM TypeCorrect == Spec => []TypeOK
<1>1. IInv => TypeOK
  <2> SUFFICES ASSUME IInv PROVE TypeOK
    OBVIOUS
  <2> USE Constants DEF IInv
  <2>1. \A f \in Names : disk[f] # None => disk[f] \in Seq(Lines) /\ Len(disk[f]) <= MaxSize
    BY DEF TypeInv, SizeInv, Exists
  <2>2. \A l \in Logs : (line[l] # None <=> pc[l] \in {"write", "open"})
                        /\ (pc[l] # "none" => written[l] <= Len(disk[name[l]]))
    BY DEF PlaceInv, Opened
  <2> QED  BY <2>1, <2>2 DEF TypeOK, TypeInv
<1> QED  BY <1>1, Invariance, PTL

\* A line taken whole stays in its file in one piece and in the order of the
\* lines, unless the file is opened again (LogFile::append, genFileName, FileUtil).
THEOREM LinesStay == Spec => []LinesAreKept
<1>1. IInv => LinesAreKept
  <2> SUFFICES ASSUME IInv, NEW i \in Lines, kept[i] # None /\ kept[i] \notin overlaid,
                      NEW d, d = disk[kept[i]], NEW n, n = Fitting(i)
               PROVE  /\ \E j \in 0 .. Len(d) - n : SubSeq(d, j + 1, j + n) = Bytes(i, n)
                      /\ \A j, k \in DOMAIN d : j < k => d[j] <= d[k]
    BY DEF LinesAreKept
  <2>1. d \in Seq(Lines) /\ Sorted(d) /\ Piece(d, i) /\ n \in Nat \ {0}
    BY Constants DEF IInv, KeptInv, OrderInv, TypeInv, Exists
  <2>2. PICK j \in 0 .. Len(d) - n : \A m \in 1 .. n : d[j + m] = i
    BY <2>1 DEF Piece
  <2>3. PICK s : s = SubSeq(d, j + 1, j + n)
    OBVIOUS
  <2>4. PICK c : c = Len(d)
    OBVIOUS
  <2>5. s \in Seq(Lines) /\ Len(s) = n /\ \A m \in 1 .. n : s[m] = d[j + m]
    <3>1. c \in Nat /\ n \in Nat \ {0} /\ j \in 0 .. c - n
      BY <2>1, <2>2, <2>4
    <3>2. /\ j + 1 \in Int /\ j + n \in Int /\ j + 1 <= j + n /\ (j + n) - (j + 1) + 1 = n
          /\ \A k \in j + 1 .. j + n : k \in 1 .. c
          /\ \A m \in 1 .. n : (j + 1) + m - 1 = j + m
      BY <3>1
    <3>3. \A k \in 1 .. c : d[k] \in Lines
      BY <2>1, <2>4, ElementOfSeq
    <3>4. \A k \in j + 1 .. j + n : d[k] \in Lines
      BY <3>2, <3>3
    <3>5. /\ SubSeq(d, j + 1, j + n) \in Seq(Lines)
          /\ Len(SubSeq(d, j + 1, j + n)) = IF j + 1 <= j + n THEN (j + n) - (j + 1) + 1 ELSE 0
          /\ \A m \in 1 .. (j + n) - (j + 1) + 1 : SubSeq(d, j + 1, j + n)[m] = d[(j + 1) + m - 1]
      BY <3>2, <3>4, SubSeqProperties
    <3> QED  BY <2>3, <3>2, <3>5
  <2>6. Bytes(i, n) \in Seq(Lines) /\ Len(Bytes(i, n)) = n /\ \A m \in 1 .. n : Bytes(i, n)[m] = i
    BY <2>1, LineBytes
  <2>7. s = Bytes(i, n)
    <3>1. \A m \in 1 .. Len(s) : s[m] = Bytes(i, n)[m]
      BY <2>2, <2>5, <2>6
    <3> QED  BY <2>5, <2>6, <3>1, SeqEqual
  <2>8. DOMAIN d = 1 .. Len(d)
    BY <2>1
  <2> QED  BY <2>1, <2>2, <2>3, <2>7, <2>8 DEF Sorted
<1> QED  BY <1>1, Invariance, PTL
=============================================================================
