----------------------------- MODULE CommonLemmas -----------------------------
(***************************************************************************)
(* Lemmas the proofs of several components rest on: the lowest number of a *)
(* set, and induction, which follows from it; queues without doublets, as  *)
(* the functors of a loop; sequences that lie in an array from one index   *)
(* on, as the bytes of a buffer do.                                        *)
(***************************************************************************)
EXTENDS Integers, Sequences, FiniteSetsExt, SequenceTheorems, WellFoundedInduction, TLAPS

\* The lowest free descriptor is a free one.
LEMMA MinProperties ==
  ASSUME NEW T, T \subseteq Nat, T # {}
  PROVE  Min(T) \in T /\ \A y \in T : Min(T) <= y
<1> DEFINE R == {ss \in Nat \X Nat : ss[1] < ss[2]}
<1>1. IsWellFoundedOn(R, Nat)
  BY NatLessThanWellFounded, Zenon DEF OpToRel
<1>2. \A x, y \in Nat : x < y => <<x, y>> \in R
  OBVIOUS
<1> HIDE DEF R
<1>3. PICK x \in T : \A y \in T : ~(<<y, x>> \in R)
  BY <1>1, WFMin
<1>4. ASSUME NEW y \in T PROVE x <= y
  <2>1. x \in Nat /\ y \in Nat
    BY <1>3
  <2>2. ~(y < x)
    BY <2>1, <1>2, <1>3
  <2> QED  BY <2>1, <2>2
<1> QED  BY <1>3, <1>4 DEF Min

\* Induction, by a set instead of a predicate.
LEMMA SetInduction ==
  ASSUME NEW T \in SUBSET Nat, 0 \in T, \A n \in T : n + 1 \in T
  PROVE  T = Nat
<1> DEFINE C == Nat \ T
           m == Min(C)
<1> SUFFICES ASSUME C # {} PROVE FALSE
  OBVIOUS
<1>1. m \in C /\ \A y \in C : m <= y
  BY MinProperties
<1> HIDE DEF m
<1>2. m \in Nat /\ m # 0
  BY <1>1
<1>3. m - 1 \in Nat /\ ~(m <= m - 1) /\ (m - 1) + 1 = m
  BY <1>2
<1>4. m - 1 \in T
  BY <1>1, <1>3
<1>5. m \in T
  BY <1>3, <1>4
<1> QED  BY <1>1, <1>5

-----------------------------------------------------------------------------
\* Queues.

Distinct(s) == \A i, j \in 1 .. Len(s) : s[i] = s[j] => i = j
In(s, e) == \E i \in 1 .. Len(s) : s[i] = e

\* A functor that is posted is the only one added, and no doublet if it was
\* new.
LEMMA AppendToQueue ==
  ASSUME NEW S, NEW s \in Seq(S), NEW e \in S
  PROVE  /\ Append(s, e) \in Seq(S)
         /\ \A x : In(Append(s, e), x) <=> In(s, x) \/ x = e
         /\ Distinct(s) /\ ~In(s, e) => Distinct(Append(s, e))
<1> DEFINE t == Append(s, e)
<1>1. /\ t \in Seq(S) /\ Len(t) = Len(s) + 1 /\ t[Len(s) + 1] = e /\ Len(s) \in Nat
      /\ \A i \in 1 .. Len(s) : t[i] = s[i]
  BY AppendProperties
<1> HIDE DEF t
<1>2. \A x : In(t, x) <=> In(s, x) \/ x = e
  BY <1>1 DEF In
<1>3. Distinct(s) /\ ~In(s, e) => Distinct(t)
  BY <1>1 DEF Distinct, In
<1> QED  BY <1>1, <1>2, <1>3 DEF t

\* A functor that is taken from the front is the only one that goes.
LEMMA TailOfQueue ==
  ASSUME NEW S, NEW s \in Seq(S), s # <<>>
  PROVE  /\ Tail(s) \in Seq(S) /\ Head(s) \in S /\ In(s, Head(s))
         /\ \A x : In(Tail(s), x) => In(s, x)
         /\ \A x : In(s, x) => In(Tail(s), x) \/ x = Head(s)
         /\ Distinct(s) => Distinct(Tail(s)) /\ ~In(Tail(s), Head(s))
<1> DEFINE t == Tail(s)
<1>1. /\ t \in Seq(S) /\ Len(s) \in Nat \ {0} /\ Len(t) = Len(s) - 1 /\ Head(s) = s[1] /\ Head(s) \in S
      /\ \A i \in 1 .. Len(t) : t[i] = s[i + 1]
  BY EmptySeq
<1> HIDE DEF t
<1>2. In(s, Head(s)) /\ \A x : In(t, x) => In(s, x)
  BY <1>1 DEF In
<1>3. ASSUME NEW x, In(s, x) PROVE In(t, x) \/ x = Head(s)
  <2>1. PICK i \in 1 .. Len(s) : s[i] = x
    BY <1>3 DEF In
  <2>2. CASE i = 1
    BY <1>1, <2>1, <2>2
  <2>3. CASE i # 1
    <3>1. i - 1 \in 1 .. Len(t) /\ (i - 1) + 1 = i
      BY <1>1, <2>3
    <3> QED  BY <1>1, <2>1, <3>1 DEF In
  <2> QED  BY <2>2, <2>3
<1>4. Distinct(s) => Distinct(t) /\ ~In(t, Head(s))
  <2> SUFFICES ASSUME Distinct(s) PROVE Distinct(t) /\ ~In(t, Head(s))
    OBVIOUS
  <2>1. \A i \in 1 .. Len(t) : i + 1 \in 1 .. Len(s) /\ i + 1 # 1
    BY <1>1
  <2>2. 1 \in 1 .. Len(s)
    BY <1>1
  <2>3. ~In(t, Head(s))
    BY <1>1, <2>1, <2>2 DEF Distinct, In
  <2>4. ASSUME NEW i \in 1 .. Len(t), NEW j \in 1 .. Len(t), t[i] = t[j] PROVE i = j
    <3>1. i + 1 = j + 1
      BY <1>1, <2>1, <2>4 DEF Distinct
    <3> QED  BY <3>1
  <2> QED  BY <2>3, <2>4 DEF Distinct
<1> QED  BY <1>1, <1>2, <1>3, <1>4 DEF t

-----------------------------------------------------------------------------
\* Windows of an array.

\* s, a sequence of elements of S, lies in a from index r on.
Holds(a, r, s, S) == s \in Seq(S) /\ \A i \in 1 .. Len(s) : a[r + i - 1] = s[i]

\* Two sequences that lie side by side lie there as one,
LEMMA HoldsConcat ==
  ASSUME NEW S, NEW a, NEW r \in Nat, NEW s, NEW t, Holds(a, r, s, S), Holds(a, r + Len(s), t, S)
  PROVE  Holds(a, r, s \o t, S) /\ Len(s \o t) = Len(s) + Len(t)
<1>1. s \in Seq(S) /\ t \in Seq(S) /\ Len(s) \in Nat /\ Len(t) \in Nat
  BY DEF Holds
<1>2. /\ s \o t \in Seq(S) /\ Len(s \o t) = Len(s) + Len(t)
      /\ \A i \in 1 .. Len(s) + Len(t) : (s \o t)[i] = IF i <= Len(s) THEN s[i] ELSE t[i - Len(s)]
  BY <1>1, ConcatProperties
<1>3. ASSUME NEW i \in 1 .. Len(s) + Len(t) PROVE a[r + i - 1] = (s \o t)[i]
  <2>1. CASE i <= Len(s)
    BY <1>1, <1>2, <2>1 DEF Holds
  <2>2. CASE i > Len(s)
    <3>1. i - Len(s) \in 1 .. Len(t) /\ (r + Len(s)) + (i - Len(s)) - 1 = r + i - 1
      BY <1>1, <2>2
    <3>2. a[(r + Len(s)) + (i - Len(s)) - 1] = t[i - Len(s)]
      BY <3>1 DEF Holds
    <3> QED  BY <1>1, <1>2, <2>2, <3>1, <3>2
  <2> QED  BY <1>1, <2>1, <2>2
<1> QED  BY <1>2, <1>3 DEF Holds

\* and a sequence that lies somewhere consists of two parts that lie side by
\* side.
LEMMA HoldsParts ==
  ASSUME NEW S, NEW a, NEW r \in Nat, NEW s \in Seq(S), NEW t \in Seq(S), Holds(a, r, s \o t, S)
  PROVE  Holds(a, r, s, S) /\ Holds(a, r + Len(s), t, S)
<1>1. PICK m, n : m = Len(s) /\ n = Len(t)
  OBVIOUS
<1>2. PICK c : c = s \o t
  OBVIOUS
<1>3. m \in Nat /\ n \in Nat
  BY <1>1
<1>4. Len(c) = m + n /\ \A i \in 1 .. m + n : c[i] = IF i <= m THEN s[i] ELSE t[i - m]
  BY <1>1, <1>2, ConcatProperties
<1>5. \A i \in 1 .. m + n : a[r + i - 1] = c[i]
  BY <1>2, <1>4 DEF Holds
<1>6. ASSUME NEW i \in 1 .. m PROVE a[r + i - 1] = s[i]
  <2>1. i \in 1 .. m + n /\ i <= m
    BY <1>3
  <2> QED  BY <1>4, <1>5, <2>1
<1>7. ASSUME NEW i \in 1 .. n PROVE a[(r + m) + i - 1] = t[i]
  <2>1. m + i \in 1 .. m + n /\ ~(m + i <= m) /\ (m + i) - m = i /\ r + (m + i) - 1 = (r + m) + i - 1
    BY <1>3
  <2>2. a[r + (m + i) - 1] = c[m + i] /\ c[m + i] = t[(m + i) - m]
    BY <1>4, <1>5, <2>1
  <2> QED  BY <2>1, <2>2
<1> QED  BY <1>1, <1>6, <1>7 DEF Holds

\* A sequence cut at n: the lengths of the parts, which make the whole again.
LEMMA SeqSplit ==
  ASSUME NEW S, NEW s \in Seq(S), NEW n \in 0 .. Len(s)
  PROVE  /\ SubSeq(s, 1, n) \in Seq(S) /\ Len(SubSeq(s, 1, n)) = n
         /\ SubSeq(s, n + 1, Len(s)) \in Seq(S) /\ Len(SubSeq(s, n + 1, Len(s))) = Len(s) - n
         /\ SubSeq(s, 1, n) \o SubSeq(s, n + 1, Len(s)) = s
<1>1. Len(s) \in Nat /\ 1 \in 1 .. Len(s) + 1 /\ n \in 1 - 1 .. Len(s) /\ Len(s) \in n .. Len(s)
  OBVIOUS
<1>2. SubSeq(s, 1, n) \o SubSeq(s, n + 1, Len(s)) = SubSeq(s, 1, Len(s))
  BY <1>1, ConcatAdjacentSubSeq
<1>3. SubSeq(s, 1, n) \in Seq(S) /\ Len(SubSeq(s, 1, n)) = n
  BY <1>1
<1>4. SubSeq(s, n + 1, Len(s)) \in Seq(S) /\ Len(SubSeq(s, n + 1, Len(s))) = Len(s) - n
  BY <1>1
<1> QED  BY <1>2, <1>3, <1>4, SubSeqFull

\* What is left of a sequence grows as the sequence does,
LEMMA RestOfConcat ==
  ASSUME NEW S, NEW a \in Seq(S), NEW b \in Seq(S), NEW g \in 0 .. Len(a)
  PROVE  SubSeq(a \o b, g + 1, Len(a \o b)) = SubSeq(a, g + 1, Len(a)) \o b
<1>1. PICK m, n, c, r : m = Len(a) /\ n = Len(b) /\ c = a \o b /\ r = SubSeq(a, g + 1, Len(a))
  OBVIOUS
<1>2. m \in Nat /\ n \in Nat /\ g \in 0 .. m
  BY <1>1
<1>3. /\ c \in Seq(S) /\ Len(c) = m + n
      /\ \A i \in 1 .. m + n : c[i] = IF i <= m THEN a[i] ELSE b[i - m]
  BY <1>1, ConcatProperties
<1>4. r \in Seq(S) /\ Len(r) = m - g /\ \A i \in 1 .. m - g : r[i] = a[g + i]
  BY <1>1, <1>2
<1>5. PICK x, y : x = SubSeq(c, g + 1, m + n) /\ y = r \o b
  OBVIOUS
<1>6. x \in Seq(S) /\ Len(x) = (m - g) + n /\ \A i \in 1 .. (m - g) + n : x[i] = c[g + i]
  BY <1>2, <1>3, <1>5
<1>7. /\ y \in Seq(S) /\ Len(y) = (m - g) + n
      /\ \A i \in 1 .. (m - g) + n : y[i] = IF i <= m - g THEN r[i] ELSE b[i - (m - g)]
  <2>1. /\ y \in Seq(S) /\ Len(y) = Len(r) + Len(b)
        /\ \A i \in 1 .. Len(r) + Len(b) : y[i] = IF i <= Len(r) THEN r[i] ELSE b[i - Len(r)]
    BY <1>4, <1>5, ConcatProperties
  <2> QED  BY <1>1, <1>4, <2>1
<1>8. ASSUME NEW i \in 1 .. (m - g) + n PROVE x[i] = y[i]
  <2>1. g + i \in 1 .. m + n /\ (g + i) - m = i - (m - g) /\ (g + i <= m <=> i <= m - g)
    BY <1>2
  <2>2. x[i] = IF i <= m - g THEN a[g + i] ELSE b[i - (m - g)]
    BY <1>3, <1>6, <2>1
  <2>3. i <= m - g => i \in 1 .. m - g
    BY <1>2
  <2> QED  BY <1>4, <1>7, <2>2, <2>3
<1>9. x = y
  BY <1>6, <1>7, <1>8, SeqEqual
<1> QED  BY <1>1, <1>3, <1>5, <1>9

\* and shrinks as more of it is taken.
LEMMA RestOfRest ==
  ASSUME NEW S, NEW a \in Seq(S), NEW g \in 0 .. Len(a), NEW n \in 0 .. Len(a) - g
  PROVE  SubSeq(SubSeq(a, g + 1, Len(a)), n + 1, Len(a) - g) = SubSeq(a, (g + n) + 1, Len(a))
<1>1. PICK m, r : m = Len(a) /\ r = SubSeq(a, g + 1, Len(a))
  OBVIOUS
<1>2. m \in Nat /\ g \in 0 .. m /\ n \in 0 .. m - g
  BY <1>1
<1>3. r \in Seq(S) /\ Len(r) = m - g /\ \A i \in 1 .. m - g : r[i] = a[g + i]
  BY <1>1, <1>2
<1>4. PICK h, x, y : h = g + n /\ x = SubSeq(r, n + 1, m - g) /\ y = SubSeq(a, h + 1, m)
  OBVIOUS
<1>5. x \in Seq(S) /\ Len(x) = m - g - n /\ \A i \in 1 .. m - g - n : x[i] = r[n + i]
  BY <1>2, <1>3, <1>4
<1>6. y \in Seq(S) /\ Len(y) = m - g - n /\ \A i \in 1 .. m - g - n : y[i] = a[(g + n) + i]
  <2>1. h \in 0 .. m /\ m - h = m - g - n
    BY <1>2, <1>4
  <2>2. y \in Seq(S) /\ Len(y) = m - h /\ \A i \in 1 .. m - h : y[i] = a[h + i]
    BY <1>1, <1>2, <1>4, <2>1
  <2> QED  BY <1>4, <2>1, <2>2
<1>7. \A i \in 1 .. m - g - n : n + i \in 1 .. m - g /\ g + (n + i) = (g + n) + i
  BY <1>2
<1>8. \A i \in 1 .. m - g - n : x[i] = y[i]
  BY <1>3, <1>5, <1>6, <1>7
<1>9. x = y
  BY <1>5, <1>6, <1>8, SeqEqual
<1> QED  BY <1>1, <1>4, <1>9

\* What has been taken grows by what is taken next.
LEMMA FirstOfRest ==
  ASSUME NEW S, NEW a \in Seq(S), NEW g \in 0 .. Len(a), NEW n \in 0 .. Len(a) - g
  PROVE  SubSeq(a, 1, g + n) = SubSeq(a, 1, g) \o SubSeq(SubSeq(a, g + 1, Len(a)), 1, n)
<1>1. PICK m, h, r, f : m = Len(a) /\ h = g + n /\ r = SubSeq(a, g + 1, m) /\ f = SubSeq(a, 1, g)
  OBVIOUS
<1>2. m \in Nat /\ g \in 0 .. m /\ n \in 0 .. m - g /\ h \in 0 .. m /\ h - g = n
  BY <1>1
<1>3. r \in Seq(S) /\ Len(r) = m - g /\ \A i \in 1 .. m - g : r[i] = a[g + i]
  BY <1>1, <1>2
<1>4. f \in Seq(S) /\ Len(f) = g /\ \A i \in 1 .. g : f[i] = a[i]
  BY <1>1, <1>2
<1>5. PICK q, x, y : q = SubSeq(r, 1, n) /\ x = SubSeq(a, 1, h) /\ y = f \o q
  OBVIOUS
<1>6. q \in Seq(S) /\ Len(q) = n /\ \A i \in 1 .. n : q[i] = r[i]
  BY <1>2, <1>3, <1>5
<1>7. x \in Seq(S) /\ Len(x) = h /\ \A i \in 1 .. h : x[i] = a[i]
  BY <1>1, <1>2, <1>5
<1>8. /\ y \in Seq(S) /\ Len(y) = h
      /\ \A i \in 1 .. h : y[i] = IF i <= g THEN f[i] ELSE q[i - g]
  <2>1. /\ y \in Seq(S) /\ Len(y) = Len(f) + Len(q)
        /\ \A i \in 1 .. Len(f) + Len(q) : y[i] = IF i <= Len(f) THEN f[i] ELSE q[i - Len(f)]
    BY <1>4, <1>5, <1>6, ConcatProperties
  <2> QED  BY <1>1, <1>2, <1>4, <1>6, <2>1
<1>9. ASSUME NEW i \in 1 .. h PROVE x[i] = y[i]
  <2>1. CASE i <= g
    <3>1. i \in 1 .. g
      BY <1>2, <2>1
    <3> QED  BY <1>4, <1>7, <1>8, <2>1, <3>1
  <2>2. CASE ~(i <= g)
    <3>1. i - g \in 1 .. n /\ i - g \in 1 .. m - g /\ g + (i - g) = i
      BY <1>2, <2>2
    <3>2. q[i - g] = a[i]
      BY <1>3, <1>6, <3>1
    <3> QED  BY <1>7, <1>8, <2>2, <3>2
  <2> QED  BY <2>1, <2>2
<1>10. x = y
  BY <1>7, <1>8, <1>9, SeqEqual
<1> QED  BY <1>1, <1>5, <1>10

\* What is left behind the first n elements lies n places further on;
LEMMA HoldsRest ==
  ASSUME NEW S, NEW a, NEW r \in Nat, NEW s, Holds(a, r, s, S), NEW n \in 0 .. Len(s)
  PROVE  Holds(a, r + n, SubSeq(s, n + 1, Len(s)), S)
<1> DEFINE t == SubSeq(s, n + 1, Len(s))
<1>1. s \in Seq(S) /\ Len(s) \in Nat
  BY DEF Holds
<1>2. t \in Seq(S) /\ Len(t) = Len(s) - n /\ \A i \in 1 .. Len(s) - n : t[i] = s[n + i]
  BY <1>1
<1> HIDE DEF t
<1>3. ASSUME NEW i \in 1 .. Len(t) PROVE a[(r + n) + i - 1] = t[i]
  <2>1. n + i \in 1 .. Len(s) /\ r + (n + i) - 1 = (r + n) + i - 1 /\ i \in 1 .. Len(s) - n
    BY <1>1, <1>2
  <2>2. a[r + (n + i) - 1] = s[n + i]
    BY <2>1 DEF Holds
  <2> QED  BY <1>2, <2>1, <2>2
<1>4. Holds(a, r + n, t, S)
  BY <1>2, <1>3 DEF Holds
<1> QED  BY <1>4 DEF t

\* the first n elements lie where the sequence does.
LEMMA HoldsFirst ==
  ASSUME NEW S, NEW a, NEW r \in Nat, NEW s, Holds(a, r, s, S), NEW n \in 0 .. Len(s)
  PROVE  Holds(a, r, SubSeq(s, 1, n), S)
<1> DEFINE t == SubSeq(s, 1, n)
<1>1. s \in Seq(S) /\ Len(s) \in Nat
  BY DEF Holds
<1>2. t \in Seq(S) /\ Len(t) = n /\ \A i \in 1 .. n : t[i] = s[i]
  BY <1>1
<1> HIDE DEF t
<1>3. Holds(a, r, t, S)
  BY <1>1, <1>2 DEF Holds
<1> QED  BY <1>3 DEF t

\* What lies in an array is determined by where it starts and its length.
LEMMA HoldsOne ==
  ASSUME NEW S, NEW a, NEW r \in Nat, NEW s, NEW t, Holds(a, r, s, S), Holds(a, r, t, S), Len(s) = Len(t)
  PROVE  s = t
<1>1. s \in Seq(S) /\ t \in Seq(S) /\ \A i \in 1 .. Len(s) : s[i] = t[i]
  BY DEF Holds
<1> QED  BY <1>1, SeqEqual

\* What is read from the places where a sequence lies is that sequence.
LEMMA HoldsAll ==
  ASSUME NEW S, NEW a, NEW r \in Nat, NEW w \in Nat, NEW s, Holds(a, r, s, S), Len(s) = w - r
  PROVE  [i \in 1 .. w - r |-> a[r + i - 1]] = s
<1> DEFINE n == w - r
           t == [i \in 1 .. n |-> a[r + i - 1]]
<1>1. s \in Seq(S) /\ n \in Nat /\ Len(s) = n
  BY DEF Holds
<1>2. \A i \in 1 .. n : a[r + i - 1] = s[i] /\ s[i] \in S
  BY <1>1 DEF Holds
<1> HIDE DEF n
<1>3. t \in [1 .. n -> S]
  BY <1>2
<1>4. \A i \in 1 .. n : t[i] = s[i]
  BY <1>2
<1> HIDE DEF t
<1>5. t \in Seq(S) /\ Len(t) = n
  BY <1>1, <1>3
<1>6. t = s
  BY <1>1, <1>4, <1>5, SeqEqual
<1> QED  BY <1>6 DEF n, t

\* Changes outside the range in which it lies leave it alone.
LEMMA HoldsSame ==
  ASSUME NEW S, NEW a, NEW b, NEW r \in Nat, NEW s, Holds(a, r, s, S),
         \A i \in r .. r + Len(s) - 1 : a[i] = b[i]
  PROVE  Holds(b, r, s, S)
<1>1. Len(s) \in Nat
  BY DEF Holds
<1>2. \A i \in 1 .. Len(s) : r + i - 1 \in r .. r + Len(s) - 1
  BY <1>1
<1>3. \A i \in 1 .. Len(s) : b[r + i - 1] = a[r + i - 1]
  BY <1>2
<1> QED  BY <1>3 DEF Holds
=============================================================================
