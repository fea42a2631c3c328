-------------------------- MODULE TimingWheelProofs --------------------------
(***************************************************************************)
(* The invariants of TimingWheel, for any timers, timeouts, interval and   *)
(* size of the wheel.                                                      *)
(*                                                                         *)
(* The invariant says of each place of the wheel at which of its ticks the *)
(* entry there will be called if nothing disables it (Turn): ticks, rounds *)
(* and the way of tick() through the list add up to the same number from   *)
(* the add on (AllDue); and ticks are not ahead of expirations (CountInv). *)
(***************************************************************************)
EXTENDS TimingWheel, CommonLemmas

TypeInv ==
  /\ cur \in Slots
  /\ slots \in [Slots -> Seq(Timers)]
  /\ round \in [Timers -> Nat]
  /\ disabled \subseteq Timers /\ wrapped \subseteq Timers
  /\ expired \in BOOLEAN
  /\ it \in Nat
  /\ calling \in Timers \cup {None}
  /\ ticks \in [Timers -> Nat] /\ elapsed \in [Timers -> 0 .. MaxElapsed]

\* The entry whose callback runs is at tick's position.
CallInv == calling # None => it \in 1 .. Len(slots[cur]) /\ slots[cur][it] = calling

\* No entry is in two places of a wheel.
Unique(wheel) ==
  \A s1, s2 \in Slots : \A i \in 1 .. Len(wheel[s1]), j \in 1 .. Len(wheel[s2]) :
    wheel[s1][i] = wheel[s2][j] => s1 = s2 /\ i = j

Absent(e, wheel) == \A s \in Slots : \A i \in 1 .. Len(wheel[s]) : wheel[s][i] # e

\* The number of slots from the current one to s.
Distance(s) == IF s >= cur THEN s - cur ELSE (s - cur) + RoundSize

\* The number of ticks to be begun until tick() is at place i of slot s.
Ahead(s, i) ==
  IF ~InTick THEN Distance(s) + 1
  ELSE IF s # cur THEN Distance(s)
  ELSE IF i < it THEN RoundSize
  ELSE 0

\* The tick, counted from its add, that calls e at place i of slot s.
Turn(e, s, i) == ticks[e] + Ahead(s, i) + (RoundSize * round[e])

Due(e, s, i) ==
  /\ Steps(e) <= Turn(e, s, i)
  /\ Turn(e, s, i) <= Steps(e) + 1 + (IF e \in wrapped THEN RoundSize ELSE 0)

AllDue(wheel) == \A s \in Slots : \A i \in 1 .. Len(wheel[s]) : Due(wheel[s][i], s, i)

\* Each tick follows an expiration of its own; the first may lie before the add.
Counted(e) == elapsed[e] = MaxElapsed \/ ticks[e] + (IF expired THEN 1 ELSE 0) <= elapsed[e] + 1
CountInv == \A e \in Timers : Absent(e, slots) \/ Counted(e)

IInv == TypeInv /\ CallInv /\ Unique(slots) /\ AllDue(slots) /\ CountInv

-----------------------------------------------------------------------------
\* Arithmetic of the wheel.
LEMMA Constants ==
  /\ RoundSize \in Nat \ {0} /\ 0 \in Slots /\ None \notin Timers /\ MaxElapsed \in Nat
  /\ \A e \in Timers : Steps(e) \in Nat
<1>1. ASSUME NEW e \in Timers PROVE Steps(e) \in Nat
  <2>1. TimeoutMs[e] \in Nat /\ Interval \in Nat \ {0}
    BY WheelAssumption
  <2> QED  BY <2>1 DEF Steps
<1> QED  BY <1>1, WheelAssumption DEF Slots

\* A division is determined by its quotient and its rest.
LEMMA Division ==
  ASSUME NEW b \in Nat \ {0}, NEW a \in Nat, NEW q \in Nat, NEW r \in 0 .. b - 1, a = (b * q) + r
  PROVE  a \div b = q /\ a % b = r
<1>1. a \div b \in Nat /\ a % b \in 0 .. b - 1 /\ (b * (a \div b)) + (a % b) = a
  OBVIOUS
<1> DEFINE q1 == a \div b
           r1 == a % b
<1>2. q1 \in Nat /\ r1 \in 0 .. b - 1 /\ (b * q1) + r1 = (b * q) + r
  BY <1>1
<1> HIDE DEF q1, r1
<1>3. q1 = q /\ r1 = r
  BY <1>2
<1> QED  BY <1>3 DEF q1, r1

\* Rounds and slot of an entry, as add computes them from the current slot
\* and the steps.
LEMMA AroundTheWheel ==
  ASSUME NEW c \in Slots, NEW n \in Nat
  PROVE  LET q == n \div RoundSize
             r == n % RoundSize
         IN  /\ q \in Nat /\ r \in Slots /\ n = (RoundSize * q) + r
             /\ (c + n) \div RoundSize = IF c + r >= RoundSize THEN q + 1 ELSE q
             /\ (c + n) % RoundSize = IF c + r >= RoundSize THEN (c + r) - RoundSize ELSE c + r
<1> DEFINE b == RoundSize
           q == n \div b
           r == n % b
<1>1. b \in Nat \ {0} /\ c \in 0 .. b - 1
  BY Constants DEF Slots
<1> HIDE DEF b
<1>2. q \in Nat /\ r \in 0 .. b - 1 /\ n = (b * q) + r
  BY <1>1
<1> HIDE DEF q, r
<1>3. CASE c + r >= b
  <2>1. c + n = (b * (q + 1)) + ((c + r) - b) /\ (c + r) - b \in 0 .. b - 1 /\ q + 1 \in Nat /\ c + n \in Nat
    BY <1>1, <1>2, <1>3
  <2>2. (c + n) \div b = q + 1 /\ (c + n) % b = (c + r) - b
    BY <1>1, <2>1, Division
  <2> QED  BY <1>1, <1>2, <1>3, <2>2 DEF b, q, r, Slots
<1>4. CASE c + r < b
  <2>1. c + n = (b * q) + (c + r) /\ c + r \in 0 .. b - 1 /\ c + n \in Nat
    BY <1>1, <1>2, <1>4
  <2>2. (c + n) \div b = q /\ (c + n) % b = c + r
    BY <1>1, <1>2, <2>1, Division
  <2>3. ~(c + r >= b)
    BY <1>1, <1>2, <1>4
  <2> QED  BY <1>1, <1>2, <2>2, <2>3 DEF b, q, r, Slots
<1> QED  BY <1>1, <1>2, <1>3, <1>4

\* tick's step to the next slot goes around.
LEMMA NextSlot ==
  ASSUME NEW c \in Slots
  PROVE  (c + 1) % RoundSize = (IF c = RoundSize - 1 THEN 0 ELSE c + 1) /\ (c + 1) % RoundSize \in Slots
<1>1. c \in Nat /\ c < RoundSize /\ RoundSize \in Nat \ {0}
  BY Constants DEF Slots
<1>2. CASE c = RoundSize - 1
  BY <1>1, <1>2 DEF Slots
<1>3. CASE c # RoundSize - 1
  <2>1. c + 1 \in 0 .. RoundSize - 1
    BY <1>1, <1>3
  <2> QED  BY <1>1, <1>3, <2>1 DEF Slots
<1> QED  BY <1>2, <1>3

\* Distances on the wheel are numbers.
LEMMA AheadRange ==
  ASSUME TypeInv, NEW s \in Slots, NEW i \in Nat
  PROVE  Ahead(s, i) \in Nat /\ Distance(s) \in Nat
BY Constants DEF TypeInv, Ahead, Distance, Slots

\* The timers on the wheel.
LEMMA WhoIsOnTheWheel ==
  ASSUME TypeInv, NEW e \in Timers PROVE OnWheel(e) <=> ~ Absent(e, slots)
<1>1. \A s \in Slots : DOMAIN slots[s] = 1 .. Len(slots[s])
  BY DEF TypeInv
<1> QED  BY <1>1 DEF OnWheel, InSlot, Absent

\* The wheel is empty at first.
LEMMA InitInv == Init => IInv
<1> SUFFICES ASSUME Init PROVE IInv
  OBVIOUS
<1> USE Constants DEF Init
<1>1. TypeInv /\ CallInv
  BY DEF TypeInv, CallInv
<1>2. \A s \in Slots : Len(slots[s]) = 0
  OBVIOUS
<1>3. Unique(slots) /\ AllDue(slots)
  BY <1>2 DEF Unique, AllDue
<1>4. CountInv
  <2>1. ASSUME NEW e \in Timers PROVE ticks[e] + (IF expired THEN 1 ELSE 0) <= elapsed[e] + 1
    <3>1. ticks[e] = 0 /\ elapsed[e] = 0 /\ ~expired
      OBVIOUS
    <3> QED  BY <3>1
  <2> QED  BY <2>1 DEF CountInv, Counted
<1> QED  BY <1>1, <1>3, <1>4 DEF IInv

-----------------------------------------------------------------------------
\* Changes of the lists.

\* The entry at tick's position is erased; those behind it move up.
LEMMA ErasedWheel ==
  ASSUME IInv, InTick, it <= Len(slots[cur]), NEW w, w = Erased(slots, it)
  PROVE  /\ w \in [Slots -> Seq(Timers)] /\ Unique(w) /\ AllDue(w)
         /\ Absent(slots[cur][it], w) /\ it <= Len(w[cur]) + 1
         /\ \A f : Absent(f, slots) => Absent(f, w)
<1> DEFINE l == slots[cur]
           l1 == SubSeq(l, 1, it - 1)
           l2 == SubSeq(l, it + 1, Len(l))
           m == l1 \o l2
<1>1. /\ cur \in Slots /\ l \in Seq(Timers) /\ Len(l) \in Nat /\ it \in 1 .. Len(l)
      /\ slots \in [Slots -> Seq(Timers)]
  BY DEF IInv, TypeInv, InTick
<1>2. w = [slots EXCEPT ![cur] = m]
  BY DEF Erased
<1> HIDE DEF l
<1>3. /\ l1 \in Seq(Timers) /\ Len(l1) = it - 1 /\ \A i \in 1 .. it - 1 : l1[i] = l[i]
      /\ l2 \in Seq(Timers) /\ Len(l2) = Len(l) - it /\ \A i \in 1 .. Len(l) - it : l2[i] = l[it + i]
  BY <1>1
<1> HIDE DEF l1, l2
<1>4. /\ m \in Seq(Timers) /\ Len(m) = Len(l1) + Len(l2)
      /\ \A i \in 1 .. Len(l1) + Len(l2) : m[i] = IF i <= Len(l1) THEN l1[i] ELSE l2[i - Len(l1)]
  BY <1>3, ConcatProperties
<1> HIDE DEF m
<1>5. Len(m) = Len(l) - 1
  BY <1>1, <1>3, <1>4
<1>6. ASSUME NEW i \in 1 .. Len(m) PROVE m[i] = IF i < it THEN l[i] ELSE l[i + 1]
  <2>1. CASE i < it
    BY <1>1, <1>3, <1>4, <1>5, <2>1
  <2>2. CASE i >= it
    <3>1. i - (it - 1) \in 1 .. Len(l) - it /\ it + (i - (it - 1)) = i + 1 /\ ~(i <= it - 1) /\ ~(i < it)
      BY <1>1, <1>5, <2>2
    <3>2. m[i] = l2[i - (it - 1)]
      BY <1>1, <1>3, <1>4, <1>5, <3>1
    <3> QED  BY <1>3, <3>1, <3>2
  <2> QED  BY <1>1, <2>1, <2>2
<1>7. w[cur] = m /\ \A s \in Slots : s # cur => w[s] = slots[s]
  BY <1>1, <1>2
\* Where an entry of w was before.
<1> DEFINE from(s, i) == IF s = cur /\ i >= it THEN i + 1 ELSE i
<1>8. ASSUME NEW s \in Slots, NEW i \in 1 .. Len(w[s])
      PROVE  /\ from(s, i) \in 1 .. Len(slots[s]) /\ w[s][i] = slots[s][from(s, i)]
             /\ s = cur => from(s, i) # it
             /\ Ahead(s, from(s, i)) = Ahead(s, i)
  <2>1. CASE s # cur
    BY <1>7, <2>1
  <2>2. CASE s = cur
    BY <1>1, <1>5, <1>6, <1>7, <2>2 DEF l, Ahead
  <2> QED  BY <2>1, <2>2
<1>9. ASSUME NEW s \in Slots, NEW i \in 1 .. Len(w[s]), NEW j \in 1 .. Len(w[s]), from(s, i) = from(s, j)
      PROVE  i = j
  BY <1>1, <1>9
<1> HIDE DEF from
<1>10. w \in [Slots -> Seq(Timers)]
  BY <1>1, <1>2, <1>4
<1>11. Unique(w)
  <2>1. ASSUME NEW s1 \in Slots, NEW s2 \in Slots, NEW i \in 1 .. Len(w[s1]), NEW j \in 1 .. Len(w[s2]),
               w[s1][i] = w[s2][j]
        PROVE  s1 = s2 /\ i = j
    <3>1. slots[s1][from(s1, i)] = slots[s2][from(s2, j)]
      BY <1>8, <2>1
    <3>2. s1 = s2 /\ from(s1, i) = from(s2, j)
      BY <1>8, <3>1 DEF Unique, IInv
    <3> QED  BY <1>9, <3>2
  <2> QED  BY <2>1 DEF Unique
<1>12. AllDue(w)
  BY <1>8 DEF AllDue, IInv, Due, Turn
<1>13. Absent(slots[cur][it], w)
  BY <1>1, <1>8 DEF Absent, IInv, Unique, l
<1>14. it <= Len(w[cur]) + 1
  BY <1>1, <1>5, <1>7
<1>15. \A f : Absent(f, slots) => Absent(f, w)
  BY <1>8 DEF Absent
<1> QED  BY <1>10, <1>11, <1>12, <1>13, <1>14, <1>15

\* A timer that is added will be called in the tick after its timeout, or a
\* revolution later if it goes past the end of the wheel.
LEMMA Added ==
  ASSUME TypeInv, NEW e \in Timers, NEW w \in [Slots -> Seq(Timers)], Unique(w), AllDue(w), Absent(e, w),
         addEntry(e, w), UNCHANGED <<cur, it>>, InTick => it <= Len(w[cur]) + 1
  PROVE  /\ slots' \in [Slots -> Seq(Timers)] /\ round' \in [Timers -> Nat] /\ wrapped' \subseteq Timers
         /\ ticks' \in [Timers -> Nat] /\ elapsed' \in [Timers -> 0 .. MaxElapsed]
         /\ Unique(slots') /\ AllDue(slots)'
         /\ \A s \in Slots : Len(w[s]) <= Len(slots'[s]) /\ \A i \in 1 .. Len(w[s]) : slots'[s][i] = w[s][i]
         /\ \A f : f # e /\ Absent(f, w) => Absent(f, slots')
<1>1. cur \in Slots /\ Steps(e) \in Nat /\ RoundSize \in Nat \ {0} /\ MaxElapsed \in Nat
  BY Constants DEF TypeInv
<1>2. PICK n, q, r, p, k, l :
        /\ n = Steps(e) /\ q = n \div RoundSize /\ r = n % RoundSize
        /\ p = (cur + n) % RoundSize /\ k = (cur + n) \div RoundSize /\ l = Append(w[p], e)
  OBVIOUS
<1>3. /\ round' = [round EXCEPT ![e] = k] /\ slots' = [w EXCEPT ![p] = l]
      /\ ticks' = [ticks EXCEPT ![e] = 0] /\ elapsed' = [elapsed EXCEPT ![e] = 0]
      /\ wrapped' = IF cur + r >= RoundSize THEN wrapped \cup {e} ELSE wrapped \ {e}
  BY <1>2 DEF addEntry
<1>4. /\ q \in Nat /\ r \in Slots /\ n = (RoundSize * q) + r /\ n \in Nat
      /\ k = IF cur + r >= RoundSize THEN q + 1 ELSE q
      /\ p = IF cur + r >= RoundSize THEN (cur + r) - RoundSize ELSE cur + r
  BY <1>1, <1>2, AroundTheWheel
<1>5. p \in Slots /\ k \in Nat /\ w[p] \in Seq(Timers)
  BY <1>1, <1>4 DEF Slots
<1>6. /\ l \in Seq(Timers) /\ Len(l) = Len(w[p]) + 1 /\ l[Len(w[p]) + 1] = e /\ Len(w[p]) \in Nat
      /\ \A i \in 1 .. Len(w[p]) : l[i] = w[p][i]
  BY <1>2, <1>5, AppendProperties
<1>7. PICK v : v = slots'
  OBVIOUS
<1>8. v[p] = l /\ (\A s \in Slots : s # p => v[s] = w[s]) /\ v \in [Slots -> Seq(Timers)]
  BY <1>3, <1>5, <1>6, <1>7
\* A place of the new wheel is a place of w, or the new one.
<1>9. ASSUME NEW s \in Slots, NEW i \in 1 .. Len(v[s])
      PROVE  \/ i \in 1 .. Len(w[s]) /\ v[s][i] = w[s][i] /\ v[s][i] # e
             \/ s = p /\ i = Len(w[p]) + 1 /\ v[s][i] = e
  <2>1. CASE s # p
    BY <1>8, <2>1 DEF Absent
  <2>2. CASE s = p
    BY <1>5, <1>6, <1>8, <2>2 DEF Absent
  <2> QED  BY <2>1, <2>2
<1>10. Unique(v)
  BY <1>9 DEF Unique
<1>11. \A f \in Timers : f # e => round'[f] = round[f] /\ ticks'[f] = ticks[f] /\ (f \in wrapped' <=> f \in wrapped)
  BY <1>3 DEF TypeInv
<1>12. round'[e] = k /\ ticks'[e] = 0 /\ (e \in wrapped' <=> cur + r >= RoundSize)
  BY <1>3 DEF TypeInv
<1>13. \A s, i : Ahead(s, i)' = Ahead(s, i)
  BY DEF Ahead, Distance, InTick
<1>14. ASSUME NEW f \in Timers, f # e, NEW s, NEW i, Due(f, s, i) PROVE Due(f, s, i)'
  BY <1>11, <1>13, <1>14 DEF Due, Turn
<1>15. ASSUME NEW i, i = Len(w[p]) + 1 PROVE Due(e, p, i)'
  <2>1. PICK a : a = Ahead(p, i)
    OBVIOUS
  <2>2. a = (IF InTick THEN r ELSE r + 1)
    <3>1. Distance(p) = r
      BY <1>1, <1>4 DEF Distance, Slots
    <3>2. InTick /\ p = cur => r = 0 /\ ~(i < it)
      BY <1>1, <1>4, <1>6, <1>15 DEF Slots, TypeInv
    <3> QED  BY <2>1, <3>1, <3>2 DEF Ahead
  <2>3. PICK x \in Nat : x = RoundSize * k /\ n + (IF cur + r >= RoundSize THEN RoundSize ELSE 0) = x + r
    <3>1. RoundSize * (q + 1) = (RoundSize * q) + RoundSize /\ RoundSize * q \in Nat
      BY <1>1, <1>4
    <3>2. RoundSize * k \in Nat /\ n + (IF cur + r >= RoundSize THEN RoundSize ELSE 0) = (RoundSize * k) + r
      BY <1>1, <1>4, <3>1 DEF Slots
    <3> QED  BY <3>2
  <2>4. /\ n <= 0 + a + x
        /\ 0 + a + x <= n + 1 + (IF cur + r >= RoundSize THEN RoundSize ELSE 0)
    BY <1>1, <1>4, <2>2, <2>3 DEF Slots
  <2>5. Turn(e, p, i)' = 0 + a + x
    BY <1>12, <1>13, <2>1, <2>3 DEF Turn
  <2> QED  BY <1>2, <1>12, <2>4, <2>5 DEF Due
<1>16. ASSUME NEW s \in Slots, NEW i \in 1 .. Len(v[s]) PROVE Due(v[s][i], s, i)'
  <2>1. CASE i \in 1 .. Len(w[s]) /\ v[s][i] = w[s][i] /\ v[s][i] # e
    BY <1>14, <2>1 DEF AllDue
  <2>2. CASE s = p /\ i = Len(w[p]) + 1 /\ v[s][i] = e
    BY <1>15, <2>2
  <2> QED  BY <1>9, <2>1, <2>2
<1>17. AllDue(slots)'
  BY <1>7, <1>16 DEF AllDue
<1>18. \A s \in Slots : Len(w[s]) <= Len(v[s]) /\ \A i \in 1 .. Len(w[s]) : v[s][i] = w[s][i]
  <2>1. ASSUME NEW s \in Slots PROVE Len(w[s]) <= Len(v[s]) /\ \A i \in 1 .. Len(w[s]) : v[s][i] = w[s][i]
    <3>1. CASE s = p
      BY <1>6, <1>8, <3>1
    <3>2. CASE s # p
      <4>1. w[s] \in Seq(Timers) /\ v[s] = w[s]
        BY <1>8, <3>2
      <4> QED  BY <4>1
    <3> QED  BY <3>1, <3>2
  <2> QED  BY <2>1
<1>19. /\ round' \in [Timers -> Nat] /\ wrapped' \subseteq Timers
       /\ ticks' \in [Timers -> Nat] /\ elapsed' \in [Timers -> 0 .. MaxElapsed]
  <2>1. round' \in [Timers -> Nat] /\ ticks' \in [Timers -> Nat]
    BY <1>3, <1>5 DEF TypeInv
  <2>2. wrapped' \subseteq Timers
    BY <1>3 DEF TypeInv
  <2>3. elapsed' \in [Timers -> 0 .. MaxElapsed]
    <3>1. 0 \in 0 .. MaxElapsed
      BY <1>1
    <3> QED  BY <1>3, <3>1 DEF TypeInv
  <2> QED  BY <2>1, <2>2, <2>3
<1>20. \A f : f # e /\ Absent(f, w) => Absent(f, v)
  BY <1>9 DEF Absent
<1> QED  BY <1>7, <1>8, <1>10, <1>17, <1>18, <1>19, <1>20

-----------------------------------------------------------------------------
\* The rest of the invariant does not depend on the list, when nobody is in it.
LEMMA Frame ==
  ASSUME IInv, UNCHANGED <<cur, round, it, ticks, wrapped>>, NEW w, AllDue(w)
  PROVE  AllDue(w)'
BY DEF AllDue, Due, Turn, Ahead, Distance, InTick

\* An entry that leaves the wheel is no concern of the entries that stay.
LEMMA GoneFrame ==
  ASSUME IInv, NEW e \in Timers, Gone(e), UNCHANGED <<cur, it, expired>>,
         NEW w \in [Slots -> Seq(Timers)], Unique(w), AllDue(w), Absent(e, w),
         \A f : Absent(f, slots) => Absent(f, w), slots' = w
  PROVE  /\ AllDue(slots)' /\ Unique(slots') /\ CountInv'
         /\ round' \in [Timers -> Nat] /\ disabled' \subseteq Timers /\ wrapped' \subseteq Timers
         /\ ticks' \in [Timers -> Nat] /\ elapsed' \in [Timers -> 0 .. MaxElapsed]
<1>1. \A f \in Timers : f # e => /\ round'[f] = round[f] /\ ticks'[f] = ticks[f] /\ elapsed'[f] = elapsed[f]
                               /\ (f \in wrapped' <=> f \in wrapped)
  BY DEF Gone, IInv, TypeInv
<1>2. \A s, i : Ahead(s, i)' = Ahead(s, i)
  BY DEF Ahead, Distance, InTick
<1>3. ASSUME NEW s \in Slots, NEW i \in 1 .. Len(w[s]) PROVE Due(w[s][i], s, i)'
  <2>1. PICK d \in Timers : d = w[s][i] /\ d # e
    <3>1. w[s] \in Seq(Timers)
      OBVIOUS
    <3> QED  BY <3>1 DEF Absent
  <2>2. Due(d, s, i)
    BY <2>1 DEF AllDue
  <2>3. Due(d, s, i)'
    BY <1>1, <1>2, <2>1, <2>2 DEF Due, Turn
  <2> QED  BY <2>1, <2>3
<1>4. AllDue(slots)'
  BY <1>3 DEF AllDue
<1>5. ASSUME NEW f \in Timers PROVE Absent(f, w) \/ Counted(f)'
  <2>1. CASE f = e
    BY <2>1
  <2>2. CASE f # e
    BY <1>1, <2>2 DEF IInv, CountInv, Counted
  <2> QED  BY <2>1, <2>2
<1>6. CountInv'
  BY <1>5 DEF CountInv, Absent
<1>7. 0 \in 0 .. MaxElapsed
  BY Constants
<1> QED  BY <1>4, <1>6, <1>7 DEF Gone, IInv, TypeInv

\* add, from outside or from a callback.
LEMMA AddStep == ASSUME IInv, NEW e \in Timers, Add(e) PROVE IInv'
<1>1. /\ InTick => calling # None
      /\ ~OnWheel(e) /\ addEntry(e, slots)
      /\ UNCHANGED <<cur, disabled, expired, it, calling>>
  BY DEF Add
<1>2. PICK w : w = slots
  OBVIOUS
<1>3. w \in [Slots -> Seq(Timers)] /\ Unique(w) /\ AllDue(w)
  BY <1>2 DEF IInv, TypeInv
<1>4. Absent(e, w)
  <2>1. ASSUME NEW s \in Slots, NEW i \in 1 .. Len(w[s]), w[s][i] = e PROVE FALSE
    <3>1. DOMAIN w[s] = 1 .. Len(w[s])
      BY <1>3
    <3> QED  BY <1>1, <1>2, <2>1, <3>1 DEF OnWheel, InSlot
  <2> QED  BY <2>1 DEF Absent
<1>5. cur \in Slots /\ it \in Nat /\ Len(w[cur]) \in Nat
  BY <1>3 DEF IInv, TypeInv
<1>6. InTick => it <= Len(w[cur]) + 1
  BY <1>1, <1>2, <1>5 DEF IInv, CallInv
<1>7. /\ slots' \in [Slots -> Seq(Timers)] /\ round' \in [Timers -> Nat] /\ wrapped' \subseteq Timers
      /\ ticks' \in [Timers -> Nat] /\ elapsed' \in [Timers -> 0 .. MaxElapsed]
      /\ Unique(slots') /\ AllDue(slots)'
      /\ \A s \in Slots : Len(w[s]) <= Len(slots'[s]) /\ \A i \in 1 .. Len(w[s]) : slots'[s][i] = w[s][i]
      /\ \A f : f # e /\ Absent(f, w) => Absent(f, slots')
  BY <1>1, <1>2, <1>3, <1>4, <1>6, Added DEF IInv
<1>8. TypeInv'
  BY <1>1, <1>7 DEF IInv, TypeInv
<1>9. CallInv'
  <2>1. PICK l : l = slots'[cur]
    OBVIOUS
  <2>2. Len(l) \in Nat /\ Len(w[cur]) <= Len(l) /\ \A i \in 1 .. Len(w[cur]) : l[i] = w[cur][i]
    <3>1. Len(w[cur]) <= Len(l) /\ \A i \in 1 .. Len(w[cur]) : l[i] = w[cur][i]
      BY <1>5, <1>7, <2>1
    <3>2. l \in Seq(Timers)
      BY <1>5, <1>7, <2>1
    <3> QED  BY <3>1, <3>2
  <2>3. calling # None => it \in 1 .. Len(w[cur]) /\ w[cur][it] = calling
    BY <1>2 DEF IInv, CallInv
  <2>4. calling # None => it \in 1 .. Len(l) /\ l[it] = calling
    BY <1>5, <2>2, <2>3
  <2> QED  BY <1>1, <2>1, <2>4 DEF CallInv
<1>10. CountInv'
  <2>1. ticks'[e] = 0 /\ elapsed'[e] = 0 /\ \A f \in Timers : f # e => ticks'[f] = ticks[f] /\ elapsed'[f] = elapsed[f]
    BY <1>1 DEF addEntry, IInv, TypeInv
  <2>2. Counted(e)'
    BY <1>1, <2>1 DEF Counted
  <2>3. ASSUME NEW f \in Timers, f # e PROVE Absent(f, slots') \/ Counted(f)'
    BY <1>1, <1>2, <1>7, <2>1, <2>3 DEF IInv, CountInv, Counted
  <2> QED  BY <2>2, <2>3 DEF CountInv, Absent
<1> QED  BY <1>7, <1>8, <1>9, <1>10 DEF IInv

\* A disabled entry stays where it is.
LEMMA DisableStep == ASSUME IInv, NEW e \in Timers, Disable(e) PROVE IInv'
<1>1. disabled' = disabled \cup {e} /\ UNCHANGED <<cur, slots, round, expired, it, calling, ticks, elapsed, wrapped>>
  BY DEF Disable, wheelVars
<1>2. AllDue(slots)'
  BY <1>1 DEF IInv, AllDue, Due, Turn, Ahead, Distance, InTick
<1> QED  BY <1>1, <1>2 DEF IInv, TypeInv, CallInv, Unique, CountInv, Counted

\* The timerfd expires, whether or not it was read since.
LEMMA ExpireStep == ASSUME IInv, Expire PROVE IInv'
<1>1. /\ expired' = TRUE
      /\ elapsed' = [e \in Timers |-> IF OnWheel(e) /\ elapsed[e] < MaxElapsed THEN elapsed[e] + 1 ELSE elapsed[e]]
      /\ UNCHANGED <<cur, slots, round, disabled, it, calling, ticks, wrapped>>
  BY DEF Expire, wheelVars
<1>2. AllDue(slots)'
  BY <1>1 DEF IInv, AllDue, Due, Turn, Ahead, Distance, InTick
<1>3. TypeInv'
  BY <1>1, Constants DEF IInv, TypeInv
<1>4. ASSUME NEW e \in Timers, ~ Absent(e, slots) PROVE Counted(e)'
  <2>1. PICK n, m : n = elapsed[e] /\ m = ticks[e]
    OBVIOUS
  <2>2. n \in 0 .. MaxElapsed /\ m \in Nat /\ (n = MaxElapsed \/ m + (IF expired THEN 1 ELSE 0) <= n + 1)
    BY <1>4, <2>1 DEF IInv, TypeInv, CountInv, Counted
  <2>3. elapsed'[e] = (IF n < MaxElapsed THEN n + 1 ELSE n) /\ ticks'[e] = m /\ expired' = TRUE
    BY <1>1, <1>4, <2>1, WhoIsOnTheWheel DEF IInv
  <2>4. (IF n < MaxElapsed THEN n + 1 ELSE n) = MaxElapsed \/ m + 1 <= (IF n < MaxElapsed THEN n + 1 ELSE n) + 1
    BY <2>2, Constants
  <2> QED  BY <2>3, <2>4 DEF Counted
<1>5. CountInv'
  BY <1>1, <1>4 DEF CountInv, Absent
<1> QED  BY <1>1, <1>2, <1>3, <1>5 DEF IInv, CallInv, Unique

\* tick begins: the current slot moves on.
LEMMA HandleReadStep == ASSUME IInv, handleRead PROVE IInv'
<1>1. /\ expired /\ it = 0 /\ expired' = FALSE /\ it' = 1
      /\ ticks' = [e \in Timers |-> IF OnWheel(e) THEN ticks[e] + 1 ELSE ticks[e]]
      /\ UNCHANGED <<cur, slots, round, disabled, calling, elapsed, wrapped>>
  BY DEF handleRead, wheelVars, InTick
<1>2. TypeInv'
  <2>1. ticks' \in [Timers -> Nat]
    BY <1>1 DEF IInv, TypeInv
  <2> QED  BY <1>1, <2>1 DEF IInv, TypeInv
<1>3. CallInv'
  BY <1>1 DEF IInv, CallInv
<1>4. ASSUME NEW s \in Slots, NEW i \in 1 .. Len(slots[s]) PROVE Due(slots[s][i], s, i)'
  <2>1. PICK e \in Timers : e = slots[s][i] /\ OnWheel(e)
    <3>1. slots[s] \in Seq(Timers) /\ DOMAIN slots[s] = 1 .. Len(slots[s])
      BY DEF IInv, TypeInv
    <3> QED  BY <3>1 DEF OnWheel, InSlot
  <2>2. PICK a, b, t : a = Ahead(s, i) /\ b = RoundSize * round[e] /\ t = ticks[e]
    OBVIOUS
  <2>3. a \in Nat /\ a - 1 \in Nat /\ b \in Nat /\ t \in Nat /\ Ahead(s, i)' = a - 1
    <3>1. Distance(s) \in Nat /\ Distance(s)' = Distance(s) /\ a = Distance(s) + 1
      BY <1>1, <2>2, AheadRange DEF IInv, Ahead, InTick, Distance
    <3>2. s = cur => Distance(s) = 0
      BY DEF Distance, IInv, TypeInv, Slots
    <3>3. Ahead(s, i)' = Distance(s)
      BY <1>1, <3>1, <3>2 DEF Ahead, InTick, IInv, TypeInv
    <3>4. b \in Nat /\ t \in Nat
      <4>1. RoundSize \in Nat /\ round[e] \in Nat /\ ticks[e] \in Nat
        BY Constants DEF IInv, TypeInv
      <4> QED  BY <2>2, <4>1
    <3> QED  BY <3>1, <3>3, <3>4
  <2>4. ticks'[e] = t + 1
    BY <1>1, <2>1, <2>2
  <2>5. Steps(e) <= t + a + b /\ t + a + b <= Steps(e) + 1 + (IF e \in wrapped THEN RoundSize ELSE 0)
    BY <2>1, <2>2 DEF IInv, AllDue, Due, Turn
  <2>6. (t + 1) + (a - 1) + b = t + a + b
    BY <2>3
  <2>7. Turn(e, s, i)' = t + a + b
    BY <1>1, <2>2, <2>3, <2>4, <2>6 DEF Turn
  <2>8. Due(e, s, i)'
    BY <1>1, <2>5, <2>7 DEF Due
  <2> QED  BY <1>1, <2>1, <2>8
<1>5. AllDue(slots)'
  BY <1>1, <1>4 DEF AllDue
<1>6. ASSUME NEW e \in Timers, ~ Absent(e, slots) PROVE Counted(e)'
  <2>1. PICK n, m : n = elapsed[e] /\ m = ticks[e]
    OBVIOUS
  <2>2. n \in 0 .. MaxElapsed /\ m \in Nat /\ (n = MaxElapsed \/ m + 1 <= n + 1)
    BY <1>1, <1>6, <2>1 DEF IInv, TypeInv, CountInv, Counted
  <2>3. elapsed'[e] = n /\ (ticks'[e] = m + 1 \/ ticks'[e] = m) /\ expired' = FALSE
    BY <1>1, <2>1
  <2>4. n = MaxElapsed \/ ((m + 1) + 0 <= n + 1 /\ m + 0 <= n + 1)
    BY <2>2, Constants
  <2> QED  BY <2>3, <2>4 DEF Counted
<1>7. CountInv'
  BY <1>1, <1>6 DEF CountInv, Absent
<1> QED  BY <1>1, <1>2, <1>3, <1>5, <1>7 DEF IInv, Unique

\* tick() at an entry: it is in the list.
LEMMA AtEntryIsThere ==
  ASSUME IInv, NEW e \in Timers, AtEntry(e)
  PROVE  it \in 1 .. Len(slots[cur]) /\ slots[cur][it] = e /\ cur \in Slots /\ calling = None /\ it # 0
BY DEF IInv, TypeInv, AtEntry, InTick

\* A disabled entry is erased.
LEMMA DropDisabledStep == ASSUME IInv, NEW e \in Timers, DropDisabled(e) PROVE IInv'
<1>1. /\ AtEntry(e) /\ slots' = Erased(slots, it) /\ Gone(e)
      /\ UNCHANGED <<cur, expired, it, calling>>
  BY DEF DropDisabled
<1>2. InTick /\ it <= Len(slots[cur]) /\ calling = None /\ slots[cur][it] = e
  BY <1>1 DEF AtEntry
<1>3. PICK w : w = Erased(slots, it)
  OBVIOUS
<1>4. /\ w \in [Slots -> Seq(Timers)] /\ Unique(w) /\ AllDue(w) /\ Absent(e, w)
      /\ \A f : Absent(f, slots) => Absent(f, w)
  BY <1>2, <1>3, ErasedWheel
<1>5. /\ AllDue(slots)' /\ Unique(slots') /\ CountInv'
      /\ round' \in [Timers -> Nat] /\ disabled' \subseteq Timers /\ wrapped' \subseteq Timers
      /\ ticks' \in [Timers -> Nat] /\ elapsed' \in [Timers -> 0 .. MaxElapsed]
  BY <1>1, <1>3, <1>4, GoneFrame
<1> QED  BY <1>1, <1>2, <1>3, <1>4, <1>5 DEF IInv, TypeInv, CallInv

\* An entry with rounds left waits for one less.
LEMMA NextRoundStep == ASSUME IInv, NEW e \in Timers, NextRound(e) PROVE IInv'
<1>1. /\ AtEntry(e) /\ round[e] > 0 /\ round' = [round EXCEPT ![e] = @ - 1] /\ it' = it + 1
      /\ UNCHANGED <<cur, slots, disabled, expired, calling, ticks, elapsed, wrapped>>
  BY DEF NextRound
<1>2. it \in 1 .. Len(slots[cur]) /\ slots[cur][it] = e /\ cur \in Slots /\ calling = None /\ it # 0
  BY <1>1, AtEntryIsThere
<1>3. PICK n : n = round[e] /\ n - 1 \in Nat /\ n \in Nat
  BY <1>1 DEF IInv, TypeInv
<1>4. TypeInv'
  BY <1>1, <1>3 DEF IInv, TypeInv
<1>5. CallInv'
  BY <1>1, <1>2 DEF CallInv
<1>6. ASSUME NEW s \in Slots, NEW i \in 1 .. Len(slots[s]) PROVE Due(slots[s][i], s, i)'
  <2>1. PICK d \in Timers : d = slots[s][i]
    <3>1. slots[s] \in Seq(Timers)
      BY DEF IInv, TypeInv
    <3> QED  BY <3>1
  <2>2. Steps(d) <= Turn(d, s, i) /\ Turn(d, s, i) <= Steps(d) + 1 + (IF d \in wrapped THEN RoundSize ELSE 0)
    BY <2>1 DEF IInv, AllDue, Due
  <2>3. Turn(d, s, i)' = Turn(d, s, i)
    <3>1. CASE s = cur /\ i = it
      <4>1. d = e /\ Ahead(s, i) = 0 /\ Ahead(s, i)' = RoundSize
        BY <1>1, <1>2, <2>1, <3>1 DEF Ahead, InTick, IInv, TypeInv
      <4>2. round'[e] = n - 1 /\ ticks'[e] = ticks[e] /\ ticks[e] \in Nat
        BY <1>1, <1>3 DEF IInv, TypeInv
      <4>3. PICK t : t = ticks[e] /\ t \in Nat
        BY <4>2
      <4>4. t + RoundSize + (RoundSize * (n - 1)) = t + 0 + (RoundSize * n)
        <5>1. RoundSize * (n - 1) = (RoundSize * n) - RoundSize /\ RoundSize * n \in Nat /\ RoundSize \in Nat
          BY <1>3, Constants
        <5> QED  BY <4>3, <5>1
      <4>5. Turn(d, s, i) = t + 0 + (RoundSize * n)
        BY <1>3, <4>1, <4>3 DEF Turn
      <4>6. Turn(d, s, i)' = t + RoundSize + (RoundSize * (n - 1))
        BY <4>1, <4>2, <4>3 DEF Turn
      <4> QED  BY <4>4, <4>5, <4>6
    <3>2. CASE ~(s = cur /\ i = it)
      <4>1. d # e
        BY <1>2, <2>1, <3>2 DEF IInv, Unique
      <4>2. Distance(s)' = Distance(s)
        BY <1>1 DEF Distance
      <4>3. Ahead(s, i)' = Ahead(s, i)
        <5>1. i \in Nat /\ it \in Nat
          BY DEF IInv, TypeInv
        <5>2. s = cur => (i < it + 1 <=> i < it)
          BY <3>2, <5>1
        <5> QED  BY <1>1, <1>2, <4>2, <5>1, <5>2 DEF Ahead, InTick
      <4>4. round'[d] = round[d]
        BY <1>1, <4>1 DEF IInv, TypeInv
      <4> QED  BY <1>1, <4>3, <4>4 DEF Turn
    <3> QED  BY <3>1, <3>2
  <2>4. Due(d, s, i)'
    BY <1>1, <2>2, <2>3 DEF Due
  <2> QED  BY <1>1, <2>1, <2>4
<1>7. AllDue(slots)'
  BY <1>1, <1>6 DEF AllDue
<1> QED  BY <1>1, <1>4, <1>5, <1>7 DEF IInv, Unique, CountInv, Counted

\* An entry's time has come, its callback begins;
LEMMA CallBackStep == ASSUME IInv, NEW e \in Timers, CallBack(e) PROVE IInv'
<1>1. /\ AtEntry(e) /\ calling' = e
      /\ UNCHANGED <<cur, slots, round, disabled, expired, it, ticks, elapsed, wrapped>>
  BY DEF CallBack, wheelVars
<1>2. it \in 1 .. Len(slots[cur]) /\ slots[cur][it] = e
  BY <1>1, AtEntryIsThere
<1>3. AllDue(slots)'
  <2>1. PICK w : w = slots
    OBVIOUS
  <2>2. AllDue(w)'
    BY <1>1, <2>1, Frame DEF IInv
  <2>3. slots' = w
    BY <1>1, <2>1
  <2> QED  BY <2>2, <2>3 DEF AllDue
<1>4. TypeInv' /\ CallInv'
  BY <1>1, <1>2 DEF IInv, TypeInv, CallInv
<1>5. Unique(slots') /\ CountInv'
  BY <1>1 DEF IInv, Unique, CountInv, Counted
<1> QED  BY <1>3, <1>4, <1>5 DEF IInv

\* and ends: a repeating entry is added again, the old place erased.
LEMMA CalledBackStep == ASSUME IInv, NEW e \in Timers, CalledBack(e) PROVE IInv'
<1>1. /\ calling = e /\ calling' = None /\ UNCHANGED <<cur, expired, it>>
      /\ \/ addEntry(e, Erased(slots, it)) /\ UNCHANGED disabled
         \/ slots' = Erased(slots, it) /\ Gone(e)
  BY DEF CalledBack
<1>2. /\ it \in 1 .. Len(slots[cur]) /\ slots[cur][it] = e /\ cur \in Slots /\ it \in Nat
      /\ slots[cur] \in Seq(Timers)
  BY <1>1, Constants DEF IInv, CallInv, TypeInv
<1>3. InTick /\ it <= Len(slots[cur])
  BY <1>2 DEF InTick
<1>4. PICK w : w = Erased(slots, it)
  OBVIOUS
<1>5. /\ w \in [Slots -> Seq(Timers)] /\ Unique(w) /\ AllDue(w) /\ Absent(e, w) /\ it <= Len(w[cur]) + 1
      /\ \A f : Absent(f, slots) => Absent(f, w)
  BY <1>2, <1>3, <1>4, ErasedWheel
<1>6. CASE addEntry(e, w) /\ UNCHANGED disabled
  <2>1. /\ slots' \in [Slots -> Seq(Timers)] /\ round' \in [Timers -> Nat] /\ wrapped' \subseteq Timers
        /\ ticks' \in [Timers -> Nat] /\ elapsed' \in [Timers -> 0 .. MaxElapsed]
        /\ Unique(slots') /\ AllDue(slots)'
        /\ \A f : f # e /\ Absent(f, w) => Absent(f, slots')
    BY <1>1, <1>5, <1>6, Added DEF IInv
  <2>2. TypeInv' /\ CallInv'
    BY <1>1, <1>6, <2>1 DEF IInv, TypeInv, CallInv
  <2>3. CountInv'
    <3>1. ticks'[e] = 0 /\ elapsed'[e] = 0 /\ \A f \in Timers : f # e => ticks'[f] = ticks[f] /\ elapsed'[f] = elapsed[f]
      BY <1>6 DEF addEntry, IInv, TypeInv
    <3>2. Counted(e)'
      BY <1>1, <3>1 DEF Counted
    <3>3. ASSUME NEW f \in Timers, f # e PROVE Absent(f, slots') \/ Counted(f)'
      BY <1>1, <1>5, <2>1, <3>1, <3>3 DEF IInv, CountInv, Counted
    <3> QED  BY <3>2, <3>3 DEF CountInv, Absent
  <2> QED  BY <2>1, <2>2, <2>3 DEF IInv
<1>7. CASE slots' = w /\ Gone(e)
  <2>1. /\ AllDue(slots)' /\ Unique(slots') /\ CountInv'
        /\ round' \in [Timers -> Nat] /\ disabled' \subseteq Timers /\ wrapped' \subseteq Timers
        /\ ticks' \in [Timers -> Nat] /\ elapsed' \in [Timers -> 0 .. MaxElapsed]
    BY <1>1, <1>5, <1>7, GoneFrame
  <2> QED  BY <1>1, <1>5, <1>7, <2>1 DEF IInv, TypeInv, CallInv
<1> QED  BY <1>1, <1>4, <1>6, <1>7

\* The slot that has been walked is the one reached last from now on.
LEMMA EndTickStep == ASSUME IInv, EndTick PROVE IInv'
<1>1. /\ InTick /\ calling = None /\ it > Len(slots[cur]) /\ cur' = (cur + 1) % RoundSize /\ it' = 0
      /\ UNCHANGED <<slots, round, disabled, expired, calling, ticks, elapsed, wrapped>>
  BY DEF EndTick
<1>2. cur \in Slots /\ cur' \in Slots /\ cur' = IF cur = RoundSize - 1 THEN 0 ELSE cur + 1
  BY <1>1, NextSlot DEF IInv, TypeInv
<1>3. ASSUME NEW s \in Slots, NEW i \in 1 .. Len(slots[s]) PROVE Ahead(s, i)' = Ahead(s, i)
  <2>1. i \in Nat /\ (s = cur => i < it)
    <3>1. slots[s] \in Seq(Timers) /\ it \in Nat
      BY DEF IInv, TypeInv
    <3> QED  BY <1>1, <3>1
  <2>2. PICK c : c = cur'
    OBVIOUS
  <2>3. (IF s >= c THEN s - c ELSE (s - c) + RoundSize) + 1
          = IF s # cur THEN Distance(s) ELSE RoundSize
    BY <1>2, <2>2, Constants DEF Distance, Slots
  <2>4. Ahead(s, i)' = (IF s >= c THEN s - c ELSE (s - c) + RoundSize) + 1
    BY <1>1, <2>2 DEF Ahead, InTick, Distance
  <2>5. Ahead(s, i) = IF s # cur THEN Distance(s) ELSE RoundSize
    BY <1>1, <2>1 DEF Ahead
  <2> QED  BY <2>3, <2>4, <2>5
<1>4. AllDue(slots)'
  BY <1>1, <1>3 DEF IInv, AllDue, Due, Turn
<1> QED  BY <1>1, <1>2, <1>4 DEF IInv, TypeInv, CallInv, Unique, CountInv, Counted

\* IInv is inductive.
LEMMA Inductive == IInv /\ [Next]_vars => IInv'
<1> SUFFICES ASSUME IInv, [Next]_vars PROVE IInv'
  OBVIOUS
<1>1. CASE UNCHANGED vars
  <2>1. AllDue(slots)'
    BY <1>1 DEF vars, wheelVars, IInv, AllDue, Due, Turn, Ahead, Distance, InTick
  <2> QED  BY <1>1, <2>1 DEF vars, wheelVars, IInv, TypeInv, CallInv, Unique, CountInv, Counted
<1> QED
  BY <1>1, AddStep, DisableStep, ExpireStep, HandleReadStep, DropDisabledStep, NextRoundStep, CallBackStep,
     CalledBackStep, EndTickStep DEF Next, TickStep

\* IInv holds in every reachable state.
LEMMA Invariance == Spec => []IInv
BY InitInv, Inductive, PTL DEF Spec

-----------------------------------------------------------------------------
\* The state is well formed; in particular the entry whose callback runs stays
\* where tick() has found it, whatever the callback adds (SysTimer.cpp, tick).
THEOREM TypeCorrect == Spec => []TypeOK
<1>1. IInv => TypeOK
  <2> SUFFICES ASSUME IInv PROVE TypeOK
    OBVIOUS
  <2>1. DOMAIN slots[cur] = 1 .. Len(slots[cur])
    BY DEF IInv, TypeInv
  <2> QED  BY <2>1 DEF IInv, TypeInv, CallInv, TypeOK
<1> QED  BY <1>1, Invariance, PTL

\* An entry is in one place only: tick's changes of the list it walks, and
\* those its callbacks make, neither double an entry nor leave one behind.
THEOREM EntriesAreInOnePlace == Spec => []OnePlace
<1>1. IInv => OnePlace
  <2> SUFFICES ASSUME IInv PROVE OnePlace
    OBVIOUS
  <2>1. \A s \in Slots : DOMAIN slots[s] = 1 .. Len(slots[s])
    BY DEF IInv, TypeInv
  <2> QED  BY <2>1 DEF IInv, Unique, OnePlace
<1> QED  BY <1>1, Invariance, PTL

\* A timer waits no longer than its timeout and, if its add went past the end of
\* the wheel, one revolution more: rounds are counted from the wheel's start.
THEOREM LateByARevolution == Spec => []AtMostOneRevolutionLate
<1>1. IInv => AtMostOneRevolutionLate
  <2> SUFFICES ASSUME IInv, NEW e \in Timers, OnWheel(e)
               PROVE  ticks[e] <= Steps(e) + 1 + (IF e \in wrapped THEN RoundSize ELSE 0)
    BY DEF AtMostOneRevolutionLate
  <2>1. PICK s \in Slots : \E i \in 1 .. Len(slots[s]) : slots[s][i] = e
    <3>1. \A s \in Slots : DOMAIN slots[s] = 1 .. Len(slots[s])
      BY DEF IInv, TypeInv
    <3> QED  BY <3>1 DEF OnWheel, InSlot
  <2>2. PICK i \in 1 .. Len(slots[s]) : slots[s][i] = e
    BY <2>1
  <2>3. Turn(e, s, i) <= Steps(e) + 1 + (IF e \in wrapped THEN RoundSize ELSE 0)
    BY <2>2 DEF IInv, AllDue, Due
  <2>4. slots[s] \in Seq(Timers)
    BY DEF IInv, TypeInv
  <2>5. PICK t, a, b : t = ticks[e] /\ a = Ahead(s, i) /\ b = RoundSize * round[e]
    OBVIOUS
  <2>6. t \in Nat /\ a \in Nat /\ b \in Nat
    <3>1. RoundSize \in Nat /\ round[e] \in Nat /\ ticks[e] \in Nat
      BY Constants DEF IInv, TypeInv
    <3>2. a \in Nat
      BY <2>4, <2>5, AheadRange DEF IInv
    <3>3. b \in Nat
      BY <2>5, <3>1
    <3> QED  BY <2>5, <3>1, <3>2, <3>3
  <2>7. t + a + b <= Steps(e) + 1 + (IF e \in wrapped THEN RoundSize ELSE 0)
    BY <2>3, <2>5 DEF Turn
  <2> QED  BY <2>5, <2>6, <2>7, Constants
<1> QED  BY <1>1, Invariance, PTL

\* No timer is called before its timeout but for the interval it was added in:
\* the tick that calls it is the Steps(e)-th after its add or a later one, and
\* only one expiration can have come before the add.
THEOREM NotEarly == Spec => BarelyEarly
<1> DEFINE A == \A e \in Timers :
                  calling # e /\ calling' = e => elapsed[e] + 1 >= Least(Steps(e), MaxElapsed)
<1>1. IInv /\ [Next]_vars => [A]_vars
  <2> SUFFICES ASSUME IInv, Next, NEW e \in Timers, calling # e, calling' = e
               PROVE  elapsed[e] + 1 >= Least(Steps(e), MaxElapsed)
    BY DEF A
  <2>1. CallBack(e)
    BY Constants DEF Next, TickStep, Expire, handleRead, EndTick, DropDisabled, NextRound, CallBack, CalledBack,
                     Add, Disable
  <2>2. AtEntry(e) /\ round[e] = 0 /\ InTick
    BY <2>1 DEF CallBack, AtEntry
  <2>3. it \in 1 .. Len(slots[cur]) /\ slots[cur][it] = e /\ cur \in Slots /\ it \in Nat
    BY <2>2, AtEntryIsThere DEF IInv, TypeInv
  <2>4. Steps(e) <= Turn(e, cur, it)
    BY <2>3 DEF IInv, AllDue, Due
  <2>5. Ahead(cur, it) = 0 /\ RoundSize * round[e] = 0
    BY <2>2, <2>3, Constants DEF Ahead
  <2>6. PICK n, m, k : n = elapsed[e] /\ m = ticks[e] /\ k = Steps(e)
    OBVIOUS
  <2>7. n \in 0 .. MaxElapsed /\ m \in Nat /\ k \in Nat /\ (n = MaxElapsed \/ m + (IF expired THEN 1 ELSE 0) <= n + 1)
    <3>1. ~Absent(e, slots)
      BY <2>3 DEF Absent
    <3>2. Counted(e)
      BY <3>1 DEF IInv, CountInv
    <3> QED  BY <3>2, <2>6, Constants DEF IInv, TypeInv, Counted
  <2>8. k <= m
    BY <2>4, <2>5, <2>6, <2>7 DEF Turn
  <2>9. n + 1 >= Least(k, MaxElapsed)
    BY <2>7, <2>8, Constants DEF Least
  <2> QED  BY <2>6, <2>9
<1> HIDE DEF A
<1>2. Spec => [][A]_vars
  BY <1>1, Invariance, PTL DEF Spec
<1> QED  BY <1>2 DEF BarelyEarly, A
=============================================================================
