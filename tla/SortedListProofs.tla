--------------------------- MODULE SortedListProofs ---------------------------
(***************************************************************************)
(* Proofs about three components whose state is a sorted list: the timer   *)
(* queue, in the order of times, the free list of the heap and the tables  *)
(* of DRAM, in the order of addresses.                                     *)
(***************************************************************************)
EXTENDS Timer, Heap, Mblock, SequenceTheorems, FiniteSetTheorems,
        WellFoundedInduction, TLAPS

-----------------------------------------------------------------------------
(* Lists.                                                                  *)

Below == {xy \in Nat \X Nat : xy[1] < xy[2]}

LEMMA NatWellFounded == IsWellFoundedOn(Below, Nat)
  <1>1. Below = OpToRel(<, Nat)
    BY DEF Below, OpToRel
  <1> QED BY <1>1, NatLessThanWellFounded

\* A walk along a list ends where it first finds what it looks for, or at the
\* end.
LEMMA WalkEnds ==
  ASSUME NEW len \in Nat, NEW found \in SUBSET (1..len)
  PROVE  \E n \in 0..len :
           /\ \A i \in 1..n : i \notin found
           /\ n < len => n + 1 \in found
  <1>1. CASE found = {} BY <1>1
  <1>2. CASE found # {}
    <2>1. found \subseteq Nat OBVIOUS
    <2>2. PICK x \in found : \A y \in found : ~(<<y, x>> \in Below)
      BY <2>1, <1>2, NatWellFounded, WFMin
    <2>3. \A y \in found : ~(y < x) BY <2>1, <2>2 DEF Below
    <2>4. x - 1 \in 0..len /\ (x - 1) + 1 = x OBVIOUS
    <2> QED BY <2>3, <2>4
  <1> QED BY <1>1, <1>2

PutIn(q, n, x) == SubSeq(q, 1, n) \o <<x>> \o SubSeq(q, n + 1, Len(q))
CutOut(q, k) == SubSeq(q, 1, k - 1) \o SubSeq(q, k + 1, Len(q))

\* One element in place of those behind the first n, up to the k-th.
Splice(q, n, x, k) == SubSeq(q, 1, n) \o <<x>> \o SubSeq(q, k + 1, Len(q))

LEMMA SpliceAt ==
  ASSUME NEW S, NEW q \in Seq(S), NEW n \in 0..Len(q), NEW k \in n..Len(q),
         NEW x \in S
  PROVE  /\ Splice(q, n, x, k) \in Seq(S)
         /\ Len(Splice(q, n, x, k)) = Len(q) + 1 - (k - n)
         /\ \A j \in 1..(n + 1) :
              Splice(q, n, x, k)[j] = IF j <= n THEN q[j] ELSE x
         /\ \A j \in (k + 1)..Len(q) : Splice(q, n, x, k)[j + 1 - (k - n)] = q[j]
  <1> DEFINE a == SubSeq(q, 1, n)
             b == SubSeq(q, k + 1, Len(q))
             c == a \o <<x>>
             r == c \o b
  <1>1. /\ Len(q) \in Nat /\ n \in Nat /\ k \in Nat
        /\ \A j \in 1..Len(q) : q[j] \in S
    OBVIOUS
  <1>2. a \in Seq(S) /\ Len(a) = n /\ \A j \in 1..n : a[j] = q[j]
    <2>1. \A j \in 1..n : q[j] \in S BY <1>1
    <2>2. /\ a \in Seq(S) /\ Len(a) = IF 1 <= n THEN n - 1 + 1 ELSE 0
          /\ \A j \in 1..(n - 1 + 1) : a[j] = q[1 + j - 1]
      BY <2>1, <1>1, SubSeqProperties
    <2> HIDE DEF a
    <2> QED BY <1>1, <2>2
  <1>3. /\ b \in Seq(S) /\ Len(b) = Len(q) - k
        /\ \A j \in 1..(Len(q) - k) : b[j] = q[k + j]
    <2>1. k + 1 \in Int /\ Len(q) \in Int /\ \A j \in (k + 1)..Len(q) : q[j] \in S
      BY <1>1
    <2>2. /\ b \in Seq(S)
          /\ Len(b) = IF k + 1 <= Len(q) THEN Len(q) - (k + 1) + 1 ELSE 0
          /\ \A j \in 1..(Len(q) - (k + 1) + 1) : b[j] = q[k + 1 + j - 1]
      BY <2>1, SubSeqProperties
    <2> HIDE DEF b
    <2>3. Len(b) = Len(q) - k BY <1>1, <2>2
    <2>4. ASSUME NEW j \in 1..(Len(q) - k) PROVE b[j] = q[k + j]
      <3>1. j \in 1..(Len(q) - (k + 1) + 1) /\ k + 1 + j - 1 = k + j BY <1>1
      <3> QED BY <3>1, <2>2
    <2> QED BY <2>2, <2>3, <2>4
  <1>4. <<x>> \in Seq(S) /\ Len(<<x>>) = 1 /\ <<x>>[1] = x
    OBVIOUS
  <1>5. Splice(q, n, x, k) = r BY DEF Splice
  <1> HIDE DEF a, b
  <1>6. /\ c \in Seq(S) /\ Len(c) = n + 1
        /\ \A j \in 1..n : c[j] = q[j]
        /\ c[n + 1] = x
    <2>1. /\ c \in Seq(S) /\ Len(c) = Len(a) + Len(<<x>>)
          /\ \A j \in 1..(Len(a) + Len(<<x>>)) :
               c[j] = IF j <= Len(a) THEN a[j] ELSE <<x>>[j - Len(a)]
      BY <1>2, <1>4, ConcatProperties
    <2> HIDE DEF c
    <2>2. Len(c) = n + 1 BY <2>1, <1>2, <1>4
    <2>3. ASSUME NEW j \in 1..n PROVE c[j] = q[j]
      BY <2>1, <1>1, <1>2, <1>4
    <2>4. c[n + 1] = <<x>>[n + 1 - n] BY <2>1, <1>1, <1>2, <1>4
    <2>5. n + 1 - n = 1 BY <1>1
    <2> QED BY <2>1, <2>2, <2>3, <2>4, <2>5, <1>4
  <1>7. /\ r \in Seq(S) /\ Len(r) = Len(c) + Len(b)
        /\ \A j \in 1..(Len(c) + Len(b)) :
             r[j] = IF j <= Len(c) THEN c[j] ELSE b[j - Len(c)]
    <2> HIDE DEF c
    <2> QED BY <1>3, <1>6, ConcatProperties
  <1> HIDE DEF c, r
  <1>8. Len(r) = Len(q) + 1 - (k - n) BY <1>1, <1>3, <1>6, <1>7
  <1>9. ASSUME NEW j \in 1..n PROVE r[j] = q[j]
    <2>1. j \in 1..(Len(c) + Len(b)) /\ j <= Len(c)
      BY <1>1, <1>3, <1>6
    <2> QED BY <2>1, <1>6, <1>7
  <1>10. r[n + 1] = x
    <2>1. n + 1 \in 1..(Len(c) + Len(b)) /\ n + 1 <= Len(c)
      BY <1>1, <1>3, <1>6
    <2> QED BY <2>1, <1>6, <1>7
  <1>11. ASSUME NEW j \in (k + 1)..Len(q) PROVE r[j + 1 - (k - n)] = q[j]
    <2> DEFINE i == j + 1 - (k - n)
    <2>1. /\ i \in 1..(Len(c) + Len(b)) /\ ~(i <= Len(c))
          /\ i - Len(c) = j - k /\ j - k \in 1..(Len(q) - k) /\ k + (j - k) = j
      BY <1>1, <1>3, <1>6
    <2> HIDE DEF i
    <2>2. r[i] = b[i - Len(c)] BY <2>1, <1>7
    <2>3. b[j - k] = q[k + (j - k)] BY <2>1, <1>3
    <2> QED BY <2>1, <2>2, <2>3 DEF i
  <1>12. \A j \in 1..(n + 1) : r[j] = IF j <= n THEN q[j] ELSE x
    BY <1>1, <1>9, <1>10
  <1> QED BY <1>5, <1>7, <1>8, <1>11, <1>12

\* An element put into a list behind its first n.
LEMMA PutInAt ==
  ASSUME NEW S, NEW q \in Seq(S), NEW n \in 0..Len(q), NEW x \in S
  PROVE  /\ PutIn(q, n, x) \in Seq(S) /\ Len(PutIn(q, n, x)) = Len(q) + 1
         /\ \A j \in 1..(Len(q) + 1) :
              PutIn(q, n, x)[j] = IF j <= n THEN q[j]
                                  ELSE IF j = n + 1 THEN x ELSE q[j - 1]
  <1> DEFINE r == PutIn(q, n, x)
  <1>1. r = Splice(q, n, x, n) BY DEF PutIn, Splice
  <1>2. Len(q) \in Nat /\ n \in n..Len(q) OBVIOUS
  <1> HIDE DEF r
  <1>3. /\ r \in Seq(S) /\ Len(r) = Len(q) + 1 - (n - n)
        /\ \A j \in 1..(n + 1) : r[j] = IF j <= n THEN q[j] ELSE x
        /\ \A j \in (n + 1)..Len(q) : r[j + 1 - (n - n)] = q[j]
    <2>1. /\ Splice(q, n, x, n) \in Seq(S)
          /\ Len(Splice(q, n, x, n)) = Len(q) + 1 - (n - n)
          /\ \A j \in 1..(n + 1) :
               Splice(q, n, x, n)[j] = IF j <= n THEN q[j] ELSE x
          /\ \A j \in (n + 1)..Len(q) :
               Splice(q, n, x, n)[j + 1 - (n - n)] = q[j]
      <3>1. Splice(q, n, x, n) \in Seq(S) BY <1>2, SpliceAt
      <3>2. Len(Splice(q, n, x, n)) = Len(q) + 1 - (n - n) BY <1>2, SpliceAt
      <3>3. \A j \in 1..(n + 1) :
               Splice(q, n, x, n)[j] = IF j <= n THEN q[j] ELSE x
        BY <1>2, SpliceAt
      <3>4. \A j \in (n + 1)..Len(q) :
               Splice(q, n, x, n)[j + 1 - (n - n)] = q[j]
        BY <1>2, SpliceAt
      <3> QED BY <3>1, <3>2, <3>3, <3>4
    <2> QED BY <1>1, <1>2, <2>1
  <1>4. Len(q) + 1 - (n - n) = Len(q) + 1 BY <1>2
  <1>5. ASSUME NEW j \in 1..(Len(q) + 1), j > n + 1 PROVE r[j] = q[j - 1]
    <2>1. j - 1 \in (n + 1)..Len(q) /\ (j - 1) + 1 - (n - n) = j BY <1>2, <1>5
    <2>2. r[(j - 1) + 1 - (n - n)] = q[j - 1] BY <2>1, <1>3
    <2> QED BY <2>1, <2>2
  <1>6. ASSUME NEW j \in 1..(Len(q) + 1)
        PROVE  r[j] = IF j <= n THEN q[j] ELSE IF j = n + 1 THEN x ELSE q[j - 1]
    BY <1>2, <1>3, <1>5
  <1> QED BY <1>3, <1>4, <1>6 DEF r

\* The k-th element cut out of a list.
LEMMA CutOutAt ==
  ASSUME NEW S, NEW q \in Seq(S), NEW k \in 1..Len(q)
  PROVE  /\ CutOut(q, k) \in Seq(S) /\ Len(CutOut(q, k)) = Len(q) - 1
         /\ \A j \in 1..(Len(q) - 1) :
              CutOut(q, k)[j] = IF j < k THEN q[j] ELSE q[j + 1]
  <1> DEFINE a == SubSeq(q, 1, k - 1)
             b == SubSeq(q, k + 1, Len(q))
             r == a \o b
  <1>1. Len(q) \in Nat /\ k \in Nat /\ \A j \in 1..Len(q) : q[j] \in S
    OBVIOUS
  <1>2. a \in Seq(S) /\ Len(a) = k - 1 /\ \A j \in 1..(k - 1) : a[j] = q[j]
    <2>1. k - 1 \in Int /\ \A j \in 1..(k - 1) : q[j] \in S BY <1>1
    <2>2. /\ a \in Seq(S) /\ Len(a) = IF 1 <= k - 1 THEN k - 1 - 1 + 1 ELSE 0
          /\ \A j \in 1..(k - 1 - 1 + 1) : a[j] = q[1 + j - 1]
      BY <2>1, <1>1, SubSeqProperties
    <2> HIDE DEF a
    <2> QED BY <1>1, <2>2
  <1>3. /\ b \in Seq(S) /\ Len(b) = Len(q) - k
        /\ \A j \in 1..(Len(q) - k) : b[j] = q[k + j]
    <2>1. k + 1 \in Int /\ Len(q) \in Int /\ \A j \in (k + 1)..Len(q) : q[j] \in S
      BY <1>1
    <2>2. /\ b \in Seq(S)
          /\ Len(b) = IF k + 1 <= Len(q) THEN Len(q) - (k + 1) + 1 ELSE 0
          /\ \A j \in 1..(Len(q) - (k + 1) + 1) : b[j] = q[k + 1 + j - 1]
      BY <2>1, SubSeqProperties
    <2> HIDE DEF b
    <2>3. Len(b) = Len(q) - k BY <1>1, <2>2
    <2>4. ASSUME NEW j \in 1..(Len(q) - k) PROVE b[j] = q[k + j]
      <3>1. j \in 1..(Len(q) - (k + 1) + 1) /\ k + 1 + j - 1 = k + j BY <1>1
      <3> QED BY <3>1, <2>2
    <2> QED BY <2>2, <2>3, <2>4
  <1>0. CutOut(q, k) = r BY DEF CutOut
  <1> HIDE DEF a, b
  <1>4. /\ r \in Seq(S) /\ Len(r) = Len(a) + Len(b)
        /\ \A j \in 1..(Len(a) + Len(b)) :
             r[j] = IF j <= Len(a) THEN a[j] ELSE b[j - Len(a)]
    BY <1>2, <1>3, ConcatProperties
  <1> HIDE DEF r
  <1>5. Len(r) = Len(q) - 1 BY <1>1, <1>2, <1>3, <1>4
  <1>6. ASSUME NEW j \in 1..(Len(q) - 1)
        PROVE  r[j] = IF j < k THEN q[j] ELSE q[j + 1]
    <2>1. CASE j < k BY <2>1, <1>1, <1>2, <1>3, <1>4
    <2>2. CASE ~(j < k)
      <3>1. j - (k - 1) \in 1..(Len(q) - k) /\ k + (j - (k - 1)) = j + 1
        BY <1>1, <2>2
      <3>2. /\ j \in 1..(Len(a) + Len(b)) /\ ~(j <= Len(a))
            /\ j - Len(a) = j - (k - 1)
        BY <2>2, <1>1, <1>2, <1>3
      <3>3. r[j] = b[j - (k - 1)] BY <3>2, <1>4
      <3> QED BY <2>2, <3>1, <3>3, <1>3
    <2> QED BY <2>1, <2>2
  <1> QED BY <1>0, <1>4, <1>5, <1>6

-----------------------------------------------------------------------------
(* The timers.                                                             *)

Active(t) == Queued(t) \/ t \in setting

\* How long the tick has been running.
Elapsed == Minus(now, tick_now)

TimerFields ==
  /\ scheduled_time \in [Timers -> 0..(TimeRange - 1)]
  /\ periodic_time \in [Timers -> Nat]
  /\ callback \in [Timers -> BOOLEAN]
  /\ left \in [Timers -> Int]

TimerTypes ==
  /\ now \in 0..(TimeRange - 1) /\ tick_now \in 0..(TimeRange - 1)
  /\ timer_queue \in Seq(Timers)
  /\ setting \in SUBSET Timers /\ fired \in SUBSET Timers
  /\ firing \in Timers \cup {NoTimer} /\ ticking \in BOOLEAN
  /\ TimerFields

\* The fields of a timer that is in the queue, or about to be, say when it is
\* due, and that is so near that a signed difference tells before from after.
TimesAreTrue ==
  /\ \A t \in Timers : periodic_time[t] + MaxLate < Half
  /\ \A t \in Timers : Active(t) =>
       /\ -MaxLate <= left[t] /\ left[t] + MaxLate < Half
       /\ scheduled_time[t] = Plus(now, left[t])
  /\ ticking => Elapsed <= MaxLate

\* A timer is set by one at a time: by a thread or by its callback.
OneSets ==
  /\ \A t \in setting : ~Queued(t)
  /\ firing # NoTimer => ticking /\ firing \notin setting

CallbackKnown ==
  \A t \in Timers : (Active(t) \/ periodic_time[t] > 0) => callback[t]

\* The tick puts back the timer whose callback it has called if that is still
\* periodic and nothing else put it back.
PutsBack ==
  (firing # NoTimer /\ ~Queued(firing) /\ periodic_time[firing] > 0)
    => periodic

\* A timer that has fired in this tick and is in the queue again is due later
\* than the tick.
FiredAreLater ==
  /\ ~ticking => fired = {}
  /\ \A t \in fired : Queued(t) => left[t] + Elapsed > 0

TimersIInv ==
  /\ TimerTypes /\ TimesAreTrue /\ QueueInOrder /\ OneSets
  /\ CallbackKnown /\ PeriodicStays /\ PutsBack /\ FiredAreLater

-----------------------------------------------------------------------------
(* The clock.                                                              *)

LEMMA ClockIsWide ==
  /\ TimeRange \in Nat /\ Half \in Nat /\ MaxLate \in Nat
  /\ 1 + MaxLate < Half /\ 2 * Half <= TimeRange
  BY TimerAssumption DEF Half

\* A whole number of turns of the clock makes no difference.
LEMMA Turns ==
  ASSUME NEW x \in Int, NEW k \in Int
  PROVE  (x + k * TimeRange) % TimeRange = x % TimeRange
  <1>1. TimeRange \in Nat \ {0} BY ClockIsWide
  <1> DEFINE y == x + k * TimeRange
             q == x \div TimeRange
             p == y \div TimeRange
  <1>2. /\ x = q * TimeRange + (x % TimeRange)
        /\ x % TimeRange \in 0..(TimeRange - 1) /\ q \in Int
    BY <1>1
  <1>3. k * TimeRange \in Int /\ y \in Int BY <1>1
  <1>4. /\ y = p * TimeRange + (y % TimeRange)
        /\ y % TimeRange \in 0..(TimeRange - 1) /\ p \in Int
    BY <1>1, <1>3
  <1>5. \A a, b \in Int : \A r, s \in 0..(TimeRange - 1) :
          a * TimeRange + r = b * TimeRange + s => r = s
    BY <1>1
  <1> HIDE DEF q, p
  <1>6. (q + k) * TimeRange + (x % TimeRange) = p * TimeRange + (y % TimeRange)
    BY <1>1, <1>2, <1>3, <1>4
  <1> QED BY <1>2, <1>4, <1>5, <1>6

\* A time taken modulo the range of the clock, and a number added to it.
LEMMA PlusOfTime ==
  ASSUME NEW x \in Int, NEW y \in Int
  PROVE  /\ x % TimeRange \in 0..(TimeRange - 1)
         /\ ((x % TimeRange) + y) % TimeRange = (x + y) % TimeRange
         /\ (y - (x % TimeRange)) % TimeRange = (y - x) % TimeRange
  <1>1. TimeRange \in Nat \ {0} BY ClockIsWide
  <1> DEFINE q == x \div TimeRange
  <1>2. /\ x = q * TimeRange + (x % TimeRange)
        /\ x % TimeRange \in 0..(TimeRange - 1) /\ q \in Int
    BY <1>1
  <1> HIDE DEF q
  <1> DEFINE r == x % TimeRange
             z == q * TimeRange
  <1>5. (-q) * TimeRange = -z /\ z \in Int BY <1>1, <1>2
  <1>6. x = z + r /\ r \in Int BY <1>1, <1>2
  <1>7. r + y = (x + y) + (-z) /\ y - r = (y - x) + z
    <2> HIDE DEF z, r
    <2> QED BY <1>5, <1>6
  <1>3. (x % TimeRange) + y = (x + y) + (-q) * TimeRange BY <1>5, <1>7
  <1>4. y - (x % TimeRange) = (y - x) + q * TimeRange BY <1>7
  <1> QED BY <1>2, <1>3, <1>4, Turns

LEMMA SmallTime ==
  ASSUME NEW x \in Int
  PROVE  /\ (0 <= x /\ x < TimeRange) => x % TimeRange = x
         /\ (-TimeRange <= x /\ x < 0) => x % TimeRange = x + TimeRange
  <1>1. TimeRange \in Nat \ {0} BY ClockIsWide
  <1>2. ASSUME NEW y \in 0..(TimeRange - 1) PROVE y % TimeRange = y
    BY <1>1
  <1>3. ASSUME -TimeRange <= x, x < 0 PROVE x % TimeRange = x + TimeRange
    <2>1. x + TimeRange \in 0..(TimeRange - 1) BY <1>1, <1>3
    <2>2. (x + 1 * TimeRange) % TimeRange = x % TimeRange BY Turns
    <2>3. x + 1 * TimeRange = x + TimeRange BY <1>1
    <2> QED BY <2>1, <2>2, <2>3, <1>2
  <1>4. ASSUME 0 <= x, x < TimeRange PROVE x % TimeRange = x
    <2>1. x \in 0..(TimeRange - 1) BY <1>1, <1>4
    <2> QED BY <2>1, <1>2
  <1> QED BY <1>3, <1>4

\* TIME_GT tells which of two times is the later one, wherever the clock is,
\* when they are less than half its range apart.
LEMMA TimesCompared ==
  ASSUME NEW c \in Int, NEW a \in Int, NEW b \in Int,
         a - b < Half, b - a < Half
  PROVE  TIME_GT(Plus(c, a), Plus(c, b)) <=> a > b
  <1> DEFINE x == c + a
             y == c + b
  <1>1. x \in Int /\ y \in Int /\ Plus(c, a) = x % TimeRange
          /\ Plus(c, b) = y % TimeRange /\ x - y = a - b
    BY DEF Plus
  <1>2. Minus(Plus(c, a), Plus(c, b)) = (a - b) % TimeRange
    <2> HIDE DEF x, y
    <2>1. ((x % TimeRange) - (y % TimeRange)) % TimeRange
            = ((x % TimeRange) - y) % TimeRange
      <3>1. x % TimeRange \in Int BY <1>1, PlusOfTime, ClockIsWide
      <3> QED BY <1>1, <3>1, PlusOfTime
    <2>2. ((x % TimeRange) - y) % TimeRange = (x - y) % TimeRange
      <3>1. -y \in Int BY <1>1
      <3>2. ((x % TimeRange) + (-y)) % TimeRange = (x + (-y)) % TimeRange
        BY <1>1, <3>1, PlusOfTime
      <3>3. x % TimeRange \in Int BY <1>1, PlusOfTime, ClockIsWide
      <3>4. (x % TimeRange) + (-y) = (x % TimeRange) - y /\ x + (-y) = x - y
        BY <1>1, <3>3
      <3> QED BY <3>2, <3>4
    <2> QED BY <1>1, <2>1, <2>2 DEF Minus
  <1> DEFINE d == a - b
  <1>3. d \in Int /\ d < Half /\ -d < Half BY ClockIsWide
  <1>4. CASE d >= 0
    <2>1. d % TimeRange = d BY <1>3, <1>4, SmallTime, ClockIsWide
    <2> QED BY <2>1, <1>2, <1>3, <1>4, ClockIsWide DEF TIME_GT
  <1>5. CASE d < 0
    <2>1. d % TimeRange = d + TimeRange BY <1>3, <1>5, SmallTime, ClockIsWide
    <2>2. d + TimeRange >= Half BY <1>3, ClockIsWide
    <2> HIDE DEF d
    <2>3. ~(d + TimeRange < Half) BY <2>2, <1>3, ClockIsWide
    <2>4. ~TIME_GT(Plus(c, a), Plus(c, b)) BY <2>1, <2>3, <1>2 DEF TIME_GT, d
    <2> QED BY <2>4, <1>5 DEF d
  <1> QED BY <1>3, <1>4, <1>5

-----------------------------------------------------------------------------
(* The queue.                                                              *)

\* A queue is in order, each timer once, by the true times l.
OrderedBy(q, l) ==
  \A i, j \in DOMAIN q : i < j => q[i] # q[j] /\ l[q[i]] <= l[q[j]]

In(q, t) == \E i \in DOMAIN q : q[i] = t

\* insert_timer_in_queue adds the timer, at its place.
LEMMA InsertKeepsOrder ==
  ASSUME TimerTypes, TimesAreTrue, QueueInOrder,
         NEW t \in Timers, ~Queued(t),
         NEW x \in Int, -MaxLate <= x, x + MaxLate < Half
  PROVE  LET new == insert_timer_in_queue(timer_queue, t, Plus(now, x))
         IN  /\ new \in Seq(Timers)
             /\ \A u \in Timers : In(new, u) <=> (Queued(u) \/ u = t)
             /\ \A l \in [Timers -> Int] :
                  (l[t] = x /\ \A u \in Timers \ {t} : l[u] = left[u])
                    => OrderedBy(new, l)
  <1> DEFINE q == timer_queue
             time == Plus(now, x)
             later(i) == TIME_GT(scheduled_time[q[i]], time)
             found == {i \in 1..Len(q) : later(i)}
             ends(n) == /\ \A i \in 1..n : ~later(i)
                        /\ n < Len(q) => later(n + 1)
             n == CHOOSE k \in 0..Len(q) : ends(k)
             new == insert_timer_in_queue(q, t, time)
  <1>1. q \in Seq(Timers) /\ Len(q) \in Nat /\ DOMAIN q = 1..Len(q)
        /\ \A i \in 1..Len(q) : q[i] \in Timers /\ Queued(q[i]) /\ q[i] # t
    BY DEF TimerTypes, Queued
  <1>2. now \in Int /\ left \in [Timers -> Int]
    BY ClockIsWide DEF TimerTypes, TimerFields
  <1>3. \A i \in 1..Len(q) : later(i) <=> left[q[i]] > x
    <2> TAKE i \in 1..Len(q)
    <2>1. /\ left[q[i]] \in Int /\ -MaxLate <= left[q[i]]
          /\ left[q[i]] + MaxLate < Half
          /\ scheduled_time[q[i]] = Plus(now, left[q[i]])
      BY <1>1, <1>2 DEF TimesAreTrue, Active
    <2>2. left[q[i]] - x < Half /\ x - left[q[i]] < Half
      BY <2>1, ClockIsWide
    <2>3. TIME_GT(Plus(now, left[q[i]]), Plus(now, x)) <=> left[q[i]] > x
      BY <2>1, <2>2, <1>2, TimesCompared
    <2> QED BY <2>1, <2>3
  <1>4. \E k \in 0..Len(q) : ends(k)
    <2>1. PICK k \in 0..Len(q) : /\ \A i \in 1..k : i \notin found
                                 /\ k < Len(q) => k + 1 \in found
      <3>1. found \in SUBSET (1..Len(q)) OBVIOUS
      <3> HIDE DEF found
      <3> QED BY <1>1, <3>1, WalkEnds
    <2>2. ends(k)
      <3>1. \A i \in 1..k : ~later(i) BY <1>1, <2>1
      <3>2. k < Len(q) => later(k + 1) BY <1>1, <2>1
      <3> QED BY <3>1, <3>2
    <2> QED BY <2>2
  <1>5. n \in 0..Len(q) /\ ends(n) BY <1>4
  <1>6. new = PutIn(q, n, t)
    BY DEF insert_timer_in_queue, PutIn
  <1> HIDE DEF n, new
  <1>7. /\ new \in Seq(Timers) /\ Len(new) = Len(q) + 1
        /\ \A j \in 1..(Len(q) + 1) :
             new[j] = IF j <= n THEN q[j]
                      ELSE IF j = n + 1 THEN t ELSE q[j - 1]
    <2>1. n \in 0..Len(q) BY <1>5
    <2> HIDE DEF q
    <2>2. q \in Seq(Timers) BY <1>1
    <2>3. /\ PutIn(q, n, t) \in Seq(Timers)
          /\ Len(PutIn(q, n, t)) = Len(q) + 1
          /\ \A j \in 1..(Len(q) + 1) :
               PutIn(q, n, t)[j] = IF j <= n THEN q[j]
                                   ELSE IF j = n + 1 THEN t ELSE q[j - 1]
      BY <2>1, <2>2, PutInAt
    <2> QED BY <2>3, <1>6
  <1>8. DOMAIN new = 1..(Len(q) + 1) BY <1>1, <1>7
  <1>9. \A u \in Timers : In(new, u) <=> (Queued(u) \/ u = t)
    <2> TAKE u \in Timers
    <2>1. ASSUME In(new, u) PROVE Queued(u) \/ u = t
      <3>1. PICK j \in 1..(Len(q) + 1) : new[j] = u BY <2>1, <1>8 DEF In
      <3>2. CASE j <= n BY <3>1, <3>2, <1>1, <1>5, <1>7
      <3>3. CASE j = n + 1 BY <3>1, <3>3, <1>1, <1>5, <1>7
      <3>4. CASE j > n + 1
        <4>1. new[j] = q[j - 1] /\ j - 1 \in 1..Len(q)
          BY <3>4, <1>1, <1>5, <1>7
        <4> QED BY <3>1, <4>1, <1>1
      <3> QED BY <3>2, <3>3, <3>4, <1>5
    <2>2. ASSUME Queued(u) PROVE In(new, u)
      <3>1. PICK i \in 1..Len(q) : q[i] = u BY <2>2, <1>1 DEF Queued
      <3>2. CASE i <= n
        <4>1. new[i] = u /\ i \in DOMAIN new BY <3>1, <3>2, <1>1, <1>7, <1>8
        <4> QED BY <4>1 DEF In
      <3>3. CASE i > n
        <4>1. i + 1 \in 1..(Len(q) + 1) /\ ~(i + 1 <= n) /\ i + 1 # n + 1
              /\ (i + 1) - 1 = i
          BY <3>3, <1>1, <1>5
        <4>2. new[i + 1] = q[(i + 1) - 1] BY <4>1, <1>7
        <4> QED BY <3>1, <4>1, <4>2, <1>8 DEF In
      <3> QED BY <3>2, <3>3, <1>5
    <2>3. In(new, t)
      <3>1. n + 1 \in 1..(Len(q) + 1) /\ ~(n + 1 <= n) BY <1>1, <1>5
      <3>2. new[n + 1] = t BY <3>1, <1>7
      <3> QED BY <3>1, <3>2, <1>8 DEF In
    <2> QED BY <2>1, <2>2, <2>3
  <1>10. ASSUME NEW l \in [Timers -> Int], l[t] = x,
                \A u \in Timers \ {t} : l[u] = left[u]
         PROVE  OrderedBy(new, l)
    <2>1. \A i \in 1..Len(q) : l[q[i]] = left[q[i]] /\ l[q[i]] \in Int
      BY <1>1, <1>10
    <2>2. \A i, j \in 1..Len(q) : i < j =>
            q[i] # q[j] /\ l[q[i]] <= l[q[j]]
      BY <1>1, <2>1 DEF QueueInOrder
    <2>3. \A i \in 1..Len(q) : i <= n => l[q[i]] <= x
      BY <1>1, <1>3, <1>5, <2>1
    <2>4. \A i \in 1..Len(q) : i > n => x <= l[q[i]]
      <3> SUFFICES ASSUME NEW i \in 1..Len(q), i > n PROVE x <= l[q[i]]
        OBVIOUS
      <3>1. n + 1 \in 1..Len(q) /\ n < Len(q) BY <1>1, <1>5
      <3>2. later(n + 1) BY <3>1, <1>5
      <3>3. left[q[n + 1]] > x BY <3>1, <3>2, <1>3
      <3>4. x <= l[q[n + 1]] /\ l[q[n + 1]] \in Int BY <3>1, <3>3, <2>1
      <3>5. CASE i = n + 1 BY <3>4, <3>5
      <3>6. CASE i > n + 1
        <4>1. l[q[n + 1]] <= l[q[i]] BY <3>1, <3>6, <2>2
        <4> QED BY <4>1, <3>4, <2>1
      <3> QED BY <3>5, <3>6, <1>5
    <2> SUFFICES ASSUME NEW i \in 1..(Len(q) + 1), NEW j \in 1..(Len(q) + 1),
                        i < j
                 PROVE  new[i] # new[j] /\ l[new[i]] <= l[new[j]]
      BY <1>8 DEF OrderedBy
    <2>5. CASE j <= n
      <3>1. new[i] = q[i] /\ new[j] = q[j] /\ i \in 1..Len(q) /\ j \in 1..Len(q)
        BY <2>5, <1>1, <1>5, <1>7
      <3> QED BY <3>1, <2>2
    <2>6. CASE j = n + 1
      <3>1. new[i] = q[i] /\ new[j] = t /\ i \in 1..Len(q) /\ i <= n
        BY <2>6, <1>1, <1>5, <1>7
      <3> QED BY <3>1, <2>3, <1>1, <1>10
    <2>7. CASE j > n + 1
      <3>1. new[j] = q[j - 1] /\ j - 1 \in 1..Len(q) /\ j - 1 > n
        BY <2>7, <1>1, <1>5, <1>7
      <3>2. CASE i <= n
        <4>1. i \in 1..Len(q) /\ i < j - 1 BY <3>2, <2>7, <1>1, <1>5
        <4>2. new[i] = q[i] BY <3>2, <1>7
        <4> QED BY <3>1, <4>1, <4>2, <2>2
      <3>3. CASE i = n + 1
        <4>1. new[i] = t BY <3>3, <1>1, <1>5, <1>7
        <4> QED BY <3>1, <4>1, <2>4, <1>1, <1>10
      <3>4. CASE i > n + 1
        <4>1. i - 1 \in 1..Len(q) /\ i - 1 < j - 1
          BY <3>4, <2>7, <1>1, <1>5
        <4>2. ~(i <= n) /\ i # n + 1 BY <3>4, <1>1, <1>5
        <4>3. new[i] = q[i - 1] BY <4>2, <1>7
        <4> QED BY <3>1, <4>1, <4>3, <2>2
      <3> QED BY <3>2, <3>3, <3>4, <1>5
    <2> QED BY <2>5, <2>6, <2>7, <1>5
  <1> QED BY <1>7, <1>9, <1>10 DEF new

\* timer_cancel takes the timer out, wherever it is.
LEMMA WithoutKeepsOrder ==
  ASSUME TimerTypes, QueueInOrder, NEW t \in Timers
  PROVE  LET new == without(timer_queue, t)
         IN  /\ new \in Seq(Timers)
             /\ \A u \in Timers : In(new, u) <=> (Queued(u) /\ u # t)
             /\ \A l \in [Timers -> Int] :
                  (\A u \in Timers \ {t} : l[u] = left[u])
                    => OrderedBy(new, l)
  <1> DEFINE q == timer_queue
             at == {i \in DOMAIN q : q[i] = t}
             k == CHOOSE i \in at : TRUE
             new == without(q, t)
  <1>1. q \in Seq(Timers) /\ Len(q) \in Nat /\ DOMAIN q = 1..Len(q)
        /\ \A i \in 1..Len(q) : q[i] \in Timers /\ Queued(q[i])
    BY DEF TimerTypes, Queued
  <1>2. \A i, j \in 1..Len(q) : i < j =>
          q[i] # q[j] /\ left[q[i]] <= left[q[j]]
    BY <1>1 DEF QueueInOrder
  <1>3. CASE at = {}
    <2>1. new = q BY <1>3 DEF without
    <2>2. ~Queued(t) /\ \A i \in 1..Len(q) : q[i] # t BY <1>1, <1>3 DEF Queued
    <2>3. \A u \in Timers : In(q, u) <=> (Queued(u) /\ u # t)
      BY <2>2 DEF In, Queued
    <2>4. ASSUME NEW l \in [Timers -> Int], \A u \in Timers \ {t} : l[u] = left[u]
          PROVE  OrderedBy(q, l)
      <3>1. \A i \in 1..Len(q) : l[q[i]] = left[q[i]] BY <1>1, <2>2, <2>4
      <3> QED BY <1>1, <1>2, <3>1 DEF OrderedBy
    <2> QED BY <1>1, <2>1, <2>3, <2>4
  <1>4. CASE at # {}
    <2>1. k \in 1..Len(q) /\ q[k] = t BY <1>1, <1>4
    <2>2. new = CutOut(q, k) BY <1>4 DEF without, CutOut
    <2> HIDE DEF k, new
    <2>3. /\ new \in Seq(Timers) /\ Len(new) = Len(q) - 1
          /\ \A j \in 1..(Len(q) - 1) :
               new[j] = IF j < k THEN q[j] ELSE q[j + 1]
      BY <1>1, <2>1, <2>2, CutOutAt
    <2>4. DOMAIN new = 1..(Len(q) - 1) BY <2>3
    <2>5. \A i \in 1..Len(q) : q[i] = t <=> i = k BY <1>2, <2>1
    <2> DEFINE from(j) == IF j < k THEN j ELSE j + 1
    <2>6. \A j \in 1..(Len(q) - 1) :
            from(j) \in 1..Len(q) /\ from(j) # k /\ new[j] = q[from(j)]
      BY <1>1, <2>1, <2>3
    <2>7. \A u \in Timers : In(new, u) <=> (Queued(u) /\ u # t)
      <3> TAKE u \in Timers
      <3>1. ASSUME In(new, u) PROVE Queued(u) /\ u # t
        <4>1. PICK j \in 1..(Len(q) - 1) : new[j] = u BY <3>1, <2>4 DEF In
        <4> QED BY <4>1, <2>5, <2>6, <1>1
      <3>2. ASSUME Queued(u), u # t PROVE In(new, u)
        <4>1. PICK i \in 1..Len(q) : q[i] = u BY <3>2, <1>1 DEF Queued
        <4>2. i # k BY <3>2, <4>1, <2>1
        <4>3. CASE i < k
          <5>1. i \in 1..(Len(q) - 1) /\ new[i] = u
            BY <4>1, <4>3, <1>1, <2>1, <2>3
          <5> QED BY <5>1, <2>4 DEF In
        <4>4. CASE i > k
          <5>1. i - 1 \in 1..(Len(q) - 1) /\ ~(i - 1 < k) /\ (i - 1) + 1 = i
            BY <4>4, <1>1, <2>1
          <5>2. new[i - 1] = q[(i - 1) + 1] BY <5>1, <2>3
          <5> QED BY <4>1, <5>1, <5>2, <2>4 DEF In
        <4> QED BY <4>2, <4>3, <4>4, <2>1
      <3> QED BY <3>1, <3>2
    <2>8. ASSUME NEW l \in [Timers -> Int], \A u \in Timers \ {t} : l[u] = left[u]
          PROVE  OrderedBy(new, l)
      <3> SUFFICES ASSUME NEW i \in 1..(Len(q) - 1), NEW j \in 1..(Len(q) - 1),
                          i < j
                   PROVE  new[i] # new[j] /\ l[new[i]] <= l[new[j]]
        BY <2>4 DEF OrderedBy
      <3>1. from(i) < from(j) BY <1>1, <2>1
      <3>2. /\ new[i] \in Timers /\ new[i] # t
            /\ new[j] \in Timers /\ new[j] # t
        BY <1>1, <2>5, <2>6
      <3>3. q[from(i)] # q[from(j)] /\ left[q[from(i)]] <= left[q[from(j)]]
        BY <3>1, <2>6, <1>2
      <3> QED BY <3>2, <3>3, <2>6, <2>8
    <2> QED BY <2>3, <2>7, <2>8 DEF new
  <1> QED BY <1>3, <1>4

\* timer_tick takes the head off.
LEMMA TailKeepsOrder ==
  ASSUME TimerTypes, QueueInOrder, timer_queue # <<>>
  PROVE  LET new == Tail(timer_queue)
             t   == timer_queue[1]
         IN  /\ t \in Timers /\ Queued(t)
             /\ new \in Seq(Timers)
             /\ \A u \in Timers : In(new, u) <=> (Queued(u) /\ u # t)
             /\ \A u \in Timers : Queued(u) => left[t] <= left[u]
             /\ \A l \in [Timers -> Int] :
                  (\A u \in Timers \ {t} : l[u] = left[u])
                    => OrderedBy(new, l)
  <1> DEFINE q == timer_queue
             new == Tail(q)
             t == q[1]
  <1>1. q \in Seq(Timers) /\ Len(q) \in Nat /\ Len(q) >= 1
        /\ DOMAIN q = 1..Len(q) /\ \A i \in 1..Len(q) : q[i] \in Timers
    BY DEF TimerTypes
  <1>2. \A i, j \in 1..Len(q) : i < j =>
          q[i] # q[j] /\ left[q[i]] <= left[q[j]]
    BY <1>1 DEF QueueInOrder
  <1>3. new \in Seq(Timers) /\ Len(new) = Len(q) - 1
        /\ \A j \in 1..(Len(q) - 1) : new[j] = q[j + 1]
    BY <1>1
  <1>4. DOMAIN new = 1..(Len(q) - 1) BY <1>3
  <1> HIDE DEF new
  <1>5. t \in Timers /\ Queued(t) BY <1>1 DEF Queued
  <1>6. left \in [Timers -> Int] BY DEF TimerTypes, TimerFields
  <1>7. \A u \in Timers : Queued(u) => left[t] <= left[u]
    <2> SUFFICES ASSUME NEW i \in 1..Len(q) PROVE left[t] <= left[q[i]]
      BY <1>1 DEF Queued
    <2>1. CASE i = 1 BY <2>1, <1>5, <1>6
    <2>2. CASE i > 1 BY <2>2, <1>1, <1>2
    <2> QED BY <2>1, <2>2
  <1>8. \A u \in Timers : In(new, u) <=> (Queued(u) /\ u # t)
    <2> TAKE u \in Timers
    <2>1. ASSUME In(new, u) PROVE Queued(u) /\ u # t
      <3>1. PICK j \in 1..(Len(q) - 1) : new[j] = u BY <2>1, <1>4 DEF In
      <3>2. q[j + 1] = u /\ j + 1 \in 1..Len(q) /\ 1 < j + 1
        BY <3>1, <1>1, <1>3
      <3> QED BY <3>2, <1>1, <1>2 DEF Queued
    <2>2. ASSUME Queued(u), u # t PROVE In(new, u)
      <3>1. PICK i \in 1..Len(q) : q[i] = u BY <2>2, <1>1 DEF Queued
      <3>2. i - 1 \in 1..(Len(q) - 1) /\ (i - 1) + 1 = i BY <3>1, <2>2, <1>1
      <3>3. new[i - 1] = q[(i - 1) + 1] BY <3>2, <1>3
      <3> QED BY <3>1, <3>2, <3>3, <1>4 DEF In
    <2> QED BY <2>1, <2>2
  <1>9. ASSUME NEW l \in [Timers -> Int], \A u \in Timers \ {t} : l[u] = left[u]
        PROVE  OrderedBy(new, l)
    <2> SUFFICES ASSUME NEW i \in 1..(Len(q) - 1), NEW j \in 1..(Len(q) - 1),
                        i < j
                 PROVE  new[i] # new[j] /\ l[new[i]] <= l[new[j]]
      BY <1>4 DEF OrderedBy
    <2>1. /\ new[i] = q[i + 1] /\ new[j] = q[j + 1]
          /\ i + 1 \in 1..Len(q) /\ j + 1 \in 1..Len(q)
          /\ 1 < i + 1 /\ 1 < j + 1 /\ i + 1 < j + 1
      BY <1>1, <1>3
    <2>2. q[1] # q[i + 1] /\ q[1] # q[j + 1] BY <2>1, <1>1, <1>2
    <2>3. q[i + 1] # q[j + 1] /\ left[q[i + 1]] <= left[q[j + 1]]
      BY <2>1, <1>2
    <2> QED BY <2>1, <2>2, <2>3, <1>1, <1>9
  <1> QED BY <1>3, <1>5, <1>7, <1>8, <1>9 DEF new

-----------------------------------------------------------------------------
(* What the assignments to a timer leave.                                  *)

\* A delay of at least 1 that the clock can take.
LEMMA RequestsFit ==
  \A r \in Requests :
    /\ r[1] \in Nat /\ r[1] >= 1 /\ r[1] + MaxLate < Half
    /\ r[2] \in Nat /\ r[2] + MaxLate < Half
  <1>1. \A d \in Delays \cup Periods :
          /\ at_least_one(d) \in Nat /\ at_least_one(d) >= 1
          /\ at_least_one(d) + MaxLate < Half
    BY TimerAssumption, ClockIsWide DEF at_least_one
  <1>2. 0 \in Nat /\ 0 + MaxLate < Half BY ClockIsWide
  <1> QED BY <1>1, <1>2 DEF Requests

LEMMA FieldsSet ==
  ASSUME TimerTypes, NEW t \in Timers, NEW delay \in Nat, NEW period \in Nat,
         set_fields(t, delay, period)
  PROVE  /\ TimerFields'
         /\ scheduled_time'[t] = Plus(now, delay) /\ periodic_time'[t] = period
         /\ callback'[t] /\ left'[t] = delay
         /\ \A u \in Timers \ {t} :
              /\ scheduled_time'[u] = scheduled_time[u] /\ left'[u] = left[u]
              /\ periodic_time'[u] = periodic_time[u]
              /\ callback'[u] = callback[u]
  <1>1. Plus(now, delay) \in 0..(TimeRange - 1)
    BY PlusOfTime, ClockIsWide DEF Plus, TimerTypes
  <1>2. callback' \in [Timers -> BOOLEAN]
    BY DEF set_fields, TimerTypes, TimerFields
  <1> QED BY <1>1, <1>2 DEF set_fields, TimerTypes, TimerFields

LEMMA TimeForgotten ==
  ASSUME TimerTypes, NEW t \in Timers, forget_time(t)
  PROVE  /\ scheduled_time' \in [Timers -> 0..(TimeRange - 1)]
         /\ left' \in [Timers -> Int]
         /\ \A u \in Timers \ {t} :
              scheduled_time'[u] = scheduled_time[u] /\ left'[u] = left[u]
  BY ClockIsWide DEF forget_time, TimerTypes, TimerFields

LEMMA FieldsCleared ==
  ASSUME TimerTypes, NEW t \in Timers, clear_fields(t)
  PROVE  /\ TimerFields'
         /\ periodic_time'[t] = 0
         /\ \A u \in Timers \ {t} :
              /\ scheduled_time'[u] = scheduled_time[u] /\ left'[u] = left[u]
              /\ periodic_time'[u] = periodic_time[u]
              /\ callback'[u] = callback[u]
  <1>1. callback' \in [Timers -> BOOLEAN]
    BY DEF clear_fields, TimerTypes, TimerFields
  <1> QED BY <1>1, TimeForgotten DEF clear_fields, TimerTypes, TimerFields

\* The order of the queue, from that of a list by true times.
LEMMA OrderStays ==
  ASSUME OrderedBy(timer_queue', left')
  PROVE  QueueInOrder'
  BY DEF OrderedBy, QueueInOrder

-----------------------------------------------------------------------------
(* The steps.                                                              *)

LEMMA TimerPrepareKeeps ==
  ASSUME TimersIInv, NEW t \in Timers, NEW r \in Requests,
         TimerSetPrepare(t, r[1], r[2])
  PROVE  TimersIInv'
  <1> USE DEF TimersIInv
  <1>1. /\ ~ticking /\ ~Queued(t) /\ t \notin setting
        /\ setting' = setting \cup {t}
        /\ UNCHANGED <<now, timer_queue, ticking, tick_now, firing, periodic,
                       fired>>
        /\ set_fields(t, r[1], r[2])
    BY DEF TimerSetPrepare, tick_vars
  <1>2. /\ r[1] \in Nat /\ r[1] >= 1 /\ r[1] + MaxLate < Half
        /\ r[2] \in Nat /\ r[2] + MaxLate < Half
    BY RequestsFit
  <1>3. /\ TimerFields'
        /\ scheduled_time'[t] = Plus(now, r[1]) /\ periodic_time'[t] = r[2]
        /\ callback'[t] /\ left'[t] = r[1]
        /\ \A u \in Timers \ {t} :
             /\ scheduled_time'[u] = scheduled_time[u] /\ left'[u] = left[u]
             /\ periodic_time'[u] = periodic_time[u]
             /\ callback'[u] = callback[u]
    BY <1>1, <1>2, FieldsSet
  <1>4. \A u \in Timers : Queued(u)' <=> Queued(u) BY <1>1 DEF Queued
  <1>5. \A u \in Timers \ {t} : Active(u)' <=> Active(u)
    BY <1>1, <1>4 DEF Active
  <1>6. firing = NoTimer BY <1>1 DEF OneSets
  <1>7. TimerTypes' BY <1>1, <1>3 DEF TimerTypes
  <1>8. TimesAreTrue'
    <2>1. ASSUME NEW u \in Timers
          PROVE  periodic_time'[u] + MaxLate < Half
      BY <1>2, <1>3 DEF TimesAreTrue
    <2>2. ASSUME NEW u \in Timers, Active(u)'
          PROVE  /\ -MaxLate <= left'[u] /\ left'[u] + MaxLate < Half
                 /\ scheduled_time'[u] = Plus(now', left'[u])
      <3>1. CASE u = t BY <3>1, <1>1, <1>2, <1>3, ClockIsWide
      <3>2. CASE u # t BY <3>2, <2>2, <1>1, <1>3, <1>5 DEF TimesAreTrue
      <3> QED BY <3>1, <3>2
    <2> QED BY <2>1, <2>2, <1>1 DEF TimesAreTrue
  <1>9. QueueInOrder'
    <2>1. \A i \in DOMAIN timer_queue :
            timer_queue[i] \in Timers /\ timer_queue[i] # t
      BY <1>1 DEF Queued, TimerTypes
    <2> QED BY <1>1, <1>3, <2>1 DEF QueueInOrder
  <1>10. OneSets' BY <1>1, <1>4, <1>6 DEF OneSets, TimerTypes
  <1>11. CallbackKnown'
    BY <1>3, <1>5 DEF CallbackKnown
  <1>12. PeriodicStays'
    BY <1>1, <1>3, <1>4 DEF PeriodicStays
  <1>13. PutsBack' BY <1>1, <1>6 DEF PutsBack
  <1>14. FiredAreLater' BY <1>1 DEF FiredAreLater
  <1> QED
    BY <1>7, <1>8, <1>9, <1>10, <1>11, <1>12, <1>13, <1>14

LEMMA TimerInsertKeeps ==
  ASSUME TimersIInv, NEW t \in Timers, TimerSetInsert(t)
  PROVE  TimersIInv'
  <1> USE DEF TimersIInv
  <1>1. /\ ~ticking /\ t \in setting /\ setting' = setting \ {t}
        /\ timer_queue'
             = insert_timer_in_queue(timer_queue, t, scheduled_time[t])
        /\ UNCHANGED <<now, scheduled_time, periodic_time, callback, left,
                       ticking, tick_now, firing, periodic, fired>>
    BY DEF TimerSetInsert, tick_vars, field_vars
  <1>2. ~Queued(t) /\ firing = NoTimer BY <1>1 DEF OneSets
  <1>3. /\ left[t] \in Int /\ -MaxLate <= left[t] /\ left[t] + MaxLate < Half
        /\ scheduled_time[t] = Plus(now, left[t]) /\ callback[t]
    BY <1>1 DEF TimesAreTrue, Active, TimerTypes, TimerFields, CallbackKnown
  <1>4. /\ timer_queue' \in Seq(Timers)
        /\ \A u \in Timers : In(timer_queue', u) <=> (Queued(u) \/ u = t)
        /\ OrderedBy(timer_queue', left)
    <2>1. left \in [Timers -> Int] BY DEF TimerTypes, TimerFields
    <2> QED BY <1>1, <1>2, <1>3, <2>1, InsertKeepsOrder
  <1>5. \A u \in Timers : Queued(u)' <=> (Queued(u) \/ u = t)
    BY <1>4 DEF Queued, In
  <1>6. \A u \in Timers : Active(u)' <=> Active(u)
    BY <1>1, <1>5 DEF Active
  <1>7. TimerTypes' BY <1>1, <1>4 DEF TimerTypes, TimerFields
  <1>8. TimesAreTrue' BY <1>1, <1>6 DEF TimesAreTrue
  <1>9. QueueInOrder' BY <1>1, <1>4, OrderStays
  <1>10. OneSets' BY <1>1, <1>2, <1>5 DEF OneSets, TimerTypes
  <1>11. CallbackKnown' BY <1>1, <1>6 DEF CallbackKnown
  <1>12. PeriodicStays' BY <1>1, <1>5 DEF PeriodicStays
  <1>13. PutsBack' BY <1>1, <1>2 DEF PutsBack
  <1>14. FiredAreLater' BY <1>1 DEF FiredAreLater
  <1> QED
    BY <1>7, <1>8, <1>9, <1>10, <1>11, <1>12, <1>13, <1>14

\* Cancelling a timer, by a thread or by its callback.
LEMMA CancelKeeps ==
  ASSUME TimersIInv, NEW t \in Timers, t \notin setting, cancel(t),
         firing # NoTimer => t = firing,
         UNCHANGED <<now, setting, ticking, tick_now, firing, periodic, fired>>
  PROVE  TimersIInv'
  <1> USE DEF TimersIInv
  <1>1. timer_queue' = without(timer_queue, t) /\ clear_fields(t)
    BY DEF cancel
  <1>2. /\ TimerFields'
        /\ periodic_time'[t] = 0
        /\ \A u \in Timers \ {t} :
             /\ scheduled_time'[u] = scheduled_time[u] /\ left'[u] = left[u]
             /\ periodic_time'[u] = periodic_time[u]
             /\ callback'[u] = callback[u]
    BY <1>1, FieldsCleared
  <1>3. /\ timer_queue' \in Seq(Timers)
        /\ \A u \in Timers : In(timer_queue', u) <=> (Queued(u) /\ u # t)
        /\ OrderedBy(timer_queue', left')
    <2>1. left' \in [Timers -> Int] BY <1>2 DEF TimerFields
    <2> QED BY <1>1, <1>2, <2>1, WithoutKeepsOrder
  <1>4. \A u \in Timers : Queued(u)' <=> (Queued(u) /\ u # t)
    BY <1>3 DEF Queued, In
  <1>5. \A u \in Timers : Active(u)' <=> (Active(u) /\ u # t)
    BY <1>4 DEF Active
  <1>6. Elapsed' = Elapsed BY DEF Elapsed
  <1>7. TimerTypes' BY <1>2, <1>3 DEF TimerTypes
  <1>8. TimesAreTrue'
    <2>1. ASSUME NEW u \in Timers
          PROVE  periodic_time'[u] + MaxLate < Half
      BY <1>2, ClockIsWide DEF TimesAreTrue
    <2>2. ASSUME NEW u \in Timers, Active(u)'
          PROVE  /\ -MaxLate <= left'[u] /\ left'[u] + MaxLate < Half
                 /\ scheduled_time'[u] = Plus(now', left'[u])
      BY <2>2, <1>2, <1>5 DEF TimesAreTrue
    <2> QED BY <2>1, <2>2, <1>6 DEF TimesAreTrue
  <1>9. QueueInOrder' BY <1>3, OrderStays
  <1>10. OneSets' BY <1>4 DEF OneSets, TimerTypes
  <1>11. CallbackKnown'
    BY <1>2, <1>5 DEF CallbackKnown
  <1>12. PeriodicStays'
    BY <1>2, <1>4 DEF PeriodicStays
  <1>13. PutsBack' BY <1>2 DEF PutsBack
  <1>14. FiredAreLater'
    BY <1>2, <1>4, <1>6 DEF FiredAreLater, TimerTypes
  <1> QED
    BY <1>7, <1>8, <1>9, <1>10, <1>11, <1>12, <1>13, <1>14

LEMMA TickBeginKeeps ==
  ASSUME TimersIInv, TickBegin
  PROVE  TimersIInv'
  <1> USE DEF TimersIInv
  <1>1. /\ ~ticking /\ ticking' = TRUE /\ tick_now' = now /\ fired' = {}
        /\ UNCHANGED <<now, timer_queue, setting, scheduled_time,
                       periodic_time, callback, left, firing, periodic>>
    BY DEF TickBegin, field_vars
  <1>2. \A u \in Timers : (Queued(u)' <=> Queued(u)) /\ (Active(u)' <=> Active(u))
    BY <1>1 DEF Queued, Active
  <1>3. Elapsed' = 0
    <2>1. now - now = 0 BY ClockIsWide DEF TimerTypes
    <2> QED BY <1>1, <2>1, SmallTime, ClockIsWide DEF Elapsed, Minus
  <1>4. TimerTypes' BY <1>1 DEF TimerTypes, TimerFields
  <1>5. TimesAreTrue' BY <1>1, <1>2, <1>3, ClockIsWide DEF TimesAreTrue
  <1>6. QueueInOrder' BY <1>1 DEF QueueInOrder
  <1>7. OneSets' BY <1>1, <1>2 DEF OneSets, TimerTypes
  <1>8. CallbackKnown' BY <1>1, <1>2 DEF CallbackKnown
  <1>9. PeriodicStays' BY <1>1, <1>2 DEF PeriodicStays
  <1>10. PutsBack' BY <1>1 DEF PutsBack, OneSets
  <1>11. FiredAreLater' BY <1>1 DEF FiredAreLater
  <1> QED BY <1>4, <1>5, <1>6, <1>7, <1>8, <1>9, <1>10, <1>11

\* The head of the queue has expired if it is due, as far as the tick knows.
LEMMA ExpiredIsDue ==
  ASSUME TimerTypes, TimesAreTrue, ticking, timer_queue # <<>>
  PROVE  /\ Elapsed \in 0..MaxLate
         /\ Expired(timer_queue) <=> left[timer_queue[1]] + Elapsed <= 0
  <1> DEFINE t == timer_queue[1]
  <1>1. t \in Timers /\ Active(t)
    BY DEF TimerTypes, Active, Queued
  <1>2. now \in Int /\ tick_now \in Int /\ left[t] \in Int
        /\ tick_now \in 0..(TimeRange - 1)
    BY <1>1, ClockIsWide DEF TimerTypes, TimerFields
  <1>3. Elapsed \in 0..MaxLate
    <2>1. now - tick_now \in Int BY <1>2
    <2>2. (now - tick_now) % TimeRange \in 0..(TimeRange - 1)
      BY <2>1, PlusOfTime
    <2> QED BY <2>2, ClockIsWide DEF Elapsed, Minus, TimesAreTrue
  <1>4. tick_now = Plus(now, -Elapsed)
    <2> DEFINE y == now - tick_now
    <2>1. (now - (y % TimeRange)) % TimeRange = (now - y) % TimeRange
      <3>1. y \in Int BY <1>2
      <3> HIDE DEF y
      <3> QED BY <3>1, <1>2, PlusOfTime
    <2>2. now - y = tick_now BY <1>2
    <2>3. tick_now % TimeRange = tick_now
      <3>1. 0 <= tick_now /\ tick_now < TimeRange BY <1>2, ClockIsWide
      <3> QED BY <3>1, <1>2, SmallTime
    <2>4. Elapsed = y % TimeRange BY DEF Elapsed, Minus
    <2>5. now + (-Elapsed) = now - Elapsed BY <1>2, <1>3, ClockIsWide
    <2> QED BY <2>1, <2>2, <2>3, <2>4, <2>5 DEF Plus
  <1>5. /\ -MaxLate <= left[t] /\ left[t] + MaxLate < Half
        /\ scheduled_time[t] = Plus(now, left[t])
    BY <1>1 DEF TimesAreTrue
  <1>6. TIME_GT(Plus(now, left[t]), Plus(now, -Elapsed)) <=> left[t] > -Elapsed
    <2>1. -Elapsed \in Int /\ left[t] - (-Elapsed) < Half
          /\ (-Elapsed) - left[t] < Half
      BY <1>2, <1>3, <1>5, ClockIsWide
    <2> QED BY <1>2, <2>1, TimesCompared
  <1>7. Expired(timer_queue) <=> ~(left[t] > -Elapsed)
    BY <1>4, <1>5, <1>6 DEF Expired, TIME_LT
  <1> QED BY <1>2, <1>3, <1>7, ClockIsWide

LEMMA TickFireKeeps ==
  ASSUME TimersIInv, TickFire
  PROVE  /\ TimersIInv'
         /\ left[firing'] <= 0 /\ firing' \notin fired
  <1> USE DEF TimersIInv
  <1> DEFINE t == timer_queue[1]
  <1>1. /\ ticking /\ firing = NoTimer /\ Expired(timer_queue)
        /\ timer_queue' = Tail(timer_queue) /\ firing' = t
        /\ periodic' = (periodic_time[t] > 0) /\ fired' = fired \cup {t}
        /\ forget_time(t)
        /\ UNCHANGED <<now, setting, periodic_time, callback, ticking, tick_now>>
    BY DEF TickFire
  <1>2. timer_queue # <<>> BY <1>1 DEF Expired
  <1>3. /\ t \in Timers /\ Queued(t)
        /\ timer_queue' \in Seq(Timers)
        /\ \A u \in Timers : In(timer_queue', u) <=> (Queued(u) /\ u # t)
        /\ \A l \in [Timers -> Int] :
             (\A u \in Timers \ {t} : l[u] = left[u])
               => OrderedBy(timer_queue', l)
    BY <1>1, <1>2, TailKeepsOrder
  <1>4. t \notin setting BY <1>3 DEF OneSets
  <1> HIDE DEF t
  <1>5. /\ scheduled_time' \in [Timers -> 0..(TimeRange - 1)]
        /\ left' \in [Timers -> Int]
        /\ \A u \in Timers \ {t} :
             scheduled_time'[u] = scheduled_time[u] /\ left'[u] = left[u]
    BY <1>1, <1>3, TimeForgotten
  <1>6. OrderedBy(timer_queue', left') BY <1>3, <1>5
  <1>7. \A u \in Timers : Queued(u)' <=> (Queued(u) /\ u # t)
    BY <1>3 DEF Queued, In
  <1>8. \A u \in Timers : Active(u)' <=> (Active(u) /\ u # t)
    BY <1>1, <1>4, <1>7 DEF Active
  <1>9. Elapsed' = Elapsed BY <1>1 DEF Elapsed
  <1>10. TimerTypes' BY <1>1, <1>3, <1>5 DEF TimerTypes, TimerFields
  <1>11. TimesAreTrue'
    BY <1>1, <1>5, <1>8, <1>9 DEF TimesAreTrue
  <1>12. QueueInOrder' BY <1>6, OrderStays
  <1>13. OneSets' BY <1>1, <1>4, <1>7 DEF OneSets, TimerTypes
  <1>14. CallbackKnown' BY <1>1, <1>8 DEF CallbackKnown
  <1>15. PeriodicStays' BY <1>1, <1>7, TimerAssumption DEF PeriodicStays
  <1>16. PutsBack' BY <1>1 DEF PutsBack
  <1>17. FiredAreLater'
    <2> SUFFICES ASSUME NEW u \in fired \cup {t}, Queued(u)'
                 PROVE  left'[u] + Elapsed' > 0
      BY <1>1 DEF FiredAreLater
    <2>1. u \in Timers BY <1>3 DEF TimerTypes
    <2>2. Queued(u) /\ u # t BY <2>1, <1>7
    <2> QED BY <2>1, <2>2, <1>5, <1>9 DEF FiredAreLater
  <1>18. Elapsed \in 0..MaxLate /\ left[t] + Elapsed <= 0
    BY <1>1, <1>2, ExpiredIsDue DEF t
  <1>19. left[t] <= 0 /\ t \notin fired
    <2>1. left[t] \in Int BY <1>3 DEF TimerTypes, TimerFields
    <2>2. ~(left[t] + Elapsed > 0) BY <2>1, <1>18, ClockIsWide
    <2>3. t \notin fired BY <2>2, <1>3 DEF FiredAreLater
    <2> QED BY <2>1, <2>3, <1>18, ClockIsWide
  <1> QED
    BY <1>1, <1>10, <1>11, <1>12, <1>13, <1>14, <1>15, <1>16, <1>17, <1>19

LEMMA CallbackSetsKeeps ==
  ASSUME TimersIInv, NEW r \in Requests, CallbackSets(r[1], r[2])
  PROVE  TimersIInv'
  <1> USE DEF TimersIInv
  <1> DEFINE t == firing
  <1>1. /\ ticking /\ t # NoTimer /\ ~Queued(t)
        /\ set_fields(t, r[1], r[2])
        /\ timer_queue' = insert_timer_in_queue(timer_queue, t, Plus(now, r[1]))
        /\ UNCHANGED <<now, setting, ticking, tick_now, firing, periodic, fired>>
    BY DEF CallbackSets, tick_vars
  <1>2. /\ r[1] \in Nat /\ r[1] >= 1 /\ r[1] + MaxLate < Half
        /\ r[2] \in Nat /\ r[2] + MaxLate < Half
    BY RequestsFit
  <1>3. t \in Timers /\ t \notin setting BY <1>1 DEF TimerTypes, OneSets
  <1>4. /\ TimerFields'
        /\ scheduled_time'[t] = Plus(now, r[1]) /\ periodic_time'[t] = r[2]
        /\ callback'[t] /\ left'[t] = r[1]
        /\ \A u \in Timers \ {t} :
             /\ scheduled_time'[u] = scheduled_time[u] /\ left'[u] = left[u]
             /\ periodic_time'[u] = periodic_time[u]
             /\ callback'[u] = callback[u]
    BY <1>1, <1>2, <1>3, FieldsSet
  <1>5. /\ timer_queue' \in Seq(Timers)
        /\ \A u \in Timers : In(timer_queue', u) <=> (Queued(u) \/ u = t)
        /\ OrderedBy(timer_queue', left')
    <2>1. r[1] \in Int /\ -MaxLate <= r[1] BY <1>2, ClockIsWide
    <2>2. left' \in [Timers -> Int] BY <1>4 DEF TimerFields
    <2> QED BY <1>1, <1>2, <1>3, <1>4, <2>1, <2>2, InsertKeepsOrder
  <1>6. \A u \in Timers : Queued(u)' <=> (Queued(u) \/ u = t)
    BY <1>5 DEF Queued, In
  <1>7. \A u \in Timers \ {t} : Active(u)' <=> Active(u)
    BY <1>1, <1>6 DEF Active
  <1>8. Elapsed' = Elapsed BY <1>1 DEF Elapsed
  <1>9. Elapsed \in 0..MaxLate
    <2>1. (now - tick_now) % TimeRange \in 0..(TimeRange - 1)
      BY PlusOfTime, ClockIsWide DEF TimerTypes
    <2> QED BY <1>1, <2>1, ClockIsWide DEF Elapsed, Minus, TimesAreTrue
  <1>10. TimerTypes' BY <1>1, <1>4, <1>5 DEF TimerTypes
  <1>11. TimesAreTrue'
    <2>1. ASSUME NEW u \in Timers
          PROVE  periodic_time'[u] + MaxLate < Half
      BY <1>2, <1>4 DEF TimesAreTrue
    <2>2. ASSUME NEW u \in Timers, Active(u)'
          PROVE  /\ -MaxLate <= left'[u] /\ left'[u] + MaxLate < Half
                 /\ scheduled_time'[u] = Plus(now', left'[u])
      <3>1. CASE u = t BY <3>1, <1>1, <1>2, <1>4, ClockIsWide
      <3>2. CASE u # t BY <3>2, <2>2, <1>1, <1>4, <1>7 DEF TimesAreTrue
      <3> QED BY <3>1, <3>2
    <2> QED BY <2>1, <2>2, <1>1, <1>8 DEF TimesAreTrue
  <1>12. QueueInOrder' BY <1>5, OrderStays
  <1>13. OneSets' BY <1>1, <1>3, <1>6 DEF OneSets, TimerTypes
  <1>14. CallbackKnown' BY <1>4, <1>7 DEF CallbackKnown
  <1>15. PeriodicStays' BY <1>1, <1>4, <1>6 DEF PeriodicStays
  <1>16. PutsBack' BY <1>1, <1>3, <1>6 DEF PutsBack
  <1>17. FiredAreLater'
    <2> SUFFICES ASSUME NEW u \in fired, Queued(u)'
                 PROVE  left'[u] + Elapsed' > 0
      BY <1>1 DEF FiredAreLater
    <2>1. u \in Timers BY DEF TimerTypes
    <2>2. CASE u = t BY <2>2, <1>2, <1>4, <1>8, <1>9, ClockIsWide
    <2>3. CASE u # t
      BY <2>1, <2>3, <1>4, <1>6, <1>8 DEF FiredAreLater
    <2> QED BY <2>2, <2>3
  <1> QED
    BY <1>10, <1>11, <1>12, <1>13, <1>14, <1>15, <1>16, <1>17

LEMMA CallbackReturnsKeeps ==
  ASSUME TimersIInv, CallbackReturns
  PROVE  TimersIInv'
  <1> USE DEF TimersIInv
  <1> DEFINE t == firing
             p == periodic_time[t]
             time == Plus(tick_now, p)
             x == p - Elapsed
  <1>1. /\ ticking /\ t # NoTimer /\ firing' = NoTimer /\ periodic' = FALSE
        /\ UNCHANGED <<now, setting, periodic_time, callback, ticking, tick_now,
                       fired>>
    BY DEF CallbackReturns
  <1>2. t \in Timers /\ t \notin setting /\ NoTimer \notin Timers
    BY <1>1, TimerAssumption DEF TimerTypes, OneSets
  <1>3. Elapsed' = Elapsed BY <1>1 DEF Elapsed
  <1>4. now \in Int /\ tick_now \in Int BY ClockIsWide DEF TimerTypes
  <1>5. Elapsed \in 0..MaxLate
    <2>1. (now - tick_now) % TimeRange \in 0..(TimeRange - 1)
      BY <1>4, PlusOfTime
    <2> QED BY <1>1, <2>1, ClockIsWide DEF Elapsed, Minus, TimesAreTrue
  <1>6. p \in Nat /\ p + MaxLate < Half
    BY <1>2 DEF TimerTypes, TimerFields, TimesAreTrue
  <1>7. CASE put_back(t)
    <2>1. /\ periodic /\ ~Queued(t) /\ p > 0
          /\ scheduled_time' = [scheduled_time EXCEPT ![t] = time]
          /\ left' = [left EXCEPT ![t] = x]
          /\ timer_queue' = insert_timer_in_queue(timer_queue, t, time)
      BY <1>7 DEF CallbackReturns, put_back, Elapsed
    <2>2. x \in Int /\ -MaxLate <= x /\ x + MaxLate < Half /\ x + Elapsed > 0
      BY <1>5, <1>6, <2>1, ClockIsWide
    <2>3. time = Plus(now, x)
      <3> DEFINE y == now - tick_now
      <3>1. ((p + now) - (y % TimeRange)) % TimeRange
              = ((p + now) - y) % TimeRange
        <4>1. y \in Int /\ p + now \in Int BY <1>4, <1>6
        <4> HIDE DEF y, p
        <4> QED BY <4>1, PlusOfTime
      <3>2. (p + now) - y = tick_now + p BY <1>4, <1>6
      <3>3. Elapsed = y % TimeRange BY DEF Elapsed, Minus
      <3>4. now + x = (p + now) - Elapsed BY <1>4, <1>5, <1>6, ClockIsWide
      <3> QED BY <3>1, <3>2, <3>3, <3>4 DEF Plus
    <2>4. time \in 0..(TimeRange - 1)
      <3>1. tick_now + p \in Int BY <1>4, <1>6
      <3> HIDE DEF p
      <3> QED BY <3>1, PlusOfTime DEF Plus
    <2> HIDE DEF time, x
    <2>5. /\ scheduled_time' \in [Timers -> 0..(TimeRange - 1)]
          /\ left' \in [Timers -> Int]
          /\ scheduled_time'[t] = time /\ left'[t] = x
          /\ \A u \in Timers \ {t} :
               scheduled_time'[u] = scheduled_time[u] /\ left'[u] = left[u]
      BY <1>2, <2>1, <2>2, <2>4 DEF TimerTypes, TimerFields
    <2>6. /\ timer_queue' \in Seq(Timers)
          /\ \A u \in Timers : In(timer_queue', u) <=> (Queued(u) \/ u = t)
          /\ OrderedBy(timer_queue', left')
      BY <1>2, <2>1, <2>2, <2>3, <2>5, InsertKeepsOrder
    <2>7. \A u \in Timers : Queued(u)' <=> (Queued(u) \/ u = t)
      BY <2>6 DEF Queued, In
    <2>8. \A u \in Timers \ {t} : Active(u)' <=> Active(u)
      BY <1>1, <2>7 DEF Active
    <2>9. TimerTypes' BY <1>1, <2>5, <2>6 DEF TimerTypes, TimerFields
    <2>10. TimesAreTrue'
      <3>1. ASSUME NEW u \in Timers, Active(u)'
            PROVE  /\ -MaxLate <= left'[u] /\ left'[u] + MaxLate < Half
                   /\ scheduled_time'[u] = Plus(now', left'[u])
        <4>1. CASE u = t BY <4>1, <1>1, <2>2, <2>3, <2>5
        <4>2. CASE u # t BY <4>2, <3>1, <1>1, <2>5, <2>8 DEF TimesAreTrue
        <4> QED BY <4>1, <4>2
      <3> QED BY <3>1, <1>1, <1>3 DEF TimesAreTrue
    <2>11. QueueInOrder' BY <2>6, OrderStays
    <2>12. OneSets' BY <1>1, <1>2, <2>7 DEF OneSets, TimerTypes
    <2>13. CallbackKnown'
      <3>1. callback[t] BY <1>2, <2>1 DEF CallbackKnown
      <3> QED BY <1>1, <2>8, <3>1 DEF CallbackKnown
    <2>14. PeriodicStays' BY <1>1, <2>7 DEF PeriodicStays
    <2>15. PutsBack' BY <1>1 DEF PutsBack
    <2>16. FiredAreLater'
      <3> SUFFICES ASSUME NEW u \in fired, Queued(u)'
                   PROVE  left'[u] + Elapsed' > 0
        BY <1>1 DEF FiredAreLater
      <3>1. u \in Timers BY DEF TimerTypes
      <3>2. CASE u = t BY <3>2, <1>3, <2>2, <2>5
      <3>3. CASE u # t BY <3>1, <3>3, <1>3, <2>5, <2>7 DEF FiredAreLater
      <3> QED BY <3>2, <3>3
    <2> QED
      BY <2>9, <2>10, <2>11, <2>12, <2>13, <2>14, <2>15, <2>16
  <1>8. CASE ~put_back(t)
    <2>1. UNCHANGED <<scheduled_time, left, timer_queue>>
      BY <1>8 DEF CallbackReturns
    <2>2. \A u \in Timers : (Queued(u)' <=> Queued(u)) /\ (Active(u)' <=> Active(u))
      BY <1>1, <2>1 DEF Queued, Active
    <2>3. TimerTypes' BY <1>1, <2>1 DEF TimerTypes, TimerFields
    <2>4. TimesAreTrue' BY <1>1, <1>3, <2>1, <2>2 DEF TimesAreTrue
    <2>5. QueueInOrder' BY <2>1 DEF QueueInOrder
    <2>6. OneSets' BY <1>1, <2>2 DEF OneSets, TimerTypes
    <2>7. CallbackKnown' BY <1>1, <2>2 DEF CallbackKnown
    <2>8. PeriodicStays'
      <3>1. p > 0 => Queued(t) BY <1>1, <1>8 DEF put_back, PutsBack
      <3> QED BY <1>1, <2>2, <3>1 DEF PeriodicStays
    <2>9. PutsBack' BY <1>1 DEF PutsBack
    <2>10. FiredAreLater' BY <1>1, <1>3, <2>1, <2>2 DEF FiredAreLater, TimerTypes
    <2> QED
      BY <2>3, <2>4, <2>5, <2>6, <2>7, <2>8, <2>9, <2>10
  <1> QED BY <1>7, <1>8

LEMMA TickEndKeeps ==
  ASSUME TimersIInv, TickEnd
  PROVE  /\ TimersIInv'
         /\ \A t \in Timers : Queued(t) => left[t] + Minus(now, tick_now) > 0
  <1> USE DEF TimersIInv
  <1>1. /\ ticking /\ firing = NoTimer /\ ~Expired(timer_queue)
        /\ ticking' = FALSE /\ tick_now' = 0 /\ fired' = {}
        /\ UNCHANGED <<now, timer_queue, setting, scheduled_time,
                       periodic_time, callback, left, firing, periodic>>
    BY DEF TickEnd, field_vars
  <1>2. \A u \in Timers : (Queued(u)' <=> Queued(u)) /\ (Active(u)' <=> Active(u))
    BY <1>1 DEF Queued, Active
  <1>3. TimerTypes'
    <2>1. 0 \in 0..(TimeRange - 1) BY ClockIsWide
    <2> QED BY <1>1, <2>1 DEF TimerTypes, TimerFields
  <1>4. TimesAreTrue' BY <1>1, <1>2 DEF TimesAreTrue
  <1>5. QueueInOrder' BY <1>1 DEF QueueInOrder
  <1>6. OneSets' BY <1>1, <1>2 DEF OneSets, TimerTypes
  <1>7. CallbackKnown' BY <1>1, <1>2 DEF CallbackKnown
  <1>8. PeriodicStays' BY <1>1, <1>2 DEF PeriodicStays
  <1>9. PutsBack' BY <1>1 DEF PutsBack
  <1>10. FiredAreLater' BY <1>1 DEF FiredAreLater
  <1>11. ASSUME NEW t \in Timers, Queued(t)
         PROVE  left[t] + Minus(now, tick_now) > 0
    <2>1. timer_queue # <<>> BY <1>11 DEF Queued
    <2>2. Elapsed \in 0..MaxLate /\ ~(left[timer_queue[1]] + Elapsed <= 0)
      BY <1>1, <2>1, ExpiredIsDue
    <2>3. timer_queue[1] \in Timers /\ left[timer_queue[1]] <= left[t]
      BY <1>11, <2>1, TailKeepsOrder
    <2>4. left[t] \in Int /\ left[timer_queue[1]] \in Int
      BY <2>3 DEF TimerTypes, TimerFields
    <2>5. left[t] + Elapsed > 0 BY <2>2, <2>3, <2>4, ClockIsWide
    <2> QED BY <2>5 DEF Elapsed
  <1> QED BY <1>3, <1>4, <1>5, <1>6, <1>7, <1>8, <1>9, <1>10, <1>11

\* Time passes for every timer that is in the queue or about to be.
LEMMA AdvanceKeeps ==
  ASSUME TimersIInv, Advance
  PROVE  TimersIInv'
  <1> USE DEF TimersIInv
  <1>1. /\ \A t \in Timers : Active(t) => left[t] > -MaxLate
        /\ ticking => Elapsed < MaxLate
        /\ now' = Plus(now, 1)
        /\ left' = [t \in Timers |-> IF Active(t) THEN left[t] - 1 ELSE left[t]]
        /\ UNCHANGED <<timer_queue, setting, scheduled_time, periodic_time,
                       callback, ticking, tick_now, firing, periodic, fired>>
    BY DEF Advance, Active, Elapsed, tick_vars
  <1>2. \A u \in Timers : (Queued(u)' <=> Queued(u)) /\ (Active(u)' <=> Active(u))
    BY <1>1 DEF Queued, Active
  <1>3. now \in Int /\ tick_now \in Int /\ left \in [Timers -> Int]
    BY ClockIsWide DEF TimerTypes, TimerFields
  <1>4. now' \in 0..(TimeRange - 1) BY <1>1, <1>3, PlusOfTime DEF Plus
  <1>5. left' \in [Timers -> Int] BY <1>1, <1>3
  <1>6. ticking => Elapsed' = Elapsed + 1
    <2> SUFFICES ASSUME ticking PROVE Elapsed' = Elapsed + 1
      OBVIOUS
    <2> DEFINE y == now - tick_now
    <2>1. y \in Int /\ Elapsed = y % TimeRange BY <1>3 DEF Elapsed, Minus
    <2>2. y % TimeRange \in 0..(TimeRange - 1) /\ y % TimeRange < MaxLate
      BY <1>1, <2>1, PlusOfTime
    <2>3. Elapsed' = (((now + 1) % TimeRange) + (-tick_now)) % TimeRange
      <3>1. Elapsed' = (now' - tick_now) % TimeRange
        BY <1>1 DEF Elapsed, Minus
      <3>2. now' \in Int /\ now' - tick_now = now' + (-tick_now)
        BY <1>3, <1>4, ClockIsWide
      <3> QED BY <3>1, <3>2, <1>1 DEF Plus
    <2>4. (((now + 1) % TimeRange) + (-tick_now)) % TimeRange
            = ((now + 1) + (-tick_now)) % TimeRange
      BY <1>3, PlusOfTime
    <2>5. (now + 1) + (-tick_now) = y + 1 BY <1>3
    <2>6. ((y % TimeRange) + 1) % TimeRange = (y + 1) % TimeRange
      <3> HIDE DEF y
      <3> QED BY <2>1, PlusOfTime
    <2>7. ((y % TimeRange) + 1) % TimeRange = (y % TimeRange) + 1
      <3> DEFINE z == (y % TimeRange) + 1
      <3>1. z \in Int /\ 0 <= z /\ z < TimeRange BY <2>2, ClockIsWide
      <3> HIDE DEF z
      <3>2. z % TimeRange = z BY <3>1, SmallTime
      <3> QED BY <3>2 DEF z
    <2> QED BY <2>1, <2>3, <2>4, <2>5, <2>6, <2>7
  <1>7. ticking => Elapsed \in 0..(TimeRange - 1)
    BY <1>3, PlusOfTime DEF Elapsed, Minus
  <1>8. TimerTypes' BY <1>1, <1>4, <1>5 DEF TimerTypes, TimerFields
  <1>9. TimesAreTrue'
    <2>1. ASSUME NEW u \in Timers, Active(u)'
          PROVE  /\ -MaxLate <= left'[u] /\ left'[u] + MaxLate < Half
                 /\ scheduled_time'[u] = Plus(now', left'[u])
      <3>1. Active(u) BY <2>1, <1>2
      <3>2. left'[u] = left[u] - 1 /\ left[u] \in Int BY <3>1, <1>1, <1>3
      <3>3. /\ left[u] > -MaxLate /\ left[u] + MaxLate < Half
            /\ scheduled_time[u] = Plus(now, left[u])
        BY <3>1, <1>1 DEF TimesAreTrue
      <3>4. ((((now + 1) % TimeRange) + (left[u] - 1)) % TimeRange)
              = ((now + 1) + (left[u] - 1)) % TimeRange
        BY <1>3, <3>2, PlusOfTime
      <3>5. (now + 1) + (left[u] - 1) = now + left[u] BY <1>3, <3>2
      <3>6. scheduled_time'[u] = Plus(now', left'[u])
        BY <1>1, <3>2, <3>3, <3>4, <3>5 DEF Plus
      <3> QED BY <3>2, <3>3, <3>6, ClockIsWide
    <2>2. ticking' => Elapsed' <= MaxLate
      BY <1>1, <1>6, <1>7, ClockIsWide
    <2> QED BY <2>1, <2>2, <1>1 DEF TimesAreTrue
  <1>10. QueueInOrder'
    <2> SUFFICES ASSUME NEW i \in DOMAIN timer_queue, NEW j \in DOMAIN timer_queue,
                        i < j
                 PROVE  /\ timer_queue[i] # timer_queue[j]
                        /\ left'[timer_queue[i]] <= left'[timer_queue[j]]
      BY <1>1 DEF QueueInOrder
    <2>1. /\ timer_queue[i] \in Timers /\ Active(timer_queue[i])
          /\ timer_queue[j] \in Timers /\ Active(timer_queue[j])
      BY DEF TimerTypes, Active, Queued
    <2>2. /\ timer_queue[i] # timer_queue[j]
          /\ left[timer_queue[i]] <= left[timer_queue[j]]
      BY DEF QueueInOrder
    <2> QED BY <1>1, <1>3, <2>1, <2>2
  <1>11. OneSets' BY <1>1, <1>2 DEF OneSets, TimerTypes
  <1>12. CallbackKnown' BY <1>1, <1>2 DEF CallbackKnown
  <1>13. PeriodicStays' BY <1>1, <1>2 DEF PeriodicStays
  <1>14. PutsBack'
    <2>1. firing \in Timers \cup {NoTimer} BY DEF TimerTypes
    <2> QED BY <1>1, <1>2, <2>1 DEF PutsBack
  <1>15. FiredAreLater'
    <2>1. CASE ~ticking BY <2>1, <1>1 DEF FiredAreLater
    <2>2. CASE ticking
      <3> SUFFICES ASSUME NEW u \in fired, Queued(u)'
                   PROVE  left'[u] + Elapsed' > 0
        BY <2>2, <1>1 DEF FiredAreLater
      <3>1. u \in Timers /\ Queued(u) /\ Active(u)
        BY <1>2 DEF TimerTypes, Active
      <3>2. left[u] + Elapsed > 0 /\ left'[u] = left[u] - 1 /\ left[u] \in Int
        BY <3>1, <1>1, <1>3 DEF FiredAreLater
      <3> QED BY <2>2, <3>2, <1>6, <1>7, ClockIsWide
    <2> QED BY <2>1, <2>2
  <1> QED
    BY <1>8, <1>9, <1>10, <1>11, <1>12, <1>13, <1>14, <1>15

LEMMA TimersStart ==
  ASSUME TimersInit
  PROVE  TimersIInv
  <1>1. /\ timer_queue = <<>>
        /\ scheduled_time = [t \in Timers |-> 0]
        /\ periodic_time = [t \in Timers |-> 0]
        /\ callback = [t \in Timers |-> FALSE]
        /\ left = [t \in Timers |-> 0]
        /\ setting = {} /\ fired = {}
        /\ ticking = FALSE /\ tick_now = 0 /\ firing = NoTimer
    BY DEF TimersInit
  <1>2. 0 \in 0..(TimeRange - 1) BY ClockIsWide
  <1>3. now \in 0..(TimeRange - 1) BY <1>2 DEF TimersInit
  <1>4. \A t \in Timers : ~Queued(t) /\ ~Active(t)
    <2>1. DOMAIN timer_queue = {} BY <1>1
    <2> QED BY <1>1, <2>1 DEF Queued, Active
  <1>5. callback \in [Timers -> BOOLEAN] BY ONLY <1>1, Zenon
  <1>6. TimerTypes
    <2>1. timer_queue \in Seq(Timers) BY <1>1
    <2>2. TimerFields BY <1>1, <1>2, <1>5 DEF TimerFields
    <2> QED BY <1>1, <1>2, <1>3, <2>1, <2>2 DEF TimerTypes
  <1>7. \A t \in Timers : periodic_time[t] = 0 BY <1>1
  <1>8. TimesAreTrue
    BY <1>1, <1>4, <1>7, ClockIsWide DEF TimesAreTrue
  <1>9. QueueInOrder /\ OneSets BY <1>1 DEF QueueInOrder, OneSets
  <1>10. CallbackKnown /\ PeriodicStays
    BY <1>4, <1>7 DEF CallbackKnown, PeriodicStays
  <1>11. PutsBack /\ FiredAreLater BY <1>1 DEF PutsBack, FiredAreLater
  <1> QED BY <1>6, <1>8, <1>9, <1>10, <1>11 DEF TimersIInv

\* The timers keep the strengthened invariant.
LEMMA TimersStep ==
  TimersIInv /\ [TimersNext]_timer_vars => TimersIInv'
  <1> SUFFICES ASSUME TimersIInv, [TimersNext]_timer_vars
               PROVE  TimersIInv'
    OBVIOUS
  <1>1. ASSUME NEW t \in Timers, TimerCancel(t) PROVE TimersIInv'
    <2>1. firing = NoTimer BY <1>1 DEF TimerCancel, TimersIInv, OneSets
    <2> QED BY <1>1, <2>1, CancelKeeps DEF TimerCancel, tick_vars
  <1>2. CASE CallbackCancels
    <2>1. firing \in Timers /\ firing \notin setting
      BY <1>2 DEF CallbackCancels, TimersIInv, TimerTypes, OneSets
    <2> QED BY <1>2, <2>1, CancelKeeps DEF CallbackCancels, tick_vars
  <1>3. CASE UNCHANGED timer_vars
    BY <1>3
    DEF timer_vars, field_vars, tick_vars, TimersIInv, TimerTypes, TimerFields,
        TimesAreTrue, QueueInOrder, OneSets, CallbackKnown, PeriodicStays,
        PutsBack, FiredAreLater, Active, Queued, Elapsed
  <1> QED
    BY <1>1, <1>2, <1>3, TimerPrepareKeeps, TimerInsertKeeps, TickBeginKeeps,
       TickFireKeeps, TickEndKeeps, CallbackSetsKeeps, CallbackReturnsKeeps,
       AdvanceKeeps
    DEF TimersNext

LEMMA TimersAreSound == TimersIInv => TimersInv
  BY DEF TimersIInv, TimersInv, TimersTypeOK, TimerTypes, TimesAreTrue, Active,
         Plus, NoNullCallback, CallbackKnown

\* However the clock wraps, and whatever threads and callbacks set and cancel
\* around the tick, the queue is in order, each of its timers has a callback
\* and a time that is true, and no periodic timer is lost.
THEOREM TimersStayInOrder == TimersSpec => []TimersInv
  <1>1. TimersInit => TimersIInv BY TimersStart
  <1>2. TimersIInv /\ [TimersNext]_timer_vars => TimersIInv'
    BY TimersStep
  <1>3. TimersIInv => TimersInv BY TimersAreSound
  <1> QED BY <1>1, <1>2, <1>3, PTL DEF TimersSpec

\* A callback is called when its timer is due and at most once in a tick, so
\* that the tick ends.
THEOREM TimersFireWhenDue == TimersSpec => FiresWhenDue
  <1> DEFINE A == (firing' # firing /\ firing' # NoTimer) =>
                    left[firing'] <= 0 /\ firing' \notin fired
  <1>1. TimersInit => TimersIInv BY TimersStart
  <1>2. TimersIInv /\ [TimersNext]_timer_vars => TimersIInv'
    BY TimersStep
  <1>3. TimersIInv /\ [TimersNext]_timer_vars => [A]_timer_vars
    <2> SUFFICES ASSUME TimersIInv, TimersNext,
                        firing' # firing, firing' # NoTimer
                 PROVE  left[firing'] <= 0 /\ firing' \notin fired
      OBVIOUS
    <2>1. TickFire
      BY DEF TimersNext, TimerSetPrepare, TimerSetInsert, TimerCancel,
             TickBegin, TickEnd, CallbackSets, CallbackCancels,
             CallbackReturns, Advance, tick_vars
    <2> QED BY <2>1, TickFireKeeps
  <1> QED BY <1>1, <1>2, <1>3, PTL DEF TimersSpec, FiresWhenDue

\* A tick leaves no timer behind that was due when it began.
THEOREM TicksFireAll == TimersSpec => TickFiresAll
  <1> DEFINE A == (ticking /\ ~ticking') =>
                    \A t \in Timers : Queued(t) =>
                      left[t] + Minus(now, tick_now) > 0
  <1>1. TimersInit => TimersIInv BY TimersStart
  <1>2. TimersIInv /\ [TimersNext]_timer_vars => TimersIInv'
    BY TimersStep
  <1>3. TimersIInv /\ [TimersNext]_timer_vars => [A]_timer_vars
    <2> SUFFICES ASSUME TimersIInv, TimersNext, ticking, ~ticking'
                 PROVE  \A t \in Timers : Queued(t) =>
                          left[t] + Minus(now, tick_now) > 0
      OBVIOUS
    <2>1. TickEnd
      BY DEF TimersNext, TimerSetPrepare, TimerSetInsert, TimerCancel,
             TickBegin, TickFire, CallbackSets, CallbackCancels,
             CallbackReturns, Advance, tick_vars
    <2> QED BY <2>1, TickEndKeeps
  <1> QED BY <1>1, <1>2, <1>3, PTL DEF TimersSpec, TickFiresAll

-----------------------------------------------------------------------------
(* The heap.                                                               *)

\* A word of the heap, and what holds it.
Holds(c, w) == c.at <= w /\ w < chunk_end(c)
Covers(f, w) == \E i \in DOMAIN f : Holds(f[i], w)

\* Chunks that can be free.
Chunks ==
  {c \in [at : Nat, len : Nat] : c.len >= FreeHeader /\ chunk_end(c) <= HeapLen}

\* A list in the order of addresses, of which no two chunks touch but the
\* chunks at the places A and the ones before them.
Loose(f, A) ==
  \A i, j \in DOMAIN f : i < j =>
    /\ chunk_end(f[i]) <= f[j].at
    /\ chunk_end(f[i]) = f[j].at => j = i + 1 /\ j \in A

\* Blocks whose payload lies in them.
Blocks ==
  {b \in [at : Nat, len : Nat, payload : Nat, size : Sizes,
          alignment : Alignments] :
     /\ b.len >= FreeHeader /\ chunk_end(b) <= HeapLen
     /\ b.at + AllocHeader <= b.payload
     /\ b.payload + b.size <= chunk_end(b)
     /\ b.alignment > 0 => b.payload % b.alignment = 0}

\* No word is handed out twice.
WordsApart ==
  \A w \in Nat :
    /\ \A b, c \in blocks : Holds(b, w) /\ Holds(c, w) => b = c
    /\ \A b \in blocks : Holds(b, w) => ~Covers(free_list, w)

\* No word is lost.
NoWordLost ==
  \A w \in 0..(HeapLen - 1) :
    Covers(free_list, w) \/ \E b \in blocks : Holds(b, w)

HeapIInv ==
  /\ free_list \in Seq(Chunks) /\ Loose(free_list, {})
  /\ blocks \in SUBSET Blocks
  /\ WordsApart /\ NoWordLost

\* What the assumption says of the sizes of headers.
LEMMA HeapSizes ==
  /\ HeapLen \in Nat /\ AllocHeader \in Nat /\ FreeHeader \in Nat
  /\ FreeHeader > 0 /\ HeapLen >= FreeHeader
  /\ MinAlignment \in Nat /\ MinAlignment > 0
  BY HeapAssumption

\* Merging a chunk with the one before it, if they touch, moves no word in or
\* out of the list.
LEMMA MergePrev ==
  ASSUME NEW f \in Seq(Chunks), NEW i \in 1..Len(f),
         NEW A \in SUBSET (1..(i - 1)), Loose(f, A \cup {i})
  PROVE  /\ merge_prev(f, i) \in Seq(Chunks)
         /\ Len(merge_prev(f, i)) >= i - 1
         /\ Len(merge_prev(f, i)) <= Len(f)
         /\ Len(merge_prev(f, i)) = Len(f) \/ Len(merge_prev(f, i)) = Len(f) - 1
         /\ Loose(merge_prev(f, i), A)
         /\ \A w \in Nat : Covers(merge_prev(f, i), w) <=> Covers(f, w)
  <1> DEFINE r == merge_prev(f, i)
  <1>1. /\ Len(f) \in Nat /\ DOMAIN f = 1..Len(f) /\ i \in Nat
        /\ \A j \in 1..Len(f) :
             /\ f[j] \in Chunks /\ f[j].at \in Nat /\ f[j].len \in Nat
             /\ f[j].len >= FreeHeader
             /\ chunk_end(f[j]) = f[j].at + f[j].len
             /\ f[j].at + f[j].len <= HeapLen
    BY DEF Chunks, chunk_end
  <1>2. CASE ~(i > 1 /\ chunk_end(f[i - 1]) = f[i].at)
    <2>1. r = f BY <1>2 DEF merge_prev
    <2>2. Loose(f, A)
      <3> SUFFICES ASSUME NEW j \in 1..Len(f), NEW k \in 1..Len(f), j < k
                   PROVE  /\ chunk_end(f[j]) <= f[k].at
                          /\ chunk_end(f[j]) = f[k].at => k = j + 1 /\ k \in A
        BY <1>1 DEF Loose
      <3>1. /\ chunk_end(f[j]) <= f[k].at
            /\ chunk_end(f[j]) = f[k].at => k = j + 1 /\ k \in A \cup {i}
        BY <1>1 DEF Loose
      <3>2. ASSUME chunk_end(f[j]) = f[k].at, k = i PROVE FALSE
        <4>1. j = i - 1 /\ i > 1 BY <3>1, <3>2, <1>1
        <4> QED BY <4>1, <3>2, <1>2
      <3> QED BY <3>1, <3>2
    <2> QED BY <1>1, <2>1, <2>2
  <1>3. CASE i > 1 /\ chunk_end(f[i - 1]) = f[i].at
    <2> DEFINE m == chunk_at(f[i - 1].at, f[i - 1].len + f[i].len)
    <2>1. r = Splice(f, i - 2, m, i) BY <1>3 DEF merge_prev, Splice
    <2>2. i - 1 \in 1..Len(f) /\ i - 2 \in 0..Len(f) /\ i \in (i - 2)..Len(f)
          /\ i \in 1..Len(f)
      BY <1>1, <1>3
    <2>3. /\ m.at = f[i - 1].at /\ m.len = f[i - 1].len + f[i].len
          /\ m \in [at : Nat, len : Nat]
      BY <1>1, <2>2 DEF chunk_at
    <2>4. chunk_end(m) = chunk_end(f[i]) /\ m \in Chunks
      <3>1. /\ f[i].at \in Nat /\ f[i].len \in Nat /\ f[i].len >= FreeHeader
            /\ f[i - 1].at \in Nat /\ f[i - 1].len \in Nat
            /\ f[i].at + f[i].len <= HeapLen
            /\ f[i - 1].at + f[i - 1].len = f[i].at
            /\ chunk_end(f[i]) = f[i].at + f[i].len
        BY <1>1, <1>3, <2>2
      <3>2. chunk_end(m) = f[i].at + f[i].len
        BY <2>3, <3>1, SMTT(30) DEF chunk_end
      <3>3. m.len >= FreeHeader
        <4> DEFINE x == f[i - 1].len
                   y == f[i].len
        <4>1. /\ x \in Nat /\ y \in Nat /\ FreeHeader \in Nat
              /\ y >= FreeHeader /\ m.len = x + y
          BY <2>3, <3>1, HeapSizes
        <4> HIDE DEF x, y, m
        <4> QED BY <4>1
      <3> HIDE DEF m
      <3>4. chunk_end(m) <= HeapLen BY <3>1, <3>2
      <3> QED BY <2>3, <3>1, <3>2, <3>3, <3>4 DEF Chunks
    <2> DEFINE n == i - 2
    <2>a. /\ n \in 0..Len(f) /\ i \in n..Len(f) /\ n \in Int
          /\ n + 1 = i - 1 /\ i - n = 2
      BY <1>1, <2>2
    <2>b. r = Splice(f, n, m, i) BY <2>1
    <2>c. m \in Chunks BY <2>4
    <2> HIDE DEF m, r, n
    <2>5. r \in Seq(Chunks)
      BY <2>a, <2>b, <2>c, SpliceAt
    <2>6. Len(r) = Len(f) - 1
      <3>0. Len(Splice(f, n, m, i)) = Len(f) + 1 - (i - n)
        BY ONLY f \in Seq(Chunks), i \in 1..Len(f), <2>a, <2>c, SpliceAt
      <3>1. Len(r) = Len(f) + 1 - (i - n) BY <3>0, <2>b
      <3> QED BY <3>1, <2>a, <1>1
    <2>7. \A j \in 1..(i - 1) : r[j] = IF j < i - 1 THEN f[j] ELSE m
      <3>0. \A j \in 1..(n + 1) :
              Splice(f, n, m, i)[j] = IF j <= n THEN f[j] ELSE m
        BY ONLY f \in Seq(Chunks), <2>a, <2>c, SpliceAt
      <3>1. \A j \in 1..(n + 1) : r[j] = IF j <= n THEN f[j] ELSE m
        BY <3>0, <2>b
      <3> QED BY <3>1, <2>a, <1>1
    <2>8. \A j \in i..(Len(f) - 1) : r[j] = f[j + 1]
      <3>0. \A j \in (i + 1)..Len(f) :
              Splice(f, n, m, i)[j + 1 - (i - n)] = f[j]
        BY ONLY f \in Seq(Chunks), <2>a, <2>c, SpliceAt
      <3>1. \A j \in (i + 1)..Len(f) : r[j + 1 - (i - n)] = f[j]
        BY <3>0, <2>b
      <3> TAKE j \in i..(Len(f) - 1)
      <3>2. j + 1 \in (i + 1)..Len(f) /\ (j + 1) + 1 - (i - n) = j
        BY <1>1, <2>a
      <3>3. r[(j + 1) + 1 - (i - n)] = f[j + 1] BY <3>1, <3>2
      <3> QED BY <3>2, <3>3
    <2>9. DOMAIN r = 1..(Len(f) - 1) BY <2>5, <2>6
    <2> DEFINE st(j) == IF j <= i - 1 THEN j ELSE j + 1
               en(j) == IF j <= i - 2 THEN j ELSE j + 1
    <2>10. ASSUME NEW j \in 1..(Len(f) - 1)
           PROVE  /\ st(j) \in 1..Len(f) /\ en(j) \in 1..Len(f)
                  /\ r[j].at = f[st(j)].at
                  /\ chunk_end(r[j]) = chunk_end(f[en(j)])
      <3>1. st(j) \in 1..Len(f) /\ en(j) \in 1..Len(f) BY <1>1
      <3>2. CASE j < i - 1 BY <1>1, <3>1, <3>2, <2>7
      <3>3. CASE j = i - 1
        <4>1. r[j] = m /\ st(j) = i - 1 /\ en(j) = i BY <1>1, <2>2, <2>7, <3>3
        <4> QED BY <4>1, <3>1, <2>3, <2>4
      <3>4. CASE j > i - 1 BY <1>1, <3>1, <3>4, <2>8
      <3> QED BY <3>2, <3>3, <3>4, <1>1
    <2>11. Loose(r, A)
      <3> SUFFICES ASSUME NEW j \in 1..(Len(f) - 1), NEW k \in 1..(Len(f) - 1),
                          j < k
                   PROVE  /\ chunk_end(r[j]) <= r[k].at
                          /\ chunk_end(r[j]) = r[k].at => k = j + 1 /\ k \in A
        BY <2>9 DEF Loose
      <3>1. en(j) < st(k) BY <1>1
      <3>2. /\ st(k) \in 1..Len(f) /\ en(j) \in 1..Len(f)
            /\ r[k].at = f[st(k)].at /\ chunk_end(r[j]) = chunk_end(f[en(j)])
        BY <2>10
      <3>3. /\ chunk_end(f[en(j)]) <= f[st(k)].at
            /\ chunk_end(f[en(j)]) = f[st(k)].at =>
                 st(k) = en(j) + 1 /\ st(k) \in A \cup {i}
        <4> HIDE DEF st, en
        <4> QED BY <1>1, <3>1, <3>2 DEF Loose
      <3>4. ASSUME chunk_end(r[j]) = r[k].at PROVE k = j + 1 /\ k \in A
        <4>1. st(k) = en(j) + 1 /\ st(k) \in A \cup {i} BY <3>2, <3>3, <3>4
        <4>2. st(k) # i BY <1>1
        <4>3. st(k) \in A /\ st(k) <= i - 1 BY <1>1, <4>1, <4>2
        <4> QED BY <1>1, <4>1, <4>3
      <3> QED BY <3>2, <3>3, <3>4
    <2>12. ASSUME NEW w \in Nat PROVE Covers(r, w) <=> Covers(f, w)
      <3>1. Holds(m, w) <=> Holds(f[i - 1], w) \/ Holds(f[i], w)
        <4>1. /\ f[i].at \in Nat /\ f[i].len \in Nat
              /\ f[i - 1].at \in Nat /\ f[i - 1].len \in Nat
              /\ chunk_end(f[i - 1]) = f[i - 1].at + f[i - 1].len
              /\ chunk_end(f[i]) = f[i].at + f[i].len
              /\ f[i].at = f[i - 1].at + f[i - 1].len
          BY <1>1, <1>3, <2>2
        <4>2. m.at = f[i - 1].at /\ chunk_end(m) = f[i].at + f[i].len
          BY <2>3, <2>4, <4>1
        <4> QED BY <4>1, <4>2, SMTT(30) DEF Holds
      <3>2. ASSUME Covers(r, w) PROVE Covers(f, w)
        <4>1. PICK j \in 1..(Len(f) - 1) : Holds(r[j], w)
          BY <2>9, <3>2 DEF Covers
        <4>2. CASE j < i - 1
          BY <4>1, <4>2, <1>1, <2>7 DEF Covers
        <4>3. CASE j = i - 1
          <5>1. r[j] = m BY <4>3, <1>1, <2>2, <2>7
          <5> QED BY <4>1, <5>1, <3>1, <1>1, <2>2 DEF Covers
        <4>4. CASE j > i - 1
          <5>1. r[j] = f[j + 1] /\ j + 1 \in 1..Len(f) BY <4>4, <1>1, <2>8
          <5> QED BY <4>1, <5>1, <1>1 DEF Covers
        <4> QED BY <4>2, <4>3, <4>4, <1>1
      <3>3. ASSUME Covers(f, w) PROVE Covers(r, w)
        <4>1. PICK j \in 1..Len(f) : Holds(f[j], w) BY <1>1, <3>3 DEF Covers
        <4>2. CASE j < i - 1
          <5>1. j \in 1..(Len(f) - 1) /\ r[j] = f[j] BY <4>2, <1>1, <2>7
          <5> QED BY <4>1, <5>1, <2>9 DEF Covers
        <4>3. CASE j = i - 1 \/ j = i
          <5>1. i - 1 \in 1..(Len(f) - 1) /\ r[i - 1] = m BY <1>1, <2>2, <2>7
          <5> QED BY <4>1, <4>3, <5>1, <3>1, <2>9 DEF Covers
        <4>4. CASE j > i
          <5>1. j - 1 \in i..(Len(f) - 1) /\ (j - 1) + 1 = j
                /\ j - 1 \in 1..(Len(f) - 1)
            BY <4>4, <1>1
          <5>2. r[j - 1] = f[(j - 1) + 1] BY <5>1, <2>8
          <5> QED BY <4>1, <5>1, <5>2, <2>9 DEF Covers
        <4>5. j < i - 1 \/ j = i - 1 \/ j = i \/ j > i
          <5>1. j \in Int /\ i \in Int BY <1>1
          <5> QED BY <5>1
        <4> QED BY <4>2, <4>3, <4>4, <4>5
      <3> QED BY <3>2, <3>3
    <2>13. Len(r) >= i - 1 /\ Len(r) <= Len(f) BY <1>1, <2>6
    <2> QED BY <2>5, <2>6, <2>11, <2>12, <2>13 DEF r
  <1> QED BY <1>2, <1>3

\* A chunk that is freed is linked in at its place and merged with the chunks
\* it touches: the list is in order again and has its words besides.
LEMMA InsertFree ==
  ASSUME NEW f \in Seq(Chunks), Loose(f, {}), NEW c \in Chunks,
         \A w \in Nat : Holds(c, w) => ~Covers(f, w)
  PROVE  /\ heap_insert_free_chunk(f, c) \in Seq(Chunks)
         /\ Loose(heap_insert_free_chunk(f, c), {})
         /\ \A w \in Nat : Covers(heap_insert_free_chunk(f, c), w)
                             <=> (Covers(f, w) \/ Holds(c, w))
  <1> DEFINE ends(n) == /\ \A i \in 1..n : f[i].at <= c.at
                        /\ n < Len(f) => c.at < f[n + 1].at
             n == CHOOSE k \in 0..Len(f) : ends(k)
             linked == PutIn(f, n, c)
             behind == IF n + 2 <= Len(linked)
                          /\ chunk_end(c) = linked[n + 2].at
                       THEN merge_prev(linked, n + 2) ELSE linked
             r == merge_prev(behind, n + 1)
  <1>1. /\ Len(f) \in Nat /\ DOMAIN f = 1..Len(f)
        /\ \A j \in 1..Len(f) :
             /\ f[j].at \in Nat /\ f[j].len \in Nat /\ f[j].len > 0
             /\ chunk_end(f[j]) = f[j].at + f[j].len
    BY HeapSizes, SMTT(30) DEF Chunks, chunk_end
  <1>2. /\ c.at \in Nat /\ c.len \in Nat /\ c.len > 0
        /\ chunk_end(c) = c.at + c.len
    BY HeapSizes DEF Chunks, chunk_end
  <1>3. \A i, j \in 1..Len(f) : i < j => chunk_end(f[i]) < f[j].at
    <2> TAKE i, j \in 1..Len(f)
    <2>1. i < j => chunk_end(f[i]) <= f[j].at /\ chunk_end(f[i]) # f[j].at
      BY <1>1 DEF Loose
    <2>2. chunk_end(f[i]) \in Int /\ f[j].at \in Int BY <1>1
    <2> QED BY <2>1, <2>2
  <1>4. ASSUME NEW i \in 1..Len(f)
        PROVE  /\ f[i].at <= c.at => chunk_end(f[i]) <= c.at
               /\ c.at < f[i].at => chunk_end(c) <= f[i].at
    <2>1. ASSUME NEW w \in Nat, Holds(c, w), Holds(f[i], w) PROVE FALSE
      BY <1>1, <2>1 DEF Covers
    <2>2. ASSUME f[i].at <= c.at, c.at < chunk_end(f[i]) PROVE FALSE
      <3>1. Holds(c, c.at) /\ Holds(f[i], c.at)
        BY <1>1, <1>2, <2>2 DEF Holds
      <3> QED BY <3>1, <2>1, <1>2
    <2>3. ASSUME c.at < f[i].at, f[i].at < chunk_end(c) PROVE FALSE
      <3>1. Holds(c, f[i].at) /\ Holds(f[i], f[i].at)
        BY <1>1, <1>2, <2>3 DEF Holds
      <3> QED BY <3>1, <2>1, <1>1
    <2> QED BY <2>2, <2>3, <1>1, <1>2
  <1>5. \E k \in 0..Len(f) : ends(k)
    <2> DEFINE found == {i \in 1..Len(f) : c.at < f[i].at}
    <2>1. PICK k \in 0..Len(f) : /\ \A i \in 1..k : i \notin found
                                 /\ k < Len(f) => k + 1 \in found
      <3>1. found \in SUBSET (1..Len(f)) OBVIOUS
      <3> HIDE DEF found
      <3> QED BY <1>1, <3>1, WalkEnds
    <2>2. \A i \in 1..k : f[i].at <= c.at BY <1>1, <1>2, <2>1
    <2>3. k < Len(f) => c.at < f[k + 1].at BY <1>1, <2>1
    <2> QED BY <2>2, <2>3
  <1>6. n \in 0..Len(f) /\ ends(n) BY <1>5
  <1>7. heap_insert_free_chunk(f, c) = r
    BY DEF heap_insert_free_chunk, PutIn
  <1> HIDE DEF n
  <1>8. n \in 0..Len(f) BY <1>6
  <1>9. \A i \in 1..Len(f) : i <= n => chunk_end(f[i]) <= c.at
    <2> TAKE i \in 1..Len(f)
    <2>1. i <= n => f[i].at <= c.at BY <1>6
    <2> QED BY <2>1, <1>4
  <1>10. \A i \in 1..Len(f) : i > n => chunk_end(c) <= f[i].at
    <2> SUFFICES ASSUME NEW i \in 1..Len(f), i > n PROVE chunk_end(c) <= f[i].at
      OBVIOUS
    <2>1. n + 1 \in 1..Len(f) /\ n < Len(f) BY <1>1, <1>8
    <2>2. c.at < f[n + 1].at BY <2>1, <1>6
    <2>3. CASE i = n + 1 BY <2>2, <2>3, <1>4
    <2>4. CASE i > n + 1
      <3>1. chunk_end(f[n + 1]) < f[i].at BY <2>1, <2>4, <1>3
      <3>2. c.at < f[i].at BY <3>1, <2>1, <2>2, <1>1, <1>2, SMTT(30)
      <3> QED BY <3>2, <1>4
    <2> QED BY <2>3, <2>4, <1>8
  <1>11. /\ linked \in Seq(Chunks) /\ Len(linked) = Len(f) + 1
         /\ DOMAIN linked = 1..(Len(f) + 1)
    <2>1. linked \in Seq(Chunks) /\ Len(linked) = Len(f) + 1
      BY <1>8, PutInAt
    <2> QED BY <2>1
  <1>12. \A j \in 1..(Len(f) + 1) :
           linked[j] = IF j <= n THEN f[j] ELSE IF j = n + 1 THEN c ELSE f[j - 1]
    BY <1>8, PutInAt
  <1> HIDE DEF linked
  <1>13. ASSUME NEW j \in 1..(Len(f) + 1), NEW k \in 1..(Len(f) + 1), j < k
         PROVE  /\ chunk_end(linked[j]) <= linked[k].at
                /\ chunk_end(linked[j]) = linked[k].at =>
                     k = j + 1 /\ k \in {n + 1, n + 2}
    <2>1. CASE k <= n
      <3>1. /\ linked[j] = f[j] /\ linked[k] = f[k]
            /\ j \in 1..Len(f) /\ k \in 1..Len(f)
        BY <2>1, <1>1, <1>8, <1>12, <1>13
      <3> QED BY <3>1, <1>1, <1>3, <1>13
    <2>2. CASE k = n + 1
      <3>1. linked[j] = f[j] /\ linked[k] = c /\ j \in 1..Len(f) /\ j <= n
        BY <2>2, <1>1, <1>8, <1>12, <1>13
      <3>2. chunk_end(f[j]) <= c.at BY <3>1, <1>9
      <3>3. CASE j = n BY <3>1, <3>2, <3>3, <2>2, <1>8
      <3>4. CASE j < n
        <4>1. n \in 1..Len(f) BY <3>1, <1>8
        <4>2. chunk_end(f[j]) < f[n].at /\ chunk_end(f[n]) <= c.at
          BY <3>1, <3>4, <4>1, <1>3, <1>9
        <4>a. /\ chunk_end(f[j]) \in Int /\ c.at \in Int /\ f[n].at \in Int
              /\ f[n].len \in Int /\ f[n].len > 0
              /\ chunk_end(f[n]) = f[n].at + f[n].len
          <5>1. f[n] \in Chunks BY <4>1, <1>1
          <5>2. f[j] \in Chunks /\ c \in Chunks BY <3>1, <1>1, <1>2
          <5>3. ASSUME NEW x \in Chunks
                PROVE  /\ x.at \in Int /\ x.len \in Int /\ x.len > 0
                       /\ chunk_end(x) = x.at + x.len /\ chunk_end(x) \in Int
            <6>1. x.at \in Nat /\ x.len \in Nat /\ x.len >= FreeHeader
              BY DEF Chunks
            <6> QED BY <6>1, HeapSizes DEF chunk_end
          <5> QED BY <5>1, <5>2, <5>3
        <4>3. chunk_end(f[j]) < c.at BY <4>2, <4>a
        <4> QED BY <4>3, <3>1, <1>1, <1>2, SMTT(30)
      <3> QED BY <3>1, <3>3, <3>4, <1>8
    <2>3. CASE k > n + 1
      <3>1. linked[k] = f[k - 1] /\ k - 1 \in 1..Len(f) /\ k - 1 > n
        BY <2>3, <1>1, <1>8, <1>12, SMTT(30)
      <3>2. CASE j <= n
        <4>1. linked[j] = f[j] /\ j \in 1..Len(f) /\ j < k - 1
          BY <3>2, <3>1, <1>1, <1>8, <1>12
        <4>2. chunk_end(f[j]) < f[k - 1].at BY <3>1, <4>1, <1>3
        <4> QED BY <3>1, <4>1, <4>2, <1>1, SMTT(30)
      <3>3. CASE j = n + 1
        <4>1. linked[j] = c BY <3>3, <1>1, <1>8, <1>12
        <4>2. chunk_end(c) <= f[k - 1].at BY <3>1, <1>10
        <4>3. CASE k = n + 2 BY <3>1, <3>3, <4>1, <4>2, <4>3, <1>8
        <4>4. CASE k > n + 2
          <5>1. n + 1 \in 1..Len(f) /\ n + 1 < k - 1 BY <3>1, <4>4, <1>8, <1>1
          <5>2. chunk_end(c) <= f[n + 1].at /\ chunk_end(f[n + 1]) < f[k - 1].at
            BY <5>1, <3>1, <1>3, <1>8, <1>10
          <5>3. chunk_end(c) < f[k - 1].at
            BY <5>1, <5>2, <3>1, <1>1, <1>2, SMTT(30)
          <5> QED BY <5>3, <3>1, <4>1, <1>1, <1>2
        <4> QED BY <4>3, <4>4, <2>3, <1>8
      <3>4. CASE j > n + 1
        <4>1. j - 1 \in 1..Len(f) /\ j - 1 < k - 1
          BY <3>4, <1>13, <1>1, <1>8
        <4>2. ~(j <= n) /\ j # n + 1 BY <3>4, <1>8
        <4>3. linked[j] = f[j - 1] BY <4>2, <1>12
        <4>4. chunk_end(f[j - 1]) < f[k - 1].at BY <3>1, <4>1, <1>3
        <4> QED BY <3>1, <4>1, <4>3, <4>4, <1>1, SMTT(30)
      <3> QED BY <3>2, <3>3, <3>4, <1>8
    <2> QED BY <2>1, <2>2, <2>3, <1>8
  <1>14. Loose(linked, {n + 1, n + 2})
    BY <1>11, <1>13 DEF Loose
  <1>15. \A w \in Nat : Covers(linked, w) <=> (Covers(f, w) \/ Holds(c, w))
    <2> TAKE w \in Nat
    <2>1. ASSUME Covers(linked, w) PROVE Covers(f, w) \/ Holds(c, w)
      <3>1. PICK j \in 1..(Len(f) + 1) : Holds(linked[j], w)
        BY <2>1, <1>11 DEF Covers
      <3>2. CASE j <= n
        <4>1. j \in 1..Len(f) /\ linked[j] = f[j]
          BY <3>2, <1>1, <1>8, <1>12
        <4> QED BY <3>1, <4>1, <1>1 DEF Covers
      <3>3. CASE j = n + 1 BY <3>1, <3>3, <1>8, <1>12
      <3>4. CASE j > n + 1
        <4>1. j - 1 \in 1..Len(f) /\ ~(j <= n) /\ j # n + 1
          BY <3>4, <1>1, <1>8
        <4>2. linked[j] = f[j - 1] BY <4>1, <1>12
        <4> QED BY <3>1, <4>1, <4>2, <1>1 DEF Covers
      <3> QED BY <3>2, <3>3, <3>4, <1>8
    <2>2. ASSUME Covers(f, w) PROVE Covers(linked, w)
      <3>1. PICK i \in 1..Len(f) : Holds(f[i], w) BY <2>2, <1>1 DEF Covers
      <3>2. CASE i <= n
        <4>1. i \in 1..(Len(f) + 1) /\ linked[i] = f[i]
          BY <3>2, <1>1, <1>12
        <4> QED BY <3>1, <4>1, <1>11 DEF Covers
      <3>3. CASE i > n
        <4>1. i + 1 \in 1..(Len(f) + 1) /\ ~(i + 1 <= n) /\ i + 1 # n + 1
              /\ (i + 1) - 1 = i
          BY <3>3, <1>1, <1>8
        <4>2. linked[i + 1] = f[(i + 1) - 1] BY <4>1, <1>12
        <4> QED BY <3>1, <4>1, <4>2, <1>11 DEF Covers
      <3> QED BY <3>2, <3>3, <1>8
    <2>3. ASSUME Holds(c, w) PROVE Covers(linked, w)
      <3>1. n + 1 \in 1..(Len(f) + 1) /\ ~(n + 1 <= n) BY <1>1, <1>8
      <3>2. linked[n + 1] = c BY <3>1, <1>12
      <3> QED BY <3>1, <3>2, <2>3, <1>11 DEF Covers
    <2> QED BY <2>1, <2>2, <2>3
  <1>16. /\ behind \in Seq(Chunks) /\ Len(behind) >= n + 1
         /\ Loose(behind, {n + 1})
         /\ \A w \in Nat : Covers(behind, w) <=> Covers(linked, w)
    <2>1. CASE n + 2 <= Len(linked)
      <3>1. linked[n + 1] = c
        <4>1. n + 1 \in 1..(Len(f) + 1) /\ ~(n + 1 <= n) BY <1>1, <1>8
        <4> QED BY <4>1, <1>12
      <3>2. behind = merge_prev(linked, n + 2)
        <4>1. n + 2 > 1 /\ (n + 2) - 1 = n + 1 BY <1>8
        <4>2. CASE chunk_end(c) = linked[n + 2].at BY <2>1, <4>2
        <4>3. CASE chunk_end(c) # linked[n + 2].at
          BY <3>1, <4>1, <4>3 DEF merge_prev
        <4> QED BY <4>2, <4>3
      <3> DEFINE i == n + 2
      <3>3. /\ i \in 1..Len(linked) /\ {n + 1} \in SUBSET (1..(i - 1))
            /\ i - 1 = n + 1 /\ {n + 1} \cup {i} = {n + 1, n + 2}
        BY <2>1, <1>8, <1>11
      <3>4. Loose(linked, {n + 1} \cup {i}) BY <3>3, <1>14
      <3>5. behind = merge_prev(linked, i) BY <3>2
      <3> HIDE DEF i, behind
      <3> QED BY <3>3, <3>4, <3>5, <1>11, MergePrev
    <2>2. CASE ~(n + 2 <= Len(linked))
      <3>1. behind = linked BY <2>2
      <3>2. Len(linked) = n + 1 BY <2>2, <1>1, <1>8, <1>11
      <3>3. Loose(linked, {n + 1})
        BY <3>2, <1>1, <1>8, <1>11, <1>14 DEF Loose
      <3> QED BY <3>1, <3>2, <3>3, <1>8, <1>11
    <2> QED BY <2>1, <2>2
  <1> HIDE DEF behind
  <1>17. /\ r \in Seq(Chunks) /\ Loose(r, {})
         /\ \A w \in Nat : Covers(r, w) <=> Covers(behind, w)
    <2> DEFINE i == n + 1
    <2>1. i \in 1..Len(behind) /\ {} \in SUBSET (1..(i - 1))
          /\ Loose(behind, {} \cup {i})
      <3>1. Len(behind) \in Nat BY <1>16
      <3>2. {} \cup {i} = {n + 1} OBVIOUS
      <3>3. i \in 1..Len(behind) BY <3>1, <1>8, <1>16
      <3> QED BY <3>2, <3>3, <1>16
    <2> HIDE DEF i
    <2>2. /\ merge_prev(behind, i) \in Seq(Chunks)
          /\ Loose(merge_prev(behind, i), {})
          /\ \A w \in Nat : Covers(merge_prev(behind, i), w) <=> Covers(behind, w)
      BY <2>1, <1>16, MergePrev
    <2> QED BY <2>2 DEF i
  <1> HIDE DEF r
  <1> QED BY <1>7, <1>15, <1>16, <1>17

\* Taking n words from place i takes the words of the block, and no others,
\* out of the list.
LEMMA TakeKeeps ==
  ASSUME NEW f \in Seq(Chunks), Loose(f, {}), NEW i \in 1..Len(f),
         NEW n \in Nat, n > 0, f[i].len >= n
  PROVE  /\ take(f, i, n) \in Seq(Chunks) /\ Loose(take(f, i, n), {})
         /\ \A w \in Nat :
              Covers(take(f, i, n), w) <=>
                /\ Covers(f, w)
                /\ ~(f[i].at <= w /\ w < f[i].at + kept(f[i], n))
  <1> DEFINE r == take(f, i, n)
             taken(w) == f[i].at <= w /\ w < f[i].at + kept(f[i], n)
  <1>1. /\ Len(f) \in Nat /\ DOMAIN f = 1..Len(f)
        /\ \A j \in 1..Len(f) :
             /\ f[j] \in Chunks /\ f[j].at \in Nat /\ f[j].len \in Nat
             /\ f[j].len > 0 /\ f[j].len >= FreeHeader
             /\ chunk_end(f[j]) = f[j].at + f[j].len
             /\ chunk_end(f[j]) \in Nat /\ chunk_end(f[j]) <= HeapLen
    <2> SUFFICES ASSUME NEW j \in 1..Len(f)
                 PROVE  /\ f[j] \in Chunks /\ f[j].at \in Nat /\ f[j].len \in Nat
                        /\ f[j].len > 0 /\ f[j].len >= FreeHeader
                        /\ chunk_end(f[j]) = f[j].at + f[j].len
                        /\ chunk_end(f[j]) \in Nat /\ chunk_end(f[j]) <= HeapLen
      OBVIOUS
    <2>1. f[j] \in Chunks OBVIOUS
    <2>2. /\ f[j].at \in Nat /\ f[j].len \in Nat /\ f[j].len >= FreeHeader
          /\ chunk_end(f[j]) <= HeapLen
      BY <2>1 DEF Chunks
    <2> QED BY <2>1, <2>2, HeapSizes DEF chunk_end
  <1>2. \A j, k \in 1..Len(f) : j < k => chunk_end(f[j]) < f[k].at
    <2> TAKE j, k \in 1..Len(f)
    <2>1. j < k => chunk_end(f[j]) <= f[k].at /\ chunk_end(f[j]) # f[k].at
      BY <1>1 DEF Loose
    <2>2. chunk_end(f[j]) \in Int /\ f[k].at \in Int BY <1>1
    <2> QED BY <2>1, <2>2
  <1>3. ASSUME NEW j \in 1..Len(f), NEW w \in Nat, Holds(f[j], w), j # i
        PROVE  w < f[i].at \/ w >= chunk_end(f[i])
    <2>1. /\ f[j].at <= w /\ w < chunk_end(f[j])
          /\ chunk_end(f[j]) < f[i].at \/ chunk_end(f[i]) < f[j].at
      BY <1>2, <1>3, <1>1 DEF Holds
    <2>2. /\ f[i].at \in Int /\ chunk_end(f[i]) \in Int
          /\ f[j].at \in Int /\ chunk_end(f[j]) \in Int
      BY <1>1
    <2> QED BY <2>1, <2>2
  <1>4. CASE splits(f[i], n)
    <2> DEFINE rest == chunk_at(f[i].at + n, f[i].len - n)
               m == i - 1
    <2>1. r = Splice(f, m, rest, i)
      <3>1. r = SubSeq(f, 1, m) \o <<rest>> \o SubSeq(f, i + 1, Len(f))
        BY <1>4 DEF take
      <3> QED BY <3>1 DEF Splice
    <2>2. /\ rest.at = f[i].at + n /\ rest.len = f[i].len - n
          /\ rest \in [at : Nat, len : Nat] /\ rest.len >= FreeHeader
          /\ chunk_end(rest) = chunk_end(f[i])
      <3>1. f[i].at \in Nat /\ f[i].len \in Nat /\ f[i].len > n + FreeHeader
            /\ chunk_end(f[i]) = f[i].at + f[i].len
        BY <1>1, <1>4 DEF splits
      <3>2. n \in Nat /\ FreeHeader \in Nat BY HeapSizes
      <3> DEFINE x == f[i].at
                 y == f[i].len
      <3>3. /\ x + n \in Nat /\ y - n \in Nat /\ y - n >= FreeHeader
            /\ (x + n) + (y - n) = x + y
        <4>1. x \in Nat /\ y \in Nat /\ y > n + FreeHeader BY <3>1
        <4> HIDE DEF x, y
        <4> QED BY <3>2, <4>1
      <3>4. rest = [at |-> x + n, len |-> y - n] BY DEF chunk_at
      <3> HIDE DEF x, y, rest
      <3>5. rest.at = x + n /\ rest.len = y - n BY <3>4
      <3>6. rest \in [at : Nat, len : Nat] BY <3>3, <3>4
      <3>7. chunk_end(rest) = x + y BY <3>3, <3>5 DEF chunk_end
      <3> QED BY <3>1, <3>3, <3>5, <3>6, <3>7 DEF x, y
    <2>3. rest \in Chunks BY <2>2, <1>1 DEF Chunks
    <2>4. /\ m \in 0..Len(f) /\ i \in m..Len(f) /\ m + 1 = i /\ i - m = 1
      BY <1>1
    <2>5. kept(f[i], n) = n BY <1>4 DEF kept
    <2> HIDE DEF rest, m, r
    <2>6. Splice(f, m, rest, i) \in Seq(Chunks)
      BY <2>3, <2>4, SpliceAt
    <2>7. Len(Splice(f, m, rest, i)) = Len(f) + 1 - (i - m)
      BY ONLY f \in Seq(Chunks), i \in 1..Len(f), <2>3, <2>4, SpliceAt
    <2>8. \A j \in 1..(m + 1) :
            Splice(f, m, rest, i)[j] = IF j <= m THEN f[j] ELSE rest
      BY ONLY f \in Seq(Chunks), <2>3, <2>4, SpliceAt
    <2>9. \A j \in (i + 1)..Len(f) :
            Splice(f, m, rest, i)[j + 1 - (i - m)] = f[j]
      BY ONLY f \in Seq(Chunks), <2>3, <2>4, SpliceAt
    <2>10. r \in Seq(Chunks) /\ Len(r) = Len(f) /\ DOMAIN r = 1..Len(f)
      <3>1. r \in Seq(Chunks) /\ Len(r) = Len(f)
        BY <1>1, <2>1, <2>4, <2>6, <2>7
      <3> QED BY <3>1
    <2>11. \A j \in 1..Len(f) : r[j] = IF j = i THEN rest ELSE f[j]
      <3> TAKE j \in 1..Len(f)
      <3>1. CASE j <= m BY <3>1, <1>1, <2>1, <2>4, <2>8
      <3>2. CASE j = i BY <3>2, <1>1, <2>1, <2>4, <2>8
      <3>3. CASE j > i
        <4>1. j \in (i + 1)..Len(f) /\ j + 1 - (i - m) = j
          BY <3>3, <1>1, <2>4
        <4> QED BY <4>1, <2>1, <2>9
      <3> QED BY <3>1, <3>2, <3>3, <2>4, <1>1
    <2>12. \A j \in 1..Len(f) :
             r[j].at >= f[j].at /\ r[j].at \in Nat /\ chunk_end(r[j]) = chunk_end(f[j])
      BY <1>1, <2>2, <2>11, SMTT(30)
    <2>13. Loose(r, {})
      <3> SUFFICES ASSUME NEW j \in 1..Len(f), NEW k \in 1..Len(f), j < k
                   PROVE  chunk_end(r[j]) < r[k].at /\ chunk_end(r[j]) \in Int
                          /\ r[k].at \in Int
        BY <2>10 DEF Loose
      <3>1. chunk_end(f[j]) < f[k].at BY <1>2
      <3>2. r[k].at >= f[k].at /\ chunk_end(r[j]) = chunk_end(f[j])
            /\ r[k].at \in Int /\ f[k].at \in Int /\ chunk_end(f[j]) \in Int
        BY <2>12, <1>1
      <3> QED BY <3>1, <3>2
    <2>14. ASSUME NEW w \in Nat
           PROVE  Covers(r, w) <=> Covers(f, w) /\ ~taken(w)
      <3>1. Holds(rest, w) <=> Holds(f[i], w) /\ ~taken(w)
        <4>1. f[i].at \in Nat /\ f[i].len \in Nat
              /\ chunk_end(f[i]) = f[i].at + f[i].len
          BY <1>1
        <4> QED BY <4>1, <2>2, <2>5 DEF Holds
      <3>2. ASSUME NEW j \in 1..Len(f), j # i, Holds(f[j], w) PROVE ~taken(w)
        <4>1. w < f[i].at \/ w >= chunk_end(f[i]) BY <3>2, <1>3
        <4>2. f[i].at \in Nat /\ f[i].len \in Nat /\ n <= f[i].len
              /\ chunk_end(f[i]) = f[i].at + f[i].len
          BY <1>1
        <4> QED BY <4>1, <4>2, <2>5, SMTT(30)
      <3>3. ASSUME Covers(r, w) PROVE Covers(f, w) /\ ~taken(w)
        <4>1. PICK j \in 1..Len(f) : Holds(r[j], w)
          BY <3>3, <2>10 DEF Covers
        <4>2. CASE j = i
          <5>1. r[j] = rest BY <4>2, <2>11
          <5>2. Holds(f[i], w) /\ ~taken(w) BY <4>1, <5>1, <3>1
          <5> QED BY <5>2, <1>1 DEF Covers
        <4>3. CASE j # i
          <5>1. Holds(f[j], w) BY <4>1, <4>3, <2>11
          <5>2. ~taken(w) BY <5>1, <4>3, <3>2
          <5> QED BY <5>1, <5>2, <1>1 DEF Covers
        <4> QED BY <4>2, <4>3
      <3>4. ASSUME Covers(f, w), ~taken(w) PROVE Covers(r, w)
        <4>1. PICK j \in 1..Len(f) : Holds(f[j], w)
          BY <3>4, <1>1 DEF Covers
        <4>2. Holds(r[j], w)
          <5>1. CASE j = i
            <6>1. Holds(rest, w) BY <4>1, <5>1, <3>4, <3>1
            <6> QED BY <6>1, <5>1, <2>11
          <5>2. CASE j # i BY <4>1, <5>2, <2>11
          <5> QED BY <5>1, <5>2
        <4> QED BY <4>2, <2>10 DEF Covers
      <3> QED BY <3>3, <3>4
    <2> QED BY <2>10, <2>13, <2>14 DEF r
  <1>5. CASE ~splits(f[i], n)
    <2>1. r = CutOut(f, i)
      <3>1. r = SubSeq(f, 1, i - 1) \o <<>> \o SubSeq(f, i + 1, Len(f))
        BY <1>5 DEF take
      <3>2. SubSeq(f, 1, i - 1) \in Seq(Chunks)
        BY <1>1, SubSeqProperties
      <3>3. SubSeq(f, 1, i - 1) \o <<>> = SubSeq(f, 1, i - 1)
        BY <3>2, ConcatEmptySeq
      <3> QED BY <3>1, <3>3 DEF CutOut
    <2>2. kept(f[i], n) = f[i].len BY <1>5 DEF kept
    <2> HIDE DEF r
    <2>3. /\ r \in Seq(Chunks) /\ Len(r) = Len(f) - 1
          /\ \A j \in 1..(Len(f) - 1) : r[j] = IF j < i THEN f[j] ELSE f[j + 1]
      <3>1. /\ CutOut(f, i) \in Seq(Chunks) /\ Len(CutOut(f, i)) = Len(f) - 1
            /\ \A j \in 1..(Len(f) - 1) :
                 CutOut(f, i)[j] = IF j < i THEN f[j] ELSE f[j + 1]
        BY CutOutAt
      <3> QED BY <3>1, <2>1
    <2>4. DOMAIN r = 1..(Len(f) - 1) BY <2>3
    <2> DEFINE pl(j) == IF j < i THEN j ELSE j + 1
    <2>5. ASSUME NEW j \in 1..(Len(f) - 1)
          PROVE  pl(j) \in 1..Len(f) /\ pl(j) # i /\ r[j] = f[pl(j)]
      BY <1>1, <2>3
    <2>6. Loose(r, {})
      <3> SUFFICES ASSUME NEW j \in 1..(Len(f) - 1), NEW k \in 1..(Len(f) - 1),
                          j < k
                   PROVE  chunk_end(r[j]) < r[k].at /\ chunk_end(r[j]) \in Int
                          /\ r[k].at \in Int
        BY <2>4 DEF Loose
      <3>1. pl(j) < pl(k) BY <1>1
      <3>2. /\ pl(j) \in 1..Len(f) /\ r[j] = f[pl(j)]
            /\ pl(k) \in 1..Len(f) /\ r[k] = f[pl(k)]
        BY <2>5
      <3> HIDE DEF pl
      <3>3. chunk_end(f[pl(j)]) < f[pl(k)].at BY <3>1, <3>2, <1>2
      <3>4. f[pl(k)].at \in Int /\ chunk_end(f[pl(j)]) \in Int BY <3>2, <1>1
      <3> QED BY <3>2, <3>3, <3>4
    <2>7. ASSUME NEW w \in Nat
          PROVE  Covers(r, w) <=> Covers(f, w) /\ ~taken(w)
      <3>1. taken(w) <=> Holds(f[i], w) BY <2>2, <1>1 DEF Holds
      <3>2. ASSUME Covers(r, w) PROVE Covers(f, w) /\ ~taken(w)
        <4>1. PICK j \in 1..(Len(f) - 1) : Holds(r[j], w)
          BY <3>2, <2>4 DEF Covers
        <4>2. PICK k \in 1..Len(f) : k # i /\ r[j] = f[k] BY <2>5
        <4>3. w < f[i].at \/ w >= chunk_end(f[i]) BY <4>1, <4>2, <1>3
        <4>4. ~Holds(f[i], w) BY <4>3, <1>1 DEF Holds
        <4> QED BY <4>1, <4>2, <4>4, <3>1, <1>1 DEF Covers
      <3>3. ASSUME Covers(f, w), ~taken(w) PROVE Covers(r, w)
        <4>1. PICK k \in 1..Len(f) : Holds(f[k], w)
          BY <3>3, <1>1 DEF Covers
        <4>2. k # i BY <4>1, <3>1, <3>3
        <4>3. PICK j \in 1..(Len(f) - 1) : r[j] = f[k]
          <5>1. CASE k < i
            <6>1. k \in 1..(Len(f) - 1) /\ r[k] = f[k] BY <5>1, <1>1, <2>3
            <6> QED BY <6>1
          <5>2. CASE k > i
            <6>1. k - 1 \in 1..(Len(f) - 1) /\ ~(k - 1 < i) /\ (k - 1) + 1 = k
              BY <5>2, <1>1
            <6>2. r[k - 1] = f[k] BY <6>1, <2>3
            <6> QED BY <6>1, <6>2
          <5> QED BY <5>1, <5>2, <4>2
        <4> QED BY <4>1, <4>3, <2>4 DEF Covers
      <3> QED BY <3>2, <3>3
    <2> QED BY <2>3, <2>6, <2>7 DEF r
  <1> QED BY <1>4, <1>5

LEMMA Multiples ==
  ASSUME NEW k \in Nat, NEW a \in Nat \ {0}
  PROVE  (k * a) % a = 0
  OBVIOUS

\* Rounding up to a unit goes to the next multiple, which its divisors divide.
LEMMA RoundUp ==
  ASSUME NEW n \in Nat, NEW unit \in Nat \ {0}
  PROVE  /\ round_up(n, unit) \in Nat
         /\ n <= round_up(n, unit) /\ round_up(n, unit) < n + unit
         /\ \A a \in Nat \ {0} : unit % a = 0 => round_up(n, unit) % a = 0
  <1> DEFINE x == n + unit - 1
             q == x \div unit
  <1>1. x \in Nat /\ x = n + unit - 1 OBVIOUS
  <1>2. round_up(n, unit) = q * unit BY DEF round_up
  <1> HIDE DEF x
  <1>3. q \in Nat /\ x % unit \in 0..(unit - 1) /\ x = q * unit + (x % unit)
    BY <1>1
  <1> HIDE DEF q
  <1>4. q * unit \in Nat BY <1>3
  <1>5. n <= q * unit /\ q * unit < n + unit
    <2> DEFINE p == q * unit
               o == x % unit
    <2>1. p \in Nat /\ o \in 0..(unit - 1) /\ n + unit - 1 = p + o
      BY <1>1, <1>3, <1>4
    <2> HIDE DEF p, o
    <2>2. n <= p /\ p < n + unit BY <2>1
    <2> QED BY <2>2 DEF p
  <1>6. ASSUME NEW a \in Nat \ {0}, unit % a = 0 PROVE (q * unit) % a = 0
    <2> DEFINE d == unit \div a
    <2>1. d \in Nat /\ unit = a * d BY <1>6
    <2> HIDE DEF d
    <2>2. q * unit = (q * d) * a BY <2>1, <1>3
    <2>3. q * d \in Nat BY <2>1, <1>3
    <2> DEFINE k == q * d
    <2>4. k \in Nat /\ q * unit = k * a BY <2>2, <2>3
    <2> HIDE DEF k
    <2>5. (k * a) % a = 0 BY <2>4, Multiples
    <2> QED BY <2>4, <2>5
  <1> QED BY <1>2, <1>4, <1>5, <1>6

\* What heap_alloc looks for covers a header, and the size asked for behind
\* the header and the alignment.
LEMMA NeedIsEnough ==
  ASSUME NEW size \in Sizes, NEW alignment \in Alignments
  PROVE  /\ need(size, alignment) \in Nat
         /\ need(size, alignment) >= FreeHeader
         /\ alignment_used(alignment) \in Nat
         /\ size + AllocHeader + alignment_used(alignment)
              <= need(size, alignment)
         /\ alignment > 0 => /\ alignment_used(alignment) > 0
                             /\ alignment_used(alignment) % alignment = 0
  <1>1. size \in Nat /\ alignment \in Nat BY HeapAssumption
  <1>2. alignment_used(alignment) \in Nat
    BY <1>1, HeapSizes DEF alignment_used
  <1>3. alignment > 0 => /\ alignment_used(alignment) > 0
                         /\ alignment_used(alignment) % alignment = 0
    <2>1. CASE alignment > 0 /\ alignment < MinAlignment
      <3>1. alignment_used(alignment) = MinAlignment
        BY <2>1 DEF alignment_used
      <3>2. alignment \in Alignments \ {0} BY <2>1, <1>1
      <3>3. MinAlignment % alignment = 0 BY <2>1, <3>2, HeapAssumption
      <3> QED BY <3>1, <3>3, HeapSizes
    <2>2. CASE alignment > 0 /\ ~(alignment < MinAlignment)
      <3>1. alignment_used(alignment) = alignment
        BY <2>2 DEF alignment_used
      <3>2. (1 * alignment) % alignment = 0 /\ 1 * alignment = alignment
        BY <1>1, <2>2, Multiples
      <3> QED BY <2>2, <3>1, <3>2
    <2> QED BY <2>1, <2>2
  <1> QED BY <1>1, <1>2, <1>3, HeapSizes DEF need

\* A block lies at the beginning of the chunk it is made from, and its payload
\* in it.
LEMMA BlockInside ==
  ASSUME NEW c \in Chunks, NEW size \in Sizes, NEW alignment \in Alignments,
         c.len >= need(size, alignment)
  PROVE  /\ block(c, size, alignment) \in Blocks
         /\ \A w \in Nat :
              Holds(block(c, size, alignment), w) <=>
                c.at <= w /\ w < c.at + kept(c, need(size, alignment))
         /\ \A w \in Nat : Holds(block(c, size, alignment), w) => Holds(c, w)
  <1> DEFINE b == block(c, size, alignment)
             n == need(size, alignment)
             unit == alignment_used(alignment)
             first == c.at + AllocHeader
             payload == IF unit > 0 THEN round_up(first, unit) ELSE first
             len == kept(c, n)
  <1>1. /\ c.at \in Nat /\ c.len \in Nat /\ c.len >= FreeHeader
        /\ c.at + c.len <= HeapLen
        /\ size \in Nat /\ alignment \in Nat
    BY HeapAssumption DEF Chunks, chunk_end
  <1>2. /\ n \in Nat /\ n >= FreeHeader /\ unit \in Nat
        /\ size + AllocHeader + unit <= n /\ n <= c.len
        /\ alignment > 0 => unit > 0 /\ unit % alignment = 0
    BY NeedIsEnough
  <1>3. /\ b.at = c.at /\ b.len = len /\ b.payload = payload
        /\ b.size = size /\ b.alignment = alignment
        /\ b = [at |-> c.at, len |-> len, payload |-> payload,
                size |-> size, alignment |-> alignment]
    BY DEF block
  <1> HIDE DEF n, unit, b
  <1>4. len \in Nat /\ n <= len /\ len <= c.len BY <1>1, <1>2 DEF kept
  <1> HIDE DEF len
  <1>5. /\ payload \in Nat /\ first <= payload /\ payload <= first + unit
        /\ alignment > 0 => payload % alignment = 0
    <2>1. CASE unit > 0
      <3>1. first \in Nat /\ unit \in Nat \ {0} BY <2>1, <1>1, <1>2, HeapSizes
      <3>2. payload = round_up(first, unit) BY <2>1
      <3> HIDE DEF first, payload
      <3>3. /\ round_up(first, unit) \in Nat
            /\ first <= round_up(first, unit)
            /\ round_up(first, unit) < first + unit
            /\ \A a \in Nat \ {0} : unit % a = 0 => round_up(first, unit) % a = 0
        BY <3>1, RoundUp
      <3>4. ASSUME alignment > 0 PROVE payload % alignment = 0
        <4>1. alignment \in Nat \ {0} /\ unit % alignment = 0
          BY <3>4, <1>1, <1>2
        <4> QED BY <4>1, <3>2, <3>3
      <3> QED BY <3>1, <3>2, <3>3, <3>4
    <2>2. CASE ~(unit > 0)
      <3>1. ~(alignment > 0) BY <2>2, <1>2
      <3>2. payload = first BY <2>2
      <3> QED BY <3>1, <3>2, <1>1, <1>2, HeapSizes
    <2> QED BY <2>1, <2>2
  <1> HIDE DEF payload
  <1>6. b \in Blocks
    <2>1. chunk_end(b) = c.at + len BY <1>3 DEF chunk_end
    <2>2. b \in [at : Nat, len : Nat, payload : Nat, size : Sizes,
                 alignment : Alignments]
      BY <1>1, <1>3, <1>4, <1>5
    <2>3. b.len >= FreeHeader /\ chunk_end(b) <= HeapLen
      BY <2>1, <1>1, <1>2, <1>3, <1>4, HeapSizes
    <2>4. /\ b.at + AllocHeader <= b.payload
          /\ b.payload + b.size <= chunk_end(b)
      BY <2>1, <1>1, <1>2, <1>3, <1>4, <1>5, HeapSizes
    <2>5. b.alignment > 0 => b.payload % b.alignment = 0 BY <1>3, <1>5
    <2> QED BY <2>2, <2>3, <2>4, <2>5 DEF Blocks
  <1>7. ASSUME NEW w \in Nat
        PROVE  /\ Holds(b, w) <=> c.at <= w /\ w < c.at + len
               /\ Holds(b, w) => Holds(c, w)
    BY <1>1, <1>3, <1>4 DEF Holds, chunk_end
  <1> QED BY <1>6, <1>7 DEF b, len, n

LEMMA HeapStart ==
  HeapInit => HeapIInv
  <1> SUFFICES ASSUME HeapInit PROVE HeapIInv OBVIOUS
  <1> DEFINE c == chunk_at(0, HeapLen)
  <1>1. /\ c.at = 0 /\ c.len = HeapLen /\ chunk_end(c) = HeapLen
        /\ c \in [at : Nat, len : Nat]
    BY HeapSizes DEF chunk_at, chunk_end
  <1>2. c \in Chunks BY <1>1, HeapSizes DEF Chunks
  <1>3. free_list = <<c>> /\ blocks = {} BY DEF HeapInit
  <1> HIDE DEF c
  <1>4. /\ free_list \in Seq(Chunks) /\ DOMAIN free_list = {1}
        /\ free_list[1] = c
    BY <1>2, <1>3
  <1>5. Loose(free_list, {}) BY <1>4 DEF Loose
  <1>6. WordsApart BY <1>3 DEF WordsApart
  <1>7. NoWordLost
    <2> SUFFICES ASSUME NEW w \in 0..(HeapLen - 1) PROVE Covers(free_list, w)
      BY DEF NoWordLost
    <2>1. Holds(c, w) BY <1>1, HeapSizes DEF Holds
    <2> QED BY <2>1, <1>4 DEF Covers
  <1> QED BY <1>3, <1>4, <1>5, <1>6, <1>7 DEF HeapIInv

\* Taking a block from the list.
LEMMA HeapAlloc ==
  ASSUME HeapIInv, NEW size \in Sizes, NEW alignment \in Alignments,
         heap_alloc(size, alignment)
  PROVE  HeapIInv'
  <1> DEFINE n == need(size, alignment)
  <1>1. CASE UNCHANGED heap_vars
    BY <1>1 DEF HeapIInv, WordsApart, NoWordLost, heap_vars
  <1>2. CASE \E i \in first_fit(free_list, n) :
               /\ free_list' = take(free_list, i, n)
               /\ blocks' = blocks \cup {block(free_list[i], size, alignment)}
    <2>1. PICK i \in first_fit(free_list, n) :
            /\ free_list' = take(free_list, i, n)
            /\ blocks' = blocks \cup {block(free_list[i], size, alignment)}
      BY <1>2
    <2>2. free_list \in Seq(Chunks) /\ Loose(free_list, {})
          /\ blocks \in SUBSET Blocks
      BY DEF HeapIInv
    <2>3. i \in 1..Len(free_list) /\ free_list[i].len >= n
      BY <2>2 DEF first_fit
    <2>4. n \in Nat /\ n > 0
      BY NeedIsEnough, HeapSizes
    <2> HIDE DEF n
    <2>5. /\ take(free_list, i, n) \in Seq(Chunks)
          /\ Loose(take(free_list, i, n), {})
          /\ \A w \in Nat :
               Covers(take(free_list, i, n), w) <=>
                 /\ Covers(free_list, w)
                 /\ ~( /\ free_list[i].at <= w
                       /\ w < free_list[i].at + kept(free_list[i], n) )
      BY <2>2, <2>3, <2>4, TakeKeeps
    <2>6. PICK b : b = block(free_list[i], size, alignment) OBVIOUS
    <2>7. free_list[i] \in Chunks BY <2>2, <2>3
    <2>8. /\ b \in Blocks
          /\ \A w \in Nat :
               Holds(b, w) <=>
                 /\ free_list[i].at <= w
                 /\ w < free_list[i].at + kept(free_list[i], n)
          /\ \A w \in Nat : Holds(b, w) => Holds(free_list[i], w)
      BY <2>3, <2>6, <2>7, BlockInside DEF n
    <2>9. blocks' = blocks \cup {b} BY <2>1, <2>6
    <2>10. \A w \in Nat : Covers(free_list', w) <=>
                            Covers(free_list, w) /\ ~Holds(b, w)
      BY <2>1, <2>5, <2>8
    <2>11. \A w \in Nat : Holds(b, w) => Covers(free_list, w)
      <3>1. i \in DOMAIN free_list BY <2>2, <2>3
      <3> QED BY <3>1, <2>8 DEF Covers
    <2>12. free_list' \in Seq(Chunks) /\ Loose(free_list', {})
           /\ blocks' \in SUBSET Blocks
      BY <2>1, <2>2, <2>5, <2>8, <2>9
    <2>13. WordsApart'
      <3> SUFFICES ASSUME NEW w \in Nat
                   PROVE  /\ \A d, e \in blocks' :
                               Holds(d, w) /\ Holds(e, w) => d = e
                          /\ \A d \in blocks' :
                               Holds(d, w) => ~Covers(free_list', w)
        BY DEF WordsApart
      <3>1. /\ \A d, e \in blocks : Holds(d, w) /\ Holds(e, w) => d = e
            /\ \A d \in blocks : Holds(d, w) => ~Covers(free_list, w)
        BY DEF HeapIInv, WordsApart
      <3> QED BY <3>1, <2>9, <2>10, <2>11
    <2>14. NoWordLost'
      <3> SUFFICES ASSUME NEW w \in 0..(HeapLen - 1)
                   PROVE  \/ Covers(free_list', w)
                          \/ \E d \in blocks' : Holds(d, w)
        BY DEF NoWordLost
      <3>1. w \in Nat BY HeapSizes
      <3>2. Covers(free_list, w) \/ \E d \in blocks : Holds(d, w)
        BY DEF HeapIInv, NoWordLost
      <3> QED BY <3>1, <3>2, <2>9, <2>10
    <2> QED BY <2>12, <2>13, <2>14 DEF HeapIInv
  <1> QED BY <1>1, <1>2 DEF heap_alloc

\* Giving a block back.
LEMMA HeapFree ==
  ASSUME HeapIInv, NEW b \in blocks, heap_free(b)
  PROVE  HeapIInv'
  <1>1. free_list \in Seq(Chunks) /\ Loose(free_list, {})
        /\ blocks \in SUBSET Blocks /\ b \in Blocks
    BY DEF HeapIInv
  <1>2. PICK c : c = chunk_at(b.at, b.len) OBVIOUS
  <1>3. c \in Chunks /\ \A w \in Nat : Holds(c, w) <=> Holds(b, w)
    <2>1. c.at = b.at /\ c.len = b.len /\ c = [at |-> b.at, len |-> b.len]
      BY <1>2 DEF chunk_at
    <2>2. b.at \in Nat /\ b.len \in Nat /\ b.len >= FreeHeader
          /\ chunk_end(b) <= HeapLen
      BY <1>1 DEF Blocks
    <2>3. chunk_end(c) = chunk_end(b) BY <2>1 DEF chunk_end
    <2>4. c \in [at : Nat, len : Nat] BY <2>1, <2>2
    <2> QED BY <2>1, <2>2, <2>3, <2>4 DEF Chunks, Holds
  <1>4. \A w \in Nat : Holds(c, w) => ~Covers(free_list, w)
    BY <1>3 DEF HeapIInv, WordsApart
  <1>5. /\ heap_insert_free_chunk(free_list, c) \in Seq(Chunks)
        /\ Loose(heap_insert_free_chunk(free_list, c), {})
        /\ \A w \in Nat : Covers(heap_insert_free_chunk(free_list, c), w)
                            <=> (Covers(free_list, w) \/ Holds(c, w))
    BY <1>1, <1>3, <1>4, InsertFree
  <1>6. /\ free_list' = heap_insert_free_chunk(free_list, c)
        /\ blocks' = blocks \ {b}
    BY <1>2 DEF heap_free
  <1>7. \A w \in Nat : Covers(free_list', w) <=>
                         (Covers(free_list, w) \/ Holds(b, w))
    BY <1>3, <1>5, <1>6
  <1>8. free_list' \in Seq(Chunks) /\ Loose(free_list', {})
        /\ blocks' \in SUBSET Blocks
    BY <1>1, <1>5, <1>6
  <1>9. WordsApart'
    <2> SUFFICES ASSUME NEW w \in Nat
                 PROVE  /\ \A d, e \in blocks' :
                             Holds(d, w) /\ Holds(e, w) => d = e
                        /\ \A d \in blocks' :
                             Holds(d, w) => ~Covers(free_list', w)
      BY DEF WordsApart
    <2>1. /\ \A d, e \in blocks : Holds(d, w) /\ Holds(e, w) => d = e
          /\ \A d \in blocks : Holds(d, w) => ~Covers(free_list, w)
      BY DEF HeapIInv, WordsApart
    <2> QED BY <2>1, <1>6, <1>7
  <1>10. NoWordLost'
    <2> SUFFICES ASSUME NEW w \in 0..(HeapLen - 1)
                 PROVE  \/ Covers(free_list', w)
                        \/ \E d \in blocks' : Holds(d, w)
      BY DEF NoWordLost
    <2>1. w \in Nat BY HeapSizes
    <2>2. Covers(free_list, w) \/ \E d \in blocks : Holds(d, w)
      BY DEF HeapIInv, NoWordLost
    <2> QED BY <2>1, <2>2, <1>6, <1>7
  <1> QED BY <1>8, <1>9, <1>10 DEF HeapIInv

LEMMA HeapStep ==
  HeapIInv /\ [HeapNext]_heap_vars => HeapIInv'
  <1> SUFFICES ASSUME HeapIInv, [HeapNext]_heap_vars PROVE HeapIInv'
    OBVIOUS
  <1>1. CASE UNCHANGED heap_vars
    BY <1>1 DEF HeapIInv, WordsApart, NoWordLost, heap_vars
  <1>2. ASSUME NEW size \in Sizes, NEW alignment \in Alignments,
               heap_alloc(size, alignment)
        PROVE  HeapIInv'
    BY <1>2, HeapAlloc
  <1>3. ASSUME NEW b \in blocks, heap_free(b) PROVE HeapIInv'
    BY <1>3, HeapFree
  <1> QED BY <1>1, <1>2, <1>3 DEF HeapNext

\* What the inductive invariant says is what holds between two calls: with the
\* list in order, no two of its chunks hold a word.
LEMMA HeapSound ==
  HeapIInv => HeapInv
  <1> SUFFICES ASSUME HeapIInv PROVE HeapInv OBVIOUS
  <1>1. /\ free_list \in Seq(Chunks) /\ Loose(free_list, {})
        /\ blocks \in SUBSET Blocks
        /\ Len(free_list) \in Nat /\ DOMAIN free_list = 1..Len(free_list)
    BY DEF HeapIInv
  <1>2. ASSUME NEW i \in 1..Len(free_list)
        PROVE  /\ free_list[i].at \in Nat /\ free_list[i].len \in Nat
               /\ free_list[i].len >= FreeHeader
               /\ chunk_end(free_list[i]) = free_list[i].at + free_list[i].len
               /\ chunk_end(free_list[i]) <= HeapLen
    <2>1. free_list[i] \in Chunks BY <1>1
    <2> QED BY <2>1 DEF Chunks, chunk_end
  <1>3. ASSUME NEW b \in blocks
        PROVE  /\ b.at \in Nat /\ b.len \in Nat /\ b.len >= FreeHeader
               /\ b.payload \in Nat /\ b.size \in Nat /\ b.size \in Sizes
               /\ chunk_end(b) = b.at + b.len /\ chunk_end(b) <= HeapLen
               /\ b.at + AllocHeader <= b.payload
               /\ b.payload + b.size <= chunk_end(b)
               /\ b.alignment > 0 => b.payload % b.alignment = 0
    <2>1. b \in Blocks BY <1>1
    <2> QED BY <2>1, HeapAssumption DEF Blocks, chunk_end
  <1>4. ASSUME NEW i \in 1..Len(free_list), NEW j \in 1..Len(free_list), i < j
        PROVE  chunk_end(free_list[i]) < free_list[j].at
    <2>1. /\ chunk_end(free_list[i]) <= free_list[j].at
          /\ chunk_end(free_list[i]) # free_list[j].at
      BY <1>1, <1>4 DEF Loose
    <2>2. chunk_end(free_list[i]) \in Int /\ free_list[j].at \in Int BY <1>2
    <2> QED BY <2>1, <2>2
  <1>5. HeapTypeOK
    <2>1. ASSUME NEW i \in 1..Len(free_list)
          PROVE  /\ free_list[i].at \in 0..HeapLen
                 /\ free_list[i].len \in FreeHeader..HeapLen
      BY <1>2, HeapSizes
    <2>2. ASSUME NEW b \in blocks
          PROVE  /\ b.at \in 0..HeapLen /\ b.len \in FreeHeader..HeapLen
                 /\ b.payload \in 0..HeapLen /\ b.size \in Sizes
      BY <1>3, HeapSizes
    <2> QED BY <2>1, <2>2, <1>1 DEF HeapTypeOK, FreeChunks
  <1>6. HeapTiled
    <2> SUFFICES ASSUME NEW w \in 0..(HeapLen - 1)
                 PROVE  Cardinality({c \in FreeChunks \cup blocks :
                                       c.at <= w /\ w < chunk_end(c)}) = 1
      BY DEF HeapTiled
    <2> DEFINE H == {c \in FreeChunks \cup blocks :
                       c.at <= w /\ w < chunk_end(c)}
    <2>1. w \in Nat BY HeapSizes
    <2>2. \A c \in FreeChunks \cup blocks : c \in H <=> Holds(c, w)
      BY DEF Holds
    <2>3. \E c \in FreeChunks \cup blocks : Holds(c, w)
      <3>1. Covers(free_list, w) \/ \E b \in blocks : Holds(b, w)
        BY DEF HeapIInv, NoWordLost
      <3> QED BY <3>1 DEF Covers, FreeChunks
    <2>4. PICK c \in FreeChunks \cup blocks : Holds(c, w) BY <2>3
    <2>5. ASSUME NEW d \in FreeChunks \cup blocks, Holds(d, w) PROVE d = c
      <3>1. /\ \A x, y \in blocks : Holds(x, w) /\ Holds(y, w) => x = y
            /\ \A x \in blocks : Holds(x, w) => ~Covers(free_list, w)
        BY <2>1 DEF HeapIInv, WordsApart
      <3>2. \A x \in FreeChunks : Holds(x, w) => Covers(free_list, w)
        BY DEF FreeChunks, Covers
      <3>3. ASSUME NEW x \in FreeChunks, NEW y \in FreeChunks,
                   Holds(x, w), Holds(y, w)
            PROVE  x = y
        <4>1. PICK i \in 1..Len(free_list) : x = free_list[i]
          BY <1>1 DEF FreeChunks
        <4>2. PICK j \in 1..Len(free_list) : y = free_list[j]
          BY <1>1 DEF FreeChunks
        <4>3. ASSUME NEW k \in 1..Len(free_list), NEW l \in 1..Len(free_list),
                     k < l, Holds(free_list[k], w), Holds(free_list[l], w)
              PROVE  FALSE
          <5>1. chunk_end(free_list[k]) < free_list[l].at BY <4>3, <1>4
          <5>2. w < chunk_end(free_list[k]) /\ free_list[l].at <= w
            BY <4>3 DEF Holds
          <5>3. chunk_end(free_list[k]) \in Int /\ free_list[l].at \in Int
            BY <1>2
          <5> QED BY <5>1, <5>2, <5>3, <2>1
        <4>4. ~(i < j) /\ ~(j < i) BY <3>3, <4>1, <4>2, <4>3
        <4>5. i = j BY <4>4
        <4> QED BY <4>1, <4>2, <4>5
      <3> QED BY <3>1, <3>2, <3>3, <2>4, <2>5
    <2>6. H = {c} BY <2>2, <2>4, <2>5
    <2>7. Cardinality({c}) = 1 BY FS_Singleton
    <2> QED BY <2>6, <2>7
  <1>7. FreeListMerged
    <2> SUFFICES ASSUME NEW i \in 1..(Len(free_list) - 1)
                 PROVE  chunk_end(free_list[i]) < free_list[i + 1].at
      BY DEF FreeListMerged
    <2>1. i \in 1..Len(free_list) /\ i + 1 \in 1..Len(free_list) /\ i < i + 1
      BY <1>1
    <2> QED BY <2>1, <1>4
  <1>8. PayloadInside BY <1>3 DEF PayloadInside
  <1> QED BY <1>5, <1>6, <1>7, <1>8 DEF HeapInv

\* No word of the heap is lost and none is handed out twice, whatever is
\* allocated and freed in whatever order; free chunks that touch are merged,
\* and every payload is aligned and lies in its block.
THEOREM HeapIsTiled == HeapSpec => []HeapInv
  <1>1. HeapInit => HeapIInv BY HeapStart
  <1>2. HeapIInv /\ [HeapNext]_heap_vars => HeapIInv' BY HeapStep
  <1>3. HeapIInv => HeapInv BY HeapSound
  <1> QED BY <1>1, <1>2, <1>3, PTL DEF HeapSpec

-----------------------------------------------------------------------------
(* The tables of DRAM, as tables of intervals.                             *)

\* Entry x covers the address a, one of those with an index in D does, and no
\* two of them do.
covers(x, a) == x.start <= a /\ a < end_of(x)

CoveredIn(q, D, a) == \E i \in D : covers(q[i], a)
Apart(q, D) ==
  \A i, j \in D : \A a \in Nat : (covers(q[i], a) /\ covers(q[j], a)) => i = j

\* One entry of a table changes.
LEMMA OneReplaced ==
  ASSUME NEW D, NEW q, NEW r, NEW i \in D, Apart(q, D),
         \A j \in D \ {i} : r[j] = q[j],
         \A a \in Nat : covers(r[i], a) => ~CoveredIn(q, D \ {i}, a)
  PROVE  /\ Apart(r, D)
         /\ \A a \in Nat : CoveredIn(r, D, a) <=>
                             covers(r[i], a) \/ CoveredIn(q, D \ {i}, a)
  <1>1. Apart(r, D)
    <2> SUFFICES ASSUME NEW j \in D, NEW k \in D, NEW a \in Nat,
                        covers(r[j], a), covers(r[k], a)
                 PROVE  j = k
      BY DEF Apart
    <2>1. CASE j = i BY <2>1 DEF CoveredIn
    <2>2. CASE k = i BY <2>2 DEF CoveredIn
    <2>3. CASE j # i /\ k # i BY <2>3 DEF Apart
    <2> QED BY <2>1, <2>2, <2>3
  <1>2. \A a \in Nat : CoveredIn(r, D, a) <=>
                         covers(r[i], a) \/ CoveredIn(q, D \ {i}, a)
    BY DEF CoveredIn
  <1> QED BY <1>1, <1>2

\* An entry is put in behind the first k.
LEMMA OneInserted ==
  ASSUME NEW n \in Nat, NEW k \in 0..n, NEW q, NEW r, Apart(q, 1..n),
         \A j \in 1..(n + 1) :
           j # k + 1 => r[j] = IF j <= k THEN q[j] ELSE q[j - 1],
         \A a \in Nat : covers(r[k + 1], a) => ~CoveredIn(q, 1..n, a)
  PROVE  /\ Apart(r, 1..(n + 1))
         /\ \A a \in Nat : CoveredIn(r, 1..(n + 1), a) <=>
                             covers(r[k + 1], a) \/ CoveredIn(q, 1..n, a)
  <1> DEFINE was(j) == IF j <= k THEN j ELSE j - 1
  <1>1. \A j \in 1..(n + 1) : j # k + 1 =>
          was(j) \in 1..n /\ r[j] = q[was(j)]
    OBVIOUS
  <1>2. \A j, l \in 1..(n + 1) :
          (j # k + 1 /\ l # k + 1 /\ was(j) = was(l)) => j = l
    OBVIOUS
  <1>3. \A j \in 1..n : \E l \in 1..(n + 1) : l # k + 1 /\ was(l) = j
    <2> TAKE j \in 1..n
    <2>1. CASE j <= k BY <2>1
    <2>2. CASE j > k
      <3>1. j + 1 \in 1..(n + 1) /\ j + 1 # k + 1 /\ was(j + 1) = j BY <2>2
      <3> QED BY <3>1
    <2> QED BY <2>1, <2>2
  <1>4. k + 1 \in 1..(n + 1) OBVIOUS
  <1> HIDE DEF was
  <1>5. Apart(r, 1..(n + 1))
    <2> SUFFICES ASSUME NEW j \in 1..(n + 1), NEW l \in 1..(n + 1), NEW a \in Nat,
                        covers(r[j], a), covers(r[l], a)
                 PROVE  j = l
      BY DEF Apart
    <2>1. CASE j = k + 1
      <3>1. ~CoveredIn(q, 1..n, a) BY <2>1
      <3> QED BY <2>1, <3>1, <1>1 DEF CoveredIn
    <2>2. CASE l = k + 1
      <3>1. ~CoveredIn(q, 1..n, a) BY <2>2
      <3> QED BY <2>2, <3>1, <1>1 DEF CoveredIn
    <2>3. CASE j # k + 1 /\ l # k + 1
      <3>1. was(j) = was(l) BY <2>3, <1>1 DEF Apart
      <3> QED BY <2>3, <3>1, <1>2
    <2> QED BY <2>1, <2>2, <2>3
  <1>6. ASSUME NEW a \in Nat
        PROVE  CoveredIn(r, 1..(n + 1), a) <=>
                 covers(r[k + 1], a) \/ CoveredIn(q, 1..n, a)
    <2>1. CoveredIn(r, 1..(n + 1), a) =>
            covers(r[k + 1], a) \/ CoveredIn(q, 1..n, a)
      BY <1>1 DEF CoveredIn
    <2>2. covers(r[k + 1], a) => CoveredIn(r, 1..(n + 1), a)
      BY <1>4 DEF CoveredIn
    <2>3. CoveredIn(q, 1..n, a) => CoveredIn(r, 1..(n + 1), a)
      BY <1>1, <1>3 DEF CoveredIn
    <2> QED BY <2>1, <2>2, <2>3
  <1> QED BY <1>5, <1>6

\* The k-th entry is taken out.
LEMMA OneRemoved ==
  ASSUME NEW n \in Nat, NEW k \in 1..n, NEW q, NEW r, Apart(q, 1..n),
         \A j \in 1..(n - 1) : r[j] = IF j < k THEN q[j] ELSE q[j + 1]
  PROVE  /\ Apart(r, 1..(n - 1))
         /\ \A a \in Nat : CoveredIn(r, 1..(n - 1), a) <=>
                             CoveredIn(q, (1..n) \ {k}, a)
  <1> DEFINE was(j) == IF j < k THEN j ELSE j + 1
  <1>1. \A j \in 1..(n - 1) : was(j) \in (1..n) \ {k} /\ r[j] = q[was(j)]
    OBVIOUS
  <1>2. \A j, l \in 1..(n - 1) : was(j) = was(l) => j = l
    OBVIOUS
  <1>3. \A j \in (1..n) \ {k} : \E l \in 1..(n - 1) : was(l) = j
    <2> TAKE j \in (1..n) \ {k}
    <2>1. CASE j < k
      <3>1. j \in 1..(n - 1) /\ was(j) = j BY <2>1
      <3> QED BY <3>1
    <2>2. CASE j > k
      <3>1. j - 1 \in 1..(n - 1) /\ was(j - 1) = j BY <2>2
      <3> QED BY <3>1
    <2> QED BY <2>1, <2>2
  <1> HIDE DEF was
  <1>4. Apart(r, 1..(n - 1))
    <2> SUFFICES ASSUME NEW j \in 1..(n - 1), NEW l \in 1..(n - 1), NEW a \in Nat,
                        covers(r[j], a), covers(r[l], a)
                 PROVE  j = l
      BY DEF Apart
    <2>1. was(j) = was(l) BY <1>1 DEF Apart
    <2> QED BY <2>1, <1>2
  <1>5. \A a \in Nat : CoveredIn(r, 1..(n - 1), a) <=>
                         CoveredIn(q, (1..n) \ {k}, a)
    BY <1>1, <1>3 DEF CoveredIn
  <1> QED BY <1>4, <1>5

-----------------------------------------------------------------------------
(* The two tables.                                                         *)

\* A block or a record lies in one rank.
DramBlocks == [start : Nat, rank : Ranks, size : Nat]
DramRecords == [start : Nat, size : Nat]

InRank(x, r) == r <= x.start /\ end_of(x) <= rank_end(r)

TablesTyped ==
  /\ mblock \in Seq(DramBlocks)
  /\ \A i \in DOMAIN mblock : InRank(mblock[i], mblock[i].rank)
  /\ reserved \in [Slots -> DramRecords]
  /\ reserved_num \in 0..MaxReserved
  /\ \A i \in 1..reserved_num :
       reserved[i].size > 0 /\ \E r \in Ranks : InRank(reserved[i], r)

\* Every address is free or reserved, never both, and by one entry.
IsFree(a) == CoveredIn(mblock, 1..Len(mblock), a)
IsReserved(a) == CoveredIn(reserved, 1..reserved_num, a)

Tiled ==
  /\ Apart(mblock, 1..Len(mblock))
  /\ Apart(reserved, 1..reserved_num)
  /\ \A a \in Nat : ~(IsFree(a) /\ IsReserved(a))
  /\ \A r \in Ranks : \A a \in r..(rank_end(r) - 1) : IsFree(a) \/ IsReserved(a)

MblockIInv == TablesTyped /\ Tiled

\* A rank ends behind its start, where the next one starts if there is one.
LEMMA RankEnds ==
  ASSUME NEW r \in Ranks
  PROVE  /\ r \in Nat \ {0}
         /\ rank_end(r) \in Nat /\ r < rank_end(r) /\ rank_end(r) <= DramEnd
         /\ \A x \in Ranks : r < x => rank_end(r) <= x
  <1> DEFINE E == {e \in Ranks \cup {DramEnd} : r < e}
  <1>1. /\ r \in Nat \ {0} /\ r < DramEnd /\ DramEnd \in Nat
        /\ Ranks \subseteq Nat
    BY MblockAssumption
  <1>2. E \subseteq Nat /\ DramEnd \in E BY <1>1
  <1>3. PICK e \in E : \A y \in E : ~(<<y, e>> \in Below)
    BY <1>2, NatWellFounded, WFMin
  <1>4. \A y \in E : e <= y
    <2> HIDE DEF E
    <2>1. \A y \in E : ~(y < e) BY <1>2, <1>3 DEF Below
    <2> QED BY <1>2, <2>1
  <1>5. /\ e \in Ranks \cup {DramEnd} /\ r < e
        /\ \A x \in Ranks \cup {DramEnd} : r < x => e <= x
    BY <1>4
  <1>6. /\ rank_end(r) \in Ranks \cup {DramEnd} /\ r < rank_end(r)
        /\ \A x \in Ranks \cup {DramEnd} : r < x => rank_end(r) <= x
    BY <1>5 DEF rank_end
  <1>7. rank_end(r) <= DramEnd
    <2>1. \A x \in Ranks : x < DramEnd BY MblockAssumption
    <2> QED BY <1>1, <1>6, <2>1
  <1> QED BY <1>1, <1>6, <1>7

\* What is given back is in the rank it is in.
LEMMA RankFound ==
  ASSUME NEW start \in Nat, NEW size \in Nat,
         \E r \in Ranks : r <= start /\ start + size <= rank_end(r)
  PROVE  /\ free_block(start, size) \in DramBlocks
         /\ free_block(start, size).start = start
         /\ free_block(start, size).size = size
         /\ end_of(free_block(start, size)) = start + size
         /\ InRank(free_block(start, size), free_block(start, size).rank)
  <1> DEFINE r == rank_of(start, size)
  <1>1. r \in Ranks /\ r <= start /\ start + size <= rank_end(r)
    BY DEF rank_of
  <1> HIDE DEF r
  <1> QED BY <1>1 DEF free_block, DramBlocks, InRank, end_of, r

\* What is known of a block, and of a record.
LEMMA TypedBlock ==
  ASSUME TablesTyped, NEW i \in DOMAIN mblock
  PROVE  /\ mblock[i] \in DramBlocks /\ i \in 1..Len(mblock)
         /\ mblock[i].start \in Nat /\ mblock[i].size \in Nat
         /\ mblock[i].rank \in Ranks /\ mblock[i].start > 0
         /\ InRank(mblock[i], mblock[i].rank)
         /\ end_of(mblock[i]) = mblock[i].start + mblock[i].size
         /\ mblock[i] = [start |-> mblock[i].start, rank |-> mblock[i].rank,
                         size |-> mblock[i].size]
  <1>1. mblock[i] \in DramBlocks /\ i \in 1..Len(mblock)
    BY DEF TablesTyped
  <1>2. /\ mblock[i].start \in Nat /\ mblock[i].size \in Nat
        /\ mblock[i].rank \in Ranks
        /\ mblock[i] = [start |-> mblock[i].start, rank |-> mblock[i].rank,
                        size |-> mblock[i].size]
    BY <1>1 DEF DramBlocks
  <1>3. InRank(mblock[i], mblock[i].rank) BY DEF TablesTyped
  <1>4. mblock[i].start > 0
    BY <1>2, <1>3, RankEnds DEF InRank
  <1> QED BY <1>1, <1>2, <1>3, <1>4 DEF end_of

\* A block put in the place of one: what it is to be free of the others.
LEMMA BlockReplaced ==
  ASSUME TablesTyped, Apart(mblock, 1..Len(mblock)),
         NEW i \in DOMAIN mblock, NEW b \in DramBlocks, InRank(b, b.rank),
         NEW m, m = [mblock EXCEPT ![i] = b],
         \A a \in Nat :
           covers(b, a) => ~CoveredIn(mblock, (1..Len(mblock)) \ {i}, a)
  PROVE  /\ m \in Seq(DramBlocks) /\ Len(m) = Len(mblock)
         /\ \A j \in DOMAIN m : InRank(m[j], m[j].rank)
         /\ Apart(m, 1..Len(m))
         /\ \A a \in Nat : CoveredIn(m, 1..Len(m), a) <=>
              covers(b, a) \/ CoveredIn(mblock, (1..Len(mblock)) \ {i}, a)
  <1>1. /\ mblock \in Seq(DramBlocks) /\ i \in 1..Len(mblock)
        /\ \A j \in DOMAIN mblock : InRank(mblock[j], mblock[j].rank)
    BY TypedBlock DEF TablesTyped
  <1>2. m \in Seq(DramBlocks) /\ Len(m) = Len(mblock)
    BY <1>1, ExceptSeq
  <1>3. m[i] = b /\ \A j \in (1..Len(mblock)) \ {i} : m[j] = mblock[j]
    BY <1>1
  <1>4. \A j \in DOMAIN m : InRank(m[j], m[j].rank)
    BY <1>1, <1>2, <1>3
  <1>5. /\ Apart(m, 1..Len(mblock))
        /\ \A a \in Nat : CoveredIn(m, 1..Len(mblock), a) <=>
             covers(m[i], a) \/ CoveredIn(mblock, (1..Len(mblock)) \ {i}, a)
    BY <1>1, <1>3, OneReplaced
  <1> QED BY <1>2, <1>3, <1>4, <1>5

\* PutInAt for blocks.
LEMMA BlockPutIn ==
  ASSUME NEW q \in Seq(DramBlocks), NEW k \in 0..Len(q), NEW b \in DramBlocks
  PROVE  /\ PutIn(q, k, b) \in Seq(DramBlocks) /\ Len(PutIn(q, k, b)) = Len(q) + 1
         /\ \A j \in 1..(Len(q) + 1) :
              PutIn(q, k, b)[j] = IF j <= k THEN q[j]
                                  ELSE IF j = k + 1 THEN b ELSE q[j - 1]
  <1>1. q \in Seq(DramBlocks) /\ k \in 0..Len(q) /\ b \in DramBlocks
    OBVIOUS
  <1>2. PutIn(q, k, b) \in Seq(DramBlocks) BY <1>1, PutInAt
  <1>3. Len(PutIn(q, k, b)) = Len(q) + 1 BY <1>1, PutInAt
  <1>4. \A j \in 1..(Len(q) + 1) :
          PutIn(q, k, b)[j] = IF j <= k THEN q[j]
                              ELSE IF j = k + 1 THEN b ELSE q[j - 1]
    BY <1>1, PutInAt
  <1> QED BY <1>2, <1>3, <1>4

\* A block put in between.
LEMMA BlockInserted ==
  ASSUME NEW q \in Seq(DramBlocks), Apart(q, 1..Len(q)),
         \A j \in DOMAIN q : InRank(q[j], q[j].rank),
         NEW k \in 0..Len(q), NEW b \in DramBlocks, InRank(b, b.rank),
         NEW m, m = PutIn(q, k, b),
         \A a \in Nat : covers(b, a) => ~CoveredIn(q, 1..Len(q), a)
  PROVE  /\ m \in Seq(DramBlocks)
         /\ \A j \in DOMAIN m : InRank(m[j], m[j].rank)
         /\ Apart(m, 1..Len(m))
         /\ \A a \in Nat : CoveredIn(m, 1..Len(m), a) <=>
              covers(b, a) \/ CoveredIn(q, 1..Len(q), a)
  <1>1. /\ m \in Seq(DramBlocks) /\ Len(m) = Len(q) + 1
        /\ \A j \in 1..(Len(q) + 1) :
              m[j] = IF j <= k THEN q[j] ELSE IF j = k + 1 THEN b ELSE q[j - 1]
    BY BlockPutIn
  <1>2. Len(q) \in Nat /\ k \in Nat /\ k <= Len(q) OBVIOUS
  <1>3. m[k + 1] = b BY <1>1, <1>2
  <1>4. \A j \in 1..(Len(q) + 1) :
           j # k + 1 => m[j] = IF j <= k THEN q[j] ELSE q[j - 1]
    BY <1>1, <1>2
  <1>5. /\ Apart(m, 1..(Len(q) + 1))
        /\ \A a \in Nat : CoveredIn(m, 1..(Len(q) + 1), a) <=>
                            covers(m[k + 1], a) \/ CoveredIn(q, 1..Len(q), a)
    BY <1>2, <1>3, <1>4, OneInserted
  <1>6. ASSUME NEW j \in DOMAIN m PROVE InRank(m[j], m[j].rank)
    <2>1. j \in 1..(Len(q) + 1) BY <1>1
    <2>2. CASE j <= k
      <3>1. m[j] = q[j] /\ j \in DOMAIN q BY <1>1, <2>1, <2>2
      <3> QED BY <3>1
    <2>3. CASE j = k + 1 BY <1>3, <2>3
    <2>4. CASE j > k + 1
      <3>1. m[j] = q[j - 1] /\ j - 1 \in DOMAIN q BY <1>1, <1>2, <2>1, <2>4
      <3> QED BY <3>1
    <2> QED BY <1>2, <2>1, <2>2, <2>3, <2>4
  <1> QED BY <1>1, <1>3, <1>5, <1>6

\* What split leaves of a block.
LEMMA SplitLeaves ==
  ASSUME TablesTyped, Apart(mblock, 1..Len(mblock)),
         NEW i \in DOMAIN mblock, NEW addr \in Nat, NEW size \in Nat, size > 0,
         mblock[i].start <= addr, addr + size <= end_of(mblock[i]),
         NEW m, m = split(i, addr, size)
  PROVE  /\ m \in Seq(DramBlocks)
         /\ \A j \in DOMAIN m : InRank(m[j], m[j].rank)
         /\ Apart(m, 1..Len(m))
         /\ \A a \in Nat : CoveredIn(m, 1..Len(m), a) <=>
              CoveredIn(mblock, 1..Len(mblock), a)
                /\ ~(addr <= a /\ a < addr + size)
  <1> DEFINE s == mblock[i].start
             e == s + mblock[i].size
             rk == mblock[i].rank
             low == [start |-> s, rank |-> rk, size |-> addr - s]
             high == [start |-> addr + size, rank |-> rk, size |-> e - (addr + size)]
             others == (1..Len(mblock)) \ {i}
  <1>1. /\ i \in 1..Len(mblock) /\ s \in Nat /\ mblock[i].size \in Nat
        /\ e \in Nat /\ rk \in Ranks
        /\ s <= addr /\ addr + size <= e /\ e = end_of(mblock[i])
        /\ rk <= s /\ e <= rank_end(rk)
        /\ mblock[i] = [start |-> s, rank |-> rk, size |-> mblock[i].size]
    BY TypedBlock DEF InRank
  <1>2. /\ low \in DramBlocks /\ high \in DramBlocks
        /\ low.start = s /\ end_of(low) = addr /\ low.rank = rk
        /\ high.start = addr + size /\ end_of(high) = e /\ high.rank = rk
    BY <1>1 DEF DramBlocks, end_of
  <1>3. rank_end(rk) \in Nat /\ rk \in Nat BY <1>1, RankEnds
  <1>4. InRank(low, low.rank) /\ InRank(high, high.rank)
    BY <1>1, <1>2, <1>3 DEF InRank
  <1>5. /\ mblock \in Seq(DramBlocks)
        /\ \A j \in DOMAIN mblock : InRank(mblock[j], mblock[j].rank)
    BY DEF TablesTyped
  <1>6. [mblock EXCEPT ![i].size = addr - mblock[i].start]
           = [mblock EXCEPT ![i] = low]
    <2>1. [mblock[i] EXCEPT !.size = addr - mblock[i].start] = low
      BY <1>1, SMTT(30)
    <2> QED BY <2>1
  <1>7. [mblock EXCEPT ![i].start = addr + size, ![i].size = @ - size]
           = [mblock EXCEPT ![i] = [start |-> addr + size, rank |-> rk,
                                    size |-> mblock[i].size - size]]
    <2> DEFINE z == mblock[i].size - size
               c == [mblock[i] EXCEPT !.start = addr + size]
               d == [c EXCEPT !.size = z]
    <2>1. c = [start |-> addr + size, rank |-> rk, size |-> mblock[i].size]
      BY <1>1
    <2>2. d = [start |-> addr + size, rank |-> rk, size |-> z]
      <3> HIDE DEF c, z
      <3> QED BY <2>1
    <2>3. [mblock EXCEPT ![i].start = addr + size, ![i].size = @ - size]
            = [mblock EXCEPT ![i].start = addr + size, ![i].size = z]
      OBVIOUS
    <2>4. [mblock EXCEPT ![i] = d]
            = [mblock EXCEPT ![i].start = addr + size, ![i].size = z]
      <3> HIDE DEF z
      <3> QED BY Zenon
    <2> QED BY <2>2, <2>3, <2>4
  <1> HIDE DEF low, high
  <1>8. ASSUME NEW a \in Nat
        PROVE  /\ covers(mblock[i], a) <=> s <= a /\ a < e
               /\ covers(low, a) <=> s <= a /\ a < addr
               /\ covers(high, a) <=> addr + size <= a /\ a < e
               /\ covers(mblock[i], a) => ~CoveredIn(mblock, others, a)
               /\ CoveredIn(mblock, 1..Len(mblock), a) <=>
                    covers(mblock[i], a) \/ CoveredIn(mblock, others, a)
    BY <1>1, <1>2 DEF covers, CoveredIn, Apart
  <1> HIDE DEF s, e, others, rk
  <1>9. CASE addr = s
    <2>1. high = [start |-> addr + size, rank |-> rk,
                  size |-> mblock[i].size - size]
      BY <1>1, <1>9 DEF e, s, rk, high
    <2>2. m = [mblock EXCEPT ![i] = high]
      BY <1>7, <1>9, <2>1 DEF split, s
    <2>3. ASSUME NEW a \in Nat, covers(high, a)
          PROVE  ~CoveredIn(mblock, others, a)
      BY <1>1, <1>8, <1>9, <2>3
    <2>4. /\ m \in Seq(DramBlocks) /\ Len(m) = Len(mblock)
          /\ \A j \in DOMAIN m : InRank(m[j], m[j].rank)
          /\ Apart(m, 1..Len(m))
          /\ \A a \in Nat : CoveredIn(m, 1..Len(m), a) <=>
               covers(high, a) \/ CoveredIn(mblock, others, a)
      BY <2>2, <2>3, <1>2, <1>4, BlockReplaced DEF others
    <2>5. \A a \in Nat : CoveredIn(m, 1..Len(m), a) <=>
            CoveredIn(mblock, 1..Len(mblock), a)
              /\ ~(addr <= a /\ a < addr + size)
      <3> TAKE a \in Nat
      <3>1. CoveredIn(m, 1..Len(m), a) <=>
              covers(high, a) \/ CoveredIn(mblock, others, a)
        BY <2>4
      <3>2. /\ covers(mblock[i], a) <=> s <= a /\ a < e
            /\ covers(high, a) <=> addr + size <= a /\ a < e
            /\ covers(mblock[i], a) => ~CoveredIn(mblock, others, a)
            /\ CoveredIn(mblock, 1..Len(mblock), a) <=>
                 covers(mblock[i], a) \/ CoveredIn(mblock, others, a)
        BY <1>8
      <3>3. /\ s \in Nat /\ e \in Nat /\ a \in Nat /\ addr \in Nat
            /\ size \in Nat /\ s <= addr /\ addr + size <= e
        BY <1>1
      <3>4. /\ addr <= a /\ a < addr + size => s <= a /\ a < e
            /\ (addr + size <= a /\ a < e) <=>
                 (s <= a /\ a < e) /\ ~(addr <= a /\ a < addr + size)
        BY <3>3, <1>9
      <3> QED BY <3>1, <3>2, <3>4
    <2> QED BY <2>4, <2>5
  <1>10. ASSUME NEW l, l = [mblock EXCEPT ![i] = low]
         PROVE  /\ l \in Seq(DramBlocks) /\ Len(l) = Len(mblock)
                /\ \A j \in DOMAIN l : InRank(l[j], l[j].rank)
                /\ Apart(l, 1..Len(l))
                /\ \A a \in Nat : CoveredIn(l, 1..Len(l), a) <=>
                     covers(low, a) \/ CoveredIn(mblock, others, a)
    <2>1. ASSUME NEW a \in Nat, covers(low, a)
          PROVE  ~CoveredIn(mblock, others, a)
      BY <1>1, <1>8, <2>1
    <2> QED BY <1>10, <2>1, <1>2, <1>4, BlockReplaced DEF others
  <1>11. CASE addr # s /\ addr + size = e
    <2>1. m = [mblock EXCEPT ![i] = low]
      BY <1>1, <1>6, <1>11 DEF split, s
    <2>2. /\ m \in Seq(DramBlocks)
          /\ \A j \in DOMAIN m : InRank(m[j], m[j].rank)
          /\ Apart(m, 1..Len(m))
          /\ \A a \in Nat : CoveredIn(m, 1..Len(m), a) <=>
               covers(low, a) \/ CoveredIn(mblock, others, a)
      BY <1>10, <2>1
    <2>3. \A a \in Nat : CoveredIn(m, 1..Len(m), a) <=>
            CoveredIn(mblock, 1..Len(mblock), a)
              /\ ~(addr <= a /\ a < addr + size)
      <3> TAKE a \in Nat
      <3>1. CoveredIn(m, 1..Len(m), a) <=>
              covers(low, a) \/ CoveredIn(mblock, others, a)
        BY <2>2
      <3>2. /\ covers(mblock[i], a) <=> s <= a /\ a < e
            /\ covers(low, a) <=> s <= a /\ a < addr
            /\ covers(mblock[i], a) => ~CoveredIn(mblock, others, a)
            /\ CoveredIn(mblock, 1..Len(mblock), a) <=>
                 covers(mblock[i], a) \/ CoveredIn(mblock, others, a)
        BY <1>8
      <3>3. /\ s \in Nat /\ e \in Nat /\ a \in Nat /\ addr \in Nat
            /\ size \in Nat /\ s <= addr /\ addr + size <= e
        BY <1>1
      <3>4. /\ addr <= a /\ a < addr + size => s <= a /\ a < e
            /\ (s <= a /\ a < addr) <=>
                 (s <= a /\ a < e) /\ ~(addr <= a /\ a < addr + size)
        BY <3>3, <1>11
      <3> QED BY <3>1, <3>2, <3>4
    <2> QED BY <2>2, <2>3
  <1>12. CASE addr # s /\ addr + size # e
    <2> DEFINE l == [mblock EXCEPT ![i] = low]
    <2>1. /\ l \in Seq(DramBlocks) /\ Len(l) = Len(mblock)
          /\ \A j \in DOMAIN l : InRank(l[j], l[j].rank)
          /\ Apart(l, 1..Len(l))
          /\ \A a \in Nat : CoveredIn(l, 1..Len(l), a) <=>
               covers(low, a) \/ CoveredIn(mblock, others, a)
      BY <1>10
    <2>2. high = [start |-> addr + size,
                  size |-> end_of(mblock[i]) - (addr + size),
                  rank |-> mblock[i].rank]
      BY <1>1 DEF high, rk
    <2>3. m = SubSeq(l, 1, i) \o <<high>> \o SubSeq(l, i + 1, Len(mblock))
      BY <1>1, <1>6, <1>12, <2>2 DEF split, s
    <2> HIDE DEF l
    <2>4. m = PutIn(l, i, high) BY <2>1, <2>3 DEF PutIn
    <2>5. i \in 0..Len(l) BY <1>1, <2>1
    <2>6. \A a \in Nat : covers(high, a) => ~CoveredIn(l, 1..Len(l), a)
      BY <1>1, <1>8, <2>1
    <2>7. /\ m \in Seq(DramBlocks)
          /\ \A j \in DOMAIN m : InRank(m[j], m[j].rank)
          /\ Apart(m, 1..Len(m))
          /\ \A a \in Nat : CoveredIn(m, 1..Len(m), a) <=>
               covers(high, a) \/ CoveredIn(l, 1..Len(l), a)
      BY <1>2, <1>4, <2>1, <2>4, <2>5, <2>6, BlockInserted
    <2>8. \A a \in Nat : CoveredIn(m, 1..Len(m), a) <=>
            CoveredIn(mblock, 1..Len(mblock), a)
              /\ ~(addr <= a /\ a < addr + size)
      <3> SUFFICES ASSUME NEW a \in Nat
                   PROVE  CoveredIn(m, 1..Len(m), a) <=>
                            CoveredIn(mblock, 1..Len(mblock), a)
                              /\ ~(addr <= a /\ a < addr + size)
        OBVIOUS
      <3>1. CoveredIn(m, 1..Len(m), a) <=>
              \/ addr + size <= a /\ a < e
              \/ s <= a /\ a < addr
              \/ CoveredIn(mblock, others, a)
        BY <1>8, <2>1, <2>7
      <3>2. /\ CoveredIn(mblock, 1..Len(mblock), a) <=>
                 (s <= a /\ a < e) \/ CoveredIn(mblock, others, a)
            /\ s <= a /\ a < e => ~CoveredIn(mblock, others, a)
        BY <1>8
      <3> QED BY <1>1, <3>1, <3>2
    <2> QED BY <2>7, <2>8
  <1> QED BY <1>9, <1>11, <1>12

\* A block that was not free is put back beside another or by itself.
LEMMA PutBack ==
  ASSUME TablesTyped, Apart(mblock, 1..Len(mblock)),
         NEW b \in DramBlocks, InRank(b, b.rank), b.size > 0,
         \A a \in Nat : covers(b, a) => ~IsFree(a),
         NEW m,
         \/ m = insert_sorted(b)
         \/ \E i \in left_of(b) : m = grow_left(i, b)
         \/ \E i \in right_of(b) : m = grow_right(i, b)
  PROVE  /\ m \in Seq(DramBlocks)
         /\ \A j \in DOMAIN m : InRank(m[j], m[j].rank)
         /\ Apart(m, 1..Len(m))
         /\ \A a \in Nat : CoveredIn(m, 1..Len(m), a) <=> IsFree(a) \/ covers(b, a)
  <1>1. /\ b.start \in Nat /\ b.size \in Nat /\ b.rank \in Ranks
        /\ end_of(b) = b.start + b.size
        /\ b.rank <= b.start /\ end_of(b) <= rank_end(b.rank)
        /\ b.rank \in Nat /\ rank_end(b.rank) \in Nat
    BY RankEnds DEF DramBlocks, InRank, end_of
  <1>2. CASE m = insert_sorted(b)
    <2> DEFINE higher == {i \in 1..Len(mblock) : b.start < mblock[i].start}
               Fits(n) == /\ \A i \in 1..n : mblock[i].start <= b.start
                          /\ n < Len(mblock) => b.start < mblock[n + 1].start
    <2>1. Len(mblock) \in Nat /\ mblock \in Seq(DramBlocks)
          /\ \A i \in 1..Len(mblock) : mblock[i].start \in Nat
      BY TypedBlock DEF TablesTyped
    <2>2. PICK n \in 0..Len(mblock) :
             /\ \A i \in 1..n : i \notin higher
             /\ n < Len(mblock) => n + 1 \in higher
      BY <2>1, WalkEnds
    <2>3. Fits(n) BY <1>1, <2>1, <2>2
    <2> DEFINE k == CHOOSE k \in 0..Len(mblock) : Fits(k)
    <2>4. k \in 0..Len(mblock) BY <2>3
    <2>5. m = PutIn(mblock, k, b) BY <1>2 DEF insert_sorted, PutIn
    <2> HIDE DEF k
    <2>6. \A j \in DOMAIN mblock : InRank(mblock[j], mblock[j].rank)
      BY DEF TablesTyped
    <2> QED BY <2>1, <2>4, <2>5, <2>6, BlockInserted DEF IsFree
  <1>3. ASSUME NEW i \in DOMAIN mblock, NEW c \in DramBlocks, InRank(c, c.rank),
               m = [mblock EXCEPT ![i] = c],
               \A a \in Nat : covers(c, a) <=> covers(mblock[i], a) \/ covers(b, a)
        PROVE  /\ m \in Seq(DramBlocks)
               /\ \A j \in DOMAIN m : InRank(m[j], m[j].rank)
               /\ Apart(m, 1..Len(m))
               /\ \A a \in Nat : CoveredIn(m, 1..Len(m), a) <=>
                                   IsFree(a) \/ covers(b, a)
    <2> DEFINE others == (1..Len(mblock)) \ {i}
    <2>1. i \in 1..Len(mblock) BY TypedBlock
    <2>2. \A a \in Nat : /\ IsFree(a) <=> covers(mblock[i], a)
                                            \/ CoveredIn(mblock, others, a)
                         /\ covers(mblock[i], a) => ~CoveredIn(mblock, others, a)
      BY <2>1 DEF IsFree, CoveredIn, Apart
    <2>3. \A a \in Nat : covers(c, a) => ~CoveredIn(mblock, others, a)
      BY <1>3, <2>2
    <2>4. /\ m \in Seq(DramBlocks)
          /\ \A j \in DOMAIN m : InRank(m[j], m[j].rank)
          /\ Apart(m, 1..Len(m))
          /\ \A a \in Nat : CoveredIn(m, 1..Len(m), a) <=>
               covers(c, a) \/ CoveredIn(mblock, others, a)
      BY <1>3, <2>3, BlockReplaced
    <2> QED BY <1>3, <2>2, <2>4
  <1>4. ASSUME NEW i \in left_of(b), m = grow_left(i, b)
        PROVE  /\ m \in Seq(DramBlocks)
               /\ \A j \in DOMAIN m : InRank(m[j], m[j].rank)
               /\ Apart(m, 1..Len(m))
               /\ \A a \in Nat : CoveredIn(m, 1..Len(m), a) <=>
                                   IsFree(a) \/ covers(b, a)
    <2> DEFINE s == mblock[i].start
               z == mblock[i].size
               c == [start |-> s, rank |-> b.rank, size |-> z + b.size]
    <2>1. /\ i \in DOMAIN mblock /\ mblock[i].rank = b.rank
          /\ end_of(mblock[i]) = b.start
      BY <1>4 DEF left_of
    <2>2. /\ s \in Nat /\ z \in Nat /\ s + z = b.start
          /\ mblock[i] = [start |-> s, rank |-> b.rank, size |-> z]
          /\ b.rank <= s
      BY <2>1, TypedBlock DEF InRank
    <2>3. m = [mblock EXCEPT ![i] = c]
      BY <1>4, <2>1, <2>2, ZenonT(60) DEF grow_left
    <2>4. /\ c \in DramBlocks /\ c.start = s /\ c.rank = b.rank
          /\ end_of(c) = end_of(b)
      BY <1>1, <2>2 DEF DramBlocks, end_of
    <2> HIDE DEF c
    <2>5. InRank(c, c.rank) BY <1>1, <2>2, <2>4 DEF InRank
    <2>6. \A a \in Nat : covers(c, a) <=> covers(mblock[i], a) \/ covers(b, a)
      BY <1>1, <2>1, <2>2, <2>4 DEF covers
    <2> QED BY <1>3, <2>1, <2>3, <2>4, <2>5, <2>6
  <1>5. ASSUME NEW i \in right_of(b), m = grow_right(i, b)
        PROVE  /\ m \in Seq(DramBlocks)
               /\ \A j \in DOMAIN m : InRank(m[j], m[j].rank)
               /\ Apart(m, 1..Len(m))
               /\ \A a \in Nat : CoveredIn(m, 1..Len(m), a) <=>
                                   IsFree(a) \/ covers(b, a)
    <2> DEFINE s == mblock[i].start
               z == mblock[i].size
               c == [start |-> b.start, rank |-> b.rank, size |-> z + b.size]
    <2>1. /\ i \in DOMAIN mblock /\ mblock[i].rank = b.rank
          /\ mblock[i].start = end_of(b)
      BY <1>5 DEF right_of
    <2>2. /\ s \in Nat /\ z \in Nat /\ end_of(mblock[i]) = s + z
          /\ mblock[i] = [start |-> s, rank |-> b.rank, size |-> z]
          /\ s + z <= rank_end(b.rank)
      BY <2>1, TypedBlock DEF InRank
    <2>3. m = [mblock EXCEPT ![i] = c]
      BY <1>5, <2>1, <2>2, ZenonT(60) DEF grow_right
    <2>4. /\ c \in DramBlocks /\ c.start = b.start /\ c.rank = b.rank
          /\ end_of(c) = s + z
      BY <1>1, <2>1, <2>2 DEF DramBlocks, end_of
    <2> HIDE DEF c
    <2>5. InRank(c, c.rank) BY <1>1, <2>2, <2>4 DEF InRank
    <2>6. \A a \in Nat : covers(c, a) <=> covers(mblock[i], a) \/ covers(b, a)
      BY <1>1, <2>1, <2>2, <2>4, SMTT(30) DEF covers
    <2> QED BY <1>3, <2>1, <2>3, <2>4, <2>5, <2>6
  <1> QED BY <1>2, <1>4, <1>5

\* The first n slots of r as records.
RecordsTyped(r, n) ==
  /\ r \in [Slots -> DramRecords]
  /\ n \in 0..MaxReserved
  /\ \A i \in 1..n : r[i].size > 0 /\ \E x \in Ranks : InRank(r[i], x)

LEMMA TypedRecord ==
  ASSUME TablesTyped, NEW t \in 1..reserved_num
  PROVE  /\ t \in Slots /\ reserved_num \in Nat /\ reserved_num <= MaxReserved
         /\ MaxReserved \in Nat /\ t \in Nat
         /\ reserved[t] \in DramRecords
         /\ reserved[t].start \in Nat /\ reserved[t].size \in Nat
         /\ reserved[t].size > 0
         /\ end_of(reserved[t]) = reserved[t].start + reserved[t].size
         /\ \E r \in Ranks : InRank(reserved[t], r)
         /\ reserved[t] = [start |-> reserved[t].start, size |-> reserved[t].size]
  <1>1. t \in Slots /\ reserved_num \in Nat /\ reserved_num <= MaxReserved
        /\ MaxReserved \in Nat /\ t \in Nat
    BY MblockAssumption DEF TablesTyped, Slots
  <1>2. reserved[t] \in DramRecords BY <1>1 DEF TablesTyped
  <1>3. /\ reserved[t].start \in Nat /\ reserved[t].size \in Nat
        /\ reserved[t] = [start |-> reserved[t].start, size |-> reserved[t].size]
    BY <1>2 DEF DramRecords
  <1> QED BY <1>1, <1>2, <1>3 DEF TablesTyped, end_of

\* A stretch inside of another is in its rank.
LEMMA Inside ==
  ASSUME NEW c \in DramRecords, NEW b \in DramRecords, \E r \in Ranks : InRank(b, r),
         b.start <= c.start, end_of(c) <= end_of(b)
  PROVE  \E r \in Ranks : InRank(c, r)
  <1>1. PICK r \in Ranks : InRank(b, r) OBVIOUS
  <1>2. r \in Nat /\ rank_end(r) \in Nat BY RankEnds
  <1>3. /\ b.start \in Nat /\ c.start \in Nat
        /\ end_of(b) \in Nat /\ end_of(c) \in Nat
    BY DEF DramRecords, end_of
  <1>4. InRank(c, r) BY <1>1, <1>2, <1>3 DEF InRank
  <1> QED BY <1>4

\* A new record behind the last one.
LEMMA RecordAdded ==
  ASSUME TablesTyped, Tiled, reserved_num < MaxReserved,
         NEW c \in DramRecords, c.size > 0, \E r \in Ranks : InRank(c, r),
         \A a \in Nat : covers(c, a) => ~IsReserved(a),
         NEW r, r = [reserved EXCEPT ![reserved_num + 1] = c]
  PROVE  /\ RecordsTyped(r, reserved_num + 1)
         /\ Apart(r, 1..(reserved_num + 1))
         /\ \A a \in Nat : CoveredIn(r, 1..(reserved_num + 1), a) <=>
              IsReserved(a) \/ covers(c, a)
  <1> DEFINE n == reserved_num
  <1>1. /\ n \in Nat /\ MaxReserved \in Nat /\ n + 1 \in Slots
        /\ reserved \in [Slots -> DramRecords]
        /\ \A i \in 1..n : /\ reserved[i].size > 0
                           /\ \E x \in Ranks : InRank(reserved[i], x)
    BY MblockAssumption DEF TablesTyped, Slots
  <1>2. /\ r \in [Slots -> DramRecords] /\ r[n + 1] = c
        /\ \A j \in 1..n : r[j] = reserved[j]
    BY <1>1 DEF Slots
  <1>3. RecordsTyped(r, n + 1)
    <2>1. ASSUME NEW i \in 1..(n + 1)
          PROVE  r[i].size > 0 /\ \E x \in Ranks : InRank(r[i], x)
      <3>1. i = n + 1 \/ i \in 1..n BY <1>1
      <3> QED BY <3>1, <1>1, <1>2
    <2> QED BY <2>1, <1>1, <1>2 DEF RecordsTyped
  <1>4. \A j \in 1..(n + 1) : j # n + 1 =>
          r[j] = IF j <= n THEN reserved[j] ELSE reserved[j - 1]
    BY <1>1, <1>2
  <1>5. Apart(reserved, 1..n) BY DEF Tiled
  <1>6. \A a \in Nat : covers(r[n + 1], a) => ~CoveredIn(reserved, 1..n, a)
    BY <1>2 DEF IsReserved
  <1>7. n \in 0..n BY <1>1
  <1>8. /\ Apart(r, 1..(n + 1))
        /\ \A a \in Nat : CoveredIn(r, 1..(n + 1), a) <=>
             covers(r[n + 1], a) \/ CoveredIn(reserved, 1..n, a)
    <2> HIDE DEF n
    <2> QED BY <1>1, <1>4, <1>5, <1>6, <1>7, OneInserted
  <1> QED BY <1>2, <1>3, <1>8 DEF IsReserved

\* A record that loses its beginning or its end.
LEMMA RecordCut ==
  ASSUME TablesTyped, Tiled, NEW t \in 1..reserved_num,
         NEW c \in DramRecords, c.size > 0,
         reserved[t].start <= c.start, end_of(c) <= end_of(reserved[t]),
         NEW r, r = [reserved EXCEPT ![t] = c]
  PROVE  /\ RecordsTyped(r, reserved_num)
         /\ Apart(r, 1..reserved_num)
         /\ \A a \in Nat : CoveredIn(r, 1..reserved_num, a) <=>
              IsReserved(a) /\ (covers(reserved[t], a) => covers(c, a))
  <1> DEFINE n == reserved_num
             others == (1..n) \ {t}
  <1>1. /\ reserved \in [Slots -> DramRecords] /\ n \in 0..MaxReserved
        /\ \A i \in 1..n : /\ reserved[i].size > 0
                           /\ \E x \in Ranks : InRank(reserved[i], x)
        /\ t \in Slots /\ reserved[t] \in DramRecords
    BY TypedRecord DEF TablesTyped
  <1>2. /\ r \in [Slots -> DramRecords] /\ r[t] = c
        /\ \A j \in others : r[j] = reserved[j]
    BY <1>1, MblockAssumption DEF Slots
  <1>3. \E x \in Ranks : InRank(c, x) BY <1>1, Inside
  <1>4. RecordsTyped(r, n)
    BY <1>1, <1>2, <1>3 DEF RecordsTyped
  <1>5. \A a \in Nat : covers(c, a) => covers(reserved[t], a)
    BY <1>1 DEF covers, DramRecords, end_of
  <1>6. \A a \in Nat :
          /\ IsReserved(a) <=> covers(reserved[t], a)
                                 \/ CoveredIn(reserved, others, a)
          /\ covers(reserved[t], a) => ~CoveredIn(reserved, others, a)
    BY DEF Tiled, IsReserved, CoveredIn, Apart
  <1>7. \A a \in Nat : covers(r[t], a) => ~CoveredIn(reserved, others, a)
    BY <1>2, <1>5, <1>6
  <1>8. /\ Apart(r, 1..n)
        /\ \A a \in Nat : CoveredIn(r, 1..n, a) <=>
             covers(r[t], a) \/ CoveredIn(reserved, others, a)
    <2>1. Apart(reserved, 1..n) BY DEF Tiled
    <2> QED BY <1>2, <1>7, <2>1, OneReplaced
  <1> QED BY <1>2, <1>4, <1>5, <1>6, <1>8

\* A record that is removed, the ones behind it moving up.
LEMMA RecordRemoved ==
  ASSUME TablesTyped, Tiled, NEW t \in 1..reserved_num, NEW last \in DramRecords,
         NEW r, r = shift_up(t, last)
  PROVE  /\ RecordsTyped(r, reserved_num - 1)
         /\ Apart(r, 1..(reserved_num - 1))
         /\ \A a \in Nat : CoveredIn(r, 1..(reserved_num - 1), a) <=>
              IsReserved(a) /\ ~covers(reserved[t], a)
  <1> DEFINE n == reserved_num
             others == (1..n) \ {t}
  <1>1. /\ reserved \in [Slots -> DramRecords] /\ n \in 0..MaxReserved
        /\ n \in Nat /\ MaxReserved \in Nat /\ t \in 1..n
        /\ \A i \in 1..n : /\ reserved[i].size > 0
                           /\ \E x \in Ranks : InRank(reserved[i], x)
    BY MblockAssumption DEF TablesTyped
  <1>2. r \in [Slots -> DramRecords]
    <2>1. ASSUME NEW i \in Slots, i \in t..(n - 1) PROVE i + 1 \in Slots
      BY <1>1, <2>1 DEF Slots
    <2> QED BY <1>1, <2>1 DEF shift_up
  <1>3. \A j \in 1..(n - 1) :
          r[j] = IF j < t THEN reserved[j] ELSE reserved[j + 1]
    BY <1>1 DEF shift_up, Slots
  <1>4. RecordsTyped(r, n - 1)
    <2>1. ASSUME NEW i \in 1..(n - 1)
          PROVE  r[i].size > 0 /\ \E x \in Ranks : InRank(r[i], x)
      <3>1. i \in 1..n /\ i + 1 \in 1..n BY <1>1
      <3>2. r[i] = reserved[i] \/ r[i] = reserved[i + 1] BY <1>3
      <3> QED BY <3>1, <3>2, <1>1
    <2>2. n - 1 \in 0..MaxReserved BY <1>1
    <2> QED BY <2>1, <2>2, <1>2 DEF RecordsTyped
  <1>5. \A a \in Nat : (IsReserved(a) /\ ~covers(reserved[t], a)) <=>
                         CoveredIn(reserved, others, a)
    BY DEF Tiled, IsReserved, CoveredIn, Apart
  <1>6. /\ Apart(r, 1..(n - 1))
        /\ \A a \in Nat : CoveredIn(r, 1..(n - 1), a) <=>
                            CoveredIn(reserved, others, a)
    <2>1. Apart(reserved, 1..n) BY DEF Tiled
    <2> HIDE DEF n
    <2> QED BY <1>1, <1>3, <2>1, OneRemoved
  <1> QED BY <1>4, <1>5, <1>6

\* A record that loses its middle and becomes two.
LEMMA RecordDivided ==
  ASSUME TablesTyped, Tiled, NEW t \in 1..reserved_num,
         reserved_num < MaxReserved,
         NEW addr \in Nat, NEW size \in Nat, size > 0,
         reserved[t].start < addr, addr + size < end_of(reserved[t]),
         NEW r, r = divided(t, addr, size)
  PROVE  /\ RecordsTyped(r, reserved_num + 1)
         /\ Apart(r, 1..(reserved_num + 1))
         /\ \A a \in Nat : CoveredIn(r, 1..(reserved_num + 1), a) <=>
              IsReserved(a) /\ ~(addr <= a /\ a < addr + size)
  <1> DEFINE n == reserved_num
             s == reserved[t].start
             z == reserved[t].size
             e == s + z
             low == [start |-> s, size |-> addr - s]
             high == [start |-> addr + size, size |-> e - (addr + size)]
             q == [reserved EXCEPT ![t] = low]
  <1>1. /\ t \in Slots /\ n \in Nat /\ n < MaxReserved /\ MaxReserved \in Nat
        /\ t \in Nat /\ t <= n
        /\ s \in Nat /\ z \in Nat /\ end_of(reserved[t]) = e /\ e \in Nat
        /\ s < addr /\ addr + size < e
        /\ reserved[t] = [start |-> s, size |-> z]
        /\ reserved[t] \in DramRecords /\ \E x \in Ranks : InRank(reserved[t], x)
    BY TypedRecord
  <1>2. reserved \in [Slots -> DramRecords] BY DEF TablesTyped
  <1>3. /\ low \in DramRecords /\ low.start = s /\ low.size > 0
        /\ end_of(low) = addr
        /\ high \in DramRecords /\ high.start = addr + size /\ high.size > 0
        /\ end_of(high) = e
    BY <1>1 DEF DramRecords, end_of
  <1>4. [reserved[t] EXCEPT !.size = addr - reserved[t].start] = low
    BY <1>1
  <1>5. high = [start |-> addr + size,
                size |-> end_of(reserved[t]) - (addr + size)]
    BY <1>1
  <1> HIDE DEF low, high
  <1>6. /\ RecordsTyped(q, n) /\ Apart(q, 1..n)
        /\ \A a \in Nat : CoveredIn(q, 1..n, a) <=>
             IsReserved(a) /\ (covers(reserved[t], a) => covers(low, a))
    <2>1. /\ reserved[t].start <= low.start
          /\ end_of(low) <= end_of(reserved[t])
      BY <1>1, <1>3
    <2>2. q = [reserved EXCEPT ![t] = low] OBVIOUS
    <2>3. t \in 1..reserved_num OBVIOUS
    <2> HIDE DEF q
    <2> QED BY <1>3, <2>1, <2>2, <2>3, RecordCut
  <1>7. q[t] = low /\ \A j \in Slots \ {t} : q[j] = reserved[j]
    BY <1>1, <1>2
  <1>8. r = [i \in Slots |->
               IF i = t THEN low
               ELSE IF i = t + 1 THEN high
               ELSE IF i \in (t + 2)..(n + 1) THEN reserved[i - 1]
               ELSE reserved[i]]
    BY <1>4, <1>5 DEF divided
  <1> HIDE DEF q, s, z, e
  <1>9. /\ \A j \in 1..(n + 1) : j # t + 1 =>
             r[j] = IF j <= t THEN q[j] ELSE q[j - 1]
        /\ r[t + 1] = high
    <2>1. ASSUME NEW j \in 1..(n + 1), j # t + 1
          PROVE  r[j] = IF j <= t THEN q[j] ELSE q[j - 1]
      <3>1. j \in Slots BY <1>1 DEF Slots
      <3>2. CASE j = t BY <3>1, <3>2, <1>1, <1>7, <1>8
      <3>3. CASE j < t
        <4>1. r[j] = reserved[j] BY <3>1, <3>3, <1>1, <1>8
        <4> QED BY <3>1, <3>3, <4>1, <1>1, <1>7
      <3>4. CASE j > t
        <4>1. j \in (t + 2)..(n + 1) /\ j - 1 \in Slots \ {t}
          BY <2>1, <3>4, <1>1 DEF Slots
        <4>2. r[j] = reserved[j - 1] BY <3>1, <4>1, <1>1, <1>8
        <4> QED BY <3>4, <4>1, <4>2, <1>1, <1>7
      <3> QED BY <3>2, <3>3, <3>4, <1>1
    <2>2. t + 1 \in Slots BY <1>1 DEF Slots
    <2>3. r[t + 1] = high BY <2>2, <1>1, <1>8
    <2> QED BY <2>1, <2>3
  <1>10. ASSUME NEW a \in Nat
         PROVE  /\ covers(reserved[t], a) <=> s <= a /\ a < e
                /\ covers(low, a) <=> s <= a /\ a < addr
                /\ covers(high, a) <=> addr + size <= a /\ a < e
                /\ covers(reserved[t], a) => IsReserved(a)
    <2>1. reserved[t].start = s BY <1>1
    <2> QED BY <1>1, <1>3, <2>1 DEF covers, IsReserved, CoveredIn
  <1>11. \A a \in Nat : covers(r[t + 1], a) => ~CoveredIn(q, 1..n, a)
    <2> TAKE a \in Nat
    <2> QED BY <1>1, <1>6, <1>9, <1>10
  <1>12. /\ Apart(r, 1..(n + 1))
         /\ \A a \in Nat : CoveredIn(r, 1..(n + 1), a) <=>
              covers(r[t + 1], a) \/ CoveredIn(q, 1..n, a)
    <2>1. t \in 0..n BY <1>1
    <2> HIDE DEF n
    <2> QED BY <1>1, <1>6, <1>9, <1>11, <2>1, OneInserted
  <1>13. \A a \in Nat : CoveredIn(r, 1..(n + 1), a) <=>
           IsReserved(a) /\ ~(addr <= a /\ a < addr + size)
    <2> TAKE a \in Nat
    <2> QED BY <1>1, <1>6, <1>9, <1>10, <1>12
  <1>14. RecordsTyped(r, n + 1)
    <2>1. q \in [Slots -> DramRecords]
          /\ \A i \in 1..n : q[i].size > 0 /\ \E x \in Ranks : InRank(q[i], x)
      BY <1>6 DEF RecordsTyped
    <2>2. \E x \in Ranks : InRank(high, x) BY <1>1, <1>3, Inside
    <2>3. ASSUME NEW i \in 1..(n + 1)
          PROVE  r[i].size > 0 /\ \E x \in Ranks : InRank(r[i], x)
      <3>1. CASE i = t + 1 BY <3>1, <1>3, <1>9, <2>2
      <3>2. CASE i # t + 1
        <4>1. r[i] = IF i <= t THEN q[i] ELSE q[i - 1] BY <3>2, <1>9
        <4>2. i <= t => i \in 1..n BY <1>1
        <4>3. ~(i <= t) => i - 1 \in 1..n BY <3>2, <1>1
        <4> QED BY <2>1, <4>1, <4>2, <4>3
      <3> QED BY <3>1, <3>2
    <2>4. r \in [Slots -> DramRecords]
      <3>1. ASSUME NEW i \in Slots, i \in (t + 2)..(n + 1) PROVE i - 1 \in Slots
        BY <3>1, <1>1 DEF Slots
      <3> QED BY <3>1, <1>2, <1>3, <1>8
    <2>5. n + 1 \in 0..MaxReserved BY <1>1
    <2> QED BY <2>3, <2>4, <2>5 DEF RecordsTyped
  <1> QED BY <1>12, <1>13, <1>14

\* Memory that is given back, or taken, moves from one table to the other.
LEMMA GivenBack ==
  ASSUME MblockIInv, NEW addr \in Nat, NEW size \in Nat,
         mblock' \in Seq(DramBlocks),
         \A j \in DOMAIN mblock' : InRank(mblock'[j], mblock'[j].rank),
         Apart(mblock', 1..Len(mblock')),
         \A a \in Nat : CoveredIn(mblock', 1..Len(mblock'), a) <=>
                          IsFree(a) \/ (addr <= a /\ a < addr + size),
         RecordsTyped(reserved', reserved_num'),
         Apart(reserved', 1..reserved_num'),
         \A a \in Nat : CoveredIn(reserved', 1..reserved_num', a) <=>
                          IsReserved(a) /\ ~(addr <= a /\ a < addr + size)
  PROVE  MblockIInv'
  <1>1. TablesTyped' BY DEF TablesTyped, RecordsTyped
  <1>2. ASSUME NEW a \in Nat PROVE ~(IsFree(a) /\ IsReserved(a))'
    <2>1. ~(IsFree(a) /\ IsReserved(a)) BY DEF MblockIInv, Tiled
    <2> QED BY <2>1 DEF IsFree, IsReserved
  <1>3. ASSUME NEW r \in Ranks, NEW a \in r..(rank_end(r) - 1)
        PROVE  (IsFree(a) \/ IsReserved(a))'
    <2>1. a \in Nat BY RankEnds
    <2>2. IsFree(a) \/ IsReserved(a) BY DEF MblockIInv, Tiled
    <2> QED BY <2>1, <2>2 DEF IsFree, IsReserved
  <1> QED BY <1>1, <1>2, <1>3 DEF MblockIInv, Tiled

LEMMA Taken ==
  ASSUME MblockIInv, NEW addr \in Nat, NEW size \in Nat,
         \A a \in Nat : addr <= a /\ a < addr + size => IsFree(a),
         mblock' \in Seq(DramBlocks),
         \A j \in DOMAIN mblock' : InRank(mblock'[j], mblock'[j].rank),
         Apart(mblock', 1..Len(mblock')),
         \A a \in Nat : CoveredIn(mblock', 1..Len(mblock'), a) <=>
                          IsFree(a) /\ ~(addr <= a /\ a < addr + size),
         RecordsTyped(reserved', reserved_num'),
         Apart(reserved', 1..reserved_num'),
         \A a \in Nat : CoveredIn(reserved', 1..reserved_num', a) <=>
                          IsReserved(a) \/ (addr <= a /\ a < addr + size)
  PROVE  MblockIInv'
  <1>1. TablesTyped' BY DEF TablesTyped, RecordsTyped
  <1>2. ASSUME NEW a \in Nat PROVE ~(IsFree(a) /\ IsReserved(a))'
    <2>1. ~(IsFree(a) /\ IsReserved(a)) BY DEF MblockIInv, Tiled
    <2> QED BY <2>1 DEF IsFree, IsReserved
  <1>3. ASSUME NEW r \in Ranks, NEW a \in r..(rank_end(r) - 1)
        PROVE  (IsFree(a) \/ IsReserved(a))'
    <2>1. a \in Nat BY RankEnds
    <2>2. IsFree(a) \/ IsReserved(a) BY DEF MblockIInv, Tiled
    <2> QED BY <2>1, <2>2 DEF IsFree, IsReserved
  <1> QED BY <1>1, <1>2, <1>3 DEF MblockIInv, Tiled

\* align_down goes down, to the highest multiple there is.
LEMMA AlignedDown ==
  ASSUME NEW a \in Nat, NEW unit \in Nat
  PROVE  /\ align_down(a, unit) \in Nat /\ align_down(a, unit) <= a
         /\ \A x \in Nat : (unit # 0 /\ x % unit = 0 /\ x <= a)
                             => x <= align_down(a, unit)
  <1>1. CASE unit = 0 BY <1>1 DEF align_down
  <1>2. CASE unit # 0
    <2> DEFINE k == a \div unit
               o == a % unit
    <2>1. k \in Nat /\ o \in 0..(unit - 1) /\ a = k * unit + o
      BY <1>2
    <2>2. align_down(a, unit) = a - o BY <1>2 DEF align_down
    <2> HIDE DEF k, o
    <2> DEFINE p == k * unit
    <2>3. p \in Nat /\ a = p + o BY <2>1
    <2>4. ASSUME NEW x \in Nat, x % unit = 0, x <= a PROVE x <= p
      <3> DEFINE j == x \div unit
      <3>1. j \in Nat /\ x = j * unit
        BY <1>2, <2>4
      <3> HIDE DEF j
      <3>2. CASE j <= k
        <4>1. j * unit <= k * unit BY <3>1, <3>2, <2>1
        <4> QED BY <3>1, <4>1
      <3>3. CASE j > k
        <4> DEFINE d == j - (k + 1)
        <4>1. d \in Nat /\ j = k + 1 + d BY <3>1, <3>3, <2>1
        <4> HIDE DEF d
        <4>2. j * unit = k * unit + unit + d * unit BY <4>1, <2>1
        <4>3. d * unit \in Nat BY <4>1
        <4> DEFINE e == d * unit
        <4>4. x = p + unit + e /\ e \in Nat BY <3>1, <4>2, <4>3
        <4> HIDE DEF p, e
        <4>5. x > a BY <4>4, <2>1, <2>3
        <4> QED BY <2>4, <4>5
      <3> QED BY <3>1, <3>2, <3>3, <2>1
    <2> HIDE DEF p
    <2> QED BY <2>1, <2>2, <2>3, <2>4
  <1> QED BY <1>1, <1>2

\* Where a reservation goes in a block it fits.
LEMMA WhereItGoes ==
  ASSUME TablesTyped, NEW i \in DOMAIN mblock, NEW size \in ReserveSizes,
         NEW align \in Aligns, NEW limit \in Limits, size <= mblock[i].size
  PROVE  /\ size \in Nat /\ size > 0 /\ page_aligned(align) \in Nat
         /\ reserved_addr(mblock[i], size, align, limit) \in Nat
         /\ reserved_addr(mblock[i], size, align, limit) + size
              <= end_of(mblock[i])
         /\ \A x \in Nat :
              ( /\ page_aligned(align) # 0 /\ x % page_aligned(align) = 0
                /\ x + size <= end_of(mblock[i]) /\ x + size <= limit )
              => x <= reserved_addr(mblock[i], size, align, limit)
  <1> DEFINE end == IF limit < end_of(mblock[i]) THEN limit
                    ELSE end_of(mblock[i])
             unit == page_aligned(align)
  <1>1. /\ size \in Nat /\ size > 0 /\ limit \in Nat /\ size <= limit
        /\ align \in Nat /\ Page \in Nat \ {0}
    BY MblockAssumption
  <1>2. unit \in Nat
    <2>1. align % Page \in Nat /\ align % Page <= align BY <1>1
    <2> QED BY <1>1, <2>1 DEF page_aligned
  <1>3. /\ mblock[i].start \in Nat /\ mblock[i].size \in Nat
        /\ end_of(mblock[i]) = mblock[i].start + mblock[i].size
    BY TypedBlock
  <1>4. end - size \in Nat /\ end <= end_of(mblock[i]) /\ end \in Nat
    BY <1>1, <1>3
  <1>5. reserved_addr(mblock[i], size, align, limit)
          = align_down(end - size, unit)
    BY DEF reserved_addr
  <1>6. ASSUME NEW x \in Nat, x + size <= end_of(mblock[i]), x + size <= limit
        PROVE  x <= end - size
    BY <1>1, <1>3, <1>6
  <1> DEFINE a == end - size
  <1>7. a \in Nat /\ a + size <= end_of(mblock[i]) BY <1>1, <1>3, <1>4
  <1> HIDE DEF end, unit
  <1>8. /\ align_down(a, unit) \in Nat /\ align_down(a, unit) <= a
        /\ \A x \in Nat : (unit # 0 /\ x % unit = 0 /\ x <= a)
                            => x <= align_down(a, unit)
    <2> HIDE DEF a
    <2> QED BY <1>2, <1>7, AlignedDown
  <1> QED BY <1>1, <1>2, <1>3, <1>5, <1>6, <1>7, <1>8 DEF unit

\* The three operations keep the invariant.
LEMMA ReserveKeeps ==
  ASSUME MblockIInv, NEW size \in ReserveSizes, NEW align \in Aligns,
         NEW limit \in Limits, mblock_reserve_ext(size, align, limit)
  PROVE  MblockIInv'
  <1>1. TablesTyped /\ Tiled /\ Apart(mblock, 1..Len(mblock))
    BY DEF MblockIInv, Tiled
  <1>2. PICK i \in target(size, align, limit) :
          /\ mblock' = split(i, reserved_addr(mblock[i], size, align, limit), size)
          /\ reserved' = [reserved EXCEPT ![reserved_num + 1] =
               [start |-> reserved_addr(mblock[i], size, align, limit),
                size |-> size]]
    BY DEF mblock_reserve_ext
  <1>3. i \in DOMAIN mblock /\ fits(mblock[i], size, align, limit)
    BY DEF target
  <1> DEFINE addr == reserved_addr(mblock[i], size, align, limit)
             c == [start |-> addr, size |-> size]
             rk == mblock[i].rank
  <1>4. /\ size \in Nat /\ size > 0 /\ addr \in Nat
        /\ mblock[i].start <= addr /\ addr + size <= end_of(mblock[i])
    BY <1>1, <1>3, WhereItGoes, TypedBlock DEF fits
  <1>5. /\ mblock' = split(i, addr, size)
        /\ reserved' = [reserved EXCEPT ![reserved_num + 1] = c]
        /\ reserved_num' = reserved_num + 1 /\ reserved_num < MaxReserved
    BY <1>2 DEF mblock_reserve_ext
  <1> HIDE DEF addr
  <1>6. /\ mblock' \in Seq(DramBlocks)
        /\ \A j \in DOMAIN mblock' : InRank(mblock'[j], mblock'[j].rank)
        /\ Apart(mblock', 1..Len(mblock'))
        /\ \A a \in Nat : CoveredIn(mblock', 1..Len(mblock'), a) <=>
             IsFree(a) /\ ~(addr <= a /\ a < addr + size)
    BY <1>1, <1>3, <1>4, <1>5, SplitLeaves DEF IsFree
  <1>7. \A a \in Nat : addr <= a /\ a < addr + size => IsFree(a)
    <2>1. /\ mblock[i].start \in Nat /\ end_of(mblock[i]) \in Nat
          /\ i \in 1..Len(mblock)
      BY <1>1, <1>3, TypedBlock
    <2> QED BY <1>4, <2>1 DEF IsFree, CoveredIn, covers
  <1>8. /\ c \in DramRecords /\ c.size > 0 /\ c.start = addr
        /\ end_of(c) = addr + size
    BY <1>4 DEF DramRecords, end_of
  <1> HIDE DEF c
  <1>9. \E r \in Ranks : InRank(c, r)
    <2>1. /\ rk \in Ranks /\ mblock[i].start \in Nat
          /\ end_of(mblock[i]) \in Nat /\ InRank(mblock[i], rk)
      BY <1>1, <1>3, TypedBlock
    <2>2. rk \in Nat /\ rank_end(rk) \in Nat BY <2>1, RankEnds
    <2> HIDE DEF rk
    <2>3. InRank(c, rk) BY <1>4, <1>8, <2>1, <2>2 DEF InRank
    <2> QED BY <2>1, <2>3
  <1>10. \A a \in Nat : covers(c, a) <=> (addr <= a /\ a < addr + size)
    BY <1>8 DEF covers
  <1>11. \A a \in Nat : covers(c, a) => ~IsReserved(a)
    BY <1>1, <1>7, <1>10 DEF Tiled
  <1>12. /\ RecordsTyped(reserved', reserved_num')
         /\ Apart(reserved', 1..reserved_num')
         /\ \A a \in Nat : CoveredIn(reserved', 1..reserved_num', a) <=>
              IsReserved(a) \/ (addr <= a /\ a < addr + size)
    BY <1>1, <1>5, <1>8, <1>9, <1>10, <1>11, RecordAdded
  <1> QED BY <1>4, <1>6, <1>7, <1>12, Taken

\* The first and the last of some entries of a list.
LEMMA FirstAndLast ==
  ASSUME NEW n \in Nat, NEW N \in SUBSET (1..n), N # {}
  PROVE  /\ \E i \in N : \A j \in N : i <= j
         /\ \E i \in N : \A j \in N : j <= i
  <1>1. N \subseteq Nat OBVIOUS
  <1>2. PICK i \in N : \A j \in N : ~(<<j, i>> \in Below)
    BY <1>1, NatWellFounded, WFMin
  <1>3. \A j \in N : ~(j < i) BY <1>1, <1>2 DEF Below
  <1>4. \E k \in N : \A j \in N : k <= j BY <1>1, <1>3
  <1> DEFINE M == {n - j : j \in N}
  <1>5. M \subseteq Nat /\ M # {} OBVIOUS
  <1>6. PICK m \in M : \A j \in M : ~(<<j, m>> \in Below)
    BY <1>5, NatWellFounded, WFMin
  <1>7. \A j \in M : ~(j < m)
    <2> HIDE DEF M
    <2> QED BY <1>5, <1>6 DEF Below
  <1>8. PICK k \in N : m = n - k OBVIOUS
  <1>9. ASSUME NEW j \in N PROVE j <= k
    <2>1. n - j \in M OBVIOUS
    <2>2. ~(n - j < m) BY <1>7, <2>1
    <2>3. j \in 1..n /\ k \in 1..n OBVIOUS
    <2> QED BY <2>2, <2>3, <1>8
  <1> QED BY <1>4, <1>9

\* Both ways of putting a block back put it beside one or by itself.
LEMMA WaysOfPuttingBack ==
  ASSUME TablesTyped, NEW b, NEW m, m \in {put_back_first(b), put_back_larger(b)}
  PROVE  \/ m = insert_sorted(b)
         \/ \E i \in left_of(b) : m = grow_left(i, b)
         \/ \E i \in right_of(b) : m = grow_right(i, b)
  <1> DEFINE L == left_of(b)
             R == right_of(b)
             last(N) == CHOOSE i \in N : \A j \in N : j <= i
  <1>1. /\ Len(mblock) \in Nat
        /\ L \in SUBSET (1..Len(mblock)) /\ R \in SUBSET (1..Len(mblock))
    BY TypedBlock DEF TablesTyped, left_of, right_of
  <1>2. ASSUME L # {} PROVE last(L) \in L
    <2> HIDE DEF L
    <2>1. \E i \in L : \A j \in L : j <= i BY <1>1, <1>2, FirstAndLast
    <2> QED BY <2>1
  <1>3. ASSUME R # {} PROVE last(R) \in R
    <2> HIDE DEF R
    <2>1. \E i \in R : \A j \in R : j <= i BY <1>1, <1>3, FirstAndLast
    <2> QED BY <2>1
  <1>4. CASE m = put_back_first(b)
    <2> DEFINE N == L \cup R
               i == CHOOSE i \in N : \A j \in N : i <= j
    <2>1. N \in SUBSET (1..Len(mblock)) BY <1>1
    <2>2. ASSUME N # {} PROVE i \in N
      <3> HIDE DEF N
      <3>1. \E k \in N : \A j \in N : k <= j BY <1>1, <2>1, <2>2, FirstAndLast
      <3> QED BY <3>1
    <2>3. m = IF N = {} THEN insert_sorted(b)
              ELSE IF i \in left_of(b) THEN grow_left(i, b) ELSE grow_right(i, b)
      BY <1>4 DEF put_back_first
    <2>4. N # {} => i \in L \/ i \in R BY <2>2
    <2> HIDE DEF i, N
    <2> QED BY <2>3, <2>4
  <1>5. CASE m = put_back_larger(b)
    <2> DEFINE l == last(L)
               r == last(R)
    <2>1. m = IF L \cup R = {} THEN insert_sorted(b)
              ELSE IF L = {} \/ (R # {} /\ mblock[r].size >= mblock[l].size)
              THEN grow_right(r, b) ELSE grow_left(l, b)
      BY <1>5 DEF put_back_larger
    <2>2. (L # {} => l \in L) /\ (R # {} => r \in R) BY <1>2, <1>3
    <2> HIDE DEF l, r
    <2> QED BY <2>1, <2>2
  <1> QED BY <1>4, <1>5

\* Memory of a record is free once it is put back.
LEMMA PutBackFrees ==
  ASSUME MblockIInv, NEW t \in 1..reserved_num, NEW addr \in Nat,
         NEW size \in Nat, size > 0,
         reserved[t].start <= addr, addr + size <= end_of(reserved[t]),
         mblock' \in {put_back_first(free_block(addr, size)),
                      put_back_larger(free_block(addr, size))}
  PROVE  /\ mblock' \in Seq(DramBlocks)
         /\ \A j \in DOMAIN mblock' : InRank(mblock'[j], mblock'[j].rank)
         /\ Apart(mblock', 1..Len(mblock'))
         /\ \A a \in Nat : CoveredIn(mblock', 1..Len(mblock'), a) <=>
              IsFree(a) \/ (addr <= a /\ a < addr + size)
  <1> DEFINE b == free_block(addr, size)
  <1>1. TablesTyped /\ Tiled /\ Apart(mblock, 1..Len(mblock))
    BY DEF MblockIInv, Tiled
  <1>2. /\ reserved[t].start \in Nat /\ end_of(reserved[t]) \in Nat
        /\ \E r \in Ranks : InRank(reserved[t], r)
    <2>1. /\ reserved[t].start \in Nat /\ reserved[t].size \in Nat
          /\ end_of(reserved[t]) = reserved[t].start + reserved[t].size
          /\ \E r \in Ranks : InRank(reserved[t], r)
      BY <1>1, TypedRecord
    <2> QED BY <2>1
  <1>3. \E r \in Ranks : r <= addr /\ addr + size <= rank_end(r)
    <2>1. PICK r \in Ranks : InRank(reserved[t], r) BY <1>2
    <2>2. r \in Nat /\ rank_end(r) \in Nat BY RankEnds
    <2>3. r <= addr /\ addr + size <= rank_end(r)
      BY <1>2, <2>1, <2>2 DEF InRank
    <2> QED BY <2>3
  <1>4. /\ b \in DramBlocks /\ b.start = addr /\ b.size = size
        /\ end_of(b) = addr + size /\ InRank(b, b.rank)
    BY <1>3, RankFound
  <1>5. \/ mblock' = insert_sorted(b)
        \/ \E i \in left_of(b) : mblock' = grow_left(i, b)
        \/ \E i \in right_of(b) : mblock' = grow_right(i, b)
    BY <1>1, WaysOfPuttingBack
  <1> HIDE DEF b
  <1>6. \A a \in Nat : covers(b, a) <=> (addr <= a /\ a < addr + size)
    BY <1>4 DEF covers
  <1>7. \A a \in Nat : covers(b, a) => ~IsFree(a)
    <2> SUFFICES ASSUME NEW a \in Nat, covers(b, a) PROVE ~IsFree(a)
      OBVIOUS
    <2>1. covers(reserved[t], a) BY <1>2, <1>6 DEF covers
    <2>2. IsReserved(a) BY <2>1 DEF IsReserved, CoveredIn
    <2> QED BY <1>1, <2>2 DEF Tiled
  <1>8. /\ mblock' \in Seq(DramBlocks)
        /\ \A j \in DOMAIN mblock' : InRank(mblock'[j], mblock'[j].rank)
        /\ Apart(mblock', 1..Len(mblock'))
        /\ \A a \in Nat : CoveredIn(mblock', 1..Len(mblock'), a) <=>
                            IsFree(a) \/ covers(b, a)
    BY <1>1, <1>4, <1>5, <1>7, PutBack
  <1> QED BY <1>6, <1>8

LEMMA ResizeKeeps ==
  ASSUME MblockIInv, NEW t \in 1..reserved_num,
         NEW newsize \in 0..reserved[t].size, mblock_resize(t, newsize)
  PROVE  MblockIInv'
  <1> DEFINE addr == reserved[t].start
             old == reserved[t].size
  <1>1. TablesTyped /\ Tiled BY DEF MblockIInv
  <1>2. /\ addr \in Nat /\ old \in Nat /\ end_of(reserved[t]) = addr + old
        /\ newsize \in Nat /\ newsize < old
        /\ reserved[t] = [start |-> addr, size |-> old]
        /\ t \in Slots /\ reserved_num \in Slots
    <2>1. /\ t \in Slots /\ reserved_num \in Nat /\ reserved_num <= MaxReserved
          /\ MaxReserved \in Nat /\ t \in Nat
          /\ addr \in Nat /\ old \in Nat
          /\ end_of(reserved[t]) = addr + old
          /\ reserved[t] = [start |-> addr, size |-> old]
      BY <1>1, TypedRecord
    <2>2. newsize < old BY DEF mblock_resize
    <2>3. newsize \in Nat BY <2>1
    <2>4. reserved_num \in Slots
      <3>1. 1 <= t /\ t <= reserved_num BY <2>1
      <3> QED BY <2>1, <3>1 DEF Slots
    <2> QED BY <2>1, <2>2, <2>3, <2>4
  <1>3. mblock' = put_back_first(free_block(addr + newsize, old - newsize))
    BY DEF mblock_resize
  <1>4. IF newsize = 0
        THEN /\ reserved' = shift_up(t, IF t = reserved_num THEN Nothing
                                        ELSE reserved[reserved_num])
             /\ reserved_num' = reserved_num - 1
        ELSE /\ reserved' = [reserved EXCEPT ![t].size = newsize]
             /\ UNCHANGED reserved_num
    BY DEF mblock_resize
  <1>5. \A a \in Nat : covers(reserved[t], a) <=> (addr <= a /\ a < addr + old)
    BY <1>2 DEF covers
  <1> DEFINE at == addr + newsize
             size == old - newsize
  <1>6. at \in Nat /\ size \in Nat /\ size > 0 /\ at + size = addr + old
        /\ addr <= at
    BY <1>2
  <1> HIDE DEF at, size
  <1>7. /\ mblock' \in Seq(DramBlocks)
        /\ \A j \in DOMAIN mblock' : InRank(mblock'[j], mblock'[j].rank)
        /\ Apart(mblock', 1..Len(mblock'))
        /\ \A a \in Nat : CoveredIn(mblock', 1..Len(mblock'), a) <=>
             IsFree(a) \/ (at <= a /\ a < at + size)
    <2>1. mblock' = put_back_first(free_block(at, size)) BY <1>3 DEF at, size
    <2>2. reserved[t].start <= at /\ at + size <= end_of(reserved[t])
      BY <1>2, <1>6
    <2> QED BY <1>6, <2>1, <2>2, PutBackFrees
  <1>8. /\ RecordsTyped(reserved', reserved_num')
        /\ Apart(reserved', 1..reserved_num')
        /\ \A a \in Nat : CoveredIn(reserved', 1..reserved_num', a) <=>
             IsReserved(a) /\ ~(at <= a /\ a < at + size)
    <2>1. CASE newsize = 0
      <3> DEFINE last == IF t = reserved_num THEN Nothing
                         ELSE reserved[reserved_num]
      <3>1. last \in DramRecords
        BY <1>1, <1>2 DEF Nothing, DramRecords, TablesTyped
      <3> HIDE DEF last
      <3>2. reserved' = shift_up(t, last) /\ reserved_num' = reserved_num - 1
        BY <1>4, <2>1 DEF last
      <3>3. at = addr BY <2>1, <1>2 DEF at
      <3> HIDE DEF addr, old
      <3>4. /\ RecordsTyped(reserved', reserved_num - 1)
            /\ Apart(reserved', 1..(reserved_num - 1))
            /\ \A a \in Nat : CoveredIn(reserved', 1..(reserved_num - 1), a) <=>
                 IsReserved(a) /\ ~covers(reserved[t], a)
        BY <1>1, <3>1, <3>2, RecordRemoved
      <3> QED BY <1>5, <1>6, <3>2, <3>3, <3>4
    <2>2. CASE newsize # 0
      <3> DEFINE c == [start |-> addr, size |-> newsize]
      <3>1. /\ c \in DramRecords /\ c.size > 0 /\ c.start = addr
            /\ end_of(c) = addr + newsize
        BY <1>2, <2>2 DEF DramRecords, end_of
      <3>2. [reserved[t] EXCEPT !.size = newsize] = c BY <1>2
      <3>3. reserved' = [reserved EXCEPT ![t] = c] /\ reserved_num' = reserved_num
        BY <1>4, <2>2, <3>2
      <3> HIDE DEF c
      <3>4. /\ reserved[t].start <= c.start
            /\ end_of(c) <= end_of(reserved[t])
        BY <1>2, <3>1
      <3>5. /\ RecordsTyped(reserved', reserved_num)
            /\ Apart(reserved', 1..reserved_num)
            /\ \A a \in Nat : CoveredIn(reserved', 1..reserved_num, a) <=>
                 IsReserved(a) /\ (covers(reserved[t], a) => covers(c, a))
        BY <1>1, <3>1, <3>3, <3>4, RecordCut
      <3>6. \A a \in Nat : covers(c, a) <=> (addr <= a /\ a < at)
        BY <3>1 DEF covers, at
      <3>7. ASSUME NEW a \in Nat
            PROVE  (covers(reserved[t], a) => covers(c, a))
                     <=> ~(at <= a /\ a < at + size)
        BY <1>2, <1>5, <1>6, <3>6
      <3> QED BY <3>3, <3>5, <3>7
    <2> QED BY <2>1, <2>2
  <1> QED BY <1>6, <1>7, <1>8, GivenBack

LEMMA CreateKeeps ==
  ASSUME MblockIInv, NEW t \in 1..reserved_num, NEW addr \in Nat,
         NEW size \in Nat, mblock_create(t, addr, size)
  PROVE  MblockIInv'
  <1> DEFINE s == reserved[t].start
             z == reserved[t].size
             e == s + z
  <1>1. TablesTyped /\ Tiled BY DEF MblockIInv
  <1>2. /\ s \in Nat /\ z \in Nat /\ end_of(reserved[t]) = e /\ e \in Nat
        /\ reserved[t] = [start |-> s, size |-> z] /\ t \in Slots
    BY <1>1, TypedRecord
  <1>3. size > 0 /\ s <= addr /\ addr + size <= e
    BY <1>2 DEF mblock_create
  <1>4. mblock' = put_back_larger(free_block(addr, size))
    BY DEF mblock_create
  <1>5. \/ /\ addr = s /\ size = z
           /\ reserved' = shift_up(t, Nothing)
           /\ reserved_num' = reserved_num - 1
        \/ /\ addr = s \/ addr + size = e
           /\ ~(addr = s /\ size = z)
           /\ reserved' = [reserved EXCEPT ![t] =
                [start |-> IF addr = s THEN addr + size ELSE s,
                 size  |-> z - size]]
           /\ UNCHANGED reserved_num
        \/ /\ addr # s /\ addr + size # e /\ reserved_num < MaxReserved
           /\ reserved' = divided(t, addr, size)
           /\ reserved_num' = reserved_num + 1
    BY <1>2 DEF mblock_create
  <1>6. \A a \in Nat : covers(reserved[t], a) <=> (s <= a /\ a < e)
    BY <1>2 DEF covers
  <1>7. /\ mblock' \in Seq(DramBlocks)
        /\ \A j \in DOMAIN mblock' : InRank(mblock'[j], mblock'[j].rank)
        /\ Apart(mblock', 1..Len(mblock'))
        /\ \A a \in Nat : CoveredIn(mblock', 1..Len(mblock'), a) <=>
             IsFree(a) \/ (addr <= a /\ a < addr + size)
    <2>1. reserved[t].start <= addr /\ addr + size <= end_of(reserved[t])
      BY <1>2, <1>3
    <2> QED BY <1>3, <1>4, <2>1, PutBackFrees
  <1>8. CASE /\ addr = s /\ size = z
             /\ reserved' = shift_up(t, Nothing)
             /\ reserved_num' = reserved_num - 1
    <2>1. Nothing \in DramRecords BY DEF Nothing, DramRecords
    <2>2. /\ RecordsTyped(reserved', reserved_num - 1)
          /\ Apart(reserved', 1..(reserved_num - 1))
          /\ \A a \in Nat : CoveredIn(reserved', 1..(reserved_num - 1), a) <=>
               IsReserved(a) /\ ~covers(reserved[t], a)
      BY <1>1, <1>8, <2>1, RecordRemoved
    <2>3. /\ RecordsTyped(reserved', reserved_num')
          /\ Apart(reserved', 1..reserved_num')
          /\ \A a \in Nat : CoveredIn(reserved', 1..reserved_num', a) <=>
               IsReserved(a) /\ ~(addr <= a /\ a < addr + size)
      BY <1>6, <1>8, <2>2
    <2> QED BY <1>7, <2>3, GivenBack
  <1>9. CASE /\ addr = s \/ addr + size = e
             /\ ~(addr = s /\ size = z)
             /\ reserved' = [reserved EXCEPT ![t] =
                  [start |-> IF addr = s THEN addr + size ELSE s,
                   size  |-> z - size]]
             /\ UNCHANGED reserved_num
    <2> DEFINE c == [start |-> IF addr = s THEN addr + size ELSE s,
                     size  |-> z - size]
    <2>1. z - size \in Nat /\ z - size > 0 BY <1>2, <1>3, <1>9
    <2>2. /\ c \in DramRecords /\ c.size > 0
          /\ c.start = IF addr = s THEN addr + size ELSE s
          /\ end_of(c) = c.start + (z - size)
      BY <1>2, <2>1 DEF DramRecords, end_of
    <2>3. reserved' = [reserved EXCEPT ![t] = c] BY <1>9
    <2> HIDE DEF c
    <2>4. /\ end_of(c) = IF addr = s THEN e ELSE addr
      BY <1>2, <1>3, <1>9, <2>2
    <2>5. /\ reserved[t].start <= c.start /\ end_of(c) <= end_of(reserved[t])
      BY <1>2, <1>3, <2>2, <2>4
    <2>6. /\ RecordsTyped(reserved', reserved_num)
          /\ Apart(reserved', 1..reserved_num)
          /\ \A a \in Nat : CoveredIn(reserved', 1..reserved_num, a) <=>
               IsReserved(a) /\ (covers(reserved[t], a) => covers(c, a))
      BY <1>1, <2>2, <2>3, <2>5, RecordCut
    <2>7. ASSUME NEW a \in Nat
          PROVE  (covers(reserved[t], a) => covers(c, a))
                   <=> ~(addr <= a /\ a < addr + size)
      <3>1. covers(c, a) <=> (c.start <= a /\ a < end_of(c)) BY DEF covers
      <3> HIDE DEF s, e
      <3>2. CASE addr = s
        BY <3>1, <3>2, <1>2, <1>3, <1>6, <2>2, <2>4
      <3>3. CASE addr # s /\ addr + size = e
        BY <3>1, <3>3, <1>2, <1>3, <1>6, <2>2, <2>4
      <3> QED BY <3>2, <3>3, <1>9
    <2>8. /\ RecordsTyped(reserved', reserved_num')
          /\ Apart(reserved', 1..reserved_num')
          /\ \A a \in Nat : CoveredIn(reserved', 1..reserved_num', a) <=>
               IsReserved(a) /\ ~(addr <= a /\ a < addr + size)
      BY <1>9, <2>6, <2>7
    <2> QED BY <1>7, <2>8, GivenBack
  <1>10. CASE /\ addr # s /\ addr + size # e /\ reserved_num < MaxReserved
              /\ reserved' = divided(t, addr, size)
              /\ reserved_num' = reserved_num + 1
    <2>1. reserved[t].start < addr /\ addr + size < end_of(reserved[t])
      BY <1>2, <1>3, <1>10
    <2>2. /\ RecordsTyped(reserved', reserved_num + 1)
          /\ Apart(reserved', 1..(reserved_num + 1))
          /\ \A a \in Nat : CoveredIn(reserved', 1..(reserved_num + 1), a) <=>
               IsReserved(a) /\ ~(addr <= a /\ a < addr + size)
      BY <1>1, <1>3, <1>10, <2>1, RecordDivided
    <2> QED BY <1>7, <1>10, <2>2, GivenBack
  <1> QED BY <1>5, <1>8, <1>9, <1>10

LEMMA MblockStart == MblockInit => MblockIInv
  <1> SUFFICES ASSUME MblockInit PROVE MblockIInv
    OBVIOUS
  <1> DEFINE n == Cardinality(Ranks)
  <1>1. IsFiniteSet(Ranks) /\ n \in Nat /\ MaxReserved \in Nat
    BY MblockAssumption, FS_CardinalityType
  <1>2. PICK starts \in [1..n -> Ranks] :
          /\ \A i, j \in DOMAIN starts : i < j => starts[i] < starts[j]
          /\ mblock = [i \in DOMAIN starts |->
                         [start |-> starts[i], rank |-> starts[i],
                          size |-> rank_end(starts[i]) - starts[i]]]
    BY DEF MblockInit
  <1> HIDE DEF n
  <1>3. \A r \in Ranks : \E i \in 1..n : starts[i] = r
    <2>1. IsFiniteSet(1..n) /\ Cardinality(1..n) = n
      <3>1. IsFiniteSet(1..n) /\ Cardinality(1..n) = IF 1 > n THEN 0 ELSE n - 1 + 1
        BY <1>1, FS_Interval
      <3> QED BY <1>1, <3>1
    <2>2. ASSUME NEW i \in 1..n, NEW j \in 1..n, starts[i] = starts[j]
          PROVE  i = j
      <3>1. starts[i] \in Nat /\ starts[j] \in Nat BY RankEnds
      <3>2. ~(i < j) /\ ~(j < i) BY <1>2, <2>2, <3>1
      <3> QED BY <1>1, <3>2
    <2>3. starts \in Injection(1..n, Ranks)
      BY <1>2, <2>2 DEF Injection, IsInjective
    <2>4. starts \in Surjection(1..n, Ranks)
      BY <1>1, <2>1, <2>3, FS_Injection DEF n
    <2> QED BY <2>4 DEF Surjection
  <1>4. ASSUME NEW i \in 1..n
        PROVE  /\ starts[i] \in Ranks /\ starts[i] \in Nat
               /\ rank_end(starts[i]) \in Nat /\ starts[i] < rank_end(starts[i])
               /\ mblock[i] \in DramBlocks /\ mblock[i].start = starts[i]
               /\ mblock[i].rank = starts[i]
               /\ end_of(mblock[i]) = rank_end(starts[i])
    <2>1. /\ starts[i] \in Ranks /\ starts[i] \in Nat
          /\ rank_end(starts[i]) \in Nat /\ starts[i] < rank_end(starts[i])
      BY RankEnds
    <2>2. mblock[i] = [start |-> starts[i], rank |-> starts[i],
                       size |-> rank_end(starts[i]) - starts[i]]
      BY <1>2
    <2>3. rank_end(starts[i]) - starts[i] \in Nat BY <2>1
    <2> QED BY <2>1, <2>2, <2>3 DEF DramBlocks, end_of
  <1>5. mblock \in Seq(DramBlocks) /\ Len(mblock) = n /\ DOMAIN mblock = 1..n
    <2>1. mblock \in [1..n -> DramBlocks] BY <1>2, <1>4
    <2> QED BY <1>1, <2>1
  <1>6. /\ reserved \in [Slots -> DramRecords] /\ reserved_num = 0
    BY DEF MblockInit, Nothing, DramRecords
  <1>7. TablesTyped
    <2>1. \A i \in DOMAIN mblock : InRank(mblock[i], mblock[i].rank)
      BY <1>4, <1>5 DEF InRank
    <2> QED BY <1>1, <1>5, <1>6, <2>1 DEF TablesTyped
  <1>8. Apart(mblock, 1..Len(mblock))
    <2> SUFFICES ASSUME NEW i \in 1..n, NEW j \in 1..n, NEW a \in Nat,
                        covers(mblock[i], a), covers(mblock[j], a)
                 PROVE  i = j
      BY <1>5 DEF Apart
    <2>1. /\ starts[i] <= a /\ a < rank_end(starts[i])
          /\ starts[j] <= a /\ a < rank_end(starts[j])
      BY <1>4 DEF covers
    <2>2. ASSUME NEW k \in 1..n, NEW l \in 1..n, k < l
          PROVE  rank_end(starts[k]) <= starts[l]
      <3>1. starts[k] < starts[l] BY <1>2, <2>2
      <3> QED BY <1>4, <3>1, RankEnds
    <2>3. ~(i < j) /\ ~(j < i) BY <2>1, <2>2, <1>4
    <2> QED BY <1>1, <2>3
  <1>9. \A a : ~IsReserved(a)
    BY <1>6 DEF IsReserved, CoveredIn
  <1>10. ASSUME NEW r \in Ranks, NEW a \in r..(rank_end(r) - 1)
         PROVE  IsFree(a)
    <2>1. PICK i \in 1..n : starts[i] = r BY <1>3
    <2>2. covers(mblock[i], a) BY <2>1, <1>4, RankEnds DEF covers
    <2> QED BY <2>2, <1>5 DEF IsFree, CoveredIn
  <1>11. Apart(reserved, 1..reserved_num) BY <1>6 DEF Apart
  <1> QED BY <1>7, <1>8, <1>9, <1>10, <1>11 DEF MblockIInv, Tiled

LEMMA MblockStep == MblockIInv /\ [MblockNext]_mblock_vars => MblockIInv'
  <1> SUFFICES ASSUME MblockIInv, [MblockNext]_mblock_vars PROVE MblockIInv'
    OBVIOUS
  <1>1. ASSUME NEW size \in ReserveSizes, NEW align \in Aligns,
               NEW limit \in Limits, mblock_reserve_ext(size, align, limit)
        PROVE  MblockIInv'
    BY <1>1, ReserveKeeps
  <1>2. ASSUME NEW t \in 1..reserved_num, NEW newsize \in 0..reserved[t].size,
               mblock_resize(t, newsize)
        PROVE  MblockIInv'
    BY <1>2, ResizeKeeps
  <1>3. ASSUME NEW t \in 1..reserved_num,
               NEW addr \in reserved[t].start..(end_of(reserved[t]) - 1),
               NEW size \in 1..(end_of(reserved[t]) - addr),
               mblock_create(t, addr, size)
        PROVE  MblockIInv'
    <2>1. /\ reserved[t].start \in Nat /\ reserved[t].size \in Nat
          /\ end_of(reserved[t]) = reserved[t].start + reserved[t].size
      BY TypedRecord DEF MblockIInv
    <2>2. addr \in Nat /\ size \in Nat BY <2>1
    <2> QED BY <1>3, <2>2, CreateKeeps
  <1>4. CASE UNCHANGED mblock_vars
    BY <1>4 DEF mblock_vars, MblockIInv, TablesTyped, Tiled, IsFree, IsReserved
  <1> QED BY <1>1, <1>2, <1>3, <1>4 DEF MblockNext

LEMMA MblockIsSound == MblockIInv => MblockInv
  <1> SUFFICES ASSUME MblockIInv PROVE MblockInv
    OBVIOUS
  <1>1. TablesTyped /\ Tiled /\ DOMAIN mblock = 1..Len(mblock)
        /\ Len(mblock) \in Nat /\ reserved_num \in Nat
    BY DEF MblockIInv, TablesTyped
  <1>2. MblockTypeOK
    <2>1. ASSUME NEW i \in DOMAIN mblock
          PROVE  LET m == mblock[i]
                 IN  /\ m.rank \in Ranks /\ m.size \in Nat
                     /\ m.rank <= m.start /\ end_of(m) <= rank_end(m.rank)
      BY <1>1, TypedBlock DEF InRank
    <2>2. ASSUME NEW r \in Records
          PROVE  r.start \in Nat \ {0} /\ r.size \in Nat \ {0}
      <3>1. PICK t \in 1..reserved_num : r = reserved[t] BY DEF Records
      <3>2. /\ r.start \in Nat /\ r.size \in Nat /\ r.size > 0
            /\ \E x \in Ranks : InRank(r, x)
        BY <1>1, <3>1, TypedRecord
      <3>3. PICK x \in Ranks : x <= r.start BY <3>2 DEF InRank
      <3>4. x \in Nat \ {0} BY RankEnds
      <3> QED BY <3>2, <3>3, <3>4
    <2>3. reserved_num \in 0..MaxReserved BY <1>1 DEF TablesTyped
    <2> QED BY <2>1, <2>2, <2>3 DEF MblockTypeOK
  <1>3. ASSUME NEW r \in Ranks, NEW a \in r..(rank_end(r) - 1)
        PROVE  Cardinality({i \in DOMAIN mblock :
                              mblock[i].start <= a /\ a < end_of(mblock[i])})
                 + Cardinality({i \in 1..reserved_num :
                                  reserved[i].start <= a
                                    /\ a < end_of(reserved[i])}) = 1
    <2> DEFINE F == {i \in DOMAIN mblock :
                       mblock[i].start <= a /\ a < end_of(mblock[i])}
               R == {i \in 1..reserved_num :
                       reserved[i].start <= a /\ a < end_of(reserved[i])}
    <2>1. a \in Nat BY RankEnds
    <2>2. /\ \A i \in F : covers(mblock[i], a) /\ i \in 1..Len(mblock)
          /\ \A i \in 1..Len(mblock) : covers(mblock[i], a) => i \in F
          /\ \A i \in R : covers(reserved[i], a) /\ i \in 1..reserved_num
          /\ \A i \in 1..reserved_num : covers(reserved[i], a) => i \in R
      BY <1>1 DEF covers
    <2> HIDE DEF F, R
    <2>3. \A i, j \in F : i = j BY <1>1, <2>1, <2>2 DEF Tiled, Apart
    <2>4. \A i, j \in R : i = j BY <1>1, <2>1, <2>2 DEF Tiled, Apart
    <2>5. F = {} \/ R = {}
      BY <1>1, <2>1, <2>2 DEF Tiled, IsFree, IsReserved, CoveredIn
    <2>6. F # {} \/ R # {}
      BY <1>1, <2>1, <2>2 DEF Tiled, IsFree, IsReserved, CoveredIn
    <2>7. CASE R = {}
      <3>1. PICK i \in F : F = {i} BY <2>3, <2>6, <2>7
      <3>2. Cardinality(F) = 1 /\ Cardinality(R) = 0
        BY <3>1, <2>7, FS_Singleton, FS_EmptySet
      <3> QED BY <3>2 DEF F, R
    <2>8. CASE F = {}
      <3>1. PICK i \in R : R = {i} BY <2>4, <2>6, <2>8
      <3>2. Cardinality(R) = 1 /\ Cardinality(F) = 0
        BY <3>1, <2>8, FS_Singleton, FS_EmptySet
      <3> QED BY <3>2 DEF F, R
    <2> QED BY <2>5, <2>7, <2>8
  <1> QED BY <1>2, <1>3 DEF MblockInv, DramTiled

LEMMA HighestIsFound == MblockIInv => AsHighAsPossible
  <1> SUFFICES ASSUME MblockIInv, NEW size \in ReserveSizes,
                      NEW align \in Aligns, NEW limit \in Limits,
                      page_aligned(align) # 0, NEW i \in DOMAIN mblock,
                      NEW a \in mblock[i].start..(end_of(mblock[i]) - size),
                      a % page_aligned(align) = 0, a + size <= limit
               PROVE  \E k \in target(size, align, limit) :
                        a <= reserved_addr(mblock[k], size, align, limit)
    BY DEF AsHighAsPossible
  <1> DEFINE at(j) == reserved_addr(mblock[j], size, align, limit)
             F == {j \in DOMAIN mblock : fits(mblock[j], size, align, limit)}
  <1>1. /\ TablesTyped /\ Apart(mblock, 1..Len(mblock))
        /\ DOMAIN mblock = 1..Len(mblock) /\ Len(mblock) \in Nat
    BY DEF MblockIInv, TablesTyped, Tiled
  <1>2. ASSUME NEW j \in DOMAIN mblock
        PROVE  /\ mblock[j].start \in Nat /\ mblock[j].size \in Nat
               /\ end_of(mblock[j]) = mblock[j].start + mblock[j].size
               /\ end_of(mblock[j]) \in Nat
    BY <1>1, TypedBlock
  <1>3. /\ size \in Nat /\ size > 0 /\ limit \in Nat BY MblockAssumption
  <1>4. /\ a \in Nat /\ mblock[i].start <= a /\ a + size <= end_of(mblock[i])
        /\ size <= mblock[i].size /\ mblock[i].start < limit
    BY <1>2, <1>3
  <1>5. a <= at(i) /\ at(i) \in Nat
    <2>1. \A x \in Nat :
            ( /\ page_aligned(align) # 0 /\ x % page_aligned(align) = 0
              /\ x + size <= end_of(mblock[i]) /\ x + size <= limit )
            => x <= at(i)
      BY <1>1, <1>4, WhereItGoes
    <2>2. at(i) \in Nat BY <1>1, <1>4, WhereItGoes
    <2> QED BY <2>1, <2>2, <1>4
  <1>6. i \in F
    <2>1. at(i) >= mblock[i].start BY <1>2, <1>4, <1>5
    <2> QED BY <1>4, <2>1 DEF fits
  <1>7. PICK k \in F : \A j \in F : end_of(mblock[j]) <= end_of(mblock[k])
    <2> DEFINE ends == {end_of(mblock[j]) : j \in F}
    <2>1. ASSUME NEW j \in F PROVE end_of(mblock[j]) \in 1..DramEnd
      <3>1. j \in DOMAIN mblock OBVIOUS
      <3>2. /\ mblock[j].rank \in Ranks /\ mblock[j].start > 0
            /\ end_of(mblock[j]) <= rank_end(mblock[j].rank)
        BY <1>1, <3>1, TypedBlock DEF InRank
      <3>3. /\ rank_end(mblock[j].rank) <= DramEnd
            /\ rank_end(mblock[j].rank) \in Nat
        BY <3>2, RankEnds
      <3> QED BY <1>2, <3>1, <3>2, <3>3, MblockAssumption
    <2>2. ends \in SUBSET (1..DramEnd) /\ ends # {} BY <1>6, <2>1
    <2> HIDE DEF F
    <2>3. PICK top \in ends : \A e \in ends : e <= top
      <3> HIDE DEF ends
      <3> QED BY <2>2, FirstAndLast, MblockAssumption
    <2> QED BY <2>3
  <1>8. /\ k \in DOMAIN mblock /\ k \in target(size, align, limit)
        /\ size <= mblock[k].size /\ at(k) >= mblock[k].start
    BY <1>7 DEF target, fits
  <1>9. CASE k = i BY <1>5, <1>8, <1>9
  <1>10. CASE k # i
    <2>1. end_of(mblock[i]) <= end_of(mblock[k]) BY <1>6, <1>7
    <2> DEFINE last == end_of(mblock[i]) - 1
    <2>2. last \in Nat /\ covers(mblock[i], last)
      BY <1>2, <1>3, <1>4 DEF covers
    <2>3. ~covers(mblock[k], last)
      BY <1>1, <1>8, <1>10, <2>2 DEF Apart
    <2>4. mblock[k].start >= end_of(mblock[i])
      BY <1>2, <1>8, <2>1, <2>2, <2>3 DEF covers
    <2>5. at(k) \in Nat BY <1>1, <1>8, WhereItGoes
    <2>6. a <= at(k) BY <1>2, <1>3, <1>4, <1>8, <2>4, <2>5
    <2> QED BY <1>8, <2>6
  <1> QED BY <1>9, <1>10

LEMMA MblockAlways == MblockSpec => []MblockIInv
  BY MblockStart, MblockStep, PTL DEF MblockSpec

\* No memory is handed out twice and none is lost, whatever is reserved,
\* shrunk, given back and divided in whatever order.
THEOREM DramIsTiled == MblockSpec => []MblockInv
  BY MblockAlways, MblockIsSound, PTL

\* A reservation is always made at the highest address that fits.
THEOREM ReservedHighest == MblockSpec => []AsHighAsPossible
  BY MblockAlways, HighestIsFound, PTL
=============================================================================
