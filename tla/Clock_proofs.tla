---------------------------- MODULE Clock_proofs ----------------------------
(***************************************************************************)
(* Proofs about Clock, for every range of the system's tick time and every *)
(* size and number of the wheels: that the clock thread keeps the time,    *)
(* that every timer is at its place in the wheels (InPlace), and that the  *)
(* wheels are the list of timers they stand for (TimerList).               *)
(*                                                                         *)
(* The wheels are about blocks of ticks: a block of level l spans Unit[l]  *)
(* ticks, and a timer is placed by the smallest block it shares with the   *)
(* present.  A tick begins new blocks up to some level; the timers of the  *)
(* slot that Turn moves are those that share the next one.                 *)
(***************************************************************************)
EXTENDS Clock, TLAPS, WellFoundedInduction, SequenceTheorems, FiniteSetTheorems
-----------------------------------------------------------------------------
(* The time *)

\* The difference of two tick times, of which either may have wrapped.
LEMMA Difference ==
  ASSUME NEW a \in 0 .. TickWrap - 1, NEW b \in 0 .. TickWrap - 1
  PROVE  (a - b) % TickWrap = IF a >= b THEN a - b ELSE a - b + TickWrap
<1>1. TickWrap \in Nat \ {0}
  BY ClockAssumption DEF ClockAssumption
<1>2. CASE a >= b
  <2>1. a - b \in 0 .. TickWrap - 1
    BY <1>1, <1>2
  <2> QED
    BY <1>1, <1>2, <2>1
<1>3. CASE a < b
  <2>1. a - b \in Int /\ 0 <= a - b + TickWrap /\ a - b < 0
    BY <1>1, <1>3
  <2> QED
    BY <1>1, <1>3, <2>1
<1> QED
  BY <1>1, <1>2, <1>3

\* The clock starts with no lag.
LEMMA InitTime == Init => TimeIInv
<1>1. TickWrap \in Nat \ {0} /\ StartTime \in 0 .. TickWrap - 1 /\ MaxLag \in Nat
  BY ClockAssumption DEF ClockAssumption
<1>2. (StartTime - StartTime) % TickWrap = 0
  BY <1>1, Difference
<1> QED
  BY <1>1, <1>2 DEF Init, TimeIInv, TickFollowsTime

\* A millisecond more of lag does not make the difference wrap.
LEMMA ElapseTime ==
  ASSUME TimeIInv, Elapse
  PROVE  TimeIInv'
<1>1. /\ TickWrap \in Nat \ {0}
      /\ MaxLag \in Nat /\ MaxLag < TickWrap
  BY ClockAssumption DEF ClockAssumption
<1> DEFINE lag == (systime - lastTick) % TickWrap
<1>2. lag \in Int /\ lag >= 0 /\ lag + 1 < TickWrap
  <2>1. lag = IF systime >= lastTick THEN systime - lastTick ELSE systime - lastTick + TickWrap
    BY Difference DEF TimeIInv
  <2>2. lag \in Int /\ lag >= 0
    BY <1>1, <2>1 DEF TimeIInv
  <2> HIDE DEF lag
  <2>3. tick + todo + lag = elapsed
    BY DEF TimeIInv, TickFollowsTime, lag
  <2> QED
    BY <1>1, <2>2, <2>3 DEF TimeIInv, Elapse
<1>3. systime' = IF systime + 1 = TickWrap THEN 0 ELSE systime + 1
  <2>1. CASE systime + 1 = TickWrap
    BY <1>1, <2>1 DEF TimeIInv, Elapse
  <2>2. CASE systime + 1 # TickWrap
    <3>1. systime + 1 \in 0 .. TickWrap - 1
      BY <1>1, <2>2 DEF TimeIInv
    <3> QED
      BY <1>1, <2>2, <3>1 DEF Elapse
  <2> QED
    BY <2>1, <2>2
<1>4. systime' \in 0 .. TickWrap - 1 /\ lastTick' = lastTick
  BY <1>1, <1>3 DEF TimeIInv, Elapse
<1>5. (systime' - lastTick') % TickWrap = lag + 1
  <2>1. lag = IF systime >= lastTick THEN systime - lastTick ELSE systime - lastTick + TickWrap
    BY Difference DEF TimeIInv
  <2>2. (systime' - lastTick) % TickWrap
          = IF systime' >= lastTick THEN systime' - lastTick ELSE systime' - lastTick + TickWrap
    BY <1>4, Difference DEF TimeIInv
  <2> HIDE DEF lag
  <2> QED
    BY <1>1, <1>2, <1>3, <1>4, <2>1, <2>2 DEF TimeIInv
<1>6. TickFollowsTime'
  <2>1. tick + todo + lag = elapsed
    BY DEF TimeIInv, TickFollowsTime
  <2> HIDE DEF lag
  <2>2. tick' + todo' + (lag + 1) = elapsed'
    BY <1>2, <2>1 DEF TimeIInv, Elapse
  <2> QED
    BY <1>5, <2>2 DEF TickFollowsTime
<1>7. elapsed' \in Nat /\ elapsed' - tick' <= MaxLag
  BY <1>1 DEF TimeIInv, Elapse
<1> QED
  BY <1>4, <1>6, <1>7 DEF TimeIInv, Elapse

\* The cast to int leaves the difference as it is.
LEMMA WakeTime ==
  ASSUME TimeIInv, Wake
  PROVE  TimeIInv'
<1>1. /\ TickWrap \in Nat \ {0}
      /\ MaxLag \in Nat /\ MaxLag < TickWrap \div 2
  BY ClockAssumption DEF ClockAssumption
<1> DEFINE lag == (systime - lastTick) % TickWrap
<1>2. lag \in Nat
  <2>1. lag = IF systime >= lastTick THEN systime - lastTick ELSE systime - lastTick + TickWrap
    BY Difference DEF TimeIInv
  <2> QED
    BY <1>1, <2>1 DEF TimeIInv
<1>3. tick + todo + lag = elapsed
  BY DEF TimeIInv, TickFollowsTime
<1>4. todo' = IF lag < TickWrap \div 2 THEN lag ELSE lag - TickWrap
  BY DEF Wake, Diff
<1> HIDE DEF lag
<1>5. todo = 0
  BY DEF TimeIInv, Wake
<1>6. todo' = lag
  BY <1>1, <1>2, <1>3, <1>4, <1>5 DEF TimeIInv
<1>7. (systime' - lastTick') % TickWrap = 0
  <2>1. (systime - systime) % TickWrap = 0
    BY Difference, <1>1 DEF TimeIInv
  <2> QED
    BY <2>1 DEF Wake
<1>8. TickFollowsTime'
  <2>1. tick' + todo' + 0 = elapsed'
    BY <1>2, <1>3, <1>5, <1>6 DEF TimeIInv, Wake
  <2> QED
    BY <1>7, <2>1 DEF TickFollowsTime
<1> QED
  BY <1>2, <1>6, <1>8 DEF TimeIInv, Wake

\* A round takes one of the milliseconds that were counted.
LEMMA TickTime ==
  ASSUME TimeIInv, Tick
  PROVE  TimeIInv'
<1>1. /\ UNCHANGED <<systime, lastTick, elapsed>>
      /\ todo > 0 /\ todo' = todo - 1 /\ tick' = tick + 1
  BY DEF Tick
<1> DEFINE lag == (systime - lastTick) % TickWrap
<1>2. TickWrap \in Nat \ {0} /\ MaxLag \in Nat
  BY ClockAssumption DEF ClockAssumption
<1>3. lag \in Nat
  <2>1. lag = IF systime >= lastTick THEN systime - lastTick ELSE systime - lastTick + TickWrap
    BY Difference DEF TimeIInv
  <2> QED
    BY <1>2, <2>1 DEF TimeIInv
<1>4. tick + todo + lag = elapsed /\ lag' = lag
  BY <1>1 DEF TimeIInv, TickFollowsTime
<1>5. TickFollowsTime' <=> tick' + todo' + lag' = elapsed'
  BY DEF TickFollowsTime
<1> HIDE DEF lag
<1>6. tick' + todo' + lag = elapsed'
  BY <1>1, <1>3, <1>4 DEF TimeIInv
<1>7. elapsed' - tick' <= MaxLag /\ todo' \in Nat /\ tick' \in Nat
  BY <1>1, <1>2 DEF TimeIInv
<1> QED
  BY <1>1, <1>4, <1>5, <1>6, <1>7 DEF TimeIInv

\* TimeIInv is inductive.
LEMMA NextTime == TimeIInv /\ [Next]_vars => TimeIInv'
<1> SUFFICES ASSUME TimeIInv, [Next]_vars PROVE TimeIInv'
  OBVIOUS
<1>1. CASE UNCHANGED time /\ UNCHANGED tick
  BY <1>1 DEF TimeIInv, TickFollowsTime, time
<1>2. CASE Add \/ TakeWork \/ Fire \/ UNCHANGED vars
  BY <1>1, <1>2 DEF Add, TakeWork, Fire, vars
<1> QED
  BY <1>2, ElapseTime, WakeTime, TickTime DEF Next

\* ClockModule::work: whatever the range of the system's tick time, and however often
\* it wraps, each millisecond is one tick, as long as the thread is less than half the
\* range behind.
THEOREM TimeKept == Spec => []TickFollowsTime
<1>1. TimeIInv => TickFollowsTime
  BY DEF TimeIInv
<1> QED
  BY <1>1, InitTime, NextTime, PTL DEF Spec

-----------------------------------------------------------------------------
(* Induction and recursion between two bounds *)

\* A set of numbers has a smallest.
LEMMA Smallest ==
  ASSUME NEW T \in SUBSET Nat, T # {}
  PROVE  \E x \in T : \A y \in T : x <= y
<1> DEFINE R == {ss \in Nat \X Nat : ss[1] < ss[2]}
<1>1. IsWellFoundedOn(R, Nat)
  BY NatLessThanWellFounded, Zenon DEF OpToRel
<1> HIDE DEF R
<1>2. \E x \in T : \A y \in T : ~(<<y, x>> \in R)
  BY <1>1, WFMin
<1>3. PICK x \in T : \A y \in T : ~(<<y, x>> \in R)
  BY <1>2
<1>4. ASSUME NEW y \in T PROVE x <= y
  <2>1. x \in Nat /\ y \in Nat
    OBVIOUS
  <2>2. ~(y < x)
    <3>1. <<y, x>> \in Nat \X Nat /\ <<y, x>>[1] = y /\ <<y, x>>[2] = x
      BY <2>1
    <3> QED
      BY <1>3, <3>1, Zenon DEF R
  <2> QED
    BY <2>1, <2>2
<1> QED
  BY <1>4

\* Induction between two bounds.
LEMMA Upwards ==
  ASSUME NEW k \in Nat, NEW n \in Nat, NEW T, k \in T,
         \A i \in k .. n - 1 : i \in T => i + 1 \in T
  PROVE  \A i \in k .. n : i \in T
<1> DEFINE Fails == {i \in Nat : i \in k .. n /\ i \notin T}
<1> SUFFICES ASSUME Fails # {} PROVE FALSE
  OBVIOUS
<1>1. PICK i \in Fails : \A j \in Fails : i <= j
  <2> Fails \in SUBSET Nat
    OBVIOUS
  <2> HIDE DEF Fails
  <2> QED BY Smallest
<1>2. i \in Nat /\ i \in k .. n /\ i \notin T /\ i # k
  BY <1>1
<1>3. i - 1 \in k .. n - 1 /\ i - 1 \in Nat /\ i - 1 \in k .. n /\ i - 1 + 1 = i
  BY <1>2
<1>4. i - 1 \in T
  <2>1. i - 1 \notin Fails
    BY <1>1, <1>3
  <2> QED BY <1>3, <2>1
<1> QED BY <1>2, <1>3, <1>4

\* f is the recursion over 1 .. m that starts with a and goes on by step.
Solves(f, m, a, step) ==
  f[0] = a /\ \A i \in 1 .. m : f[i] = step[<<i, f[i - 1]>>]

\* A recursion over the numbers up to n has a solution.
LEMMA Recursion ==
  ASSUME NEW n \in Nat, NEW S, NEW a \in S, NEW step \in [(1 .. n) \X S -> S]
  PROVE  \E f \in [0 .. n -> S] : Solves(f, n, a, step)
<1> DEFINE T == {m \in Nat : \E f \in [0 .. m -> S] : Solves(f, m, a, step)}
<1> USE DEF Solves
<1>1. 0 \in T
  <2> DEFINE f == [i \in 0 .. 0 |-> a]
  <2>1. f \in [0 .. 0 -> S] /\ Solves(f, 0, a, step)
    OBVIOUS
  <2> QED BY <2>1
<1>2. ASSUME NEW m \in 0 .. n - 1, m \in T PROVE m + 1 \in T
  <2>1. PICK f \in [0 .. m -> S] : Solves(f, m, a, step)
    BY <1>2
  <2> DEFINE e == step[<<m + 1, f[m]>>]
             g == [i \in 0 .. m + 1 |-> IF i = m + 1 THEN e ELSE f[i]]
  <2>2. e \in S
    <3>1. <<m + 1, f[m]>> \in (1 .. n) \X S
      OBVIOUS
    <3> QED BY <3>1
  <2>3. /\ \A i \in 0 .. m : g[i] = f[i]
        /\ g[m + 1] = e
        /\ g \in [0 .. m + 1 -> S]
    <3>1. \A i \in 0 .. m : i \in 0 .. m + 1 /\ i # m + 1
      OBVIOUS
    <3>2. m + 1 \in 0 .. m + 1 /\ \A i \in 0 .. m + 1 : i = m + 1 \/ i \in 0 .. m
      OBVIOUS
    <3> HIDE DEF e
    <3> QED BY <2>2, <3>1, <3>2
  <2> HIDE DEF g
  <2>4. g[0] = a
    <3>1. 0 \in 0 .. m
      OBVIOUS
    <3> QED BY <2>1, <2>3, <3>1
  <2>5. ASSUME NEW i \in 1 .. m + 1 PROVE g[i] = step[<<i, g[i - 1]>>]
    <3>1. CASE i = m + 1
      <4>1. i - 1 = m /\ m \in 0 .. m
        BY <3>1
      <4> QED BY <2>3, <3>1, <4>1
    <3>2. CASE i # m + 1
      <4>1. i \in 1 .. m /\ i \in 0 .. m /\ i - 1 \in 0 .. m
        BY <3>2
      <4> QED BY <2>1, <2>3, <4>1
    <3> QED BY <3>1, <3>2
  <2>6. Solves(g, m + 1, a, step) /\ m + 1 \in Nat
    BY <2>4, <2>5
  <2> QED BY <2>3, <2>6
<1> HIDE DEF T
<1>3. \A m \in 0 .. n : m \in T
  BY <1>1, <1>2, Upwards
<1>4. n \in T
  BY <1>3
<1> QED BY <1>4 DEF T
-----------------------------------------------------------------------------
(* Division *)

\* What \div and % are.
LEMMA DivMod ==
  ASSUME NEW a \in Nat, NEW u \in Nat \ {0}
  PROVE  /\ a \div u \in Nat /\ a % u \in 0 .. u - 1
         /\ a = u * (a \div u) + (a % u)
OBVIOUS

\* A multiple of u is at least u more than a smaller one.
LEMMA TimesMono ==
  ASSUME NEW u \in Nat, NEW x \in Nat, NEW y \in Nat, x < y
  PROVE  u * x + u <= u * y
<1>1. y - (x + 1) \in Nat
  OBVIOUS
<1> DEFINE d == y - (x + 1)
<1>2. y = x + 1 + d /\ d \in Nat
  BY <1>1
<1> HIDE DEF d
<1>3. u * d \in Nat
  BY <1>2
<1>4. u * y = u * x + u + u * d
  BY <1>2
<1> QED BY <1>3, <1>4

\* There is one way to write a number as a multiple of u and a rest.
LEMMA DivUnique ==
  ASSUME NEW a \in Nat, NEW u \in Nat \ {0}, NEW q \in Nat, NEW r \in 0 .. u - 1, a = u * q + r
  PROVE  a \div u = q /\ a % u = r
<1> DEFINE d == a \div u  m == a % u
<1>1. d \in Nat /\ m \in 0 .. u - 1 /\ a = u * d + m
  BY DivMod
<1>2. u * d \in Nat /\ u * q \in Nat
  BY <1>1
<1> HIDE DEF d, m
<1>3. ~(d < q)
  BY <1>1, <1>2, TimesMono
<1>4. ~(q < d)
  BY <1>1, <1>2, TimesMono
<1>5. d = q
  BY <1>1, <1>3, <1>4
<1>6. m = r
  BY <1>1, <1>2, <1>5
<1> QED BY <1>5, <1>6 DEF d, m

\* Blocks of u * s ticks are made of blocks of u ticks.
Nested(a, u, s) ==
  /\ u * s \in Nat \ {0}
  /\ a \div (u * s) = (a \div u) \div s
  /\ a % (u * s) = u * ((a \div u) % s) + (a % u)
  /\ (a \div u) % s \in 0 .. s - 1

\* That is so for all sizes of blocks.
LEMMA DivDiv ==
  ASSUME NEW a \in Nat, NEW u \in Nat \ {0}, NEW s \in Nat \ {0}
  PROVE  Nested(a, u, s)
<1> DEFINE d == a \div u  m == a % u  e == d \div s  r == d % s
<1>1. d \in Nat /\ m \in 0 .. u - 1 /\ a = u * d + m
  BY DivMod
<1>2. e \in Nat /\ r \in 0 .. s - 1 /\ d = s * e + r
  BY <1>1, DivMod
<1> HIDE DEF d, m, e, r
<1>3. u * s \in Nat /\ u * s # 0
  OBVIOUS
<1>4. u * r \in Nat /\ u * r + u <= u * s
  BY <1>2, TimesMono
<1>5. u * r + m \in 0 .. u * s - 1
  BY <1>1, <1>3, <1>4
<1>6. a = (u * s) * e + (u * r + m)
  BY <1>1, <1>2
<1>7. a \div (u * s) = e /\ a % (u * s) = u * r + m
  BY <1>2, <1>3, <1>5, <1>6, DivUnique
<1> QED BY <1>2, <1>3, <1>7 DEF Nested, d, m, e, r

\* A tick begins a new block, of which all later ticks are no earlier than it, or belongs to
\* the block of the tick before.
LEMMA NextBlock ==
  ASSUME NEW n \in Nat, NEW u \in Nat \ {0}
  PROVE  /\ (n + 1) % u # 0 => (n + 1) \div u = n \div u
         /\ (n + 1) % u = 0 => \A a \in Nat : a > n => a \div u > n \div u
<1> DEFINE q == n \div u  r == n % u
<1>1. q \in Nat /\ r \in 0 .. u - 1 /\ n = u * q + r
  BY DivMod
<1> HIDE DEF q, r
<1>2. CASE r + 1 < u
  <2>1. r + 1 \in 0 .. u - 1 /\ n + 1 = u * q + (r + 1) /\ r + 1 # 0
    BY <1>1, <1>2
  <2>2. (n + 1) \div u = q /\ (n + 1) % u # 0
    BY <1>1, <2>1, DivUnique
  <2> QED BY <2>2 DEF q
<1>3. CASE r + 1 = u
  <2>1. (n + 1) % u = 0
    <3>1. 0 \in 0 .. u - 1 /\ n + 1 = u * (q + 1) + 0 /\ q + 1 \in Nat
      BY <1>1, <1>3
    <3> QED BY <1>1, <3>1, DivUnique
  <2>2. ASSUME NEW a \in Nat, a > n PROVE a \div u > q
    <3> DEFINE d == a \div u  m == a % u
    <3>1. d \in Nat /\ m \in 0 .. u - 1 /\ a = u * d + m
      BY DivMod
    <3> HIDE DEF d, m
    <3>2. u * d \in Nat /\ u * q \in Nat
      BY <1>1, <3>1
    <3>3. ~(d < q)
      BY <1>1, <1>3, <2>2, <3>1, <3>2, TimesMono
    <3>4. d # q
      BY <1>1, <1>3, <2>2, <3>1, <3>2
    <3>5. d > q
      BY <1>1, <3>1, <3>3, <3>4
    <3> QED BY <3>5 DEF d
  <2> QED BY <2>1, <2>2 DEF q
<1> QED BY <1>1, <1>2, <1>3

-----------------------------------------------------------------------------
(* Blocks of ticks *)

\* A block of a wheel is made of at least one of the wheel before it.
LEMMA Product ==
  ASSUME NEW u \in Nat \ {0}, NEW s \in Nat \ {0}
  PROVE  u * s \in Nat \ {0}
BY DivDiv DEF Nested

\* The sizes of the wheels.
LEMMA Sizes ==
  /\ TimeNear \in Nat \ {0} /\ TimeNear > 1
  /\ TimeSlot \in Nat \ {0} /\ TimeSlot > 1
  /\ TimeWheelCount \in Nat \ {0}
BY ClockAssumption DEF ClockAssumption

\* The equation of the function Unit.
IsUnit(f) ==
  f = [level \in 0 .. TimeWheelCount |->
         IF level = 0 THEN TimeNear ELSE f[level - 1] * TimeSlot]

\* The recursion that defines Unit has a solution.
LEMMA Units ==
  /\ Unit \in [0 .. TimeWheelCount -> Nat \ {0}]
  /\ Unit[0] = TimeNear
  /\ \A l \in Levels : Unit[l] = Unit[l - 1] * TimeSlot
<1> DEFINE S == Nat \ {0}
           n == TimeWheelCount
           step == [x \in (1 .. n) \X S |-> x[2] * TimeSlot]
<1>1. n \in Nat /\ TimeNear \in S /\ TimeSlot \in S
  BY Sizes
<1>0. \A v \in S : v * TimeSlot \in S
  BY <1>1, Product
<1>2. step \in [(1 .. n) \X S -> S]
  <2>2. \A x \in (1 .. n) \X S : x[2] \in S
    OBVIOUS
  <2> HIDE DEF S, n
  <2> QED BY <1>0, <2>2
<1>3. \A i \in 1 .. n, v \in S : step[<<i, v>>] = v * TimeSlot
  <2> HIDE DEF S, n
  <2> QED OBVIOUS
<1> HIDE DEF S, step
<1>4. PICK f \in [0 .. n -> S] : Solves(f, n, TimeNear, step)
  <2> HIDE DEF n
  <2> QED BY <1>1, <1>2, Recursion
<1>5. \A i \in 1 .. n : i - 1 \in 0 .. n /\ i # 0 /\ i \in 0 .. n
  BY <1>1
<1>6. ASSUME NEW i \in 1 .. n PROVE f[i] = f[i - 1] * TimeSlot
  <2>1. f[i - 1] \in S
    BY <1>4, <1>5
  <2>2. step[<<i, f[i - 1]>>] = f[i - 1] * TimeSlot
    BY <1>3, <2>1
  <2> QED BY <1>4, <2>2 DEF Solves
<1>7. IsUnit(f)
  <2>1. \A i \in 0 .. n : f[i] = IF i = 0 THEN TimeNear ELSE f[i - 1] * TimeSlot
    <3>1. \A i \in 0 .. n : i = 0 \/ i \in 1 .. n
      BY <1>1
    <3>2. f[0] = TimeNear
      BY <1>4 DEF Solves
    <3> QED BY <1>5, <1>6, <3>1, <3>2
  <2>2. f = [i \in 0 .. n |-> f[i]]
    BY <1>4
  <2>3. [i \in 0 .. n |-> f[i]]
          = [i \in 0 .. n |-> IF i = 0 THEN TimeNear ELSE f[i - 1] * TimeSlot]
    BY <2>1
  <2> QED BY <2>2, <2>3 DEF IsUnit
<1>8. IsUnit(Unit)
  BY <1>7 DEF IsUnit, Unit
<1>9. /\ Unit[0] = TimeNear /\ DOMAIN Unit = 0 .. n
      /\ \A l \in 1 .. n : Unit[l] = Unit[l - 1] * TimeSlot
      /\ Unit = [l \in 0 .. n |-> Unit[l]]
  BY <1>1, <1>5, <1>8 DEF IsUnit
<1>10. \A l \in 0 .. n : Unit[l] \in S
  <2> DEFINE T == {l \in 0 .. n : Unit[l] \in S}
  <2>0. \A l \in 0 .. n - 1 : l \in T => Unit[l] \in S
    BY <1>1
  <2>1. 0 \in T
    BY <1>1, <1>9
  <2>2. ASSUME NEW l \in 0 .. n - 1, l \in T PROVE l + 1 \in T
    <3>1. l + 1 \in 1 .. n /\ l + 1 - 1 = l /\ l + 1 \in 0 .. n
      BY <1>1
    <3>2. Unit[l + 1] = Unit[l] * TimeSlot
      <4> DEFINE k == l + 1
      <4>1. k \in 1 .. n /\ k - 1 = l
        BY <3>1
      <4> HIDE DEF k
      <4>2. Unit[k] = Unit[l] * TimeSlot
        BY <1>9, <4>1
      <4> QED BY <4>2 DEF k
    <3>3. Unit[l] * TimeSlot \in S
      <4>1. Unit[l] \in S
        BY <2>0, <2>2
      <4> DEFINE v == Unit[l]
      <4> SUFFICES v * TimeSlot \in S
        OBVIOUS
      <4>2. v \in S
        BY <4>1
      <4> HIDE DEF v
      <4> QED BY <1>0, <4>2
    <3> QED BY <3>1, <3>2, <3>3
  <2> HIDE DEF T
  <2>3. \A l \in 0 .. n : l \in T
    BY <1>1, <2>1, <2>2, Upwards
  <2> QED BY <2>3 DEF T
<1> QED BY <1>9, <1>10 DEF Levels, S

\* Two times lie in the same block of a level.
Same(l, a, b) == a \div Unit[l] = b \div Unit[l]

\* The slot of a time in a wheel is where it lies in the block of that level.
LEMMA Blocks ==
  ASSUME NEW l \in Levels, NEW a \in Nat
  PROVE  /\ a \div Unit[l] = (a \div Unit[l - 1]) \div TimeSlot
         /\ a % Unit[l] = Unit[l - 1] * SlotOf(l, a) + (a % Unit[l - 1])
         /\ SlotOf(l, a) \in 0 .. TimeSlot - 1
<1>1. l \in 0 .. TimeWheelCount /\ l - 1 \in 0 .. TimeWheelCount
  BY Sizes DEF Levels
<1>2. Unit[l - 1] \in Nat \ {0} /\ Unit[l] = Unit[l - 1] * TimeSlot
  BY <1>1, Units
<1> DEFINE u == Unit[l - 1]  s == TimeSlot
<1>3. u \in Nat \ {0} /\ s \in Nat \ {0} /\ Unit[l] = u * s
      /\ SlotOf(l, a) = (a \div u) % s
  BY <1>2, Sizes DEF SlotOf
<1> HIDE DEF u, s
<1>4. Nested(a, u, s)
  BY <1>3, DivDiv
<1> QED BY <1>3, <1>4 DEF Nested, u, s

\* Two times in the same block of a level are in the same block of the levels above.
LEMMA CoarserBlocks ==
  ASSUME NEW a \in Nat, NEW b \in Nat, NEW k \in 0 .. TimeWheelCount, Same(k, a, b)
  PROVE  \A l \in k .. TimeWheelCount : Same(l, a, b)
<1> DEFINE T == {l \in 0 .. TimeWheelCount : Same(l, a, b)}
<1>1. k \in T
  OBVIOUS
<1>2. ASSUME NEW l \in k .. TimeWheelCount - 1, l \in T PROVE l + 1 \in T
  <2>1. l + 1 \in Levels /\ l + 1 - 1 = l /\ l + 1 \in 0 .. TimeWheelCount
    BY Sizes DEF Levels
  <2> QED BY <1>2, <2>1, Blocks DEF Same
<1> HIDE DEF T
<1>3. \A l \in k .. TimeWheelCount : l \in T
  BY <1>1, <1>2, Sizes, Upwards
<1> QED BY <1>3 DEF T

\* A wheel comes round to its slot 0 when a block of its level begins, and only if all
\* the wheels before it do.
LEMMA Round ==
  ASSUME NEW l \in Levels, NEW now \in Nat
  PROVE  now % Unit[l] = 0 <=> now % Unit[l - 1] = 0 /\ SlotOf(l, now) = 0
<1>1. l - 1 \in 0 .. TimeWheelCount
  BY Sizes DEF Levels
<1> DEFINE u == Unit[l - 1]  r == now % u  s == SlotOf(l, now)
<1>2. u \in Nat \ {0} /\ r \in Nat /\ s \in Nat
  <2>1. u \in Nat \ {0}
    BY <1>1, Units
  <2>2. s \in Nat
    BY Blocks, Sizes
  <2>3. r \in Nat
    <3> HIDE DEF u
    <3> QED BY <2>1, DivMod
  <2> QED BY <2>1, <2>2, <2>3
<1>3. now % Unit[l] = u * s + r
  BY Blocks
<1> HIDE DEF u, r, s
<1>4. CASE s = 0
  <2>1. u * s = 0
    BY <1>2, <1>4
  <2> QED BY <1>2, <1>3, <1>4, <2>1 DEF u, r, s
<1>5. CASE s # 0
  <2>1. u * 0 + u <= u * s
    BY <1>2, <1>5, TimesMono
  <2>2. u * s + r # 0
    <3> DEFINE us == u * s
    <3>1. us \in Nat /\ u <= us
      BY <1>2, <2>1
    <3> HIDE DEF us
    <3>2. us + r # 0
      BY <1>2, <3>1
    <3> QED BY <3>2 DEF us
  <2> QED BY <1>3, <1>5, <2>2 DEF s
<1> QED BY <1>4, <1>5

\* If a wheel does not come round, none after it does.
LEMMA Rounds ==
  ASSUME NEW now \in Nat, NEW l \in 0 .. TimeWheelCount, now % Unit[l] # 0
  PROVE  \A k \in l .. TimeWheelCount : now % Unit[k] # 0
<1> DEFINE T == {k \in 0 .. TimeWheelCount : now % Unit[k] # 0}
<1>1. l \in T
  OBVIOUS
<1>2. ASSUME NEW k \in l .. TimeWheelCount - 1, k \in T PROVE k + 1 \in T
  <2> DEFINE j == k + 1
  <2>1. j \in Levels /\ j - 1 = k /\ j \in 0 .. TimeWheelCount /\ now % Unit[k] # 0
    BY <1>2, Sizes DEF Levels
  <2> SUFFICES now % Unit[j] # 0
    BY <2>1
  <2> HIDE DEF j, T
  <2> QED BY <2>1, Round
<1> HIDE DEF T
<1>3. l \in Nat /\ TimeWheelCount \in Nat
  BY Sizes
<1>4. \A k \in l .. TimeWheelCount : k \in T
  BY <1>1, <1>2, <1>3, Upwards
<1> QED BY <1>4 DEF T

\* What a new tick does to the block of a level.
LEMMA NewTick ==
  ASSUME NEW old \in Nat, NEW l \in 0 .. TimeWheelCount
  PROVE  /\ (old + 1) % Unit[l] # 0 => Same(l, old + 1, old)
         /\ (old + 1) % Unit[l] = 0 => \A a \in Nat : a > old => ~Same(l, a, old)
<1> DEFINE u == Unit[l]
<1>1. u \in Nat \ {0}
  BY Units
<1>2. /\ (old + 1) % u # 0 => (old + 1) \div u = old \div u
      /\ (old + 1) % u = 0 => \A a \in Nat : a > old => a \div u > old \div u
  <2> HIDE DEF u
  <2> QED BY <1>1, NextBlock
<1>3. old \div u \in Nat
  <2> HIDE DEF u
  <2> QED BY <1>1, DivMod
<1>4. ASSUME NEW a \in Nat, a > old, (old + 1) % u = 0 PROVE a \div u # old \div u
  <2>1. a \div u > old \div u
    BY <1>2, <1>4
  <2> DEFINE x == a \div u  y == old \div u
  <2>2. x > y /\ y \in Nat
    BY <1>3, <2>1
  <2> HIDE DEF x, y
  <2>3. x # y
    BY <2>2
  <2> QED BY <2>3 DEF x, y
<1> QED BY <1>2, <1>4 DEF Same

-----------------------------------------------------------------------------
(* The slot of a timer *)

\* The levels on which the two times are in the same block.
Near(when, now) == {l \in 0 .. TimeWheelCount : Same(l, when, now)}

\* Timer::add looks at nothing else.
LEMMA PlaceByNear ==
  ASSUME NEW when, NEW now
  PROVE  Place(when, now) =
           IF Near(when, now) = {} THEN <<TimeWheelCount, 0>>
           ELSE IF 0 \in Near(when, now) THEN <<0, when % TimeNear>>
           ELSE <<Min(Near(when, now)), SlotOf(Min(Near(when, now)), when)>>
BY DEF Place, Near, Same

\* Min finds the smallest.
LEMMA SmallestIs ==
  ASSUME NEW T \in SUBSET Nat, NEW l \in T, \A k \in T : l <= k
  PROVE  Min(T) = l
<1> DEFINE P(x) == x \in T /\ \A k \in T : x <= k
<1>1. P(l)
  OBVIOUS
<1>2. \A x : P(x) => x = l
  OBVIOUS
<1>3. Min(T) = CHOOSE x : P(x)
  BY DEF Min
<1> HIDE DEF P
<1>4. P(CHOOSE x : P(x))
  BY <1>1
<1> QED BY <1>2, <1>3, <1>4

\* Timer::add finds the first level on which the two times are in the same block.
LEMMA Places ==
  ASSUME NEW when \in Nat, NEW now \in Nat
  PROVE  /\ Same(0, when, now) => Place(when, now) = <<0, when % TimeNear>>
         /\ \A l \in Levels : Same(l, when, now) /\ ~Same(l - 1, when, now) =>
              Place(when, now) = <<l, SlotOf(l, when)>>
         /\ ~Same(TimeWheelCount, when, now) => Place(when, now) = <<TimeWheelCount, 0>>
<1>1. CASE Same(0, when, now)
  <2>1. 0 \in Near(when, now)
    BY <1>1, Sizes DEF Near
  <2>2. \A l \in 0 .. TimeWheelCount : Same(l, when, now)
    BY <1>1, CoarserBlocks, Sizes
  <2>3. \A l \in Levels : l - 1 \in 0 .. TimeWheelCount
    BY Sizes DEF Levels
  <2>4. TimeWheelCount \in 0 .. TimeWheelCount
    BY Sizes
  <2> QED BY <2>1, <2>2, <2>3, <2>4, PlaceByNear
<1>2. ASSUME NEW l \in Levels, Same(l, when, now), ~Same(l - 1, when, now)
      PROVE  Place(when, now) = <<l, SlotOf(l, when)>>
  <2>1. l \in 0 .. TimeWheelCount /\ l - 1 \in 0 .. TimeWheelCount
    BY Sizes DEF Levels
  <2>2. \A k \in 0 .. TimeWheelCount : k < l => ~Same(k, when, now)
    <3> SUFFICES ASSUME NEW k \in 0 .. TimeWheelCount, k < l, Same(k, when, now) PROVE FALSE
      OBVIOUS
    <3>1. l - 1 \in k .. TimeWheelCount
      BY <2>1
    <3> QED BY <1>2, <3>1, CoarserBlocks
  <2>3. l \in Near(when, now) /\ Near(when, now) \in SUBSET Nat /\ 0 \notin Near(when, now)
        /\ \A k \in Near(when, now) : l <= k
    BY <1>2, <2>1, <2>2 DEF Near, Levels
  <2>4. Min(Near(when, now)) = l
    BY <2>3, SmallestIs
  <2> QED BY <2>3, <2>4, PlaceByNear
<1>3. ASSUME ~Same(TimeWheelCount, when, now)
      PROVE  Place(when, now) = <<TimeWheelCount, 0>>
  <2>1. \A l \in 0 .. TimeWheelCount : ~Same(l, when, now)
    BY <1>3, CoarserBlocks, Sizes
  <2>2. Near(when, now) = {}
    BY <2>1 DEF Near
  <2> QED BY <2>2, PlaceByNear
<1> QED BY <1>1, <1>2, <1>3

\* There is no other case.
LEMMA SomePlace ==
  ASSUME NEW when \in Nat, NEW now \in Nat
  PROVE  \/ Same(0, when, now)
         \/ \E l \in Levels : Same(l, when, now) /\ ~Same(l - 1, when, now)
         \/ ~Same(TimeWheelCount, when, now)
<1> DEFINE T == {l \in 0 .. TimeWheelCount : ~Same(l, when, now)}
<1> SUFFICES ASSUME ~Same(0, when, now),
                    \A l \in Levels : ~Same(l - 1, when, now) => ~Same(l, when, now)
             PROVE  ~Same(TimeWheelCount, when, now)
  OBVIOUS
<1>1. 0 \in T
  BY Sizes
<1>2. ASSUME NEW l \in 0 .. TimeWheelCount - 1, l \in T PROVE l + 1 \in T
  <2> DEFINE k == l + 1
  <2>1. k \in Levels /\ k - 1 = l /\ k \in 0 .. TimeWheelCount
    BY Sizes DEF Levels
  <2>2. ~Same(l, when, now)
    BY <1>2
  <2> SUFFICES ~Same(k, when, now)
    BY <2>1
  <2> HIDE DEF k
  <2> QED BY <2>1, <2>2
<1> HIDE DEF T
<1>3. \A l \in 0 .. TimeWheelCount : l \in T
  BY <1>1, <1>2, Sizes, Upwards
<1>4. TimeWheelCount \in T
  BY <1>3, Sizes
<1> QED BY <1>4 DEF T

\* The place of a timer is one of the slots there are.
LEMMA PlaceTypes ==
  ASSUME NEW when \in Nat, NEW now \in Nat
  PROVE  Place(when, now) \in Positions
<1>1. CASE Same(0, when, now)
  <2>1. when % TimeNear \in 0 .. TimeNear - 1
    BY Sizes, DivMod
  <2>2. Place(when, now) = <<0, when % TimeNear>>
    BY <1>1, Places
  <2> QED BY <2>1, <2>2 DEF Positions
<1>2. ASSUME NEW l \in Levels, Same(l, when, now), ~Same(l - 1, when, now)
      PROVE  Place(when, now) \in Positions
  <2>1. SlotOf(l, when) \in 0 .. TimeSlot - 1
    BY Blocks
  <2>2. Place(when, now) = <<l, SlotOf(l, when)>>
    BY <1>2, Places
  <2> QED BY <2>1, <2>2 DEF Positions
<1>3. CASE ~Same(TimeWheelCount, when, now)
  <2>1. TimeWheelCount \in Levels /\ 0 \in 0 .. TimeSlot - 1
    BY Sizes DEF Levels
  <2>2. Place(when, now) = <<TimeWheelCount, 0>>
    BY <1>3, Places
  <2> QED BY <2>1, <2>2 DEF Positions
<1> QED BY <1>1, <1>2, <1>3, SomePlace

\* The slot of the near wheel at which the clock stands is for the timers of this very tick.
LEMMA NearIsNow ==
  ASSUME NEW when \in Nat, NEW now \in Nat
  PROVE  /\ NearSlot(now) \in Positions
         /\ Place(when, now) = NearSlot(now) <=> when = now
<1>1. now % TimeNear \in 0 .. TimeNear - 1
  BY Sizes, DivMod
<1>2. ASSUME Place(when, now) = NearSlot(now) PROVE when = now
  <2>1. Place(when, now)[1] = 0 /\ Place(when, now)[2] = now % TimeNear
    BY <1>2 DEF NearSlot
  <2>2. Same(0, when, now)
    <3>1. ~Same(TimeWheelCount, when, now) => Place(when, now)[1] = TimeWheelCount
      BY Places
    <3>2. \A l \in Levels : Same(l, when, now) /\ ~Same(l - 1, when, now) =>
                              Place(when, now)[1] = l
      BY Places
    <3>3. TimeWheelCount # 0 /\ 0 \notin Levels
      BY Sizes DEF Levels
    <3> QED BY <2>1, <3>1, <3>2, <3>3, SomePlace
  <2>3. when % TimeNear = now % TimeNear
    <3>1. Place(when, now) = <<0, when % TimeNear>>
      BY <2>2, Places
    <3> QED BY <2>1, <3>1
  <2> DEFINE u == TimeNear
  <2>4. u \in Nat \ {0}
    BY Sizes
  <2>5. when \div u = now \div u
    BY <2>2, Units DEF Same
  <2> HIDE DEF u
  <2>6. when = u * (when \div u) + (when % u) /\ now = u * (now \div u) + (now % u)
    BY <2>4, DivMod
  <2> QED BY <2>3, <2>5, <2>6 DEF u
<1>3. ASSUME when = now PROVE Place(when, now) = NearSlot(now)
  BY <1>3, Places DEF Same, NearSlot
<1> QED BY <1>1, <1>2, <1>3 DEF NearSlot, Positions

\* If all levels from m on stay in the block they were in, and neither before nor after is
\* the timer in the block of a level below m, it stays where it is.
LEMMA StaysBelow ==
  ASSUME NEW when \in Nat, NEW old \in Nat, NEW now \in Nat, NEW m \in Nat,
         \A l \in 0 .. TimeWheelCount : l >= m => Same(l, now, old),
         \A l \in 0 .. TimeWheelCount : l < m => ~Same(l, when, old) /\ ~Same(l, when, now)
  PROVE  Place(when, now) = Place(when, old)
<1>1. \A l \in 0 .. TimeWheelCount : Same(l, when, now) <=> Same(l, when, old)
  <2> TAKE l \in 0 .. TimeWheelCount
  <2>1. CASE l >= m
    BY <2>1 DEF Same
  <2>2. CASE l < m
    BY <2>2
  <2> QED BY <2>1, <2>2, Sizes
<1>2. Near(when, now) = Near(when, old)
  BY <1>1 DEF Near
<1> QED BY <1>2, PlaceByNear

\* Timer::shift with no wheel come round: nothing is to be moved.
LEMMA NoRound ==
  ASSUME NEW old \in Nat, NEW when \in Nat, (old + 1) % Unit[0] # 0
  PROVE  Place(when, old + 1) = Place(when, old)
<1>1. \A l \in 0 .. TimeWheelCount : (old + 1) % Unit[l] # 0
  BY Rounds, Sizes
<1>2. \A l \in 0 .. TimeWheelCount : Same(l, old + 1, old)
  BY <1>1, NewTick
<1> QED BY <1>2, StaysBelow

\* Timer::shift with all wheels come round: whatever is still to come waits in slot 0 of
\* the last wheel.
LEMMA AllRound ==
  ASSUME NEW old \in Nat, NEW when \in Nat, when > old, (old + 1) % Unit[TimeWheelCount] = 0
  PROVE  Place(when, old) = <<TimeWheelCount, 0>>
<1>1. ~Same(TimeWheelCount, when, old)
  BY NewTick, Sizes
<1> QED BY <1>1, Places

\* Timer::shift with the wheels before m come round, and the m-th not: only the timers of
\* its slot are to be moved.
LEMMA SomeRound ==
  ASSUME NEW old \in Nat, NEW when \in Nat, when > old, NEW m \in Levels,
         (old + 1) % Unit[m - 1] = 0, (old + 1) % Unit[m] # 0
  PROVE  \/ Place(when, old + 1) = Place(when, old)
         \/ Place(when, old) = <<m, SlotOf(m, old + 1)>>
<1> DEFINE now == old + 1
<1>1. now \in Nat /\ m \in 0 .. TimeWheelCount /\ m - 1 \in 0 .. TimeWheelCount /\ m \in Nat
  BY Sizes DEF Levels
<1>2. \A l \in 0 .. TimeWheelCount : l >= m => Same(l, now, old)
  <2>1. \A l \in 0 .. TimeWheelCount : l >= m => now % Unit[l] # 0
    BY <1>1, Rounds
  <2> QED BY <2>1, NewTick
<1>3. \A l \in 0 .. TimeWheelCount : l < m => ~Same(l, when, old)
  <2>1. ~Same(m - 1, when, old)
    BY <1>1, NewTick
  <2>2. \A l \in 0 .. TimeWheelCount : l < m => m - 1 \in l .. TimeWheelCount
    BY <1>1
  <2> QED BY <2>1, <2>2, CoarserBlocks
<1>4. CASE \A l \in 0 .. TimeWheelCount : l < m => ~Same(l, when, now)
  <2> HIDE DEF now
  <2>1. Place(when, now) = Place(when, old)
    BY <1>1, <1>2, <1>3, <1>4, StaysBelow
  <2> QED BY <2>1 DEF now
<1>5. ASSUME NEW l \in 0 .. TimeWheelCount, l < m, Same(l, when, now)
      PROVE  Place(when, old) = <<m, SlotOf(m, now)>>
  <2>1. m - 1 \in l .. TimeWheelCount /\ m \in l .. TimeWheelCount
    BY <1>1, <1>5
  <2>2. Same(m - 1, when, now) /\ Same(m, when, now)
    <3> HIDE DEF now
    <3> QED BY <1>1, <1>5, <2>1, CoarserBlocks
  <2>3. Same(m, when, old)
    BY <1>1, <1>2, <2>2 DEF Same
  <2>4. ~Same(m - 1, when, old)
    BY <1>1, <1>3
  <2>5. Place(when, old) = <<m, SlotOf(m, when)>>
    BY <2>3, <2>4, Places
  <2>6. SlotOf(m, when) = SlotOf(m, now)
    BY <2>2 DEF Same, SlotOf
  <2> QED BY <2>5, <2>6
<1> QED BY <1>4, <1>5

-----------------------------------------------------------------------------
(* Lists of timers, and the wheel that has each at its place *)

\* What the wheels may hold.
Wheels == [Positions -> Seq(Timers)]

\* The wheels w hold the timers S, each at its place at the time now.
Holds(w, S, now) ==
  /\ w \in Wheels
  /\ \A p \in Positions : Lists(w[p], {t \in S : Place(expire[t], now) = p})

\* Timers are numbers, and have a time to expire.
LEMMA TimerTypes ==
  ASSUME expire \in Seq(Nat)
  PROVE  /\ Timers \subseteq Nat /\ Timers = 1 .. Len(expire) /\ Len(expire) \in Nat
         /\ \A t \in Timers : expire[t] \in Nat
BY LenProperties, ElementOfSeq DEF Timers

\* A list without timers is empty.
LEMMA EmptyLists ==
  ASSUME NEW s \in Seq(Timers)
  PROVE  Lists(s, {}) <=> s = <<>>
<1>1. Len(s) \in Nat /\ DOMAIN s = 1 .. Len(s)
  BY LenProperties
<1>2. ASSUME Lists(s, {}) PROVE s = <<>>
  <2>1. DOMAIN s = {}
    BY <1>2 DEF Lists, Elements
  <2> QED BY <1>1, <2>1
<1>3. ASSUME s = <<>> PROVE Lists(s, {})
  BY <1>3 DEF Lists, Elements
<1> QED BY <1>2, <1>3

\* A timer that is added behind a list of timers, of which those of its tick are older.
LEMMA AppendLists ==
  ASSUME NEW s \in Seq(Timers), NEW T, Lists(s, T), NEW t \in Timers,
         \A u \in T : expire[u] = expire[t] => u < t
  PROVE  Append(s, t) \in Seq(Timers) /\ Lists(Append(s, t), T \cup {t})
<1> DEFINE r == Append(s, t)
<1>1. /\ r \in Seq(Timers) /\ Len(s) \in Nat /\ DOMAIN s = 1 .. Len(s)
      /\ DOMAIN r = 1 .. Len(s) + 1 /\ r[Len(s) + 1] = t
      /\ \A k \in DOMAIN s : r[k] = s[k]
  BY AppendProperties, LenProperties
<1> HIDE DEF r
<1>2. \A k \in DOMAIN r : k = Len(s) + 1 \/ k \in DOMAIN s
  BY <1>1
<1>3. \A k \in DOMAIN s : k \in DOMAIN r /\ s[k] \in T
  BY <1>1 DEF Lists, Elements
<1>4. Elements(r) = T \cup {t}
  <2>1. Len(s) + 1 \in DOMAIN r
    BY <1>1
  <2>2. \A u \in T : \E k \in DOMAIN s : s[k] = u
    BY DEF Lists, Elements
  <2> QED BY <1>1, <1>2, <1>3, <2>1, <2>2 DEF Elements
<1>5. ASSUME NEW j \in DOMAIN r, NEW k \in DOMAIN r, j < k, expire[r[j]] = expire[r[k]]
      PROVE  r[j] < r[k]
  <2>1. j \in DOMAIN s
    BY <1>1, <1>5
  <2>2. CASE k \in DOMAIN s
    BY <1>1, <1>5, <2>1, <2>2 DEF Lists
  <2>3. CASE k = Len(s) + 1
    BY <1>1, <1>3, <1>5, <2>1, <2>3
  <2> QED BY <1>2, <2>2, <2>3
<1> QED BY <1>1, <1>4, <1>5 DEF Lists, r

-----------------------------------------------------------------------------
(* Timer::move and Timer::shift *)

\* The equation of the loop in Move.
IsMoved(f, w, from, now) ==
  f = [k \in 0 .. Len(w[from]) |->
         IF k = 0 THEN [w EXCEPT ![from] = <<>>]
         ELSE Insert(f[k - 1], w[from][k], Place(expire[w[from][k]], now))]

\* The loop step by step: f[k] are the wheels after k timers.
MovesBy(f, w, from, now) ==
  /\ f[0] = [w EXCEPT ![from] = <<>>]
  /\ \A k \in 1 .. Len(w[from]) :
       f[k] = Insert(f[k - 1], w[from][k], Place(expire[w[from][k]], now))
  /\ Move(w, from, now) = f[Len(w[from])]

\* Timer::move: one timer of the slot after the other.
LEMMA MoveSteps ==
  ASSUME expire \in Seq(Nat), NEW w \in Wheels, NEW from \in Positions, NEW now \in Nat
  PROVE  \E f : MovesBy(f, w, from, now)
<1> DEFINE list == w[from]
           n == Len(list)
           start == [w EXCEPT ![from] = <<>>]
           P(k) == Place(expire[list[k]], now)
           step == [x \in (1 .. n) \X Wheels |-> Insert(x[2], list[x[1]], P(x[1]))]
<1>1. list \in Seq(Timers)
  BY DEF Wheels
<1>2. n \in Nat /\ \A k \in 1 .. n : list[k] \in Timers
  <2> HIDE DEF list
  <2> QED BY <1>1, LenProperties, ElementOfSeq
<1>3. start \in Wheels
  BY EmptySeq DEF Wheels
<1>4. \A k \in 1 .. n : P(k) \in Positions
  <2> TAKE k \in 1 .. n
  <2>1. expire[list[k]] \in Nat
    BY <1>2, TimerTypes
  <2> HIDE DEF list
  <2> QED BY <2>1, PlaceTypes
<1>5. \A k \in 1 .. n, v \in Wheels : Insert(v, list[k], P(k)) \in Wheels
  <2> TAKE k \in 1 .. n, v \in Wheels
  <2>1. list[k] \in Timers /\ P(k) \in Positions
    BY <1>2, <1>4
  <2> HIDE DEF P, list
  <2>2. v[P(k)] \in Seq(Timers)
    BY <2>1 DEF Wheels
  <2>3. Append(v[P(k)], list[k]) \in Seq(Timers)
    BY <2>1, <2>2, AppendProperties
  <2> QED BY <2>3 DEF Insert, Wheels
<1>6. step \in [(1 .. n) \X Wheels -> Wheels]
  <2> HIDE DEF n, list, P
  <2>1. \A x \in (1 .. n) \X Wheels : x[1] \in 1 .. n /\ x[2] \in Wheels
    OBVIOUS
  <2> QED BY <1>5, <2>1
<1>7. \A k \in 1 .. n, v \in Wheels : step[<<k, v>>] = Insert(v, list[k], P(k))
  <2> HIDE DEF n, list, P
  <2> QED OBVIOUS
<1> HIDE DEF step, start, list, n, P
<1>8. PICK f \in [0 .. n -> Wheels] : Solves(f, n, start, step)
  BY <1>2, <1>3, <1>6, Recursion
<1>9. \A k \in 1 .. n : k - 1 \in 0 .. n /\ k # 0 /\ k \in 0 .. n
  BY <1>2
<1>10. ASSUME NEW k \in 1 .. n PROVE f[k] = Insert(f[k - 1], list[k], P(k))
  <2>1. f[k - 1] \in Wheels
    BY <1>8, <1>9
  <2>2. step[<<k, f[k - 1]>>] = Insert(f[k - 1], list[k], P(k))
    BY <1>7, <2>1
  <2> QED BY <1>8, <2>2 DEF Solves
<1>11. IsMoved(f, w, from, now)
  <2>1. f = [k \in 0 .. n |-> f[k]]
    BY <1>8
  <2>2. \A k \in 0 .. n : f[k] = IF k = 0 THEN start ELSE Insert(f[k - 1], list[k], P(k))
    <3>1. \A k \in 0 .. n : k = 0 \/ k \in 1 .. n
      BY <1>2
    <3>2. f[0] = start
      BY <1>8 DEF Solves
    <3> QED BY <1>9, <1>10, <3>1, <3>2
  <2>3. [k \in 0 .. n |-> f[k]]
          = [k \in 0 .. n |-> IF k = 0 THEN start ELSE Insert(f[k - 1], list[k], P(k))]
    BY <2>2
  <2>4. f = [k \in 0 .. n |-> IF k = 0 THEN start ELSE Insert(f[k - 1], list[k], P(k))]
    BY <2>1, <2>3
  <2> QED BY <2>4 DEF IsMoved, n, list, start, P
<1> DEFINE g == CHOOSE f1 : IsMoved(f1, w, from, now)
<1>12. IsMoved(g, w, from, now)
  BY <1>11
<1>13. Move(w, from, now) = g[n]
  BY DEF Move, IsMoved, n, list
<1> HIDE DEF g
<1>14. g = [k \in 0 .. n |-> IF k = 0 THEN start ELSE Insert(g[k - 1], list[k], P(k))]
  BY <1>12 DEF IsMoved, n, list, start, P
<1>15. g[0] = start
  BY <1>2, <1>14
<1>16. \A k \in 1 .. n : g[k] = Insert(g[k - 1], list[k], P(k))
  BY <1>9, <1>14
<1>17. MovesBy(g, w, from, now)
  BY <1>13, <1>15, <1>16 DEF MovesBy, n, list, start, P
<1> QED BY <1>17

\* Insert changes one slot.
LEMMA InsertTypes ==
  ASSUME NEW v \in Wheels, NEW t \in Timers, NEW p \in Positions
  PROVE  /\ Insert(v, t, p) \in Wheels
         /\ Insert(v, t, p)[p] = Append(v[p], t)
         /\ \A q \in Positions : q # p => Insert(v, t, p)[q] = v[q]
<1>1. v \in [Positions -> Seq(Timers)] /\ v[p] \in Seq(Timers)
  BY DEF Wheels
<1>2. Append(v[p], t) \in Seq(Timers)
  BY <1>1, AppendProperties
<1>3. Insert(v, t, p) = [v EXCEPT ![p] = Append(v[p], t)]
  BY DEF Insert
<1> QED BY <1>1, <1>2, <1>3 DEF Wheels

\* Timer::move puts each timer of a slot at its place; if all others are already there,
\* then all are.
LEMMA MoveHolds ==
  ASSUME expire \in Seq(Nat), NEW S \in SUBSET Timers, NEW w, NEW from \in Positions,
         NEW old \in Nat, NEW now \in Nat, Holds(w, S, old),
         \A t \in S : \/ Place(expire[t], old) = from
                      \/ Place(expire[t], now) = Place(expire[t], old)
  PROVE  Holds(Move(w, from, now), S, now)
<1> DEFINE list == w[from]
           n == Len(list)
           O(t) == Place(expire[t], old)
           P(t) == Place(expire[t], now)
           Half(k, p) == {t \in S : P(t) = p /\ (O(t) # from \/ \E i \in 1 .. k : list[i] = t)}
           Good(k, v) == v \in Wheels /\ \A p \in Positions : Lists(v[p], Half(k, p))
<1>1. w \in Wheels /\ \A p \in Positions : Lists(w[p], {t \in S : O(t) = p})
  BY DEF Holds
<1>2. list \in Seq(Timers) /\ n \in Nat /\ DOMAIN list = 1 .. n
  <2>1. list \in Seq(Timers)
    BY <1>1 DEF Wheels
  <2> HIDE DEF list
  <2> QED BY <2>1, LenProperties
<1>3. Lists(list, {t \in S : O(t) = from})
  BY <1>1
<1>4. \A t \in S : expire[t] \in Nat /\ P(t) \in Positions
  <2> TAKE t \in S
  <2>1. expire[t] \in Nat
    BY TimerTypes
  <2> QED BY <2>1, PlaceTypes
<1>5. \A k \in 1 .. n : list[k] \in S /\ O(list[k]) = from
  <2> HIDE DEF list, n, O
  <2> QED BY <1>2, <1>3 DEF Lists, Elements
<1>6. \A t \in S : O(t) = from => \E i \in 1 .. n : list[i] = t
  <2> HIDE DEF list, n, O
  <2> QED BY <1>2, <1>3 DEF Lists, Elements
<1>a. PICK f : MovesBy(f, w, from, now)
  BY <1>1, MoveSteps
<1>7. /\ f[0] = [w EXCEPT ![from] = <<>>]
      /\ \A k \in 1 .. n : f[k] = Insert(f[k - 1], list[k], P(list[k]))
      /\ Move(w, from, now) = f[n]
  BY <1>a DEF MovesBy
<1>8. \A t \in S : O(t) = from \/ P(t) = O(t)
  OBVIOUS
<1>9. \A t \in S, u \in S : expire[t] = expire[u] => O(t) = O(u)
  OBVIOUS
<1>10. \A j \in 1 .. n, k \in 1 .. n :
         j < k /\ expire[list[j]] = expire[list[k]] => list[j] < list[k]
  BY <1>2, <1>3 DEF Lists
<1> HIDE DEF list, n, O, P
<1>11. Good(0, f[0])
  <2>1. f[0] \in Wheels
    BY <1>1, <1>7, EmptySeq DEF Wheels
  <2>2. ASSUME NEW p \in Positions PROVE Lists(f[0][p], Half(0, p))
    <3>1. CASE p = from
      <4>1. f[0][p] = <<>>
        BY <1>1, <1>7, <3>1 DEF Wheels
      <4>2. Half(0, p) = {}
        BY <1>8, <3>1
      <4>3. Lists(<<>>, {})
        BY EmptyLists, EmptySeq
      <4> HIDE DEF Half
      <4> QED BY <4>1, <4>2, <4>3
    <3>2. CASE p # from
      <4>1. f[0][p] = w[p]
        BY <1>1, <1>7, <3>2 DEF Wheels
      <4>2. Half(0, p) = {t \in S : O(t) = p}
        BY <1>8, <3>2
      <4> HIDE DEF Half
      <4> QED BY <1>1, <4>1, <4>2
    <3> QED BY <3>1, <3>2
  <2> QED BY <2>1, <2>2
<1>12. ASSUME NEW k \in 0 .. n - 1, Good(k, f[k]) PROVE Good(k + 1, f[k + 1])
  <2> DEFINE t == list[k + 1]  v == f[k]  r == f[k + 1]  q == P(t)
  <2>1. k + 1 \in 1 .. n /\ t \in S /\ O(t) = from
    <3>1. k + 1 \in 1 .. n
      BY <1>2
    <3> DEFINE m == k + 1
    <3>2. m \in 1 .. n
      BY <3>1
    <3> HIDE DEF m
    <3>3. list[m] \in S /\ O(list[m]) = from
      BY <1>5, <3>2
    <3> QED BY <3>1, <3>3 DEF m
  <2>2. q \in Positions /\ t \in Timers
    BY <1>4, <2>1
  <2>3. r = Insert(v, t, q)
    <3> DEFINE m == k + 1
    <3>1. m \in 1 .. n /\ m - 1 = k
      BY <2>1
    <3> HIDE DEF m
    <3>2. f[m] = Insert(f[k], list[m], P(list[m]))
      BY <1>7, <3>1
    <3> QED BY <3>2 DEF m
  <2>4. v \in Wheels /\ \A p \in Positions : Lists(v[p], Half(k, p))
    BY <1>12
  <2>5. \A u \in Half(k, q) : expire[u] = expire[t] => u < t
    <3> SUFFICES ASSUME NEW u \in Half(k, q), expire[u] = expire[t] PROVE u < t
      OBVIOUS
    <3>1. u \in S /\ (O(u) # from \/ \E i \in 1 .. k : list[i] = u)
      OBVIOUS
    <3>2. O(u) = from
      BY <1>9, <2>1, <3>1
    <3>3. PICK i \in 1 .. k : list[i] = u
      BY <3>1, <3>2
    <3>4. i \in 1 .. n /\ i < k + 1
      BY <1>2
    <3> QED BY <1>10, <2>1, <3>3, <3>4
  <2>6. \A p \in Positions : Half(k + 1, p) = IF p = q THEN Half(k, p) \cup {t} ELSE Half(k, p)
    <3> TAKE p \in Positions
    <3>1. \A i : i \in 1 .. k + 1 <=> i \in 1 .. k \/ i = k + 1
      BY <1>2
    <3>2. \A u \in S : (\E i \in 1 .. k + 1 : list[i] = u) <=> (\E i \in 1 .. k : list[i] = u) \/ u = t
      BY <3>1
    <3>3. Half(k + 1, p)
            = {u \in S : P(u) = p /\ (O(u) # from \/ (\E i \in 1 .. k : list[i] = u) \/ u = t)}
      BY <3>2
    <3> QED BY <2>1, <3>3
  <2> HIDE DEF Half, t, v, r, q
  <2>7. /\ r \in Wheels /\ r[q] = Append(v[q], t)
        /\ \A p \in Positions : p # q => r[p] = v[p]
    BY <2>2, <2>3, <2>4, InsertTypes
  <2>8. v[q] \in Seq(Timers)
    BY <2>2, <2>4 DEF Wheels
  <2>9. Lists(Append(v[q], t), Half(k, q) \cup {t})
    BY <2>2, <2>4, <2>5, <2>8, AppendLists
  <2>10. \A p \in Positions : Lists(r[p], Half(k + 1, p))
    BY <2>4, <2>6, <2>7, <2>9
  <2> QED BY <2>7, <2>10 DEF r
<1> HIDE DEF Good
<1>13. Good(n, f[n])
  <2> DEFINE T == {k \in 0 .. n : Good(k, f[k])}
  <2>1. 0 \in T
    BY <1>2, <1>11
  <2>2. \A k \in 0 .. n - 1 : k \in T => k + 1 \in T
    BY <1>2, <1>12
  <2> HIDE DEF T
  <2>3. \A k \in 0 .. n : k \in T
    BY <1>2, <2>1, <2>2, Upwards
  <2>4. n \in T
    BY <1>2, <2>3
  <2> QED BY <2>4 DEF T
<1>14. \A p \in Positions : Half(n, p) = {t \in S : P(t) = p}
  BY <1>6
<1> HIDE DEF Half
<1>15. f[n] \in Wheels /\ \A p \in Positions : Lists(f[n][p], {t \in S : P(t) = p})
  BY <1>13, <1>14 DEF Good
<1> QED BY <1>7, <1>15 DEF Holds, P

\* Timer::move of an empty slot changes nothing.
LEMMA MoveEmpty ==
  ASSUME expire \in Seq(Nat), NEW w \in Wheels, NEW from \in Positions, NEW now \in Nat,
         w[from] = <<>>
  PROVE  Move(w, from, now) = w
<1>1. PICK f : MovesBy(f, w, from, now)
  BY MoveSteps
<1>2. Move(w, from, now) = f[0]
  BY <1>1 DEF MovesBy
<1>3. f[0] = [w EXCEPT ![from] = <<>>]
  BY <1>1 DEF MovesBy
<1>4. [w EXCEPT ![from] = <<>>] = w
  BY DEF Wheels
<1> QED BY <1>2, <1>3, <1>4

\* The equation of the loop in Turn over all wheels.
IsAllMoved(f, w, now) ==
  f = [level \in 0 .. TimeWheelCount |->
         IF level = 0 THEN w ELSE Move(f[level - 1], <<level, 0>>, now)]

\* What Timer::shift does when all wheels have come round, if only the last one has
\* anything in its slot 0.
LEMMA TurnAll ==
  ASSUME expire \in Seq(Nat), NEW w \in Wheels, NEW now \in Nat,
         now % Unit[TimeWheelCount] = 0,
         \A l \in Levels : l # TimeWheelCount => w[<<l, 0>>] = <<>>
  PROVE  Turn(w, now) = Move(w, <<TimeWheelCount, 0>>, now)
<1> DEFINE n == TimeWheelCount
           f == [l \in 0 .. n |-> IF l = n THEN Move(w, <<n, 0>>, now) ELSE w]
<1>1. /\ n \in Nat /\ n # 0 /\ n \in 0 .. n /\ 0 \in 0 .. n
      /\ \A l \in 1 .. n : l \in 0 .. n /\ l - 1 \in 0 .. n /\ l - 1 # n /\ l # 0
      /\ \A l \in 0 .. n : l = 0 \/ l \in 1 .. n
  BY Sizes
<1>2. \A l \in 1 .. n : l # n => Move(w, <<l, 0>>, now) = w
  <2> TAKE l \in 1 .. n
  <2> HAVE l # n
  <2>1. <<l, 0>> \in Positions /\ l \in Levels
    BY Sizes DEF Positions, Levels
  <2>2. w[<<l, 0>>] = <<>>
    BY <2>1
  <2> QED BY <2>1, <2>2, MoveEmpty
<1>3. IsAllMoved(f, w, now)
  <2>1. \A l \in 0 .. n : f[l] = IF l = n THEN Move(w, <<n, 0>>, now) ELSE w
    OBVIOUS
  <2>2. f = [l \in 0 .. n |-> f[l]]
    OBVIOUS
  <2> HIDE DEF f
  <2>3. ASSUME NEW l \in 0 .. n
        PROVE  f[l] = IF l = 0 THEN w ELSE Move(f[l - 1], <<l, 0>>, now)
    <3>1. CASE l = 0
      BY <1>1, <2>1, <3>1
    <3>2. CASE l \in 1 .. n
      <4>1. f[l - 1] = w /\ l # 0
        BY <1>1, <2>1, <3>2
      <4>2. f[l] = Move(w, <<l, 0>>, now)
        BY <1>1, <1>2, <2>1, <3>2
      <4> QED BY <4>1, <4>2
    <3> QED BY <1>1, <3>1, <3>2
  <2>4. [l \in 0 .. n |-> f[l]]
          = [l \in 0 .. n |-> IF l = 0 THEN w ELSE Move(f[l - 1], <<l, 0>>, now)]
    BY <2>3
  <2>5. f = [l \in 0 .. n |-> IF l = 0 THEN w ELSE Move(f[l - 1], <<l, 0>>, now)]
    BY <2>2, <2>4
  <2> QED BY <2>5 DEF IsAllMoved
<1> HIDE DEF f
<1> DEFINE g == CHOOSE f1 : IsAllMoved(f1, w, now)
<1>4. IsAllMoved(g, w, now)
  BY <1>3
<1>5. Turn(w, now) = g[n]
  BY DEF Turn, IsAllMoved
<1> HIDE DEF g
<1>6. \A l \in 0 .. n : g[l] = IF l = 0 THEN w ELSE Move(g[l - 1], <<l, 0>>, now)
  BY <1>4 DEF IsAllMoved
<1>7. n - 1 \in Nat /\ \A l \in 0 .. n - 1 : g[l] = w
  <2> DEFINE T == {l \in 0 .. n - 1 : g[l] = w}
  <2>0. \A l \in T : g[l] = w
    OBVIOUS
  <2>1. n - 1 \in Nat /\ 0 \in T
    <3>1. n - 1 \in Nat /\ 0 \in 0 .. n - 1
      BY <1>1
    <3>2. g[0] = w
      BY <1>1, <1>6
    <3> QED BY <3>1, <3>2
  <2>2. ASSUME NEW l \in 0 .. n - 1 - 1, l \in T PROVE l + 1 \in T
    <3> DEFINE k == l + 1
    <3>1. k \in 1 .. n /\ k # n /\ k - 1 = l /\ k \in 0 .. n - 1 /\ g[l] = w
      BY <1>1, <2>2
    <3> SUFFICES g[k] = w
      BY <3>1
    <3> HIDE DEF k
    <3>2. g[k] = Move(g[k - 1], <<k, 0>>, now)
      BY <1>1, <1>6, <3>1
    <3>3. g[k] = Move(w, <<k, 0>>, now)
      BY <3>1, <3>2
    <3> QED BY <1>2, <3>1, <3>3
  <2> HIDE DEF T
  <2>3. \A l \in 0 .. n - 1 : l \in T
    <3> DEFINE h == n - 1
    <3>1. h \in Nat /\ 0 \in Nat /\ 0 \in T
      BY <2>1
    <3>2. \A l \in 0 .. h - 1 : l \in T => l + 1 \in T
      BY <2>2
    <3> HIDE DEF h, n
    <3>3. \A l \in 0 .. h : l \in T
      BY <3>1, <3>2, Upwards
    <3> QED BY <3>3 DEF h
  <2>4. ASSUME NEW l \in 0 .. n - 1 PROVE g[l] = w
    <3>1. l \in T
      BY <2>3
    <3> QED BY <2>0, <3>1, Zenon
  <2> QED BY <2>1, <2>4
<1>8. g[n - 1] = w
  BY <1>7
<1>9. g[n] = Move(g[n - 1], <<n, 0>>, now)
  BY <1>1, <1>6
<1> QED BY <1>5, <1>8, <1>9

\* Timer::shift moves what has to be moved: after it every timer of a wheel whose timers
\* were in place is in place for the new tick.
LEMMA TurnHolds ==
  ASSUME expire \in Seq(Nat), NEW S \in SUBSET Timers, NEW w, NEW old \in Nat,
         Holds(w, S, old), \A t \in S : expire[t] > old
  PROVE  Holds(Turn(w, old + 1), S, old + 1)
<1> DEFINE now == old + 1
<1>1. now \in Nat /\ w \in Wheels /\ \A t \in S : expire[t] \in Nat
  BY TimerTypes DEF Holds
<1>2. CASE now % Unit[TimeWheelCount] = 0
  <2> DEFINE last == <<TimeWheelCount, 0>>
  <2>1. \A t \in S : Place(expire[t], old) = last
    BY <1>1, <1>2, AllRound
  <2>2. last \in Positions
    BY Sizes DEF Positions, Levels
  <2>3. ASSUME NEW l \in Levels, l # TimeWheelCount PROVE w[<<l, 0>>] = <<>>
    <3>1. <<l, 0>> \in Positions /\ <<l, 0>> # last
      BY <2>3, Sizes DEF Positions, Levels
    <3>2. Lists(w[<<l, 0>>], {t \in S : Place(expire[t], old) = <<l, 0>>})
      BY <3>1 DEF Holds
    <3>3. {t \in S : Place(expire[t], old) = <<l, 0>>} = {}
      BY <2>1, <3>1
    <3>4. w[<<l, 0>>] \in Seq(Timers)
      BY <1>1, <3>1 DEF Wheels
    <3> QED BY <3>2, <3>3, <3>4, EmptyLists
  <2>4. Turn(w, now) = Move(w, last, now)
    <3> HIDE DEF now
    <3> QED BY <1>1, <1>2, <2>3, TurnAll
  <2> HIDE DEF now, last
  <2>5. Holds(Move(w, last, now), S, now)
    BY <1>1, <2>1, <2>2, MoveHolds
  <2> QED BY <2>4, <2>5 DEF now
<1>3. CASE now % Unit[0] # 0
  <2>1. \A l \in 0 .. TimeWheelCount : now % Unit[l] # 0
    <3> HIDE DEF now
    <3> QED BY <1>1, <1>3, Rounds, Sizes
  <2>2. \A l \in Levels : now % Unit[l - 1] # 0
    BY <2>1, Sizes DEF Levels
  <2>3. now % Unit[TimeWheelCount] # 0
    BY <2>1, Sizes
  <2>4. Turn(w, now) = w
    <3> DEFINE turning == {l \in Levels : now % Unit[l - 1] = 0 /\ SlotOf(l, now) # 0}
    <3>1. turning = {}
      BY <2>2
    <3> HIDE DEF now
    <3> QED BY <2>3, <3>1 DEF Turn
  <2>5. \A t \in S : Place(expire[t], now) = Place(expire[t], old)
    BY <1>1, <1>3, NoRound
  <2>6. \A p \in Positions :
          {t \in S : Place(expire[t], now) = p} = {t \in S : Place(expire[t], old) = p}
    BY <2>5
  <2>7. Holds(w, S, now)
    BY <2>6 DEF Holds
  <2> QED BY <2>4, <2>7
<1>4. CASE now % Unit[0] = 0 /\ now % Unit[TimeWheelCount] # 0
  <2>1. PICK m \in Levels : now % Unit[m - 1] = 0 /\ now % Unit[m] # 0
    <3> DEFINE T == {l \in 0 .. TimeWheelCount : now % Unit[l] = 0}
    <3> SUFFICES ASSUME \A m \in Levels : now % Unit[m - 1] = 0 => now % Unit[m] = 0
                 PROVE  FALSE
      OBVIOUS
    <3>1. 0 \in T
      BY <1>4, Sizes
    <3>2. ASSUME NEW l \in 0 .. TimeWheelCount - 1, l \in T PROVE l + 1 \in T
      <4> DEFINE k == l + 1
      <4>1. k \in Levels /\ k - 1 = l /\ k \in 0 .. TimeWheelCount /\ now % Unit[l] = 0
        BY <3>2, Sizes DEF Levels
      <4> SUFFICES now % Unit[k] = 0
        BY <4>1
      <4> HIDE DEF k, now, T
      <4> QED BY <4>1
    <3> HIDE DEF T
    <3>3. \A l \in 0 .. TimeWheelCount : l \in T
      BY <3>1, <3>2, Sizes, Upwards
    <3>4. TimeWheelCount \in T
      BY <3>3, Sizes
    <3> QED BY <1>4, <3>4 DEF T
  <2> DEFINE slot == SlotOf(m, now)
             turning == {l \in Levels : now % Unit[l - 1] = 0 /\ SlotOf(l, now) # 0}
  <2> HIDE DEF now
  <2>2. slot # 0 /\ slot \in 0 .. TimeSlot - 1
    BY <1>1, <2>1, Round, Blocks
  <2>3. turning = {m}
    <3>1. m \in turning
      BY <2>1, <2>2
    <3>2. ASSUME NEW l \in turning PROVE l = m
      <4>1. l \in Levels /\ now % Unit[l - 1] = 0 /\ SlotOf(l, now) # 0
        OBVIOUS
      <4>2. now % Unit[l] # 0
        BY <1>1, <4>1, Round
      <4>3. l \in 1 .. TimeWheelCount /\ m \in 1 .. TimeWheelCount /\ TimeWheelCount \in Nat
        BY <4>1, Sizes DEF Levels
      <4>4. ~(l < m)
        <5> SUFFICES ASSUME l < m PROVE FALSE
          OBVIOUS
        <5>1. l \in 0 .. TimeWheelCount /\ m - 1 \in l .. TimeWheelCount
          BY <4>3
        <5> QED BY <1>1, <2>1, <4>2, <5>1, Rounds
      <4>5. ~(m < l)
        <5> SUFFICES ASSUME m < l PROVE FALSE
          OBVIOUS
        <5>1. m \in 0 .. TimeWheelCount /\ l - 1 \in m .. TimeWheelCount
          BY <4>3
        <5> QED BY <1>1, <2>1, <4>1, <5>1, Rounds
      <4> QED BY <4>3, <4>4, <4>5
    <3> HIDE DEF turning
    <3> QED BY <3>1, <3>2
  <2>4. Min(turning) = m
    <3>1. m \in Nat /\ {m} \in SUBSET Nat
      BY Sizes DEF Levels
    <3>2. \A k \in {m} : m <= k
      BY <3>1
    <3>3. Min({m}) = m
      BY <3>1, <3>2, SmallestIs
    <3> QED BY <2>3, <3>3
  <2>5. Turn(w, now) = Move(w, <<m, slot>>, now)
    <3>1. Turn(w, now) = IF now % Unit[TimeWheelCount] = 0 THEN Turn(w, now)
                         ELSE IF turning = {} THEN w
                         ELSE Move(w, <<Min(turning), SlotOf(Min(turning), now)>>, now)
      BY DEF Turn
    <3> HIDE DEF turning
    <3> QED BY <1>4, <2>3, <2>4, <3>1
  <2>6. <<m, slot>> \in Positions
    BY <2>2 DEF Positions
  <2>7. \A t \in S : \/ Place(expire[t], old) = <<m, slot>>
                     \/ Place(expire[t], now) = Place(expire[t], old)
    BY <1>1, <2>1, SomeRound DEF now
  <2> HIDE DEF slot
  <2>8. Holds(Move(w, <<m, slot>>, now), S, now)
    BY <1>1, <2>6, <2>7, MoveHolds
  <2> QED BY <2>5, <2>8 DEF now
<1> QED BY <1>2, <1>3, <1>4

-----------------------------------------------------------------------------
(* Timer::push *)

\* Two lists that are joined.
LEMMA ConcatElements ==
  ASSUME NEW r \in Seq(Timers), NEW s \in Seq(Timers)
  PROVE  r \o s \in Seq(Timers) /\ Elements(r \o s) = Elements(r) \cup Elements(s)
<1> DEFINE q == r \o s  m == Len(r)  n == Len(s)
<1>1. /\ q \in Seq(Timers) /\ m \in Nat /\ n \in Nat
      /\ DOMAIN q = 1 .. m + n /\ DOMAIN r = 1 .. m /\ DOMAIN s = 1 .. n
      /\ \A k \in 1 .. m + n : q[k] = IF k <= m THEN r[k] ELSE s[k - m]
  <2>1. q \in Seq(Timers) /\ Len(q) = m + n
        /\ \A k \in 1 .. m + n : q[k] = IF k <= m THEN r[k] ELSE s[k - m]
    BY ConcatProperties
  <2> HIDE DEF q
  <2> QED BY <2>1, LenProperties
<1> HIDE DEF q, m, n
<1>2. \A k \in DOMAIN q : q[k] \in Elements(r) \cup Elements(s)
  <2> TAKE k \in DOMAIN q
  <2>1. CASE k <= m
    <3>1. k \in DOMAIN r /\ q[k] = r[k]
      BY <1>1, <2>1
    <3> QED BY <3>1 DEF Elements
  <2>2. CASE ~(k <= m)
    <3>1. k - m \in DOMAIN s /\ q[k] = s[k - m]
      BY <1>1, <2>2
    <3> QED BY <3>1 DEF Elements
  <2> QED BY <2>1, <2>2
<1>3. \A k \in DOMAIN r : r[k] \in Elements(q)
  <2> TAKE k \in DOMAIN r
  <2>1. k \in DOMAIN q /\ q[k] = r[k]
    BY <1>1
  <2> QED BY <2>1 DEF Elements
<1>4. \A k \in DOMAIN s : s[k] \in Elements(q)
  <2> TAKE k \in DOMAIN s
  <2> DEFINE i == k + m
  <2>1. i \in 1 .. m + n /\ ~(i <= m) /\ i - m = k
    BY <1>1
  <2> HIDE DEF i
  <2>2. i \in DOMAIN q /\ q[i] = s[k]
    BY <1>1, <2>1
  <2> QED BY <2>2 DEF Elements
<1>5. Elements(q) \subseteq Elements(r) \cup Elements(s)
  BY <1>2 DEF Elements
<1>6. Elements(r) \subseteq Elements(q) /\ Elements(s) \subseteq Elements(q)
  BY <1>3, <1>4 DEF Elements
<1> QED BY <1>1, <1>5, <1>6 DEF q

\* Timer::push takes the timers of this very tick and leaves the others in place.
LEMMA NearHolds ==
  ASSUME expire \in Seq(Nat), NEW S \in SUBSET Timers, NEW w, NEW now \in Nat,
         Holds(w, S, now)
  PROVE  /\ w[NearSlot(now)] \in Seq(Timers)
         /\ Lists(w[NearSlot(now)], {t \in S : expire[t] = now})
         /\ Holds(Emptied(w, now), {t \in S : expire[t] # now}, now)
<1> DEFINE near == NearSlot(now)
           v == Emptied(w, now)
           R == {t \in S : expire[t] # now}
<1>1. w \in Wheels /\ \A p \in Positions : Lists(w[p], {t \in S : Place(expire[t], now) = p})
  BY DEF Holds
<1>2. near \in Positions /\ \A t \in S : Place(expire[t], now) = near <=> expire[t] = now
  <2>1. near \in Positions
    BY NearIsNow
  <2>2. \A t \in S : expire[t] \in Nat
    BY TimerTypes
  <2> QED BY <2>1, <2>2, NearIsNow
<1>3. v = [w EXCEPT ![near] = <<>>]
  BY DEF Emptied
<1> HIDE DEF near, v
<1>4. {t \in S : Place(expire[t], now) = near} = {t \in S : expire[t] = now}
  BY <1>2
<1>5. w[near] \in Seq(Timers) /\ Lists(w[near], {t \in S : expire[t] = now})
  BY <1>1, <1>2, <1>4 DEF Wheels
<1>6. v \in Wheels /\ v[near] = <<>> /\ \A p \in Positions : p # near => v[p] = w[p]
  BY <1>1, <1>2, <1>3, EmptySeq DEF Wheels
<1>7. ASSUME NEW p \in Positions PROVE Lists(v[p], {t \in R : Place(expire[t], now) = p})
  <2>1. CASE p = near
    <3>1. {t \in R : Place(expire[t], now) = p} = {}
      BY <1>2, <2>1
    <3>2. v[p] = <<>> /\ v[p] \in Seq(Timers)
      BY <1>6, <2>1, EmptySeq
    <3> QED BY <3>1, <3>2, EmptyLists
  <2>2. CASE p # near
    <3>1. {t \in R : Place(expire[t], now) = p} = {t \in S : Place(expire[t], now) = p}
      BY <1>2, <2>2
    <3> QED BY <1>1, <1>6, <2>2, <3>1
  <2> QED BY <2>1, <2>2
<1>8. Holds(v, R, now)
  BY <1>6, <1>7 DEF Holds
<1> QED BY <1>5, <1>8 DEF near, v

\* TimerList counts as this module does.
LEMMA SameCardinality ==
  ASSUME NEW T
  PROVE  List!Cardinality(T) = Cardinality(T)
BY DEF List!Cardinality, Cardinality

\* The timers of one tick, each once and the oldest first.
LEMMA ListsInTurn ==
  ASSUME expire \in Seq(Nat), NEW s \in Seq(Timers), NEW T \in SUBSET Timers, NEW now,
         Lists(s, T), \A t \in T : expire[t] = now
  PROVE  s \in List!InTurn(T)
<1> DEFINE n == Len(s)
<1>1. n \in Nat /\ DOMAIN s = 1 .. n /\ s = [k \in 1 .. n |-> s[k]]
  BY LenProperties
<1>2. T \subseteq Nat
  BY TimerTypes
<1> HIDE DEF n
<1>3. \A k \in 1 .. n : s[k] \in T
  BY <1>1 DEF Lists, Elements
<1>4. s \in [1 .. n -> T]
  BY <1>1, <1>3
<1>5. \A j \in 1 .. n, k \in 1 .. n : j < k => s[j] < s[k]
  BY <1>1, <1>3 DEF Lists
<1>6. \A j \in 1 .. n, k \in 1 .. n : s[j] = s[k] => j = k
  <2> SUFFICES ASSUME NEW j \in 1 .. n, NEW k \in 1 .. n, s[j] = s[k] PROVE j = k
    OBVIOUS
  <2>1. s[j] \in Nat /\ s[k] \in Nat
    BY <1>2, <1>3
  <2>2. ~(s[j] < s[k]) /\ ~(s[k] < s[j])
    BY <2>1
  <2>3. ~(j < k) /\ ~(k < j)
    BY <1>5, <2>2
  <2> QED BY <1>1, <2>3
<1>7. \A t \in T : \E k \in 1 .. n : s[k] = t
  BY <1>1 DEF Lists, Elements
<1>8. ExistsBijection(1 .. n, T)
  BY <1>4, <1>6, <1>7 DEF ExistsBijection, Bijection, Injection, Surjection, IsInjective
<1>9. List!Cardinality(T) = n
  BY <1>1, <1>8, FS_CountingElements, SameCardinality
<1> QED BY <1>1, <1>4, <1>5, <1>9 DEF List!InTurn

-----------------------------------------------------------------------------
(* The steps of the clock *)

\* What holds of the wheel whenever nobody holds m_lock.
WheelIInv == TimeIInv /\ TypeOK /\ InPlace

\* InPlace is about the wheels there are.
LEMMA HeldIsInPlace ==
  ASSUME wheel \in Wheels
  PROVE  InPlace <=> Holds(wheel, Waiting, tick) /\ \A t \in Waiting : expire[t] >= tick
BY DEF InPlace, Holds

\* The wheels are empty at first.
LEMMA InitWheel == Init => WheelIInv
<1> SUFFICES ASSUME Init PROVE TypeOK /\ InPlace
  BY InitTime DEF WheelIInv
<1>1. Waiting = {} /\ expire = <<>>
  BY DEF Init, Waiting, Timers
<1>2. wheel \in [Positions -> Seq(Timers)] /\ \A p \in Positions : wheel[p] = <<>>
  BY EmptySeq DEF Init
<1>3. InPlace
  <2>1. \A p \in Positions : Lists(wheel[p], {})
    BY <1>2, EmptyLists, EmptySeq
  <2>2. \A p \in Positions : {t \in Waiting : Place(expire[t], tick) = p} = {}
    BY <1>1
  <2> QED BY <1>1, <2>1, <2>2 DEF InPlace
<1>4. systime \in 0 .. TickWrap - 1 /\ lastTick \in 0 .. TickWrap - 1
  BY ClockAssumption DEF ClockAssumption, Init
<1>5. TypeOK
  BY <1>2, <1>4, EmptySeq DEF TypeOK, Init
<1> QED BY <1>3, <1>5

\* The two pushes and the shift of a round.
RoundOf(near, turned, next) ==
  /\ near = wheel[NearSlot(tick)]
  /\ turned = Turn(Emptied(wheel, tick), tick + 1)
  /\ next = turned[NearSlot(tick + 1)]

\* A round takes out the timers of two ticks, in turn, and has all others in place.
LEMMA RoundHolds ==
  ASSUME WheelIInv, NEW near, NEW turned, NEW next, RoundOf(near, turned, next)
  PROVE  /\ near \in Seq(Timers) /\ next \in Seq(Timers)
         /\ near \in List!InTurn({t \in Waiting : expire[t] = tick})
         /\ next \in List!InTurn({t \in Waiting : expire[t] = tick + 1})
         /\ Elements(near) = {t \in Waiting : expire[t] = tick}
         /\ Elements(next) = {t \in Waiting : expire[t] = tick + 1}
         /\ Holds(Emptied(turned, tick + 1), {t \in Waiting : expire[t] > tick + 1}, tick + 1)
<1> DEFINE S0 == Waiting
           S1 == {t \in S0 : expire[t] # tick}
           S2 == {t \in S1 : expire[t] # tick + 1}
           now == tick + 1
           w1 == Emptied(wheel, tick)
<1>1. /\ expire \in Seq(Nat) /\ tick \in Nat /\ now \in Nat /\ S0 \in SUBSET Timers
      /\ Holds(wheel, S0, tick) /\ \A t \in S0 : expire[t] >= tick /\ expire[t] \in Nat
  <2>1. wheel \in Wheels /\ InPlace /\ expire \in Seq(Nat) /\ tick \in Nat
    BY DEF WheelIInv, TypeOK, Wheels
  <2>2. S0 \in SUBSET Timers
    BY DEF Waiting
  <2> QED BY <2>1, <2>2, HeldIsInPlace, TimerTypes
<1>2. /\ near \in Seq(Timers) /\ Lists(near, {t \in S0 : expire[t] = tick})
      /\ Holds(w1, S1, tick)
  <2> HIDE DEF S0
  <2> QED BY <1>1, NearHolds DEF RoundOf
<1>3. S1 \in SUBSET Timers /\ \A t \in S1 : expire[t] > tick /\ expire[t] \in Nat
  <2> HIDE DEF S0
  <2> QED BY <1>1
<1>4. turned = Turn(w1, now) /\ next = turned[NearSlot(now)]
  BY DEF RoundOf
<1> HIDE DEF S0, S1, w1
<1>5. Holds(turned, S1, now)
  BY <1>1, <1>2, <1>3, <1>4, TurnHolds
<1> HIDE DEF now
<1>6. /\ next \in Seq(Timers) /\ Lists(next, {t \in S1 : expire[t] = now})
      /\ Holds(Emptied(turned, now), {t \in S1 : expire[t] # now}, now)
  BY <1>1, <1>3, <1>4, <1>5, NearHolds
<1>7. {t \in S1 : expire[t] = now} = {t \in S0 : expire[t] = now}
  BY <1>1 DEF S1, now
<1>8. {t \in S1 : expire[t] # now} = {t \in S0 : expire[t] > now}
  BY <1>1, <1>3 DEF S1, now
<1>9. near \in List!InTurn({t \in S0 : expire[t] = tick})
  <2>1. {t \in S0 : expire[t] = tick} \in SUBSET Timers
    BY <1>1
  <2> QED BY <1>1, <1>2, <2>1, ListsInTurn
<1>10. next \in List!InTurn({t \in S0 : expire[t] = now})
  <2>1. {t \in S0 : expire[t] = now} \in SUBSET Timers
    BY <1>1
  <2> QED BY <1>1, <1>6, <1>7, <2>1, ListsInTurn
<1> QED BY <1>2, <1>6, <1>7, <1>8, <1>9, <1>10 DEF S0, now, Lists

\* One round of the clock thread.
LEMMA TickWheel ==
  ASSUME WheelIInv, Tick
  PROVE  WheelIInv' /\ List!Tick
<1> DEFINE near == wheel[NearSlot(tick)]
           turned == Turn(Emptied(wheel, tick), tick + 1)
           next == turned[NearSlot(tick + 1)]
           rest == Emptied(turned, tick + 1)
<1>1. /\ tick' = tick + 1 /\ wheel' = rest /\ out' = out \o near \o next
      /\ tmWork' = Pushed(Pushed(tmWork, wheel, tick), turned, tick + 1)
      /\ expire' = expire /\ batch' = batch /\ fired' = fired
  BY DEF Tick
<1>2. RoundOf(near, turned, next)
  BY DEF RoundOf
<1>3. tmWork' = IF next = <<>> THEN (IF near = <<>> THEN tmWork ELSE near) ELSE next
  BY <1>1 DEF Pushed
<1> HIDE DEF near, turned, next
<1>4. /\ near \in Seq(Timers) /\ next \in Seq(Timers)
      /\ near \in List!InTurn({t \in Waiting : expire[t] = tick})
      /\ next \in List!InTurn({t \in Waiting : expire[t] = tick + 1})
      /\ Elements(near) = {t \in Waiting : expire[t] = tick}
      /\ Elements(next) = {t \in Waiting : expire[t] = tick + 1}
      /\ Holds(rest, {t \in Waiting : expire[t] > tick + 1}, tick + 1)
  BY <1>2, RoundHolds
<1> HIDE DEF rest
<1>5. /\ expire \in Seq(Nat) /\ tick \in Nat /\ out \in Seq(Timers) /\ tmWork \in Seq(Timers)
      /\ batch \in Seq(Timers) /\ fired \in Seq(Timers)
      /\ \A t \in Waiting : expire[t] \in Nat /\ expire[t] >= tick
  BY TimerTypes DEF WheelIInv, TypeOK, InPlace, Waiting
<1>6. Timers' = Timers
  BY <1>1 DEF Timers
<1>7. /\ out' \in Seq(Timers)
      /\ Elements(out') = Elements(out) \cup Elements(near) \cup Elements(next)
  <2> DEFINE first == out \o near
  <2>1. first \in Seq(Timers) /\ Elements(first) = Elements(out) \cup Elements(near)
    BY <1>4, <1>5, ConcatElements
  <2>2. out' = first \o next
    BY <1>1
  <2> HIDE DEF first
  <2>3. first \o next \in Seq(Timers)
        /\ Elements(first \o next) = Elements(first) \cup Elements(next)
    BY <1>4, <2>1, ConcatElements
  <2> QED BY <2>1, <2>2, <2>3
<1>8. Waiting' = {t \in Waiting : expire[t] > tick + 1}
  <2>1. Waiting' = Timers \ Elements(out')
    BY <1>6 DEF Waiting, Elements
  <2>2. \A t \in Waiting : expire[t] > tick + 1 <=> ~(expire[t] = tick \/ expire[t] = tick + 1)
    BY <1>5
  <2> QED BY <1>4, <1>7, <2>1, <2>2 DEF Waiting
<1>9. TimeIInv'
  BY TickTime DEF WheelIInv
<1>10. rest \in Wheels
  BY <1>4 DEF Holds
<1>11. TypeOK'
  <2>1. tmWork' \in Seq(Timers)
    BY <1>3, <1>4, <1>5
  <2>2. wheel' \in [Positions -> Seq(Timers)]
    BY <1>1, <1>10 DEF Wheels
  <2> QED BY <1>1, <1>5, <1>6, <1>7, <1>9, <2>1, <2>2 DEF TypeOK, TimeIInv
<1>12. InPlace'
  <2>1. \A p \in Positions : Lists(wheel'[p], {t \in Waiting' : Place(expire[t], tick') = p})
    BY <1>1, <1>4, <1>8 DEF Holds
  <2>2. \A t \in Waiting' : expire[t] >= tick'
    BY <1>1, <1>5, <1>8
  <2> QED BY <1>1, <2>1, <2>2 DEF InPlace, Lists
<1>13. List!Tick
  <2>1. List!Waiting = Waiting
    BY DEF List!Waiting, Waiting, Timers, Elements
  <2>2. /\ List!Due(tick) = {t \in Waiting : expire[t] = tick}
        /\ List!Due(tick + 1) = {t \in Waiting : expire[t] = tick + 1}
    BY <2>1 DEF List!Due
  <2> QED BY <1>1, <1>4, <2>2 DEF List!Tick
<1> QED BY <1>9, <1>11, <1>12, <1>13 DEF WheelIInv

\* The lists of the slots, when a timer younger than all others is added.
LEMMA YoungestLists ==
  ASSUME expire \in Seq(Nat), NEW s \in Seq(Timers), NEW T, Lists(s, T),
         NEW e, \A u \in Timers : e[u] = expire[u], NEW t \in Nat, \A u \in Timers : u < t
  PROVE  /\ Elements(Append(s, t)) = T \cup {t}
         /\ \A j \in DOMAIN s, k \in DOMAIN s : j < k /\ e[s[j]] = e[s[k]] => s[j] < s[k]
         /\ \A j \in DOMAIN Append(s, t), k \in DOMAIN Append(s, t) :
              j < k /\ e[Append(s, t)[j]] = e[Append(s, t)[k]]
                => Append(s, t)[j] < Append(s, t)[k]
<1> DEFINE r == Append(s, t)
<1>1. /\ Len(s) \in Nat /\ DOMAIN s = 1 .. Len(s)
      /\ DOMAIN r = 1 .. Len(s) + 1 /\ r[Len(s) + 1] = t
      /\ \A k \in DOMAIN s : r[k] = s[k]
  <2>1. s \in Seq(Timers \cup {t}) /\ t \in Timers \cup {t}
    <3>1. Len(s) \in Nat /\ s \in [1 .. Len(s) -> Timers \cup {t}]
      BY LenProperties
    <3> QED BY <3>1, IsASeq
  <2> QED BY <2>1, AppendProperties, LenProperties
<1>2. \A k \in DOMAIN s : s[k] \in Timers /\ s[k] \in T
  BY <1>1, ElementOfSeq DEF Lists, Elements
<1> HIDE DEF r
<1>3. \A k \in DOMAIN r : k = Len(s) + 1 \/ k \in DOMAIN s
  BY <1>1
<1>4. Elements(r) = T \cup {t}
  <2>1. Len(s) + 1 \in DOMAIN r /\ \A k \in DOMAIN s : k \in DOMAIN r
    BY <1>1
  <2>2. \A u \in T : \E k \in DOMAIN s : s[k] = u
    BY DEF Lists, Elements
  <2> QED BY <1>1, <1>2, <1>3, <2>1, <2>2 DEF Elements
<1>5. \A j \in DOMAIN s, k \in DOMAIN s : j < k /\ e[s[j]] = e[s[k]] => s[j] < s[k]
  <2>1. \A k \in DOMAIN s : e[s[k]] = expire[s[k]]
    BY <1>2
  <2> QED BY <2>1 DEF Lists
<1>6. ASSUME NEW j \in DOMAIN r, NEW k \in DOMAIN r, j < k, e[r[j]] = e[r[k]]
      PROVE  r[j] < r[k]
  <2>1. j \in DOMAIN s
    BY <1>1, <1>6
  <2>2. CASE k \in DOMAIN s
    BY <1>1, <1>5, <1>6, <2>1, <2>2
  <2>3. CASE k = Len(s) + 1
    BY <1>1, <1>2, <2>1, <2>3
  <2> QED BY <1>3, <2>2, <2>3
<1> QED BY <1>4, <1>5, <1>6 DEF r

\* timerAdd: the new timer goes to its place, and the places of the others stay.
LEMMA AddWheel ==
  ASSUME WheelIInv, NEW ms \in Delays, TimerAdd(ms), tick' = tick, out' = out
  PROVE  /\ Timers \subseteq Timers'
         /\ expire' \in Seq(Nat)
         /\ wheel' \in [Positions -> Seq(Timers')]
         /\ InPlace'
         /\ List!Add
<1> DEFINE t == Len(expire) + 1
           q == Place(ms + tick, tick)
           when == ms + tick
<1>1. /\ expire \in Seq(Nat) /\ tick \in Nat /\ ms \in Nat /\ when \in Nat
      /\ out \in Seq(Timers)
      /\ wheel \in Wheels /\ \A u \in Waiting : expire[u] >= tick
      /\ \A p \in Positions : Lists(wheel[p], {u \in Waiting : Place(expire[u], tick) = p})
  BY ClockAssumption DEF WheelIInv, TypeOK, InPlace, Wheels, ClockAssumption
<1>2. q \in Positions
  BY <1>1, PlaceTypes
<1>3. /\ t \in Nat /\ expire' = Append(expire, when) /\ wheel' = Insert(wheel, t, q)
      /\ Len(expire) < MaxTimers
  BY <1>1, LenProperties DEF TimerAdd
<1>4. /\ expire' \in Seq(Nat) /\ Timers = 1 .. Len(expire) /\ Timers' = 1 .. Len(expire) + 1
      /\ expire'[t] = when /\ \A u \in Timers : expire'[u] = expire[u]
  BY <1>1, <1>3, AppendProperties, LenProperties DEF Timers
<1>5. Timers' = Timers \cup {t} /\ t \notin Timers /\ \A u \in Timers : u < t
  BY <1>1, <1>4, TimerTypes
<1> HIDE DEF t, q, when
<1>6. wheel' = [wheel EXCEPT ![q] = Append(@, t)]
  BY <1>3 DEF Insert
<1>7. \A s \in Seq(Timers) : s \in Seq(Timers') /\ Append(s, t) \in Seq(Timers')
  <2> TAKE s \in Seq(Timers)
  <2>1. Len(s) \in Nat /\ s \in [1 .. Len(s) -> Timers']
    BY <1>5, LenProperties
  <2>2. s \in Seq(Timers')
    BY <2>1, IsASeq
  <2> QED BY <1>5, <2>2, AppendProperties
<1>8. wheel' \in [Positions -> Seq(Timers')]
  <2>1. \A p \in Positions : wheel[p] \in Seq(Timers') /\ Append(wheel[p], t) \in Seq(Timers')
    BY <1>1, <1>7 DEF Wheels
  <2> QED BY <1>1, <1>2, <1>6, <2>1 DEF Wheels
<1>9. Waiting' = Waiting \cup {t} /\ t \notin Waiting /\ Waiting \subseteq Timers
  <2>1. Elements(out) \subseteq Timers
    <3>1. \A k \in DOMAIN out : out[k] \in Timers
      BY <1>1, LenProperties, ElementOfSeq
    <3> QED BY <3>1 DEF Elements
  <2>2. Waiting' = Timers' \ Elements(out)
    BY DEF Waiting, Elements
  <2> QED BY <1>5, <2>1, <2>2 DEF Waiting
<1>10. ASSUME NEW p \in Positions
       PROVE  /\ Elements(wheel'[p]) = {u \in Waiting' : Place(expire'[u], tick) = p}
              /\ \A j \in DOMAIN wheel'[p], k \in DOMAIN wheel'[p] :
                    j < k /\ expire'[wheel'[p][j]] = expire'[wheel'[p][k]]
                      => wheel'[p][j] < wheel'[p][k]
  <2> DEFINE s == wheel[p]  T == {u \in Waiting : Place(expire[u], tick) = p}
             e == expire'
  <2>1. s \in Seq(Timers) /\ Lists(s, T)
    BY <1>1, <1>10 DEF Wheels
  <2>2. \A u \in Waiting : e[u] = expire[u]
    BY <1>4, <1>9
  <2>3. \A u \in Timers : e[u] = expire[u]
    BY <1>4
  <2>4. CASE p = q
    <3>1. wheel'[p] = Append(s, t)
      BY <1>1, <1>6, <2>4 DEF Wheels
    <3>2. {u \in Waiting' : Place(e[u], tick) = p} = T \cup {t}
      BY <1>4, <1>9, <2>2, <2>4 DEF q, when
    <3> HIDE DEF s, T, e
    <3>3. /\ Elements(Append(s, t)) = T \cup {t}
          /\ \A j \in DOMAIN Append(s, t), k \in DOMAIN Append(s, t) :
               j < k /\ e[Append(s, t)[j]] = e[Append(s, t)[k]]
                 => Append(s, t)[j] < Append(s, t)[k]
      BY <1>1, <1>3, <1>5, <2>1, <2>3, YoungestLists
    <3> QED BY <3>1, <3>2, <3>3 DEF e
  <2>5. CASE p # q
    <3>1. wheel'[p] = s
      BY <1>1, <1>6, <2>5 DEF Wheels
    <3>2. {u \in Waiting' : Place(e[u], tick) = p} = T
      BY <1>4, <1>9, <2>2, <2>5 DEF q, when
    <3>3. Elements(s) = T
      BY <2>1 DEF Lists
    <3> HIDE DEF s, T, e
    <3>4. \A j \in DOMAIN s, k \in DOMAIN s : j < k /\ e[s[j]] = e[s[k]] => s[j] < s[k]
      BY <1>1, <1>3, <1>5, <2>1, <2>3, YoungestLists
    <3> QED BY <3>1, <3>2, <3>3, <3>4 DEF e
  <2> QED BY <2>4, <2>5
<1>11. \A u \in Waiting' : expire'[u] >= tick'
  <2>1. \A u \in Waiting : expire'[u] >= tick
    BY <1>1, <1>4, <1>9
  <2>2. when >= tick
    BY <1>1 DEF when
  <2> QED BY <1>4, <1>9, <2>1, <2>2
<1>12. InPlace'
  BY <1>10, <1>11 DEF InPlace, Lists, Elements
<1>13. List!Add
  BY <1>1, <1>3 DEF List!Add, when
<1> QED BY <1>4, <1>5, <1>8, <1>12, <1>13

\* The actions that leave the wheel and the time of the wheel alone.
LEMMA OtherWheel ==
  ASSUME WheelIInv, UNCHANGED <<tick, wheel, expire, out>>
  PROVE  InPlace' /\ Timers' = Timers
BY DEF WheelIInv, InPlace, Waiting, Timers, Lists, Elements

\* WheelIInv is inductive.
LEMMA NextWheel == WheelIInv /\ [Next]_vars => WheelIInv'
<1> SUFFICES ASSUME WheelIInv, [Next]_vars PROVE WheelIInv'
  OBVIOUS
<1>1. TimeIInv'
  BY NextTime DEF WheelIInv
<1>2. TypeOK
  BY DEF WheelIInv
<1>3. ASSUME NEW s \in Seq(Timers), Timers \subseteq Timers' PROVE s \in Seq(Timers')
  <2>1. Len(s) \in Nat /\ s \in [1 .. Len(s) -> Timers']
    BY <1>3, LenProperties
  <2> QED BY <2>1, IsASeq
<1>4. CASE Elapse \/ Wake \/ UNCHANGED vars
  <2>1. UNCHANGED <<tick, wheel, expire, out>> /\ UNCHANGED <<tmWork, batch, fired>>
    BY <1>4 DEF Elapse, Wake, vars
  <2>2. InPlace' /\ Timers' = Timers
    BY <2>1, OtherWheel
  <2>3. TypeOK'
    BY <1>1, <1>2, <2>1, <2>2 DEF TypeOK, TimeIInv
  <2> QED BY <1>1, <2>2, <2>3 DEF WheelIInv
<1>5. CASE TakeWork
  <2>1. /\ UNCHANGED <<tick, wheel, expire, out>> /\ fired' = fired
        /\ batch' = tmWork /\ tmWork' = <<>>
    BY <1>5 DEF TakeWork
  <2>2. InPlace' /\ Timers' = Timers
    BY <2>1, OtherWheel
  <2>3. TypeOK'
    BY <1>1, <1>2, <2>1, <2>2, EmptySeq DEF TypeOK, TimeIInv
  <2> QED BY <1>1, <2>2, <2>3 DEF WheelIInv
<1>6. CASE Tick
  BY <1>6, TickWheel
<1>7. CASE Add
  <2>1. PICK ms \in Delays : TimerAdd(ms)
    BY <1>7 DEF Add
  <2>2. UNCHANGED <<tick, tmWork, batch, out, fired>>
    BY <1>7 DEF Add
  <2>3. /\ Timers \subseteq Timers' /\ expire' \in Seq(Nat)
        /\ wheel' \in [Positions -> Seq(Timers')] /\ InPlace'
    BY <2>1, <2>2, AddWheel
  <2>4. tmWork' \in Seq(Timers') /\ batch' \in Seq(Timers') /\ out' \in Seq(Timers')
        /\ fired' \in Seq(Timers')
    BY <1>2, <1>3, <2>2, <2>3 DEF TypeOK
  <2>5. TypeOK'
    BY <1>1, <2>3, <2>4 DEF TypeOK, TimeIInv
  <2> QED BY <1>1, <2>3, <2>5 DEF WheelIInv
<1>8. CASE Fire
  <2>1. /\ UNCHANGED <<tick, tmWork, out>> /\ batch # <<>>
        /\ batch' = Tail(batch) /\ fired' = Append(fired, Head(batch))
    BY <1>8 DEF Fire
  <2>2. batch' \in Seq(Timers) /\ fired' \in Seq(Timers)
    <3>1. Head(batch) \in Timers /\ Tail(batch) \in Seq(Timers)
      BY <1>2, <2>1, HeadTailProperties DEF TypeOK
    <3> QED BY <1>2, <2>1, <3>1, AppendProperties DEF TypeOK
  <2>3. /\ Timers \subseteq Timers' /\ expire' \in Seq(Nat)
        /\ wheel' \in [Positions -> Seq(Timers')] /\ InPlace'
    <3>1. CASE UNCHANGED <<expire, wheel>>
      BY <1>2, <2>1, <3>1, OtherWheel DEF TypeOK
    <3>2. ASSUME NEW ms \in Delays, TimerAdd(ms)
          PROVE  /\ Timers \subseteq Timers' /\ expire' \in Seq(Nat)
                 /\ wheel' \in [Positions -> Seq(Timers')] /\ InPlace'
      BY <2>1, <3>2, AddWheel
    <3> QED BY <1>8, <3>1, <3>2 DEF Fire
  <2>4. tmWork' \in Seq(Timers') /\ batch' \in Seq(Timers') /\ out' \in Seq(Timers')
        /\ fired' \in Seq(Timers')
    BY <1>2, <1>3, <2>1, <2>2, <2>3 DEF TypeOK
  <2>5. TypeOK'
    BY <1>1, <2>3, <2>4 DEF TypeOK, TimeIInv
  <2> QED BY <1>1, <2>3, <2>5 DEF WheelIInv
<1> QED BY <1>4, <1>5, <1>6, <1>7, <1>8 DEF Next

\* The state of the clock has its type: in particular the wheels, the lists that are
\* handed over and the history name only timers that were added.
THEOREM TypeCorrect == Spec => []TypeOK
<1>1. WheelIInv => TypeOK
  BY DEF WheelIInv
<1> QED BY <1>1, InitWheel, NextWheel, PTL DEF Spec

\* Timer::add, move, shift and push: for every size and number of the wheels, whenever
\* nobody holds m_lock, each timer still to come is in the slot for its time and in no
\* other, and none is overdue.
THEOREM WheelRight == Spec => []InPlace
<1>1. WheelIInv => InPlace
  BY DEF WheelIInv
<1> QED BY <1>1, InitWheel, NextWheel, PTL DEF Spec

\* The wheels do what the list of timers promises: every round takes out exactly the
\* timers that are due, in the order in which they were added, and loses none; adding a
\* timer adds it to the list, and nothing else changes the list.
THEOREM Refinement == Spec => ImplementsTimerList
<1>1. Init => List!Init
  BY DEF Init, List!Init
<1>2. WheelIInv /\ [Next]_vars => [List!Next]_(List!vars)
  <2> SUFFICES ASSUME WheelIInv, [Next]_vars PROVE List!Next \/ UNCHANGED List!vars
    OBVIOUS
  <2>1. CASE Elapse \/ Wake \/ TakeWork \/ UNCHANGED vars
    BY <2>1 DEF Elapse, Wake, TakeWork, vars, List!vars
  <2>2. CASE Tick
    BY <2>2, TickWheel DEF List!Next
  <2>3. CASE Add
    BY <2>3, AddWheel DEF Add, List!Next
  <2>4. CASE Fire
    <3>1. tick' = tick /\ out' = out
      BY <2>4 DEF Fire
    <3>2. CASE UNCHANGED <<expire, wheel>>
      BY <3>1, <3>2 DEF List!vars
    <3>3. ASSUME NEW ms \in Delays, TimerAdd(ms) PROVE List!Add
      BY <3>1, <3>3, AddWheel
    <3> QED BY <2>4, <3>2, <3>3 DEF Fire, List!Next
  <2> QED BY <2>1, <2>2, <2>3, <2>4 DEF Next
<1> QED BY <1>1, <1>2, InitWheel, NextWheel, PTL DEF Spec, ImplementsTimerList, List!Spec
=============================================================================
