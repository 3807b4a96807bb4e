-------------------------- MODULE TimerQueueProofs --------------------------
(***************************************************************************)
(* Theorems about TimerQueue, for any number of timers, times and calls:   *)
(* the heap stays a heap and agrees with the timers, the alarm is never    *)
(* late, and the timer queue does what WaitList promises.                  *)
(***************************************************************************)
EXTENDS TimerQueue, Integers, SequenceTheorems, FiniteSetTheorems, WellFoundedInduction, TLAPS

-----------------------------------------------------------------------------
(* Loops.                                                                  *)

LEMMA Induct ==
  ASSUME NEW T, 0 \in T, \A m \in Nat : m \in T => m + 1 \in T
  PROVE  Nat \subseteq T
<1> SUFFICES ASSUME Nat \ T # {} PROVE FALSE
  OBVIOUS
<1>1. PICK k \in Nat \ T : \A j \in Nat \ T : ~(<<j, k>> \in OpToRel(<, Nat))
  BY NatLessThanWellFounded, WFMin, Zenon
<1>2. k # 0 /\ k - 1 \in Nat /\ k - 1 < k /\ (k - 1) + 1 = k
  OBVIOUS
<1>3. <<k - 1, k>> \in OpToRel(<, Nat)
  BY <1>2 DEF OpToRel
<1>4. QED BY <1>1, <1>2, <1>3, Zenon

\* s holds the state after each of n turns from x; of a state that is not in S
\* nothing is said.
Runs(s, S, turn, x, n) == s[0] = x /\ \A i \in 1..n : s[i - 1] \in S => s[i] = turn[s[i - 1]]

\* A turn changes nothing, or there is less left to do.
Decreases(S, turn, left) == \A y \in S : turn[y] = y \/ left[turn[y]] < left[y]

\* The turns of a loop are a function, whatever a turn does ...
LEMMA Iterates ==
  ASSUME NEW S, NEW turn \in [S -> S], NEW x \in S, NEW n \in Nat
  PROVE  \E s : s = [i \in 0..n |-> s[i]] /\ Runs(s, S, turn, x, n)
                /\ \A i \in 0..n : s[i] \in S
<1> DEFINE P(m) == \E s \in [0..m -> S] : s[0] = x /\ \A i \in 1..m : s[i] = turn[s[i - 1]]
<1>1. P(0)
  <2>1. [i \in 0..0 |-> x] \in [0..0 -> S] /\ [i \in 0..0 |-> x][0] = x
    OBVIOUS
  <2>2. \A i \in 1..0 : FALSE
    OBVIOUS
  <2>3. QED BY <2>1, <2>2
<1>2. ASSUME NEW m \in Nat, P(m) PROVE P(m + 1)
  <2>1. PICK s \in [0..m -> S] : s[0] = x /\ \A i \in 1..m : s[i] = turn[s[i - 1]]
    BY <1>2
  <2> DEFINE r == [i \in 0..m + 1 |-> IF i = m + 1 THEN turn[s[m]] ELSE s[i]]
  <2>2. r \in [0..m + 1 -> S] /\ r[0] = x
    BY <2>1
  <2>3. ASSUME NEW i \in 1..m + 1 PROVE r[i] = turn[r[i - 1]]
    <3>1. CASE i = m + 1
      BY <3>1
    <3>2. CASE i # m + 1
      BY <2>1, <3>2
    <3>3. QED BY <3>1, <3>2
  <2> HIDE DEF r
  <2>4. QED BY <2>2, <2>3
<1> HIDE DEF P
<1> DEFINE T == {m \in Nat : P(m)}
<1>3. 0 \in T /\ \A m \in Nat : m \in T => m + 1 \in T
  BY <1>1, <1>2
<1> HIDE DEF T
<1>4. n \in T
  BY <1>3, Induct
<1>5. PICK s \in [0..n -> S] : s[0] = x /\ \A i \in 1..n : s[i] = turn[s[i - 1]]
  BY <1>4 DEF P, T
<1>6. Runs(s, S, turn, x, n)
  BY <1>5 DEF Runs
<1>7. QED BY <1>6

\* ... and they come to an end when a measure says so.
LEMMA Terminates ==
  ASSUME NEW S, NEW turn \in [S -> S], NEW left \in [S -> Nat], NEW x \in S, NEW n \in Nat,
         left[x] <= n, Decreases(S, turn, left), NEW s, Runs(s, S, turn, x, n)
  PROVE  s[n] \in S /\ turn[s[n]] = s[n]
<1>0. /\ \A y \in S : turn[y] = y \/ left[turn[y]] < left[y]
      /\ s[0] = x /\ \A i \in 1..n : s[i - 1] \in S => s[i] = turn[s[i - 1]]
  BY DEF Decreases, Runs
<1> DEFINE T == {m \in Nat : m <= n => s[m] \in S /\ (turn[s[m]] = s[m] \/ left[s[m]] <= n - m)}
<1>1. 0 \in T
  BY <1>0
<1>2. ASSUME NEW m \in Nat, m \in T PROVE m + 1 \in T
  <2> SUFFICES ASSUME m + 1 <= n
               PROVE  s[m + 1] \in S /\ (turn[s[m + 1]] = s[m + 1] \/ left[s[m + 1]] <= n - (m + 1))
    OBVIOUS
  <2>1. s[m] \in S /\ s[m + 1] = turn[s[m]]
    <3>1. m + 1 \in 1..n /\ (m + 1) - 1 = m /\ s[m] \in S
      BY <1>2
    <3>2. QED BY <1>0, <3>1
  <2>2. CASE turn[s[m]] = s[m]
    BY <2>1, <2>2
  <2>3. CASE left[turn[s[m]]] < left[s[m]] /\ left[s[m]] <= n - m
    <3>1. left[s[m]] \in Nat /\ left[s[m + 1]] \in Nat /\ s[m + 1] \in S
      BY <2>1
    <3>2. QED BY <2>1, <2>3, <3>1
  <2>4. QED BY <1>0, <1>2, <2>1, <2>2, <2>3
<1> HIDE DEF T
<1>3. n \in T
  BY <1>1, <1>2, Induct
<1>4. s[n] \in S /\ (turn[s[n]] = s[n] \/ left[s[n]] <= 0)
  BY <1>3 DEF T
<1>5. left[s[n]] <= 0 => ~(left[turn[s[n]]] < left[s[n]])
  BY <1>4
<1>6. QED BY <1>0, <1>4, <1>5

-----------------------------------------------------------------------------
(* The order of the times t[1], ..., t[n] of a heap.                       *)

Ordered(t, n) == \A j \in 2..n : t[j \div 2] <= t[j]

\* All is in order but for k, which may be too late in its place, or too early.
Sinking(t, n, k) ==
    /\ \A j \in 2..n : j \div 2 # k => t[j \div 2] <= t[j]
    /\ \A j \in 2..n : j \div 2 = k /\ k > 1 => t[k \div 2] <= t[j]
Rising(t, n, k) ==
    /\ \A j \in 2..n : j # k => t[j \div 2] <= t[j]
    /\ \A j \in 2..n : j \div 2 = k /\ k > 1 => t[k \div 2] <= t[j]

Swapped(t, u, n, a, b) ==
    u[a] = t[b] /\ u[b] = t[a] /\ \A j \in 1..n : j # a /\ j # b => u[j] = t[j]

LEMMA Halves ==
  \A j \in Nat : j >= 2 => j \div 2 \in 1..j - 1 /\ (j = 2 * (j \div 2) \/ j = 2 * (j \div 2) + 1)
  OBVIOUS

\* The earliest time is at the root.
LEMMA RootIsFirst ==
  ASSUME NEW n \in Nat, NEW t \in [1..n -> Nat], Ordered(t, n), NEW k \in 1..n
  PROVE  t[1] <= t[k]
<1> DEFINE T == {m \in Nat : \A j \in 1..n : j <= m => t[1] <= t[j]}
<1>1. 0 \in T
  OBVIOUS
<1>2. ASSUME NEW m \in Nat, m \in T PROVE m + 1 \in T
  <2> SUFFICES ASSUME m + 1 \in 1..n PROVE t[1] <= t[m + 1]
    BY <1>2
  <2>1. CASE m + 1 = 1
    BY <2>1
  <2>2. CASE m + 1 >= 2
    <3> DEFINE h == (m + 1) \div 2
    <3>1. h \in 1..m
      BY <2>2, Halves
    <3>2. t[h] <= t[m + 1]
      BY <2>2 DEF Ordered
    <3> HIDE DEF h
    <3>3. t[1] <= t[h] /\ h \in 1..n
      BY <1>2, <3>1
    <3>4. QED BY <3>2, <3>3
  <2>3. QED BY <2>1, <2>2
<1> HIDE DEF T
<1>3. n \in T
  BY <1>1, <1>2, Induct
<1>4. QED BY <1>3 DEF T

\* A turn of up_heap(): the end, or the one that is too early moves up.
LEMMA RiseTurn ==
  ASSUME NEW n \in Nat, NEW t \in [1..n -> Nat], NEW k \in 1..n, Rising(t, n, k)
  PROVE  /\ k = 1 \/ t[k] >= t[k \div 2] => Ordered(t, n)
         /\ k # 1 /\ t[k] < t[k \div 2] =>
              \A u \in [1..n -> Nat] : Swapped(t, u, n, k, k \div 2) => Rising(u, n, k \div 2)
<1>1. CASE k = 1 \/ t[k] >= t[k \div 2]
  BY <1>1 DEF Rising, Ordered
<1>2. ASSUME k # 1, t[k] < t[k \div 2], NEW u \in [1..n -> Nat], Swapped(t, u, n, k, k \div 2)
      PROVE  Rising(u, n, k \div 2)
  <2>1. PICK m \in 1..n : m = k \div 2 /\ m # k
    BY <1>2, Halves
  <2>2. u[k] = t[m] /\ u[m] = t[k] /\ \A j \in 1..n : j # k /\ j # m => u[j] = t[j]
    BY <1>2, <2>1 DEF Swapped
  <2>3. t[k] < t[m] /\ k > 1 /\ \A j \in 1..n : t[j] \in Nat /\ u[j] \in Nat
    BY <1>2, <2>1
  <2>4. /\ \A j \in 2..n : j # k => t[j \div 2] <= t[j]
        /\ \A j \in 2..n : j \div 2 = k => t[m] <= t[j]
    BY <2>1, <2>3 DEF Rising
  <2>5. ASSUME NEW j \in 2..n, j # m PROVE u[j \div 2] <= u[j]
    <3>1. PICK h \in 1..n : h = j \div 2 /\ h # j
      BY Halves
    <3>2. ASSUME j # k PROVE u[j] = t[j] /\ t[h] <= t[j]
      <4>1. t[j \div 2] <= t[j]
        BY <2>4, <3>2
      <4>2. QED BY <2>2, <2>5, <3>1, <3>2, <4>1
    <3>3. CASE j = k
      <4>1. h = m /\ u[h] = t[k] /\ u[j] = t[m]
        BY <2>1, <2>2, <3>1, <3>3
      <4>2. t[k] \in Nat /\ t[m] \in Nat /\ t[k] < t[m]
        BY <2>3
      <4>3. u[h] <= u[j]
        BY <4>1, <4>2
      <4>4. QED BY <3>1, <4>3
    <3>4. CASE j # k /\ h = m
      <4>1. u[h] = t[k] /\ u[j] = t[j] /\ t[m] <= t[j]
        BY <2>2, <3>2, <3>4
      <4>2. t[k] \in Nat /\ t[m] \in Nat /\ t[j] \in Nat /\ t[k] < t[m]
        BY <2>3
      <4>3. u[h] <= u[j]
        BY <4>1, <4>2
      <4>4. QED BY <3>1, <4>3
    <3>5. CASE j # k /\ h = k
      <4>1. u[h] = t[m] /\ u[j] = t[j] /\ t[m] <= t[j]
        BY <2>2, <2>4, <3>1, <3>2, <3>5
      <4>2. QED BY <3>1, <4>1
    <3>6. CASE j # k /\ h # m /\ h # k
      <4>1. u[h] = t[h] /\ u[j] = t[j] /\ t[h] <= t[j]
        BY <2>2, <3>1, <3>2, <3>6
      <4>2. QED BY <3>1, <4>1
    <3>7. QED BY <3>3, <3>4, <3>5, <3>6
  <2>6. ASSUME NEW j \in 2..n, j \div 2 = m, m > 1 PROVE u[m \div 2] <= u[j]
    <3>1. m < k /\ j # m
      <4>1. \A i \in Nat : i >= 2 => i \div 2 < i
        BY Halves
      <4>2. QED BY <2>1, <2>3, <2>6, <4>1
    <3>2. PICK h \in 1..n : h = m \div 2 /\ h < m
      BY <2>6, Halves
    <3>3. t[h] <= t[m] /\ u[h] = t[h]
      BY <2>2, <2>4, <2>6, <3>1, <3>2
    <3>4. ASSUME j # k PROVE u[j] = t[j] /\ t[m] <= t[j]
      <4>1. t[j \div 2] <= t[j]
        BY <2>4, <3>4
      <4>2. QED BY <2>2, <2>6, <3>1, <3>4, <4>1
    <3>5. QED BY <2>2, <2>3, <3>2, <3>3, <3>4
  <2>7. QED BY <2>1, <2>5, <2>6 DEF Rising
<1>3. QED BY <1>1, <1>2

\* A turn of down_heap(): the end, or the one that is too late moves down.
LEMMA SinkTurn ==
  ASSUME NEW n \in Nat, NEW t \in [1..n -> Nat], NEW k \in 1..n, Sinking(t, n, k),
         NEW c, c = (IF 2 * k = n \/ t[2 * k] < t[2 * k + 1] THEN 2 * k ELSE 2 * k + 1)
  PROVE  /\ 2 * k > n => Ordered(t, n)
         /\ 2 * k <= n => c \in 1..n /\ c > k
         /\ 2 * k <= n /\ t[k] < t[c] => Ordered(t, n)
         /\ 2 * k <= n /\ ~(t[k] < t[c]) =>
              \A u \in [1..n -> Nat] : Swapped(t, u, n, k, c) => Sinking(u, n, c)
<1>1. ASSUME 2 * k > n PROVE Ordered(t, n)
  <2>1. \A j \in 2..n : j \div 2 # k
    BY <1>1, Halves
  <2>2. QED BY <2>1 DEF Sinking, Ordered
<1>2. ASSUME 2 * k <= n
      PROVE  /\ c \in 1..n /\ c > k
             /\ t[k] < t[c] => Ordered(t, n)
             /\ ~(t[k] < t[c]) => \A u \in [1..n -> Nat] : Swapped(t, u, n, k, c) => Sinking(u, n, c)
  <2>1. c \in 1..n /\ c \in 2..n /\ c > k /\ (c = 2 * k \/ c = 2 * k + 1)
    BY <1>2
  <2>2. \A j \in 1..n : t[j] \in Nat
    OBVIOUS
  <2>3. \A j \in 2..n : j \div 2 = k => j = 2 * k \/ j = 2 * k + 1
    BY Halves
  <2>4. c \div 2 = k
    BY <2>1
  <2>5. ASSUME NEW j \in 2..n, j \div 2 = k PROVE t[c] <= t[j]
    <3>1. j \in 1..n /\ t[j] \in Nat /\ t[c] \in Nat
      BY <2>1
    <3>2. j = 2 * k \/ j = 2 * k + 1
      BY <2>3, <2>5
    <3>3. CASE j = c
      BY <3>1, <3>3
    <3>4. CASE j # c /\ j = 2 * k + 1
      BY <1>2, <3>1, <3>4
    <3>5. CASE j # c /\ j = 2 * k
      <4>1. c = 2 * k + 1 /\ ~(t[2 * k] < t[2 * k + 1])
        BY <1>2, <3>5
      <4>2. ~(t[j] < t[c])
        BY <3>5, <4>1
      <4>3. QED BY <3>1, <4>2
    <3>6. QED BY <3>2, <3>3, <3>4, <3>5
  <2>6. ASSUME t[k] < t[c] PROVE Ordered(t, n)
    <3>1. ASSUME NEW j \in 2..n PROVE t[j \div 2] <= t[j]
      <4>1. CASE j \div 2 # k
        BY <4>1 DEF Sinking
      <4>2. CASE j \div 2 = k
        <5>1. t[c] <= t[j] /\ t[k] \in Nat /\ t[c] \in Nat /\ t[j] \in Nat
          BY <2>1, <2>2, <2>5, <4>2
        <5>2. t[k] <= t[j]
          BY <2>6, <5>1
        <5>3. QED BY <4>2, <5>2
      <4>3. QED BY <4>1, <4>2
    <3>2. QED BY <3>1 DEF Ordered
  <2>7. ASSUME ~(t[k] < t[c]), NEW u \in [1..n -> Nat], Swapped(t, u, n, k, c)
        PROVE  Sinking(u, n, c)
    <3>1. u[k] = t[c] /\ u[c] = t[k] /\ \A j \in 1..n : j # k /\ j # c => u[j] = t[j]
      BY <2>7 DEF Swapped
    <3>2. t[c] <= t[k]
      BY <2>1, <2>2, <2>7
    <3>3. ASSUME NEW j \in 2..n, j \div 2 # c PROVE u[j \div 2] <= u[j]
      <4>1. PICK h \in 1..n : h = j \div 2 /\ h < j
        BY Halves
      <4>2. CASE j = k
        <5>1. u[h] = t[h] /\ u[j] = t[c]
          BY <3>1, <3>3, <4>1, <4>2
        <5>2. t[k \div 2] <= t[c]
          BY <2>1, <2>4, <4>2 DEF Sinking
        <5>3. t[h] <= t[c]
          BY <4>1, <4>2, <5>2, Zenon
        <5>4. QED BY <4>1, <5>1, <5>3
      <4>3. CASE j = c
        BY <2>4, <3>1, <3>2, <4>1, <4>3
      <4>4. CASE j # k /\ j # c /\ h = k
        <5>1. u[h] = t[c] /\ u[j] = t[j]
          BY <3>1, <4>4
        <5>2. j \div 2 = k
          BY <4>1, <4>4, Zenon
        <5>3. t[c] <= t[j]
          BY <2>5, <5>2
        <5>4. QED BY <4>1, <5>1, <5>3, Zenon
      <4>5. CASE j # k /\ j # c /\ h # k
        <5>0. h # c
          BY <3>3, <4>1
        <5>1. u[h] = t[h] /\ u[j] = t[j]
          BY <3>1, <4>5, <5>0
        <5>2. t[j \div 2] <= t[j]
          BY <4>1, <4>5 DEF Sinking
        <5>3. QED BY <4>1, <5>1, <5>2
      <4>6. QED BY <4>2, <4>3, <4>4, <4>5
    <3>4. ASSUME NEW j \in 2..n, j \div 2 = c PROVE u[c \div 2] <= u[j]
      <4>1. j > c
        <5>1. j \div 2 < j
          BY Halves
        <5>2. QED BY <3>4, <5>1
      <4>2. j # k /\ j # c /\ j \in 1..n
        BY <2>1, <4>1
      <4>5. u[j] = t[j] /\ u[c \div 2] = t[c]
        <5>1. u[k] = t[c] /\ u[j] = t[j]
          BY <3>1, <4>2
        <5>2. QED BY <2>4, <5>1, Zenon
      <4>3. PICK h \in 1..n : h = j \div 2
        BY Halves
      <4>4. t[c] <= t[j]
        <5>1. t[j \div 2] <= t[j]
          <6>1. c # k
            BY <2>1
          <6>2. j \div 2 # k
            BY <3>4, <6>1, Zenon
          <6>3. QED BY <6>2, Zenon DEF Sinking
        <5>2. t[h] <= t[j]
          BY <4>3, <5>1
        <5>3. h = c
          BY <3>4, <4>3
        <5>4. QED BY <5>2, <5>3
      <4>6. QED BY <4>4, <4>5, Zenon
    <3>5. QED BY <3>3, <3>4 DEF Sinking
  <2>8. QED BY <2>1, <2>6, <2>7
<1>3. QED BY <1>1, <1>2

\* The last entry in the place of another belongs higher up, or further down.
LEMMA Removal ==
  ASSUME NEW n \in Nat, NEW t \in [1..n -> Nat], Ordered(t, n), NEW k \in 1..n - 1,
         NEW v \in [1..n - 1 -> Nat], v[k] = t[n], \A j \in 1..n - 1 : j # k => v[j] = t[j]
  PROVE  /\ k > 1 /\ v[k] < v[k \div 2] => Rising(v, n - 1, k)
         /\ ~(k > 1 /\ v[k] < v[k \div 2]) => Sinking(v, n - 1, k)
<1>1. \A j \in 1..n - 1 : t[j] \in Nat /\ v[j] \in Nat
  OBVIOUS
<1>2. ASSUME NEW j \in 2..n - 1, j \div 2 = k, k > 1 PROVE v[k \div 2] <= t[k] /\ t[k] <= v[j]
  <2>1. PICK g \in 1..n - 1 : g = k \div 2 /\ g # k
    BY <1>2, Halves
  <2>2. t[k \div 2] <= t[k]
    BY <1>2 DEF Ordered
  <2>3. t[j \div 2] <= t[j]
    BY DEF Ordered
  <2>4. j # k
    BY <1>2, Halves
  <2>5. v[g] = t[g] /\ v[j] = t[j]
    BY <2>1, <2>4
  <2>6. QED BY <1>2, <2>1, <2>2, <2>3, <2>5
<1>3. ASSUME NEW j \in 2..n - 1, j \div 2 # k, j # k PROVE v[j \div 2] <= v[j]
  <2>1. PICK h \in 1..n - 1 : h = j \div 2
    BY Halves
  <2>2. v[h] = t[h] /\ v[j] = t[j]
    BY <1>3, <2>1
  <2>3. t[j \div 2] <= t[j]
    BY DEF Ordered
  <2>4. QED BY <2>1, <2>2, <2>3
<1>4. ASSUME NEW j \in 2..n - 1, j \div 2 = k, k > 1 PROVE v[k \div 2] <= v[j]
  <2>1. PICK g \in 1..n - 1 : g = k \div 2
    BY <1>4, Halves
  <2>2. v[g] <= t[k] /\ t[k] <= v[j] /\ v[g] \in Nat /\ t[k] \in Nat /\ v[j] \in Nat
    BY <1>1, <1>2, <1>4, <2>1
  <2>3. QED BY <2>1, <2>2
<1>5. ASSUME k > 1, v[k] < v[k \div 2] PROVE Rising(v, n - 1, k)
  <2>1. ASSUME NEW j \in 2..n - 1, j # k PROVE v[j \div 2] <= v[j]
    <3>1. CASE j \div 2 # k
      BY <1>3, <2>1, <3>1
    <3>2. CASE j \div 2 = k
      <4>1. PICK g \in 1..n - 1 : g = k \div 2
        BY <1>5, Halves
      <4>2. v[g] <= v[j] /\ v[k] < v[g] /\ v[g] \in Nat /\ v[k] \in Nat /\ v[j] \in Nat
        BY <1>1, <1>4, <1>5, <3>2, <4>1
      <4>3. PICK a \in Nat, b \in Nat, c \in Nat : a = v[k] /\ b = v[g] /\ c = v[j]
        BY <4>2
      <4>4. b <= c /\ a < b => a <= c
        OBVIOUS
      <4>5. v[k] <= v[j]
        BY <4>2, <4>3, <4>4
      <4>6. QED BY <3>2, <4>5
    <3>3. QED BY <3>1, <3>2
  <2>2. QED BY <1>4, <2>1 DEF Rising
<1>6. ASSUME ~(k > 1 /\ v[k] < v[k \div 2]) PROVE Sinking(v, n - 1, k)
  <2>1. ASSUME NEW j \in 2..n - 1, j \div 2 # k PROVE v[j \div 2] <= v[j]
    <3>1. CASE j # k
      BY <1>3, <2>1, <3>1
    <3>2. CASE j = k
      <4>1. PICK g \in 1..n - 1 : g = k \div 2
        BY <3>2, Halves
      <4>2. ~(v[k] < v[g]) /\ v[g] \in Nat /\ v[k] \in Nat
        BY <1>1, <1>6, <3>2, <4>1
      <4>3. v[g] <= v[k]
        BY <4>2
      <4>4. QED BY <3>2, <4>1, <4>3
    <3>3. QED BY <3>1, <3>2
  <2>2. QED BY <1>4, <2>1 DEF Sinking
<1>7. QED BY <1>5, <1>6

LEMMA Appending ==
  ASSUME NEW n \in Nat, NEW t \in [1..n -> Nat], Ordered(t, n),
         NEW v \in [1..n + 1 -> Nat], \A j \in 1..n : v[j] = t[j]
  PROVE  Rising(v, n + 1, n + 1)
<1>1. ASSUME NEW j \in 2..n + 1, j # n + 1 PROVE v[j \div 2] <= v[j]
  <2>1. PICK h \in 1..n : h = j \div 2
    BY <1>1, Halves
  <2>2. t[j \div 2] <= t[j] /\ j \in 1..n
    BY <1>1 DEF Ordered
  <2>3. QED BY <2>1, <2>2
<1>2. \A j \in 2..n + 1 : j \div 2 # n + 1
  BY Halves
<1>3. QED BY <1>1, <1>2 DEF Rising

-----------------------------------------------------------------------------
(* Queues: q.heap and q.index.                                             *)

Entries == [time : Times, timer : Timers]
Queues == [heap : Seq(Entries), index : [Timers -> Nat]]

\* The time a timer has in the heap, and the times of the heap.
TimeOf(q, i) == q.heap[q.index[i]].time
TimesOf(q) == [k \in 1..Len(q.heap) |-> q.heap[k].time]

Indexed(q) ==
    /\ q \in Queues
    /\ \A k \in 1..Len(q.heap) : q.index[q.heap[k].timer] = k
    /\ \A i \in Timers : q.index[i] # 0 =>
         q.index[i] \in 1..Len(q.heap) /\ q.heap[q.index[i]].timer = i

IsHeap(q) == Indexed(q) /\ Ordered(TimesOf(q), Len(q.heap))

\* The timers in S have in r what they have in q.
Same(q, r, S) ==
    \A i \in S : /\ r.index[i] = 0 <=> q.index[i] = 0
                 /\ q.index[i] # 0 => TimeOf(r, i) = TimeOf(q, i)

LEMMA SameTransitive ==
  ASSUME NEW q, NEW r, NEW s, NEW S, Same(q, r, S), Same(r, s, S)
  PROVE  Same(q, s, S)
BY DEF Same

LEMMA TimesType == Times \subseteq Nat
BY TimerParameters DEF Times

LEMMA QueueTimes ==
  ASSUME NEW q \in Queues
  PROVE  /\ Len(q.heap) \in Nat /\ TimesOf(q) \in [1..Len(q.heap) -> Nat]
         /\ \A k \in 1..Len(q.heap) :
              q.heap[k] \in Entries /\ q.heap[k].timer \in Timers /\ q.heap[k].time \in Times
<1>1. q.heap \in Seq(Entries)
  BY DEF Queues
<1>2. Len(q.heap) \in Nat /\ \A k \in 1..Len(q.heap) : q.heap[k] \in Entries
  BY <1>1
<1>3. \A k \in 1..Len(q.heap) : q.heap[k].timer \in Timers /\ q.heap[k].time \in Times
  BY <1>2 DEF Entries
<1>4. \A k \in 1..Len(q.heap) : q.heap[k].time \in Nat
  BY <1>3, TimesType
<1>5. QED BY <1>2, <1>3, <1>4 DEF TimesOf

LEMMA Swapping ==
  ASSUME NEW q, Indexed(q), NEW a \in 1..Len(q.heap), NEW b \in 1..Len(q.heap), a # b,
         NEW r, r = SwapHeap(q, a, b)
  PROVE  /\ Indexed(r) /\ Len(r.heap) = Len(q.heap)
         /\ Swapped(TimesOf(q), TimesOf(r), Len(q.heap), a, b)
         /\ Same(q, r, Timers)
         /\ r.heap[b] = q.heap[a]
<1> DEFINE n == Len(q.heap)
<1>1. q \in Queues /\ q.heap \in Seq(Entries) /\ q.index \in [Timers -> Nat]
  BY DEF Indexed, Queues
<1>2. n \in Nat /\ \A k \in 1..n : q.heap[k] \in Entries /\ q.heap[k].timer \in Timers
  BY <1>1, QueueTimes
<1>3. PICK x \in Timers : x = q.heap[a].timer
  BY <1>2
<1>4. PICK y \in Timers : y = q.heap[b].timer
  BY <1>2
<1>5. q.index[x] = a /\ q.index[y] = b /\ x # y
  BY <1>3, <1>4 DEF Indexed
<1>6. /\ r.heap = [q.heap EXCEPT ![a] = q.heap[b], ![b] = q.heap[a]]
      /\ r.index = [q.index EXCEPT ![y] = a, ![x] = b]
  BY <1>3, <1>4 DEF SwapHeap
<1>7. /\ r.heap \in Seq(Entries) /\ Len(r.heap) = n
      /\ r.heap[a] = q.heap[b] /\ r.heap[b] = q.heap[a]
      /\ \A k \in 1..n : k # a /\ k # b => r.heap[k] = q.heap[k]
  BY <1>1, <1>2, <1>6
<1>8. /\ r.index \in [Timers -> Nat] /\ r.index[x] = b /\ r.index[y] = a
      /\ \A i \in Timers : i # x /\ i # y => r.index[i] = q.index[i]
  BY <1>1, <1>2, <1>5, <1>6
<1>9. r \in Queues
  <2>1. r = [heap |-> r.heap, index |-> r.index]
    BY DEF SwapHeap
  <2>2. QED BY <1>7, <1>8, <2>1 DEF Queues
<1>10. ASSUME NEW k \in 1..n PROVE r.index[r.heap[k].timer] = k
  <2>1. CASE k = a
    BY <1>4, <1>7, <1>8, <2>1
  <2>2. CASE k = b
    BY <1>3, <1>7, <1>8, <2>2
  <2>3. CASE k # a /\ k # b
    <3>1. PICK z \in Timers : z = q.heap[k].timer
      BY <1>2
    <3>2. q.index[z] = k
      BY <3>1 DEF Indexed
    <3>3. z # x /\ z # y
      BY <1>5, <2>3, <3>2
    <3>4. QED BY <1>7, <1>8, <2>3, <3>1, <3>2, <3>3
  <2>4. QED BY <2>1, <2>2, <2>3
<1>11. ASSUME NEW i \in Timers, q.index[i] # 0
       PROVE  r.index[i] \in 1..n /\ r.heap[r.index[i]] = q.heap[q.index[i]]
  <2>1. CASE i = x
    BY <1>5, <1>7, <1>8, <2>1
  <2>2. CASE i = y
    BY <1>5, <1>7, <1>8, <2>2
  <2>3. CASE i # x /\ i # y
    <3>1. PICK k \in 1..n : k = q.index[i] /\ q.heap[k].timer = i
      BY <1>11 DEF Indexed
    <3>2. k # a /\ k # b
      BY <1>3, <1>4, <2>3, <3>1
    <3>3. QED BY <1>7, <1>8, <2>3, <3>1, <3>2
  <2>4. QED BY <2>1, <2>2, <2>3
<1>12. \A i \in Timers : r.index[i] # 0 => q.index[i] # 0
  BY <1>5, <1>8
<1>13. \A i \in Timers : q.index[i] # 0 => r.index[i] # 0
  BY <1>2, <1>11
<1>14. Indexed(r)
  <2>1. \A i \in Timers : q.index[i] # 0 => q.heap[q.index[i]].timer = i
    BY DEF Indexed
  <2>2. ASSUME NEW i \in Timers, r.index[i] # 0
        PROVE  r.index[i] \in 1..Len(r.heap) /\ r.heap[r.index[i]].timer = i
    <3>1. q.index[i] # 0
      BY <1>12, <2>2
    <3>2. QED BY <1>7, <1>11, <2>1, <3>1
  <2>3. \A k \in 1..Len(r.heap) : r.index[r.heap[k].timer] = k
    BY <1>7, <1>10
  <2>4. QED BY <1>9, <2>2, <2>3 DEF Indexed
<1>15. Same(q, r, Timers)
  BY <1>11, <1>12, <1>13 DEF Same, TimeOf
<1>16. Swapped(TimesOf(q), TimesOf(r), n, a, b)
  BY <1>7 DEF Swapped, TimesOf
<1>17. QED BY <1>7, <1>14, <1>15, <1>16

\* r is q without its last entry, which was that of timer i.
Popped(q, i, r) ==
    /\ Indexed(r) /\ Len(r.heap) = Len(q.heap) - 1 /\ r.index[i] = 0
    /\ \A k \in 1..Len(q.heap) - 1 : r.heap[k] = q.heap[k]
    /\ Same(q, r, Timers \ {i})

LEMMA Popping ==
  ASSUME NEW q, Indexed(q), Len(q.heap) > 0, NEW i, i = q.heap[Len(q.heap)].timer
  PROVE  Popped(q, i, PopBack(q, i))
<1> DEFINE n == Len(q.heap)
           r == PopBack(q, i)
<1>1. q \in Queues /\ q.heap \in Seq(Entries) /\ q.index \in [Timers -> Nat]
  BY DEF Indexed, Queues
<1>2. n \in 1..n /\ n \in Nat /\ \A k \in 1..n : q.heap[k] \in Entries /\ q.heap[k].timer \in Timers
  <2>1. Len(q.heap) \in Nat /\ \A k \in 1..Len(q.heap) : q.heap[k] \in Entries /\ q.heap[k].timer \in Timers
    BY <1>1, QueueTimes
  <2>2. QED BY <2>1
<1>3. i \in Timers /\ q.index[i] = n
  BY <1>2 DEF Indexed
<1>4. r.heap = SubSeq(q.heap, 1, n - 1) /\ r.index = [q.index EXCEPT ![i] = 0]
  BY DEF PopBack
<1>5. r.heap \in Seq(Entries) /\ Len(r.heap) = n - 1 /\ \A k \in 1..n - 1 : r.heap[k] = q.heap[k]
  BY <1>1, <1>2, <1>4
<1>6. /\ r.index \in [Timers -> Nat] /\ r.index[i] = 0
      /\ \A j \in Timers \ {i} : r.index[j] = q.index[j]
  BY <1>1, <1>3, <1>4
<1>7. r \in Queues
  <2>1. r = [heap |-> r.heap, index |-> r.index]
    BY DEF PopBack
  <2>2. QED BY <1>5, <1>6, <2>1 DEF Queues
<1>8. ASSUME NEW k \in 1..n - 1 PROVE r.index[r.heap[k].timer] = k
  <2>1. PICK z \in Timers : z = q.heap[k].timer
    BY <1>2
  <2>2. q.index[z] = k
    BY <1>2, <2>1 DEF Indexed
  <2>3. z # i
    BY <1>2, <1>3, <2>2
  <2>4. r.index[z] = k /\ r.heap[k] = q.heap[k]
    BY <1>5, <1>6, <2>2, <2>3
  <2>5. QED BY <2>1, <2>4
<1>9. ASSUME NEW j \in Timers \ {i}, q.index[j] # 0
      PROVE  r.index[j] \in 1..n - 1 /\ r.heap[r.index[j]] = q.heap[q.index[j]]
  <2>1. PICK k \in 1..n : k = q.index[j] /\ q.heap[k].timer = j
    BY <1>9 DEF Indexed
  <2>2. k # n
    BY <2>1
  <2>3. k \in 1..n - 1
    BY <1>2, <2>2
  <2>4. r.index[j] = k
    BY <1>6, <2>1
  <2>5. QED BY <1>5, <2>1, <2>3, <2>4
<1>10. Indexed(r)
  <2>1. \A j \in Timers : q.index[j] # 0 => q.heap[q.index[j]].timer = j
    BY DEF Indexed
  <2>2. ASSUME NEW j \in Timers, r.index[j] # 0
        PROVE  r.index[j] \in 1..n - 1 /\ r.heap[r.index[j]].timer = j
    <3>1. j # i /\ q.index[j] # 0
      BY <1>6, <2>2
    <3>2. QED BY <1>9, <2>1, <3>1
  <2>3. QED BY <1>5, <1>7, <1>8, <2>2 DEF Indexed
<1>11. Same(q, r, Timers \ {i})
  BY <1>6, <1>9 DEF Same, TimeOf
<1>12. QED BY <1>5, <1>6, <1>10, <1>11 DEF Popped

\* up_heap() at work for q.
Climbs(q) ==
    {p \in [q : Queues, k : Nat] :
        /\ Indexed(p.q) /\ Len(p.q.heap) = Len(q.heap) /\ Same(q, p.q, Timers)
        /\ p.k \in 1..Len(p.q.heap) /\ Rising(TimesOf(p.q), Len(p.q.heap), p.k)}

LEMMA UpTurnClimbs ==
  ASSUME NEW q, NEW p \in Climbs(q)
  PROVE  /\ UpTurn(p) \in Climbs(q)
         /\ (UpTurn(p) = p /\ IsHeap(p.q)) \/ UpTurn(p).k < p.k
<1>1. PICK n \in Nat : n = Len(p.q.heap)
  BY QueueTimes DEF Climbs
<1>2. PICK t \in [1..n -> Nat] : t = TimesOf(p.q)
  BY <1>1, QueueTimes DEF Climbs
<1>3. PICK k \in 1..n : k = p.k
  BY <1>1 DEF Climbs
<1>4. Rising(t, n, k) /\ Indexed(p.q)
  BY <1>1, <1>2, <1>3 DEF Climbs
<1>5. \A j \in 1..n : Time(p.q, j) = t[j]
  BY <1>1, <1>2 DEF Time, TimesOf
<1>6. CASE k = 1 \/ t[k] >= t[k \div 2]
  <2>1. UpTurn(p) = p
    <3>1. CASE k = 1
      BY <1>3, <3>1 DEF UpTurn
    <3>2. CASE k # 1
      <4>1. k \div 2 \in 1..n
        BY <3>2, Halves
      <4>2. Time(p.q, k) >= Time(p.q, k \div 2)
        BY <1>5, <1>6, <3>2, <4>1
      <4>3. QED BY <1>3, <4>2 DEF UpTurn
    <3>3. QED BY <3>1, <3>2
  <2>2. Ordered(t, n)
    BY <1>4, <1>6, RiseTurn
  <2>3. QED BY <1>1, <1>2, <1>4, <2>1, <2>2 DEF IsHeap
<1>7. CASE ~(k = 1 \/ t[k] >= t[k \div 2])
  <2>1. PICK m \in 1..n : m = k \div 2 /\ m < k
    BY <1>7, Halves
  <2>2. t[k] < t[m]
    BY <1>7, <2>1
  <2>3. PICK r : r = SwapHeap(p.q, k, m)
    OBVIOUS
  <2>4. UpTurn(p) = [q |-> r, k |-> m]
    <3>1. ~(Time(p.q, k) >= Time(p.q, k \div 2))
      BY <1>5, <1>7, <2>1
    <3>2. QED BY <1>3, <1>7, <2>1, <2>3, <3>1 DEF UpTurn
  <2>5. /\ Indexed(r) /\ Len(r.heap) = n /\ Swapped(t, TimesOf(r), n, k, m)
        /\ Same(p.q, r, Timers)
    BY <1>1, <1>2, <1>4, <2>1, <2>3, Swapping
  <2>6. r \in Queues /\ TimesOf(r) \in [1..n -> Nat]
    BY <2>5, QueueTimes DEF Indexed
  <2>7. Rising(TimesOf(r), n, m)
    BY <1>4, <1>7, <2>1, <2>2, <2>5, <2>6, RiseTurn
  <2>8. Same(q, r, Timers)
    BY <2>5, SameTransitive DEF Climbs
  <2>9. UpTurn(p) \in Climbs(q)
    BY <1>1, <2>4, <2>5, <2>6, <2>7, <2>8 DEF Climbs
  <2>10. QED BY <1>3, <2>1, <2>4, <2>9
<1>8. QED BY <1>6, <1>7

LEMMA UpHeapOrders ==
  ASSUME NEW q, Indexed(q), NEW k \in 1..Len(q.heap), Rising(TimesOf(q), Len(q.heap), k)
  PROVE  /\ IsHeap(UpHeap(q, k)) /\ Len(UpHeap(q, k).heap) = Len(q.heap)
         /\ Same(q, UpHeap(q, k), Timers)
<1> DEFINE S == Climbs(q)
           x == [q |-> q, k |-> k]
           turn == [p \in S |-> UpTurn(p)]
           left == [p \in S |-> p.k]
<1>1. x \in S
  BY DEF Climbs, Same, Indexed
<1>2. turn \in [S -> S] /\ left \in [S -> Nat] /\ left[x] <= k
  BY <1>1, UpTurnClimbs DEF Climbs
<1>3. Decreases(S, turn, left)
  BY UpTurnClimbs DEF Decreases
<1>4. \A p \in S : turn[p] = UpTurn(p)
  OBVIOUS
<1>5. k \in Nat
  OBVIOUS
<1> HIDE DEF S, x, turn, left
<1>6. PICK r : /\ r = [i \in 0..k |-> r[i]] /\ Runs(r, S, turn, x, k)
               /\ \A i \in 0..k : r[i] \in S
  BY <1>1, <1>2, <1>5, Iterates
<1>7. r = [i \in 0..k |-> IF i = 0 THEN x ELSE UpTurn(r[i - 1])]
  <2>0. \A i \in 1..k : i - 1 \in 0..k
    BY <1>5
  <2>1. r[0] = x /\ \A i \in 1..k : r[i] = turn[r[i - 1]] /\ r[i - 1] \in S
    BY <1>6, <2>0 DEF Runs
  <2>2. \A i \in 1..k : r[i] = UpTurn(r[i - 1])
    BY <1>4, <2>1
  <2>3. \A i \in 0..k : r[i] = IF i = 0 THEN x ELSE UpTurn(r[i - 1])
    BY <1>5, <2>1, <2>2
  <2>4. r = [i \in 0..k |-> r[i]]
    BY <1>6
  <2>5. QED BY <2>3, <2>4
<1>8. PICK s : /\ s = [i \in 0..k |-> IF i = 0 THEN x ELSE UpTurn(s[i - 1])]
               /\ Loop(UpTurn, x, k) = s[k]
  BY <1>7 DEF Loop
<1>9. Runs(s, S, turn, x, k)
  <2>1. \A i \in 0..k : s[i] = IF i = 0 THEN x ELSE UpTurn(s[i - 1])
    BY <1>8
  <2>2. QED BY <1>4, <1>5, <2>1 DEF Runs
<1>10. s[k] \in S /\ turn[s[k]] = s[k]
  BY <1>1, <1>2, <1>3, <1>5, <1>9, Terminates, SMTT(30)
<1>11. UpTurn(s[k]) = s[k] /\ s[k].k \in Nat
  BY <1>4, <1>10 DEF S, Climbs
<1>12. IsHeap(s[k].q)
  BY <1>10, <1>11, UpTurnClimbs DEF S
<1>13. UpHeap(q, k) = s[k].q
  BY <1>8 DEF UpHeap, x
<1>14. QED BY <1>10, <1>12, <1>13 DEF S, Climbs

\* down_heap() at work for q.
Falls(q) ==
    {p \in [q : Queues, k : Nat] :
        /\ Indexed(p.q) /\ Len(p.q.heap) = Len(q.heap) /\ Same(q, p.q, Timers)
        /\ p.k \in 1..Len(p.q.heap) /\ Sinking(TimesOf(p.q), Len(p.q.heap), p.k)}

LEMMA DownTurnFalls ==
  ASSUME NEW q, NEW p \in Falls(q)
  PROVE  /\ DownTurn(p) \in Falls(q)
         /\ (DownTurn(p) = p /\ IsHeap(p.q)) \/ DownTurn(p).k > p.k
<1>1. PICK n \in Nat : n = Len(p.q.heap)
  BY QueueTimes DEF Falls
<1>2. PICK t \in [1..n -> Nat] : t = TimesOf(p.q)
  BY <1>1, QueueTimes DEF Falls
<1>3. PICK k \in 1..n : k = p.k
  BY <1>1 DEF Falls
<1>4. Sinking(t, n, k) /\ Indexed(p.q)
  BY <1>1, <1>2, <1>3 DEF Falls
<1>5. \A j \in 1..n : Time(p.q, j) = t[j]
  BY <1>1, <1>2 DEF Time, TimesOf
<1>6. CASE 2 * k > n
  <2>1. DownTurn(p) = p
    BY <1>1, <1>3, <1>6 DEF DownTurn
  <2>2. Ordered(t, n)
    BY <1>4, <1>6, SinkTurn
  <2>3. QED BY <1>1, <1>2, <1>4, <2>1, <2>2 DEF IsHeap
<1>7. CASE 2 * k <= n
  <2>1. PICK c : c = (IF 2 * k = n \/ t[2 * k] < t[2 * k + 1] THEN 2 * k ELSE 2 * k + 1)
    OBVIOUS
  <2>2. /\ c \in 1..n /\ c > k
        /\ t[k] < t[c] => Ordered(t, n)
        /\ ~(t[k] < t[c]) => \A u \in [1..n -> Nat] : Swapped(t, u, n, k, c) => Sinking(u, n, c)
    BY <1>4, <1>7, <2>1, SinkTurn
  <2>3. c = MinChild(p.q, k)
    <3>1. CASE 2 * k = n
      BY <1>1, <2>1, <3>1 DEF MinChild
    <3>2. CASE 2 * k # n
      <4>1. 2 * k \in 1..n /\ 2 * k + 1 \in 1..n
        BY <1>7, <3>2
      <4>2. Time(p.q, 2 * k) = t[2 * k] /\ Time(p.q, 2 * k + 1) = t[2 * k + 1]
        BY <1>5, <4>1
      <4>3. QED BY <1>1, <2>1, <3>2, <4>2 DEF MinChild
    <3>3. QED BY <3>1, <3>2
  <2>4. CASE t[k] < t[c]
    <3>1. DownTurn(p) = p
      BY <1>3, <1>5, <2>2, <2>3, <2>4 DEF DownTurn
    <3>2. QED BY <1>1, <1>2, <1>4, <2>2, <2>4, <3>1 DEF IsHeap
  <2>5. CASE ~(t[k] < t[c])
    <3>1. PICK r : r = SwapHeap(p.q, k, c)
      OBVIOUS
    <3>2. DownTurn(p) = [q |-> r, k |-> c]
      <4>1. ~(2 * p.k > Len(p.q.heap))
        BY <1>1, <1>3, <1>7
      <4>2. ~(Time(p.q, p.k) < Time(p.q, c))
        BY <1>3, <1>5, <2>2, <2>5
      <4>3. QED BY <1>3, <2>3, <3>1, <4>1, <4>2 DEF DownTurn
    <3>3. /\ Indexed(r) /\ Len(r.heap) = n /\ Swapped(t, TimesOf(r), n, k, c)
          /\ Same(p.q, r, Timers)
      BY <1>1, <1>2, <1>4, <2>2, <3>1, Swapping
    <3>4. r \in Queues /\ TimesOf(r) \in [1..n -> Nat]
      BY <3>3, QueueTimes DEF Indexed
    <3>5. Sinking(TimesOf(r), n, c)
      BY <2>2, <2>5, <3>3, <3>4
    <3>6. Same(q, r, Timers)
      BY <3>3, SameTransitive DEF Falls
    <3>7. DownTurn(p) \in Falls(q)
      BY <1>1, <2>2, <3>2, <3>3, <3>4, <3>5, <3>6 DEF Falls
    <3>8. QED BY <1>3, <2>2, <3>2, <3>7
  <2>6. QED BY <2>4, <2>5
<1>8. QED BY <1>6, <1>7

LEMMA DownHeapOrders ==
  ASSUME NEW q, Indexed(q), NEW k \in 1..Len(q.heap), Sinking(TimesOf(q), Len(q.heap), k)
  PROVE  /\ IsHeap(DownHeap(q, k)) /\ Len(DownHeap(q, k).heap) = Len(q.heap)
         /\ Same(q, DownHeap(q, k), Timers)
<1> DEFINE S == Falls(q)
           x == [q |-> q, k |-> k]
           turn == [p \in S |-> DownTurn(p)]
           left == [p \in S |-> Len(p.q.heap) - p.k]
<1>0. PICK n \in Nat : n = Len(q.heap)
  BY QueueTimes DEF Indexed
<1>1. x \in S
  BY DEF Falls, Same, Indexed
<1>2. turn \in [S -> S] /\ left \in [S -> Nat] /\ left[x] <= n
  <2>1. turn \in [S -> S]
    BY DownTurnFalls
  <2>2. \A p \in S : n - p.k \in Nat /\ n - p.k <= n /\ Len(p.q.heap) = n
    BY <1>0 DEF Falls
  <2>3. QED BY <1>0, <1>1, <2>1, <2>2
<1>3. Decreases(S, turn, left)
  <2>1. ASSUME NEW p \in S, turn[p] # p PROVE left[turn[p]] < left[p]
    <3>1. DownTurn(p) \in S /\ DownTurn(p).k > p.k
      BY <2>1, DownTurnFalls
    <3>2. Len(p.q.heap) = n /\ Len(DownTurn(p).q.heap) = n /\ DownTurn(p).k \in Nat /\ p.k \in Nat
      BY <1>0, <3>1 DEF Falls
    <3>3. left[p] = n - p.k /\ left[turn[p]] = n - DownTurn(p).k
      BY <3>1, <3>2
    <3>4. QED BY <3>1, <3>2, <3>3
  <2>2. QED BY <2>1 DEF Decreases
<1>4. \A p \in S : turn[p] = DownTurn(p)
  OBVIOUS
<1> HIDE DEF S, x, turn, left
<1>6. PICK r : /\ r = [i \in 0..n |-> r[i]] /\ Runs(r, S, turn, x, n)
               /\ \A i \in 0..n : r[i] \in S
  BY <1>1, <1>2, Iterates
<1>7. r = [i \in 0..n |-> IF i = 0 THEN x ELSE DownTurn(r[i - 1])]
  <2>0. \A i \in 1..n : i - 1 \in 0..n
    OBVIOUS
  <2>1. r[0] = x /\ \A i \in 1..n : r[i] = turn[r[i - 1]] /\ r[i - 1] \in S
    BY <1>6, <2>0 DEF Runs
  <2>2. \A i \in 1..n : r[i] = DownTurn(r[i - 1])
    BY <1>4, <2>1
  <2>3. \A i \in 0..n : r[i] = IF i = 0 THEN x ELSE DownTurn(r[i - 1])
    BY <2>1, <2>2
  <2>4. r = [i \in 0..n |-> r[i]]
    BY <1>6
  <2>5. QED BY <2>3, <2>4
<1>8. PICK s : /\ s = [i \in 0..n |-> IF i = 0 THEN x ELSE DownTurn(s[i - 1])]
               /\ Loop(DownTurn, x, n) = s[n]
  BY <1>7 DEF Loop
<1>9. Runs(s, S, turn, x, n)
  <2>1. \A i \in 0..n : s[i] = IF i = 0 THEN x ELSE DownTurn(s[i - 1])
    BY <1>8
  <2>2. QED BY <1>4, <2>1 DEF Runs
<1>10. s[n] \in S /\ turn[s[n]] = s[n]
  BY <1>1, <1>2, <1>3, <1>9, Terminates, SMTT(30)
<1>11. DownTurn(s[n]) = s[n] /\ s[n].k \in Nat
  BY <1>4, <1>10 DEF S, Falls
<1>12. IsHeap(s[n].q)
  BY <1>10, <1>11, DownTurnFalls DEF S
<1>13. DownHeap(q, k) = s[n].q
  BY <1>0, <1>8 DEF DownHeap, x
<1>14. QED BY <1>10, <1>12, <1>13 DEF S, Falls

\* remove_timer(): the other timers keep their times.
LEMMA RemoveTimerRemoves ==
  ASSUME NEW q, IsHeap(q), NEW i \in Timers, NEW r, r = RemoveTimer(q, i)
  PROVE  /\ IsHeap(r) /\ r.index[i] = 0 /\ Same(q, r, Timers \ {i})
         /\ q.index[i] # 0 => Len(r.heap) = Len(q.heap) - 1
         /\ q.index[i] = 0 => r = q
<1>1. Indexed(q) /\ q \in Queues
  BY DEF IsHeap, Indexed
<1>2. CASE q.index[i] = 0
  <2>1. r = q
    BY <1>2 DEF RemoveTimer
  <2>2. QED BY <1>2, <2>1 DEF Same
<1>3. CASE q.index[i] # 0
  <2>1. PICK n \in Nat : n = Len(q.heap)
    BY <1>1, QueueTimes
  <2>2. PICK k \in 1..n : k = q.index[i] /\ q.heap[k].timer = i
    BY <1>1, <1>3, <2>1 DEF Indexed
  <2>3. PICK t \in [1..n -> Nat] : t = TimesOf(q)
    BY <1>1, <2>1, QueueTimes
  <2>4. n > 0 /\ n \in 1..n /\ Ordered(t, n)
    BY <2>1, <2>3 DEF IsHeap
  <2>5. CASE k = n
    <3>1. r = PopBack(q, i)
      BY <2>1, <2>2, <2>5 DEF RemoveTimer
    <3>2. /\ Indexed(r) /\ Len(r.heap) = n - 1 /\ r.index[i] = 0
          /\ \A j \in 1..n - 1 : r.heap[j] = q.heap[j]
          /\ Same(q, r, Timers \ {i})
      <4>1. n > 0 /\ i = q.heap[n].timer
        BY <2>2, <2>4, <2>5
      <4>2. Popped(q, i, r)
        BY <1>1, <2>1, <3>1, <4>1, Popping
      <4>3. QED BY <2>1, <4>2 DEF Popped
    <3>3. \A j \in 1..n - 1 : TimesOf(r)[j] = t[j]
      BY <2>1, <2>3, <3>2 DEF TimesOf
    <3>4. \A j \in 2..n - 1 : TimesOf(r)[j \div 2] <= TimesOf(r)[j]
      <4>1. \A j \in 2..n - 1 : t[j \div 2] <= t[j] /\ j \div 2 \in 1..n - 1 /\ j \in 1..n - 1
        BY <2>4, Halves DEF Ordered
      <4>2. QED BY <3>3, <4>1
    <3>5. IsHeap(r)
      BY <3>2, <3>4 DEF IsHeap, Ordered
    <3>6. QED BY <1>3, <2>1, <3>2, <3>5
  <2>6. CASE k # n
    <3>1. PICK w : w = SwapHeap(q, k, n)
      OBVIOUS
    <3>2. PICK v : v = PopBack(w, i)
      OBVIOUS
    <3>3. /\ Indexed(w) /\ Len(w.heap) = n /\ Swapped(t, TimesOf(w), n, k, n)
          /\ Same(q, w, Timers) /\ w.heap[n].timer = i
      BY <1>1, <2>1, <2>2, <2>3, <2>4, <2>6, <3>1, Swapping
    <3>4. /\ Indexed(v) /\ Len(v.heap) = n - 1 /\ v.index[i] = 0
          /\ \A j \in 1..n - 1 : v.heap[j] = w.heap[j]
          /\ Same(w, v, Timers \ {i})
      <4>1. n > 0 /\ n = Len(w.heap) /\ i = w.heap[n].timer /\ Indexed(w)
        BY <2>4, <3>3
      <4>2. Popped(w, i, v)
        BY <3>2, <4>1, Popping
      <4>3. QED BY <4>1, <4>2 DEF Popped
    <3>5. PICK y \in [1..n - 1 -> Nat] : y = TimesOf(v)
      BY <3>4, QueueTimes DEF Indexed
    <3>6. \A j \in 1..n - 1 : y[j] = TimesOf(w)[j]
      <4>1. \A j \in 1..n - 1 : j \in 1..Len(w.heap) /\ v.heap[j] = w.heap[j]
        BY <3>3, <3>4
      <4>2. QED BY <3>4, <3>5, <4>1 DEF TimesOf
    <3>7. k \in 1..n - 1 /\ y[k] = t[n] /\ \A j \in 1..n - 1 : j # k => y[j] = t[j]
      <4>1. k \in 1..n - 1 /\ \A j \in 1..n - 1 : j \in 1..n /\ j # n
        BY <2>6
      <4>2. /\ TimesOf(w)[k] = t[n]
            /\ \A j \in 1..n : j # k /\ j # n => TimesOf(w)[j] = t[j]
        BY <3>3 DEF Swapped
      <4>3. QED BY <3>6, <4>1, <4>2
    <3>8. /\ k > 1 /\ y[k] < y[k \div 2] => Rising(y, n - 1, k)
          /\ ~(k > 1 /\ y[k] < y[k \div 2]) => Sinking(y, n - 1, k)
      BY <2>4, <3>7, Removal
    <3>9. k > 1 /\ Time(v, k) < Time(v, k \div 2) <=> k > 1 /\ y[k] < y[k \div 2]
      <4>1. \A j \in 1..n - 1 : Time(v, j) = y[j]
        BY <3>4, <3>5 DEF Time, TimesOf
      <4>2. k > 1 => k \div 2 \in 1..n - 1
        BY <3>7, Halves
      <4>3. QED BY <3>7, <4>1, <4>2
    <3>10. r = IF k > 1 /\ Time(v, k) < Time(v, k \div 2) THEN UpHeap(v, k) ELSE DownHeap(v, k)
      BY <2>1, <2>2, <2>6, <3>1, <3>2 DEF RemoveTimer
    <3>11. IsHeap(r) /\ Len(r.heap) = n - 1 /\ Same(v, r, Timers)
      <4>1. CASE k > 1 /\ y[k] < y[k \div 2]
        <5>1. r = UpHeap(v, k)
          BY <3>9, <3>10, <4>1
        <5>2. k \in 1..Len(v.heap) /\ Rising(TimesOf(v), Len(v.heap), k)
          BY <3>4, <3>5, <3>7, <3>8, <4>1
        <5>3. QED BY <3>4, <5>1, <5>2, UpHeapOrders
      <4>2. CASE ~(k > 1 /\ y[k] < y[k \div 2])
        <5>1. r = DownHeap(v, k)
          BY <3>9, <3>10, <4>2
        <5>2. k \in 1..Len(v.heap) /\ Sinking(TimesOf(v), Len(v.heap), k)
          BY <3>4, <3>5, <3>7, <3>8, <4>2
        <5>3. QED BY <3>4, <5>1, <5>2, DownHeapOrders
      <4>3. QED BY <4>1, <4>2
    <3>12. Same(q, r, Timers \ {i}) /\ r.index[i] = 0
      <4>1. r.index[i] = 0
        BY <3>4, <3>11 DEF Same
      <4>2. Same(q, w, Timers \ {i})
        BY <3>3 DEF Same
      <4>3. Same(v, r, Timers \ {i})
        BY <3>11 DEF Same
      <4>4. Same(q, v, Timers \ {i})
        BY <3>4, <4>2, SameTransitive
      <4>5. QED BY <4>1, <4>3, <4>4, SameTransitive
    <3>13. QED BY <1>3, <2>1, <3>11, <3>12
  <2>7. QED BY <2>5, <2>6
<1>4. QED BY <1>2, <1>3

\* enqueue_timer() of a timer that is not in the heap.
LEMMA EnqueueTimerAdds ==
  ASSUME IsHeap(Q), NEW i \in Timers, i \notin active, index[i] = 0, expiry[i] \in Times,
         NEW r, r = EnqueueTimer(i)
  PROVE  IsHeap(r) /\ r.index[i] # 0 /\ TimeOf(r, i) = expiry[i] /\ Same(Q, r, Timers \ {i})
<1>1. Indexed(Q) /\ Q \in Queues /\ Q.heap = heap /\ Q.index = index
  BY DEF IsHeap, Indexed, Q
<1>2. heap \in Seq(Entries) /\ index \in [Timers -> Nat]
  BY <1>1 DEF Queues
<1>3. PICK n \in Nat : n = Len(heap)
  BY <1>2
<1>4. PICK e \in Entries : e = [time |-> expiry[i], timer |-> i]
  BY DEF Entries
<1>5. PICK p : p = [heap |-> Append(heap, e), index |-> [index EXCEPT ![i] = n + 1]]
  OBVIOUS
<1>6. r = UpHeap(p, n + 1)
  BY <1>3, <1>4, <1>5 DEF EnqueueTimer
<1>7. /\ p.heap \in Seq(Entries) /\ Len(p.heap) = n + 1 /\ p.heap[n + 1] = e
      /\ \A k \in 1..n : p.heap[k] = heap[k]
  BY <1>2, <1>3, <1>5
<1>8. /\ p.index \in [Timers -> Nat] /\ p.index[i] = n + 1
      /\ \A j \in Timers \ {i} : p.index[j] = index[j]
  BY <1>2, <1>5
<1>9. p \in Queues
  BY <1>5, <1>7, <1>8 DEF Queues
<1>10. ASSUME NEW k \in 1..n + 1 PROVE p.index[p.heap[k].timer] = k
  <2>1. CASE k = n + 1
    BY <1>4, <1>7, <1>8, <2>1
  <2>2. CASE k # n + 1
    <3>1. k \in 1..n
      BY <2>2
    <3>2. PICK z \in Timers : z = heap[k].timer
      BY <1>1, <1>3, <3>1, QueueTimes
    <3>3. index[z] = k
      BY <1>1, <1>3, <3>1, <3>2 DEF Indexed
    <3>4. z # i
      BY <3>1, <3>3
    <3>5. p.index[z] = k /\ p.heap[k] = heap[k]
      BY <1>7, <1>8, <3>1, <3>3, <3>4
    <3>6. QED BY <3>2, <3>5
  <2>3. QED BY <2>1, <2>2
<1>11. ASSUME NEW j \in Timers \ {i}, index[j] # 0
       PROVE  /\ p.index[j] = index[j] /\ index[j] \in 1..n + 1 /\ p.heap[index[j]] = heap[index[j]]
              /\ heap[index[j]].timer = j
  <2>1. PICK k \in 1..n : k = index[j] /\ heap[k].timer = j
    BY <1>1, <1>3, <1>11 DEF Indexed
  <2>2. QED BY <1>7, <1>8, <2>1
<1>12. Indexed(p)
  <2>1. ASSUME NEW j \in Timers, p.index[j] # 0
        PROVE  p.index[j] \in 1..n + 1 /\ p.heap[p.index[j]].timer = j
    <3>1. CASE j = i
      BY <1>4, <1>7, <1>8, <3>1
    <3>2. CASE j # i
      <4>1. index[j] # 0
        BY <1>8, <2>1, <3>2
      <4>2. QED BY <1>11, <3>2, <4>1
    <3>3. QED BY <3>1, <3>2
  <2>2. QED BY <1>7, <1>9, <1>10, <2>1 DEF Indexed
<1>13. PICK t \in [1..n -> Nat] : t = TimesOf(Q)
  BY <1>1, <1>3, QueueTimes
<1>14. PICK v \in [1..n + 1 -> Nat] : v = TimesOf(p)
  BY <1>7, <1>9, QueueTimes
<1>15. \A k \in 1..n : v[k] = t[k]
  BY <1>1, <1>3, <1>7, <1>13, <1>14 DEF TimesOf
<1>16. Ordered(t, n)
  BY <1>1, <1>3, <1>13 DEF IsHeap
<1>17. Rising(v, n + 1, n + 1)
  BY <1>15, <1>16, Appending
<1>18. IsHeap(r) /\ Same(p, r, Timers)
  <2>1. n + 1 \in 1..n + 1
    OBVIOUS
  <2>2. QED BY <1>6, <1>7, <1>12, <1>14, <1>17, <2>1, UpHeapOrders
<1>19. Same(Q, p, Timers \ {i})
  BY <1>1, <1>8, <1>11 DEF Same, TimeOf
<1>20. Same(Q, r, Timers \ {i})
  BY <1>18, <1>19 DEF Same
<1>21. r.index[i] # 0 /\ TimeOf(r, i) = expiry[i]
  <2>1. p.index[i] # 0 /\ TimeOf(p, i) = expiry[i]
    BY <1>4, <1>7, <1>8 DEF TimeOf
  <2>2. QED BY <1>18, <2>1 DEF Same
<1>22. QED BY <1>18, <1>20, <1>21

\* move_timer(): the entry of j becomes that of i.
Renamed(q, i, j) ==
    LET k == q.index[j] IN
    [heap  |-> IF k = 0 THEN q.heap ELSE [q.heap EXCEPT ![k].timer = i],
     index |-> [q.index EXCEPT ![i] = k, ![j] = 0]]

LEMMA Renaming ==
  ASSUME NEW q, IsHeap(q), NEW i \in Timers, NEW j \in Timers, i # j, q.index[i] = 0,
         NEW r, r = Renamed(q, i, j)
  PROVE  /\ IsHeap(r) /\ r.index[j] = 0 /\ r.index[i] = q.index[j]
         /\ q.index[j] # 0 => TimeOf(r, i) = TimeOf(q, j)
         /\ Same(q, r, Timers \ {i, j})
<1>1. Indexed(q) /\ q \in Queues /\ q.heap \in Seq(Entries) /\ q.index \in [Timers -> Nat]
  BY DEF IsHeap, Indexed, Queues
<1>2. PICK n \in Nat : n = Len(q.heap)
  BY <1>1
<1>3. \A k \in 1..n : q.heap[k] \in Entries /\ q.heap[k].timer \in Timers /\ q.heap[k].time \in Times
  BY <1>1, <1>2, QueueTimes
<1>4. PICK m \in Nat : m = q.index[j]
  BY <1>1
<1>5. /\ r.index = [q.index EXCEPT ![i] = m, ![j] = 0]
      /\ r.heap = IF m = 0 THEN q.heap ELSE [q.heap EXCEPT ![m].timer = i]
      /\ r = [heap |-> r.heap, index |-> r.index]
  BY <1>4 DEF Renamed
<1>6. /\ r.index \in [Timers -> Nat] /\ r.index[i] = m /\ r.index[j] = 0
      /\ \A l \in Timers \ {i, j} : r.index[l] = q.index[l]
  BY <1>1, <1>5
<1>7. m # 0 => m \in 1..n /\ q.heap[m].timer = j
  BY <1>1, <1>2, <1>4 DEF Indexed
<1>8. /\ r.heap \in Seq(Entries) /\ Len(r.heap) = n
      /\ \A k \in 1..n : r.heap[k].time = q.heap[k].time
      /\ \A k \in 1..n : r.heap[k].timer = IF k = m THEN i ELSE q.heap[k].timer
  <2>1. CASE m = 0
    BY <1>1, <1>2, <1>5, <2>1
  <2>2. CASE m # 0
    <3>1. PICK e \in Entries : e = q.heap[m]
      BY <1>3, <1>7, <2>2
    <3>2. [e EXCEPT !.timer = i] \in Entries /\ [e EXCEPT !.timer = i].time = e.time
          /\ [e EXCEPT !.timer = i].timer = i
      BY DEF Entries
    <3>3. PICK f \in Entries : f = [e EXCEPT !.timer = i]
      BY <3>2
    <3>4. r.heap = [q.heap EXCEPT ![m] = f]
      BY <1>5, <2>2, <3>1, <3>3
    <3>5. r.heap \in Seq(Entries) /\ Len(r.heap) = n /\ r.heap[m] = f
          /\ \A k \in 1..n : k # m => r.heap[k] = q.heap[k]
      BY <1>1, <1>2, <1>7, <2>2, <3>4
    <3>6. QED BY <3>1, <3>2, <3>3, <3>5
  <2>3. QED BY <2>1, <2>2
<1>9. r \in Queues
  BY <1>5, <1>6, <1>8 DEF Queues
<1>10. ASSUME NEW k \in 1..n PROVE r.index[r.heap[k].timer] = k
  <2>1. CASE k = m
    BY <1>6, <1>8, <2>1
  <2>2. CASE k # m
    <3>1. PICK z \in Timers : z = q.heap[k].timer
      BY <1>3
    <3>2. q.index[z] = k
      BY <1>1, <1>2, <3>1 DEF Indexed
    <3>3. z # i /\ z # j
      BY <1>4, <2>2, <3>2
    <3>4. QED BY <1>6, <1>8, <2>2, <3>1, <3>2, <3>3
  <2>3. QED BY <2>1, <2>2
<1>11. ASSUME NEW l \in Timers, r.index[l] # 0
       PROVE  r.index[l] \in 1..n /\ r.heap[r.index[l]].timer = l
  <2>1. l # j
    BY <1>6, <1>11
  <2>2. CASE l = i
    <3>1. m # 0 /\ r.index[l] = m
      BY <1>6, <1>11, <2>2
    <3>2. QED BY <1>7, <1>8, <2>2, <3>1
  <2>3. CASE l # i
    <3>1. PICK k \in 1..n : k = q.index[l] /\ q.heap[k].timer = l /\ r.index[l] = k
      BY <1>1, <1>2, <1>6, <1>11, <2>1, <2>3 DEF Indexed
    <3>2. k # m
      BY <1>7, <2>1, <3>1
    <3>3. QED BY <1>8, <3>1, <3>2
  <2>4. QED BY <2>2, <2>3
<1>12. Indexed(r)
  BY <1>8, <1>9, <1>10, <1>11 DEF Indexed
<1>13. TimesOf(r) = TimesOf(q)
  BY <1>2, <1>8 DEF TimesOf
<1>14. IsHeap(r)
  BY <1>2, <1>8, <1>12, <1>13 DEF IsHeap
<1>15. q.index[j] # 0 => TimeOf(r, i) = TimeOf(q, j)
  BY <1>4, <1>6, <1>7, <1>8 DEF TimeOf
<1>16. Same(q, r, Timers \ {i, j})
  <2>1. ASSUME NEW l \in Timers \ {i, j}, q.index[l] # 0 PROVE TimeOf(r, l) = TimeOf(q, l)
    <3>1. PICK k \in 1..n : k = q.index[l] /\ r.index[l] = k
      BY <1>1, <1>2, <1>6, <2>1 DEF Indexed
    <3>2. QED BY <1>8, <3>1 DEF TimeOf
  <2>2. QED BY <1>6, <2>1 DEF Same
<1>17. QED BY <1>4, <1>6, <1>14, <1>15, <1>16

-----------------------------------------------------------------------------
(* The invariant.                                                          *)

\* The heap is one, and holds the timers that have waits.
HeapHoldsActive ==
    /\ IsHeap(Q)
    /\ \A i \in Timers : (i \in active <=> waits[i] # <<>>) /\ (i \in active <=> index[i] # 0)

\* What a timer in the heap has in common with its entry.
EntryIsCurrent ==
    \A i \in active :
        /\ mightWait[i] /\ expiry[i] = TimeOf(Q, i)
        /\ \A k \in 1..Len(waits[i]) : waits[i][k] = TimeOf(Q, i)

AlarmBeforeAll == alarm <= now \/ \A i \in active : alarm <= TimeOf(Q, i)

IInv == TypeOK /\ HeapHoldsActive /\ EntryIsCurrent /\ AlarmBeforeAll

LEMMA Roots ==
  ASSUME NEW q, IsHeap(q), q.heap # <<>>, NEW i, i = q.heap[1].timer
  PROVE  /\ i \in Timers /\ q.index[i] = 1 /\ TimeOf(q, i) = q.heap[1].time
         /\ \A j \in Timers : q.index[j] # 0 => TimeOf(q, i) <= TimeOf(q, j)
<1>1. Indexed(q) /\ q \in Queues /\ q.heap \in Seq(Entries)
  BY DEF IsHeap, Indexed, Queues
<1>2. PICK n \in Nat : n = Len(q.heap)
  BY <1>1
<1>3. 1 \in 1..n
  BY <1>1, <1>2
<1>4. i \in Timers
  BY <1>1, <1>2, <1>3, QueueTimes
<1>5. q.index[i] = 1
  BY <1>1, <1>2, <1>3 DEF Indexed
<1>6. PICK t \in [1..n -> Nat] : t = TimesOf(q)
  BY <1>1, <1>2, QueueTimes
<1>7. Ordered(t, n)
  BY <1>2, <1>6 DEF IsHeap
<1>8. ASSUME NEW j \in Timers, q.index[j] # 0 PROVE TimeOf(q, i) <= TimeOf(q, j)
  <2>1. PICK k \in 1..n : k = q.index[j]
    BY <1>1, <1>2, <1>8 DEF Indexed
  <2>2. t[1] <= t[k]
    BY <1>7, RootIsFirst
  <2>3. t[1] = TimeOf(q, i) /\ t[k] = TimeOf(q, j)
    BY <1>2, <1>3, <1>5, <1>6, <2>1 DEF TimesOf, TimeOf
  <2>4. QED BY <2>2, <2>3
<1>9. TimeOf(q, i) = q.heap[1].time
  BY <1>5 DEF TimeOf
<1>10. QED BY <1>4, <1>5, <1>8, <1>9

LEMMA Located ==
  ASSUME NEW q, Indexed(q), NEW i \in Timers, q.index[i] # 0
  PROVE  TimeOf(q, i) \in Times /\ TimeOf(q, i) \in Nat
<1>1. q.index[i] \in 1..Len(q.heap) /\ q \in Queues
  BY DEF Indexed
<1>2. QED BY <1>1, QueueTimes, TimesType DEF TimeOf

-----------------------------------------------------------------------------
(* get_ready_timers().                                                     *)

\* The waits of the timers in S.
EndedOf(S) == UNION {{i} \X DOMAIN waits[i] : i \in S}

\* f says which of these waits each of the times in out is of.
Lists(out, S, f) ==
    /\ f \in [1..Len(out) -> EndedOf(S)]
    /\ \A k, l \in 1..Len(out) : f[k] = f[l] => k = l
    /\ \A w \in EndedOf(S) : \E k \in 1..Len(out) : f[k] = w
    /\ \A k \in 1..Len(out) : out[k] = waits[f[k][1]][f[k][2]]

Sorted(s) == \A k \in 2..Len(s) : s[k - 1] <= s[k]

LEMMA WaitsOf ==
  ASSUME waits \in [Timers -> Seq(Times)], NEW S \in SUBSET Timers, NEW w
  PROVE  w \in EndedOf(S) <=> \E i \in S : \E k \in 1..Len(waits[i]) : w = <<i, k>>
<1>1. \A i \in S : waits[i] \in Seq(Times) /\ DOMAIN waits[i] = 1..Len(waits[i])
  OBVIOUS
<1>2. w \in EndedOf(S) <=> \E i \in S : w \in {i} \X DOMAIN waits[i]
  BY DEF EndedOf
<1>3. ASSUME NEW i \in S
      PROVE  w \in {i} \X DOMAIN waits[i] <=> \E k \in 1..Len(waits[i]) : w = <<i, k>>
  BY <1>1
<1>4. QED BY <1>2, <1>3

LEMMA ListsMore ==
  ASSUME waits \in [Timers -> Seq(Times)], NEW S \in SUBSET Timers, NEW i \in Timers, i \notin S,
         NEW out \in Seq(Times), NEW f, Lists(out, S, f)
  PROVE  \E g : Lists(out \o waits[i], S \cup {i}, g)
<1>1. PICK n \in Nat : n = Len(out)
  OBVIOUS
<1>2. PICK s \in Seq(Times) : s = waits[i]
  OBVIOUS
<1>3. PICK m \in Nat : m = Len(s)
  OBVIOUS
<1>4. PICK out2 : out2 = out \o s
  OBVIOUS
<1>5. /\ Len(out2) = n + m /\ \A k \in 1..n : out2[k] = out[k]
      /\ \A k \in 1..n + m : k > n => out2[k] = s[k - n]
  BY <1>1, <1>2, <1>3, <1>4
<1> DEFINE T == S \cup {i}
           g == [k \in 1..n + m |-> IF k <= n THEN f[k] ELSE <<i, k - n>>]
<1>6. \A w : w \in EndedOf(T) <=> w \in EndedOf(S) \/ \E k \in 1..m : w = <<i, k>>
  <2>1. T \in SUBSET Timers
    OBVIOUS
  <2>2. \A w : w \in EndedOf(T) <=> \E j \in T : \E k \in 1..Len(waits[j]) : w = <<j, k>>
    BY <2>1, WaitsOf
  <2>3. \A w : w \in EndedOf(S) <=> \E j \in S : \E k \in 1..Len(waits[j]) : w = <<j, k>>
    BY WaitsOf
  <2>4. QED BY <1>2, <1>3, <2>2, <2>3
<1>7. \A w \in EndedOf(S) : w[1] \in S
  BY WaitsOf
<1>8. /\ f \in [1..n -> EndedOf(S)]
      /\ \A k, l \in 1..n : f[k] = f[l] => k = l
      /\ \A w \in EndedOf(S) : \E k \in 1..n : f[k] = w
      /\ \A k \in 1..n : out[k] = waits[f[k][1]][f[k][2]]
  BY <1>1 DEF Lists
<1>9. \A k \in 1..n : k \in 1..n + m /\ g[k] = f[k] /\ f[k] \in EndedOf(S)
  BY <1>8
<1>10. \A k \in 1..n + m : k \notin 1..n => k - n \in 1..m /\ g[k] = <<i, k - n>>
  OBVIOUS
<1>11. g \in [1..n + m -> EndedOf(T)]
  BY <1>6, <1>9, <1>10
<1>12. ASSUME NEW k \in 1..n + m, NEW l \in 1..n + m, g[k] = g[l] PROVE k = l
  <2>1. \A a, b \in 1..n + m : a \in 1..n /\ b \notin 1..n => g[a] # g[b]
    <3>1. \A a \in 1..n : g[a][1] \in S
      BY <1>7, <1>9
    <3>2. \A b \in 1..n + m : b \notin 1..n => g[b][1] = i
      BY <1>10
    <3> HIDE DEF g
    <3>3. QED BY <3>1, <3>2
  <2>2. CASE k \in 1..n /\ l \in 1..n
    BY <1>8, <1>9, <1>12, <2>2
  <2>3. CASE k \notin 1..n /\ l \notin 1..n
    <3>1. k - n = l - n
      BY <1>10, <1>12, <2>3
    <3>2. QED BY <3>1
  <2>4. QED BY <1>12, <2>1, <2>2, <2>3
<1>13. ASSUME NEW w \in EndedOf(T) PROVE \E k \in 1..n + m : g[k] = w
  <2>1. CASE w \in EndedOf(S)
    BY <1>8, <1>9, <2>1
  <2>2. CASE w \notin EndedOf(S)
    <3>1. PICK k \in 1..m : w = <<i, k>>
      BY <1>6, <2>2
    <3>2. n + k \in 1..n + m /\ n + k \notin 1..n /\ (n + k) - n = k
      OBVIOUS
    <3>3. g[n + k] = <<i, (n + k) - n>>
      BY <1>10, <3>2
    <3>4. QED BY <3>1, <3>2, <3>3
  <2>3. QED BY <2>1, <2>2
<1>14. ASSUME NEW k \in 1..n + m PROVE out2[k] = waits[g[k][1]][g[k][2]]
  <2>1. CASE k \in 1..n
    BY <1>5, <1>8, <1>9, <2>1
  <2>2. CASE k \notin 1..n
    <3>1. g[k] = <<i, k - n>> /\ out2[k] = s[k - n]
      BY <1>5, <1>10, <2>2
    <3>2. QED BY <1>2, <3>1
  <2>3. QED BY <2>1, <2>2
<1> HIDE DEF g, T
<1>15. Lists(out2, T, g)
  BY <1>5, <1>11, <1>12, <1>13, <1>14 DEF Lists
<1>16. QED BY <1>2, <1>4, <1>15 DEF T

LEMMA SortedMore ==
  ASSUME NEW out \in Seq(Times), NEW s \in Seq(Times), NEW e \in Times, Sorted(out),
         \A k \in 1..Len(out) : out[k] <= e, \A k \in 1..Len(s) : s[k] = e
  PROVE  /\ out \o s \in Seq(Times) /\ Sorted(out \o s)
         /\ \A k \in 1..Len(out \o s) : (out \o s)[k] <= e
<1>1. PICK n \in Nat : n = Len(out)
  OBVIOUS
<1>2. PICK m \in Nat : m = Len(s)
  OBVIOUS
<1>3. PICK r : r = out \o s
  OBVIOUS
<1>4. /\ r \in Seq(Times) /\ Len(r) = n + m /\ \A k \in 1..n : r[k] = out[k]
      /\ \A k \in 1..n + m : k > n => r[k] = s[k - n]
  BY <1>1, <1>2, <1>3
<1>5. e \in Nat
  BY TimesType
<1>6. \A k \in 1..n + m : k > n => r[k] = e
  BY <1>2, <1>4
<1>7. \A k \in 1..n : r[k] <= e
  BY <1>1, <1>4
<1>8. \A k \in 1..n + m : r[k] <= e
  BY <1>5, <1>6, <1>7
<1>9. ASSUME NEW k \in 2..n + m PROVE r[k - 1] <= r[k]
  <2>1. CASE k <= n
    <3>1. k \in 2..n /\ k - 1 \in 1..n /\ k \in 1..n
      BY <2>1
    <3>2. out[k - 1] <= out[k]
      BY <1>1, <3>1 DEF Sorted
    <3>3. QED BY <1>4, <3>1, <3>2
  <2>2. CASE k > n
    <3>1. k \in 1..n + m /\ k - 1 \in 1..n + m
      OBVIOUS
    <3>2. QED BY <1>6, <1>8, <2>2, <3>1
  <2>3. QED BY <2>1, <2>2
<1>10. QED BY <1>3, <1>4, <1>8, <1>9 DEF Sorted

\* The loop at work: the timers in p.done are out of the heap, and p.out has
\* their waits, none of which is later than what is left.
Gathers ==
    {p \in [q : Queues, out : Seq(Times), done : SUBSET Timers] :
        /\ IsHeap(p.q) /\ Same(Q, p.q, Timers \ p.done)
        /\ \A i \in p.done : i \in active /\ p.q.index[i] = 0 /\ TimeOf(Q, i) <= now
        /\ Sorted(p.out)
        /\ \A k \in 1..Len(p.out) : \A i \in Timers :
             p.q.index[i] # 0 => p.out[k] <= TimeOf(p.q, i)
        /\ \E f : Lists(p.out, p.done, f)}

\* Nothing is left that is due.
NoneDue(q) == q.heap = <<>> \/ q.heap[1].time > now

LEMMA ReadyTurnGathers ==
  ASSUME IInv, NEW p \in Gathers
  PROVE  /\ ReadyTurn(p) \in Gathers
         /\ (ReadyTurn(p) = p /\ NoneDue(p.q)) \/ Len(ReadyTurn(p).q.heap) < Len(p.q.heap)
<1>1. /\ IsHeap(p.q) /\ Same(Q, p.q, Timers \ p.done)
      /\ \A i \in p.done : i \in active /\ p.q.index[i] = 0 /\ TimeOf(Q, i) <= now
      /\ Sorted(p.out) /\ p.out \in Seq(Times) /\ p.done \in SUBSET Timers /\ p.q \in Queues
      /\ \A k \in 1..Len(p.out) : \A i \in Timers : p.q.index[i] # 0 => p.out[k] <= TimeOf(p.q, i)
      /\ \E f : Lists(p.out, p.done, f)
  BY DEF Gathers
<1>2. waits \in [Timers -> Seq(Times)] /\ now \in Nat
  BY TimesType DEF IInv, TypeOK
<1>3. CASE p.q.heap = <<>> \/ p.q.heap[1].time > now
  BY <1>3 DEF ReadyTurn, Time, NoneDue
<1>4. CASE ~(p.q.heap = <<>> \/ p.q.heap[1].time > now)
  <2>1. PICK i : i = p.q.heap[1].timer
    OBVIOUS
  <2>2. /\ i \in Timers /\ p.q.index[i] = 1 /\ TimeOf(p.q, i) = p.q.heap[1].time
        /\ \A j \in Timers : p.q.index[j] # 0 => TimeOf(p.q, i) <= TimeOf(p.q, j)
    BY <1>1, <1>4, <2>1, Roots
  <2>3. i \notin p.done
    BY <1>1, <2>2
  <2>4. PICK e : e = TimeOf(p.q, i)
    OBVIOUS
  <2>5. e \in Times /\ e \in Nat /\ e <= now
    <3>1. e \in Times /\ e \in Nat
      BY <1>1, <2>2, <2>4, Located DEF IsHeap
    <3>2. ~(e > now)
      BY <1>4, <2>2, <2>4
    <3>3. QED BY <1>2, <3>1, <3>2
  <2>6. Q.index[i] # 0 /\ TimeOf(Q, i) = e
    BY <1>1, <2>2, <2>3, <2>4 DEF Same
  <2>7. i \in active
    BY <2>2, <2>6 DEF IInv, HeapHoldsActive, Q
  <2>8. waits[i] \in Seq(Times) /\ \A k \in 1..Len(waits[i]) : waits[i][k] = e
    BY <1>2, <2>2, <2>6, <2>7 DEF IInv, EntryIsCurrent
  <2>9. PICK r : r = RemoveTimer(p.q, i)
    OBVIOUS
  <2>10. /\ IsHeap(r) /\ r.index[i] = 0 /\ Same(p.q, r, Timers \ {i})
         /\ Len(r.heap) = Len(p.q.heap) - 1 /\ r \in Queues
    <3>1. p.q.index[i] # 0
      BY <2>2
    <3>2. /\ IsHeap(r) /\ r.index[i] = 0 /\ Same(p.q, r, Timers \ {i})
          /\ Len(r.heap) = Len(p.q.heap) - 1
      BY <1>1, <2>2, <2>9, <3>1, RemoveTimerRemoves
    <3>3. r \in Queues
      BY <3>2 DEF IsHeap, Indexed
    <3>4. QED BY <3>2, <3>3
  <2>11. PICK out : out = p.out \o waits[i]
    OBVIOUS
  <2>12. PICK done \in SUBSET Timers : done = p.done \cup {i}
    BY <1>1, <2>2
  <2>13. ReadyTurn(p) = [q |-> r, out |-> out, done |-> done]
    BY <1>4, <2>1, <2>9, <2>11, <2>12 DEF ReadyTurn, Time
  <2>14. out \in Seq(Times) /\ Sorted(out) /\ \A k \in 1..Len(out) : out[k] <= e
    <3>1. \A k \in 1..Len(p.out) : p.out[k] <= e
      BY <1>1, <2>2, <2>4
    <3>2. QED BY <1>1, <2>5, <2>8, <2>11, <3>1, SortedMore
  <2>15. Same(Q, r, Timers \ done)
    BY <1>1, <2>10, <2>12 DEF Same
  <2>16. ASSUME NEW j \in done PROVE j \in active /\ r.index[j] = 0 /\ TimeOf(Q, j) <= now
    <3>1. CASE j = i
      BY <2>5, <2>6, <2>7, <2>10, <3>1
    <3>2. CASE j # i
      <4>1. j \in p.done
        BY <2>12, <3>2
      <4>2. QED BY <1>1, <2>10, <3>2, <4>1 DEF Same
    <3>3. QED BY <3>1, <3>2
  <2>17. ASSUME NEW k \in 1..Len(out), NEW j \in Timers, r.index[j] # 0
         PROVE  out[k] <= TimeOf(r, j)
    <3>1. j # i
      BY <2>10, <2>17
    <3>2. p.q.index[j] # 0 /\ TimeOf(r, j) = TimeOf(p.q, j)
      BY <2>10, <2>17, <3>1 DEF Same
    <3>3. TimeOf(p.q, j) \in Nat /\ e <= TimeOf(p.q, j)
      BY <1>1, <2>2, <2>4, <3>2, Located DEF IsHeap
    <3>4. out[k] \in Nat /\ out[k] <= e
      <4>1. out[k] \in Times /\ out[k] <= e
        BY <2>14
      <4>2. QED BY <4>1, TimesType
    <3>5. QED BY <2>5, <3>2, <3>3, <3>4
  <2>18. \E f : Lists(out, done, f)
    BY <1>1, <1>2, <2>2, <2>3, <2>11, <2>12, ListsMore
  <2>19. [q |-> r, out |-> out, done |-> done] \in Gathers
    BY <2>10, <2>14, <2>15, <2>16, <2>17, <2>18 DEF Gathers
  <2>20. Len(p.q.heap) \in Nat
    BY <1>1, QueueTimes
  <2>21. QED BY <2>10, <2>13, <2>19, <2>20
<1>5. QED BY <1>3, <1>4

LEMMA ReadyTimersGather ==
  ASSUME IInv
  PROVE  ReadyTimers \in Gathers /\ NoneDue(ReadyTimers.q)
<1> DEFINE S == Gathers
           x == [q |-> Q, out |-> <<>>, done |-> {}]
           turn == [p \in S |-> ReadyTurn(p)]
           left == [p \in S |-> Len(p.q.heap)]
<1>0. PICK n \in Nat : n = Len(heap)
  BY QueueTimes DEF IInv, HeapHoldsActive, IsHeap, Indexed, Q
<1>1. x \in S
  <2>1. IsHeap(Q) /\ Q \in Queues
    BY DEF IInv, HeapHoldsActive, IsHeap, Indexed
  <2>2. Lists(<<>>, {}, <<>>)
    BY DEF Lists, EndedOf
  <2>3. <<>> \in Seq(Times) /\ Len(<<>>) = 0 /\ {} \in SUBSET Timers
    OBVIOUS
  <2>4. Same(Q, Q, Timers \ {}) /\ Sorted(<<>>)
    BY <2>3 DEF Same, Sorted
  <2>5. x \in [q : Queues, out : Seq(Times), done : SUBSET Timers]
    BY <2>1, <2>3
  <2>6. x.q = Q /\ x.out = <<>> /\ x.done = {}
    OBVIOUS
  <2> HIDE DEF x
  <2>7. /\ IsHeap(x.q) /\ Same(Q, x.q, Timers \ x.done) /\ Sorted(x.out)
        /\ \E f : Lists(x.out, x.done, f)
    BY <2>1, <2>2, <2>4, <2>6
  <2>8. \A k \in 1..Len(x.out) : FALSE
    BY <2>3, <2>6
  <2>9. \A i \in x.done : FALSE
    BY <2>6
  <2>10. QED BY <2>5, <2>7, <2>8, <2>9 DEF Gathers
<1>2. turn \in [S -> S] /\ left \in [S -> Nat] /\ left[x] <= n
  <2>1. turn \in [S -> S]
    BY ReadyTurnGathers
  <2>2. \A p \in S : Len(p.q.heap) \in Nat
    BY QueueTimes DEF Gathers
  <2>3. left[x] = n
    BY <1>0, <1>1 DEF Q
  <2>4. QED BY <2>1, <2>2, <2>3
<1>3. Decreases(S, turn, left)
  <2>1. ASSUME NEW p \in S, turn[p] # p PROVE left[turn[p]] < left[p]
    BY <2>1, ReadyTurnGathers
  <2>2. QED BY <2>1 DEF Decreases
<1>4. \A p \in S : turn[p] = ReadyTurn(p)
  OBVIOUS
<1> HIDE DEF S, x, turn, left
<1>6. PICK r : /\ r = [i \in 0..n |-> r[i]] /\ Runs(r, S, turn, x, n)
               /\ \A i \in 0..n : r[i] \in S
  BY <1>1, <1>2, Iterates
<1>7. r = [i \in 0..n |-> IF i = 0 THEN x ELSE ReadyTurn(r[i - 1])]
  <2>0. \A i \in 1..n : i - 1 \in 0..n
    OBVIOUS
  <2>1. r[0] = x /\ \A i \in 1..n : r[i] = turn[r[i - 1]] /\ r[i - 1] \in S
    BY <1>6, <2>0 DEF Runs
  <2>2. \A i \in 1..n : r[i] = ReadyTurn(r[i - 1])
    BY <1>4, <2>1
  <2>3. \A i \in 0..n : r[i] = IF i = 0 THEN x ELSE ReadyTurn(r[i - 1])
    BY <2>1, <2>2
  <2>4. r = [i \in 0..n |-> r[i]]
    BY <1>6
  <2>5. QED BY <2>3, <2>4
<1>8. PICK s : /\ s = [i \in 0..n |-> IF i = 0 THEN x ELSE ReadyTurn(s[i - 1])]
               /\ Loop(ReadyTurn, x, n) = s[n]
  BY <1>7 DEF Loop
<1>9. Runs(s, S, turn, x, n)
  <2>1. \A i \in 0..n : s[i] = IF i = 0 THEN x ELSE ReadyTurn(s[i - 1])
    BY <1>8
  <2>2. QED BY <1>4, <2>1 DEF Runs
<1>10. s[n] \in S /\ turn[s[n]] = s[n]
  BY <1>1, <1>2, <1>3, <1>9, Terminates, SMTT(30)
<1>11. ReadyTurn(s[n]) = s[n] /\ Len(s[n].q.heap) \in Nat
  BY <1>4, <1>10, QueueTimes DEF S, Gathers
<1>12. NoneDue(s[n].q)
  BY <1>10, <1>11, ReadyTurnGathers DEF S
<1>13. ReadyTimers = s[n]
  BY <1>0, <1>8 DEF ReadyTimers, x
<1>14. QED BY <1>10, <1>12, <1>13 DEF S

-----------------------------------------------------------------------------
(* The invariant is inductive.                                             *)

LEMMA SettingTheQueue ==
  ASSUME NEW r \in Queues
  PROVE  /\ r = [heap |-> r.heap, index |-> r.index]
         /\ SetQueue(r) => Q' = r
<1>1. r = [heap |-> r.heap, index |-> r.index]
  BY DEF Queues
<1>2. SetQueue(r) => Q' = r
  BY <1>1 DEF SetQueue, Q
<1>3. QED BY <1>1, <1>2

\* What a step has to establish about the queue r that it leaves.
LEMMA Preserved ==
  ASSUME NEW r, IsHeap(r), Q' = r,
         now' \in Times, expiry' \in [Timers -> Times], mightWait' \in [Timers -> BOOLEAN],
         waits' \in [Timers -> Seq(Times)], active' \subseteq Timers,
         alarm' \in 0..Never, fired' \in Seq(Times), calls' \in 0..MaxCalls,
         \A i \in Timers : (i \in active' <=> waits'[i] # <<>>) /\ (i \in active' <=> r.index[i] # 0),
         \A i \in active' : /\ mightWait'[i] /\ expiry'[i] = TimeOf(r, i)
                            /\ \A k \in 1..Len(waits'[i]) : waits'[i][k] = TimeOf(r, i),
         alarm' <= now' \/ \A i \in active' : alarm' <= TimeOf(r, i)
  PROVE  IInv'
<1>1. heap' = r.heap /\ index' = r.index
  BY DEF Q
<1>2. r.heap \in Seq(Entries) /\ r.index \in [Timers -> 0..Len(r.heap)]
  <2>1. r.heap \in Seq(Entries) /\ r.index \in [Timers -> Nat] /\ Len(r.heap) \in Nat
    BY DEF IsHeap, Indexed, Queues
  <2>2. \A i \in Timers : r.index[i] # 0 => r.index[i] \in 1..Len(r.heap)
    BY DEF IsHeap, Indexed
  <2>3. \A i \in Timers : r.index[i] \in 0..Len(r.heap)
    BY <2>1, <2>2
  <2>4. QED BY <2>1, <2>3
<1>3. TypeOK'
  BY <1>1, <1>2 DEF TypeOK, Entries
<1>4. HeapHoldsActive'
  BY <1>1 DEF HeapHoldsActive
<1>5. EntryIsCurrent'
  BY DEF EntryIsCurrent
<1>6. AlarmBeforeAll'
  BY DEF AlarmBeforeAll
<1>7. QED BY <1>3, <1>4, <1>5, <1>6 DEF IInv

LEMMA InitIInv == Init => IInv
<1> SUFFICES ASSUME Init PROVE IInv
  OBVIOUS
<1> USE DEF Init
<1>1. Q = [heap |-> <<>>, index |-> [i \in Timers |-> 0]] /\ Len(<<>>) = 0
  BY DEF Q
<1>2. Q.heap = <<>> /\ Q.index = [i \in Timers |-> 0] /\ Len(Q.heap) = 0
  BY <1>1
<1>3. Q \in Queues
  <2>1. <<>> \in Seq(Entries) /\ [i \in Timers |-> 0] \in [Timers -> Nat]
    OBVIOUS
  <2>2. QED BY <1>1, <2>1 DEF Queues
<1>4. IsHeap(Q)
  <2>1. \A k \in 1..Len(Q.heap) : FALSE
    BY <1>2
  <2>2. \A i \in Timers : Q.index[i] = 0
    BY <1>2
  <2>3. Indexed(Q)
    BY <1>3, <2>1, <2>2 DEF Indexed
  <2>4. \A k \in 2..Len(Q.heap) : FALSE
    BY <1>2
  <2>5. QED BY <2>3, <2>4 DEF IsHeap, Ordered
<1>5. TypeOK
  <2>1. now \in Times /\ alarm \in 0..Never /\ calls \in 0..MaxCalls /\ expiry \in [Timers -> Times]
    BY TimerParameters DEF Times, Never
  <2>2. waits \in [Timers -> Seq(Times)] /\ fired \in Seq(Times) /\ active \subseteq Timers
    OBVIOUS
  <2>3. heap \in Seq([time : Times, timer : Timers]) /\ index \in [Timers -> 0..Len(heap)]
    BY <1>1
  <2>4. mightWait \in [Timers -> BOOLEAN]
    OBVIOUS
  <2>5. QED BY <2>1, <2>2, <2>3, <2>4 DEF TypeOK
<1>6. HeapHoldsActive
  BY <1>4 DEF HeapHoldsActive
<1>7. EntryIsCurrent /\ AlarmBeforeAll
  BY DEF EntryIsCurrent, AlarmBeforeAll
<1>8. QED BY <1>5, <1>6, <1>7 DEF IInv

\* What timer i has left are some of the waits it had.
LEMMA Keeping ==
  ASSUME IInv, NEW i \in Timers, NEW s \in Seq(Times), i \notin active => s = <<>>, Keep(i, s)
  PROVE  \E r : /\ IsHeap(r) /\ Q' = r /\ Same(Q, r, Timers \ {i})
                /\ waits' = [waits EXCEPT ![i] = s]
                /\ active' = (active \ {i}) \cup (IF s = <<>> THEN {} ELSE {i})
                /\ IF s = <<>> THEN r.index[i] = 0 ELSE r = Q
<1>1. IsHeap(Q) /\ Q \in Queues /\ (i \in active <=> index[i] # 0) /\ Q.index = index
  BY DEF IInv, HeapHoldsActive, IsHeap, Indexed, Q
<1>2. waits' = [waits EXCEPT ![i] = s]
  BY DEF Keep
<1>3. CASE i \in active /\ s = <<>>
  <2>1. PICK r : r = RemoveTimer(Q, i)
    OBVIOUS
  <2>2. IsHeap(r) /\ r.index[i] = 0 /\ Same(Q, r, Timers \ {i})
    BY <1>1, <2>1, RemoveTimerRemoves
  <2>3. r \in Queues
    BY <2>2 DEF IsHeap, Indexed
  <2>4. SetQueue(r) /\ active' = active \ {i}
    BY <1>3, <2>1 DEF Keep
  <2>5. Q' = r
    BY <2>3, <2>4, SettingTheQueue
  <2>6. active' = (active \ {i}) \cup (IF s = <<>> THEN {} ELSE {i})
    BY <1>3, <2>4
  <2>7. QED BY <1>2, <1>3, <2>2, <2>5, <2>6
<1>4. CASE ~(i \in active /\ s = <<>>)
  <2>1. UNCHANGED <<active, heap, index>>
    BY <1>4 DEF Keep
  <2>2. Q' = Q
    BY <2>1 DEF Q
  <2>3. active' = (active \ {i}) \cup (IF s = <<>> THEN {} ELSE {i})
    BY <1>4, <2>1
  <2>4. s = <<>> => Q.index[i] = 0
    BY <1>1, <1>4
  <2>5. PICK r : r = Q
    OBVIOUS
  <2>6. Same(Q, r, Timers \ {i})
    BY <2>5 DEF Same
  <2>7. QED BY <1>1, <1>2, <2>2, <2>3, <2>4, <2>5, <2>6
<1>5. QED BY <1>3, <1>4

LEMMA KeepingPreserves ==
  ASSUME IInv, NEW i \in Timers, NEW s \in Seq(Times), i \notin active => s = <<>>, Keep(i, s),
         \A k \in 1..Len(s) : s[k] = TimeOf(Q, i), UNCHANGED <<now, fired, alarm>>,
         expiry' \in [Timers -> Times], mightWait' \in [Timers -> BOOLEAN], calls' \in 0..MaxCalls,
         \A j \in Timers : j # i \/ s # <<>> =>
           expiry'[j] = expiry[j] /\ mightWait'[j] = mightWait[j]
  PROVE  IInv'
<1>1. PICK r : /\ IsHeap(r) /\ Q' = r /\ Same(Q, r, Timers \ {i})
               /\ waits' = [waits EXCEPT ![i] = s]
               /\ active' = (active \ {i}) \cup (IF s = <<>> THEN {} ELSE {i})
               /\ IF s = <<>> THEN r.index[i] = 0 ELSE r = Q
  BY Keeping
<1>2. /\ now' \in Times /\ alarm' \in 0..Never /\ fired' \in Seq(Times)
      /\ waits \in [Timers -> Seq(Times)] /\ active \subseteq Timers
  BY DEF IInv, TypeOK
<1>3. /\ waits' \in [Timers -> Seq(Times)] /\ active' \subseteq Timers
      /\ waits'[i] = s /\ \A j \in Timers : j # i => waits'[j] = waits[j]
  BY <1>1, <1>2
<1>4. \A j \in Timers : (j \in active <=> waits[j] # <<>>) /\ (j \in active <=> Q.index[j] # 0)
  BY DEF IInv, HeapHoldsActive, Q
<1>5. \A j \in active' : /\ j \in active /\ Q.index[j] # 0 /\ TimeOf(r, j) = TimeOf(Q, j)
                         /\ r.index[j] # 0 /\ (j # i \/ s # <<>>)
  <2>1. ASSUME NEW j \in active'
        PROVE  /\ j \in active /\ Q.index[j] # 0 /\ TimeOf(r, j) = TimeOf(Q, j)
               /\ r.index[j] # 0 /\ (j # i \/ s # <<>>)
    <3>1. CASE j = i
      <4>1. s # <<>>
        BY <1>1, <2>1, <3>1
      <4>2. r = Q /\ i \in active
        BY <1>1, <4>1
      <4>3. QED BY <1>4, <3>1, <4>1, <4>2
    <3>2. CASE j # i
      <4>1. j \in active /\ j \in Timers
        BY <1>1, <1>2, <2>1, <3>2
      <4>2. Q.index[j] # 0
        BY <1>4, <4>1
      <4>3. QED BY <1>1, <3>2, <4>1, <4>2 DEF Same
    <3>3. QED BY <3>1, <3>2
  <2>2. QED BY <2>1
<1>6. \A j \in Timers : (j \in active' <=> waits'[j] # <<>>) /\ (j \in active' <=> r.index[j] # 0)
  <2>1. ASSUME NEW j \in Timers
        PROVE  (j \in active' <=> waits'[j] # <<>>) /\ (j \in active' <=> r.index[j] # 0)
    <3>1. CASE j = i
      <4>1. j \in active' <=> s # <<>>
        BY <1>1, <3>1
      <4>2. s = <<>> => r.index[j] = 0
        BY <1>1, <3>1
      <4>3. QED BY <1>3, <1>5, <3>1, <4>1, <4>2
    <3>2. CASE j # i
      <4>1. j \in active' <=> j \in active
        BY <1>1, <3>2
      <4>2. r.index[j] = 0 <=> Q.index[j] = 0
        BY <1>1, <3>2 DEF Same
      <4>3. QED BY <1>3, <1>4, <3>2, <4>1, <4>2
    <3>3. QED BY <3>1, <3>2
  <2>2. QED BY <2>1
<1>7. \A j \in active' : /\ mightWait'[j] /\ expiry'[j] = TimeOf(r, j)
                         /\ \A k \in 1..Len(waits'[j]) : waits'[j][k] = TimeOf(r, j)
  <2>1. ASSUME NEW j \in active'
        PROVE  /\ mightWait'[j] /\ expiry'[j] = TimeOf(r, j)
               /\ \A k \in 1..Len(waits'[j]) : waits'[j][k] = TimeOf(r, j)
    <3>1. j \in active /\ TimeOf(r, j) = TimeOf(Q, j) /\ (j # i \/ s # <<>>) /\ j \in Timers
      BY <1>2, <1>5, <2>1
    <3>2. /\ mightWait[j] /\ expiry[j] = TimeOf(Q, j)
          /\ \A k \in 1..Len(waits[j]) : waits[j][k] = TimeOf(Q, j)
      BY <3>1 DEF IInv, EntryIsCurrent
    <3>3. mightWait'[j] = mightWait[j] /\ expiry'[j] = expiry[j]
      BY <3>1
    <3>4. \A k \in 1..Len(waits'[j]) : waits'[j][k] = TimeOf(Q, j)
      BY <1>3, <3>1, <3>2
    <3>5. QED BY <3>1, <3>2, <3>3, <3>4
  <2>2. QED BY <2>1
<1>8. alarm' <= now' \/ \A j \in active' : alarm' <= TimeOf(r, j)
  BY <1>5 DEF IInv, AlarmBeforeAll
<1>9. QED BY <1>1, <1>2, <1>3, <1>6, <1>7, <1>8, Preserved

\* A timer without waits is as if it had been cancelled.
LEMMA NothingToKeep ==
  ASSUME IInv, NEW i \in Timers, ~mightWait[i] \/ waits[i] = <<>>, UNCHANGED queue
  PROVE  Keep(i, <<>>)
<1>1. i \notin active /\ waits[i] = <<>>
  BY DEF IInv, HeapHoldsActive, EntryIsCurrent
<1>2. waits \in [Timers -> Seq(Times)] /\ UNCHANGED <<waits, active, heap, index>>
  BY DEF IInv, TypeOK, queue
<1>3. waits' = [waits EXCEPT ![i] = <<>>]
  BY <1>1, <1>2
<1>4. QED BY <1>1, <1>2, <1>3 DEF Keep

LEMMA EmptyIsShort == <<>> \in Seq(Times) /\ \A k \in 1..Len(<<>>) : FALSE
OBVIOUS

\* The cancelling calls all keep some of the waits.
LEMMA CancelKeeps ==
  ASSUME IInv, NEW i \in Timers, Cancel(i) \/ ExpiresAt(i)
  PROVE  Keep(i, <<>>)
<1>1. IF mightWait[i] THEN Keep(i, <<>>) ELSE UNCHANGED queue
  BY DEF Cancel, ExpiresAt
<1>2. QED BY <1>1, NothingToKeep

LEMMA CancelOneKeeps ==
  ASSUME IInv, NEW i \in Timers, CancelOne(i)
  PROVE  \/ waits[i] # <<>> /\ Keep(i, Tail(waits[i])) /\ UNCHANGED mightWait
         \/ waits[i] = <<>> /\ Keep(i, <<>>) /\ mightWait' = [mightWait EXCEPT ![i] = FALSE]
<1>1. CASE mightWait[i] /\ waits[i] # <<>>
  BY <1>1 DEF CancelOne
<1>2. CASE ~(mightWait[i] /\ waits[i] # <<>>)
  <2>1. mightWait' = [mightWait EXCEPT ![i] = FALSE] /\ UNCHANGED queue
    BY <1>2 DEF CancelOne
  <2>2. waits[i] = <<>>
    BY <1>2 DEF IInv, EntryIsCurrent, HeapHoldsActive
  <2>3. QED BY <2>1, <2>2, NothingToKeep
<1>3. QED BY <1>1, <1>2

LEMMA CallType ==
  ASSUME IInv, Call
  PROVE  calls' \in 0..MaxCalls /\ UNCHANGED <<now, fired>>
BY TimerParameters DEF IInv, TypeOK, Call

LEMMA CancelPreserves ==
  ASSUME IInv, NEW i \in Timers, Cancel(i)
  PROVE  IInv'
<1>1. Keep(i, <<>>)
  BY CancelKeeps
<1>2. calls' \in 0..MaxCalls /\ UNCHANGED <<now, fired, alarm, expiry>>
  BY CallType DEF Cancel
<1>3. mightWait' = [mightWait EXCEPT ![i] = FALSE]
  BY DEF Cancel
<1>4. /\ mightWait' \in [Timers -> BOOLEAN] /\ expiry' \in [Timers -> Times]
      /\ \A j \in Timers : j # i => expiry'[j] = expiry[j] /\ mightWait'[j] = mightWait[j]
  BY <1>2, <1>3 DEF IInv, TypeOK
<1>5. QED BY <1>1, <1>2, <1>4, EmptyIsShort, KeepingPreserves

LEMMA ExpiresAtPreserves ==
  ASSUME IInv, NEW i \in Timers, ExpiresAt(i)
  PROVE  IInv'
<1>1. Keep(i, <<>>)
  BY CancelKeeps
<1>2. calls' \in 0..MaxCalls /\ UNCHANGED <<now, fired, alarm>>
  BY CallType DEF ExpiresAt
<1>3. PICK e \in Times : mightWait' = [mightWait EXCEPT ![i] = FALSE] /\ expiry' = [expiry EXCEPT ![i] = e]
  BY DEF ExpiresAt
<1>4. /\ mightWait' \in [Timers -> BOOLEAN] /\ expiry' \in [Timers -> Times]
      /\ \A j \in Timers : j # i => expiry'[j] = expiry[j] /\ mightWait'[j] = mightWait[j]
  BY <1>3 DEF IInv, TypeOK
<1>5. QED BY <1>1, <1>2, <1>4, EmptyIsShort, KeepingPreserves

LEMMA WaitsType ==
  ASSUME IInv, NEW i \in Timers
  PROVE  /\ waits[i] \in Seq(Times) /\ Len(waits[i]) \in Nat
         /\ i \notin active => waits[i] = <<>>
         /\ \A k \in 1..Len(waits[i]) : waits[i][k] = TimeOf(Q, i)
<1>1. waits[i] \in Seq(Times) /\ Len(waits[i]) \in Nat
  BY DEF IInv, TypeOK
<1>2. i \notin active => waits[i] = <<>>
  BY DEF IInv, HeapHoldsActive
<1>3. CASE i \in active
  BY <1>1, <1>2, <1>3 DEF IInv, EntryIsCurrent
<1>4. CASE i \notin active
  BY <1>1, <1>2, <1>4
<1>5. QED BY <1>1, <1>2, <1>3, <1>4

LEMMA CancelOnePreserves ==
  ASSUME IInv, NEW i \in Timers, CancelOne(i)
  PROVE  IInv'
<1>1. calls' \in 0..MaxCalls /\ UNCHANGED <<now, fired, alarm, expiry>>
  BY CallType DEF CancelOne
<1>2. CASE waits[i] # <<>> /\ Keep(i, Tail(waits[i])) /\ UNCHANGED mightWait
  <2>1. PICK s : s = Tail(waits[i])
    OBVIOUS
  <2>2. s \in Seq(Times) /\ \A k \in 1..Len(s) : s[k] = TimeOf(Q, i)
    <3>1. s \in Seq(Times) /\ Len(s) = Len(waits[i]) - 1 /\ \A k \in 1..Len(s) : s[k] = waits[i][k + 1]
      BY <1>2, <2>1, WaitsType
    <3>2. \A k \in 1..Len(s) : k + 1 \in 1..Len(waits[i])
      BY <3>1, WaitsType
    <3>3. QED BY <3>1, <3>2, WaitsType
  <2>3. i \notin active => s = <<>>
    BY <1>2, WaitsType
  <2>4. mightWait' \in [Timers -> BOOLEAN] /\ expiry' \in [Timers -> Times]
    BY <1>1, <1>2 DEF IInv, TypeOK
  <2>5. \A j \in Timers : expiry'[j] = expiry[j] /\ mightWait'[j] = mightWait[j]
    BY <1>1, <1>2
  <2>6. QED BY <1>1, <1>2, <2>1, <2>2, <2>3, <2>4, <2>5, KeepingPreserves
<1>3. CASE waits[i] = <<>> /\ Keep(i, <<>>) /\ mightWait' = [mightWait EXCEPT ![i] = FALSE]
  <2>1. /\ mightWait' \in [Timers -> BOOLEAN] /\ expiry' \in [Timers -> Times]
        /\ \A j \in Timers : j # i => expiry'[j] = expiry[j] /\ mightWait'[j] = mightWait[j]
    BY <1>1, <1>3 DEF IInv, TypeOK
  <2>2. QED BY <1>1, <1>3, <2>1, EmptyIsShort, KeepingPreserves
<1>4. QED BY <1>2, <1>3, CancelOneKeeps

\* A sequence without its k-th element.
Selects(s, w) == s \in Seq(Times) /\ \A l \in 1..Len(s) : \E m \in 1..Len(w) : s[l] = w[m]

LEMMA WithoutOne ==
  ASSUME NEW w \in Seq(Times), NEW k \in 1..Len(w)
  PROVE  Selects(SubSeq(w, 1, k - 1) \o SubSeq(w, k + 1, Len(w)), w)
<1>1. PICK n \in Nat : n = Len(w) /\ k \in 1..n
  OBVIOUS
<1>2. PICK p \in Nat : p = k - 1
  BY <1>1
<1>3. PICK m \in Nat : m = n - k
  <2>1. n - k \in Nat
    BY <1>1
  <2>2. QED BY <2>1
<1>4. n = p + 1 + m /\ k = p + 1
  BY <1>1, <1>2, <1>3
<1>5. PICK a : a = SubSeq(w, 1, p)
  OBVIOUS
<1>6. PICK b : b = SubSeq(w, p + 2, n)
  OBVIOUS
<1>7. a \in Seq(Times) /\ Len(a) = p /\ \A l \in 1..p : a[l] = w[l]
  <2>1. \A l \in 1..p : l \in 1..Len(w)
    BY <1>1, <1>4
  <2>3. \A l \in 1..p : w[l] \in Times
    BY <2>1
  <2>2. QED BY <1>5, <2>3, SubSeqProperties
<1>8. b \in Seq(Times) /\ Len(b) = m /\ \A l \in 1..m : b[l] = w[p + 1 + l]
  <2>1. \A l \in p + 2..n : w[l] \in Times
    BY <1>1
  <2>2. /\ b \in Seq(Times) /\ Len(b) = IF p + 2 <= n THEN n - (p + 2) + 1 ELSE 0
        /\ \A l \in 1..n - (p + 2) + 1 : b[l] = w[(p + 2) + l - 1]
    BY <1>6, <2>1, SubSeqProperties
  <2>3. n - (p + 2) + 1 = m
    BY <1>4
  <2>4. QED BY <1>4, <2>2, <2>3
<1>9. PICK s : s = a \o b
  OBVIOUS
<1>10. /\ s \in Seq(Times) /\ Len(s) = p + m /\ \A l \in 1..p : s[l] = a[l]
       /\ \A l \in 1..p + m : l > p => s[l] = b[l - p]
  <2>1. a \in Seq(Times) /\ b \in Seq(Times) /\ Len(a) = p /\ Len(b) = m
    BY <1>7, <1>8
  <2>2. /\ s \in Seq(Times) /\ Len(s) = Len(a) + Len(b)
        /\ \A l \in 1..Len(a) + Len(b) : s[l] = IF l <= Len(a) THEN a[l] ELSE b[l - Len(a)]
    BY <1>9, <2>1, ConcatProperties
  <2>3. \A l \in 1..p : l \in 1..p + m /\ l <= p
    OBVIOUS
  <2>4. \A l \in 1..p + m : l > p => ~(l <= p)
    OBVIOUS
  <2>5. QED BY <2>1, <2>2, <2>3, <2>4
<1>11. ASSUME NEW l \in 1..p + m PROVE \E h \in 1..n : s[l] = w[h]
  <2>1. CASE l <= p
    <3>1. l \in 1..p /\ l \in 1..n
      BY <1>4, <2>1
    <3>2. QED BY <1>7, <1>10, <2>1, <3>1
  <2>2. CASE l > p
    <3>1. PICK j \in 1..m : j = l - p
      BY <2>2
    <3>2. b[j] = w[p + 1 + j] /\ p + 1 + j \in 1..n
      BY <1>4, <1>8
    <3>3. s[l] = b[j]
      BY <1>10, <2>2, <3>1
    <3>4. QED BY <3>2, <3>3
  <2>3. QED BY <2>1, <2>2
<1>12. Selects(s, w)
  BY <1>1, <1>10, <1>11 DEF Selects
<1>13. k - 1 = p /\ k + 1 = p + 2
  BY <1>4
<1>14. QED BY <1>1, <1>5, <1>6, <1>9, <1>12, <1>13

LEMMA CancelByKeyPreserves ==
  ASSUME IInv, NEW i \in Timers, CancelByKey(i)
  PROVE  IInv'
<1>1. calls' \in 0..MaxCalls /\ UNCHANGED <<now, fired, alarm, expiry, mightWait>>
  BY CallType DEF CancelByKey
<1>2. PICK k \in 1..Len(waits[i]) :
        Keep(i, SubSeq(waits[i], 1, k - 1) \o SubSeq(waits[i], k + 1, Len(waits[i])))
  BY DEF CancelByKey
<1>3. PICK s : s = SubSeq(waits[i], 1, k - 1) \o SubSeq(waits[i], k + 1, Len(waits[i]))
  OBVIOUS
<1>4. s \in Seq(Times) /\ \A l \in 1..Len(s) : s[l] = TimeOf(Q, i)
  <2>1. waits[i] \in Seq(Times)
    BY WaitsType
  <2>2. Selects(s, waits[i])
    BY <1>3, <2>1, WithoutOne
  <2>3. QED BY <2>2, WaitsType DEF Selects
<1>5. i \in active
  <2>1. i \notin active => Len(waits[i]) = 0
    BY WaitsType
  <2>2. QED BY <2>1
<1>6. mightWait' \in [Timers -> BOOLEAN] /\ expiry' \in [Timers -> Times]
  BY <1>1 DEF IInv, TypeOK
<1>7. \A j \in Timers : expiry'[j] = expiry[j] /\ mightWait'[j] = mightWait[j]
  BY <1>1
<1>8. QED BY <1>1, <1>2, <1>3, <1>4, <1>5, <1>6, <1>7, KeepingPreserves

\* The alarm is set for the earliest entry.
LEMMA AlarmForEarliest ==
  ASSUME NEW r, IsHeap(r), now \in Times, NEW h, h = r.heap
  PROVE  /\ AlarmFor(h) \in 0..Never
         /\ AlarmFor(h) <= now \/ \A j \in Timers : r.index[j] # 0 => AlarmFor(h) <= TimeOf(r, j)
<1>1. now \in Nat /\ MaxTime \in Nat /\ Never = MaxTime + 1
  BY TimesType, TimerParameters DEF Never
<1>2. CASE h = <<>>
  <2>1. Len(h) = 0
    BY <1>2
  <2>2. \A j \in Timers : r.index[j] = 0
    BY <2>1 DEF IsHeap, Indexed
  <2>3. QED BY <1>1, <1>2, <2>2 DEF AlarmFor
<1>3. CASE h # <<>>
  <2>1. PICK i : i = r.heap[1].timer
    OBVIOUS
  <2>2. /\ i \in Timers /\ r.index[i] = 1 /\ TimeOf(r, i) = r.heap[1].time
        /\ \A j \in Timers : r.index[j] # 0 => TimeOf(r, i) <= TimeOf(r, j)
    BY <1>3, <2>1, Roots
  <2>3. TimeOf(r, i) \in Times
    BY <2>2, Located DEF IsHeap
  <2>4. CASE h[1].time < now
    <3>1. AlarmFor(h) = now
      BY <1>3, <2>4 DEF AlarmFor
    <3>2. QED BY <1>1, <3>1 DEF Times
  <2>5. CASE ~(h[1].time < now)
    <3>1. AlarmFor(h) = TimeOf(r, i)
      BY <1>3, <2>2, <2>5 DEF AlarmFor
    <3>2. AlarmFor(h) \in 0..Never
      BY <1>1, <2>3, <3>1 DEF Times
    <3>3. QED BY <2>2, <3>1, <3>2
  <2>6. QED BY <2>4, <2>5
<1>4. QED BY <1>2, <1>3

LEMMA AsyncWaitPreserves ==
  ASSUME IInv, NEW i \in Timers, AsyncWait(i)
  PROVE  IInv'
<1>1. calls' \in 0..MaxCalls /\ UNCHANGED <<now, fired, expiry>>
  BY CallType DEF AsyncWait
<1>2. /\ waits \in [Timers -> Seq(Times)] /\ expiry \in [Timers -> Times] /\ active \subseteq Timers
      /\ mightWait \in [Timers -> BOOLEAN] /\ alarm \in 0..Never /\ now \in Times
  BY DEF IInv, TypeOK
<1>3. /\ now' \in Times /\ fired' \in Seq(Times) /\ expiry' \in [Timers -> Times]
  BY <1>1 DEF IInv, TypeOK
<1>4. /\ mightWait' = [mightWait EXCEPT ![i] = TRUE]
      /\ waits' = [waits EXCEPT ![i] = Append(waits[i], expiry[i])] /\ active' = active \cup {i}
      /\ SetQueue(EnqueueTimer(i))
      /\ alarm' = IF index'[i] = 1 /\ waits[i] = <<>> THEN AlarmFor(heap') ELSE alarm
  BY DEF AsyncWait
<1>5. /\ mightWait' \in [Timers -> BOOLEAN] /\ mightWait'[i]
      /\ \A j \in Timers : j # i => mightWait'[j] = mightWait[j]
  BY <1>2, <1>4
<1>6. /\ waits' \in [Timers -> Seq(Times)] /\ waits'[i] # <<>> /\ waits'[i] = Append(waits[i], expiry[i])
      /\ \A j \in Timers : j # i => waits'[j] = waits[j]
  <2>1. PICK w : w = Append(waits[i], expiry[i])
    OBVIOUS
  <2>2. w \in Seq(Times) /\ w # <<>>
    BY <1>2, <2>1
  <2>3. waits' = [waits EXCEPT ![i] = w]
    BY <1>4, <2>1
  <2>4. QED BY <1>2, <2>1, <2>2, <2>3
<1>7. IsHeap(Q) /\ Q \in Queues /\ Q.index = index
  BY DEF IInv, HeapHoldsActive, IsHeap, Indexed, Q
<1>8. \A j \in Timers : (j \in active <=> waits[j] # <<>>) /\ (j \in active <=> Q.index[j] # 0)
  BY DEF IInv, HeapHoldsActive, Q
<1>9. PICK r : r = EnqueueTimer(i)
  OBVIOUS
<1>10. /\ IsHeap(r) /\ r.index[i] # 0 /\ TimeOf(r, i) = expiry[i] /\ Same(Q, r, Timers \ {i})
  <2>1. CASE i \in active
    <3>1. r = Q
      BY <1>9, <2>1 DEF EnqueueTimer
    <3>2. Same(Q, Q, Timers \ {i}) /\ TimeOf(Q, i) = expiry[i]
      BY <2>1 DEF Same, IInv, EntryIsCurrent
    <3>3. QED BY <1>7, <1>8, <2>1, <3>1, <3>2
  <2>2. CASE i \notin active
    <3>1. index[i] = 0 /\ expiry[i] \in Times
      BY <1>2, <1>7, <1>8, <2>2
    <3>2. QED BY <1>7, <1>9, <2>2, <3>1, EnqueueTimerAdds
  <2>3. QED BY <2>1, <2>2
<1>11. Q' = r /\ heap' = r.heap /\ index' = r.index
  <2>1. r \in Queues
    BY <1>10 DEF IsHeap, Indexed
  <2>2. SetQueue(r)
    BY <1>4, <1>9
  <2>3. QED BY <2>1, <2>2, SettingTheQueue DEF SetQueue
<1>12. ASSUME NEW j \in Timers
       PROVE  (j \in active' <=> waits'[j] # <<>>) /\ (j \in active' <=> r.index[j] # 0)
  <2>1. CASE j = i
    BY <1>4, <1>6, <1>10, <2>1
  <2>2. CASE j # i
    <3>1. (j \in active' <=> j \in active) /\ waits'[j] = waits[j]
      BY <1>4, <1>6, <2>2
    <3>2. r.index[j] = 0 <=> Q.index[j] = 0
      BY <1>10, <2>2 DEF Same
    <3>3. QED BY <1>8, <3>1, <3>2
  <2>3. QED BY <2>1, <2>2
<1>13. ASSUME NEW j \in active
       PROVE  j \in Timers /\ mightWait[j] /\ expiry[j] = TimeOf(r, j) /\ TimeOf(r, j) = TimeOf(Q, j)
              /\ \A k \in 1..Len(waits[j]) : waits[j][k] = TimeOf(r, j)
  <2>1. /\ mightWait[j] /\ expiry[j] = TimeOf(Q, j) /\ j \in Timers
        /\ \A k \in 1..Len(waits[j]) : waits[j][k] = TimeOf(Q, j)
    BY <1>2 DEF IInv, EntryIsCurrent
  <2>2. TimeOf(r, j) = TimeOf(Q, j)
    <3>1. CASE j = i
      BY <1>10, <2>1, <3>1
    <3>2. CASE j # i
      BY <1>8, <1>10, <2>1, <3>2 DEF Same
    <3>3. QED BY <3>1, <3>2
  <2>3. QED BY <2>1, <2>2
<1>14. ASSUME NEW j \in active'
       PROVE  /\ mightWait'[j] /\ expiry'[j] = TimeOf(r, j)
              /\ \A k \in 1..Len(waits'[j]) : waits'[j][k] = TimeOf(r, j)
  <2>1. CASE j = i
    <3>1. waits[i] \in Seq(Times) /\ Len(waits[i]) \in Nat
      BY <1>2
    <3>2. \A k \in 1..Len(waits[i]) : waits[i][k] = expiry[i]
      <4>1. CASE i \in active
        BY <1>13, <4>1
      <4>2. CASE i \notin active
        <5>1. waits[i] = <<>> /\ Len(<<>>) = 0
          BY <1>8, <4>2
        <5>2. QED BY <5>1
      <4>3. QED BY <4>1, <4>2
    <3>3. \A k \in 1..Len(waits'[i]) : waits'[i][k] = expiry[i]
      BY <1>6, <3>1, <3>2
    <3>4. QED BY <1>1, <1>5, <1>10, <2>1, <3>3
  <2>2. CASE j # i
    <3>1. j \in active /\ j \in Timers
      BY <1>2, <1>4, <2>2
    <3>2. waits'[j] = waits[j] /\ mightWait'[j] = mightWait[j] /\ expiry'[j] = expiry[j]
      BY <1>1, <1>5, <1>6, <2>2, <3>1
    <3>3. QED BY <1>13, <3>1, <3>2
  <2>3. QED BY <2>1, <2>2
<1>15. alarm' \in 0..Never /\ (alarm' <= now' \/ \A j \in active' : alarm' <= TimeOf(r, j))
  <2>1. CASE index'[i] = 1 /\ waits[i] = <<>>
    <3>1. alarm' = AlarmFor(r.heap)
      BY <1>4, <1>11, <2>1
    <3>2. \A j \in active' : j \in Timers /\ r.index[j] # 0
      BY <1>2, <1>4, <1>12
    <3>3. QED BY <1>1, <1>2, <1>10, <3>1, <3>2, AlarmForEarliest
  <2>2. CASE ~(index'[i] = 1 /\ waits[i] = <<>>)
    <3>1. alarm' = alarm /\ (alarm <= now \/ \A j \in active : alarm <= TimeOf(Q, j))
      BY <1>4, <2>2 DEF IInv, AlarmBeforeAll
    <3>2. CASE alarm <= now
      BY <1>1, <1>2, <3>1, <3>2
    <3>3. CASE \A j \in active : alarm <= TimeOf(Q, j)
      <4>1. \A j \in active : alarm <= TimeOf(r, j)
        BY <1>13, <3>3
      <4>2. ASSUME i \notin active PROVE alarm <= TimeOf(r, i)
        <5>1. r.index[i] # 1
          BY <1>8, <1>11, <2>2, <4>2
        <5>2. r.heap # <<>>
          <6>1. r.index[i] \in 1..Len(r.heap)
            BY <1>10 DEF IsHeap, Indexed
          <6>2. QED BY <6>1
        <5>3. PICK j : j = r.heap[1].timer
          OBVIOUS
        <5>4. j \in Timers /\ r.index[j] = 1 /\ TimeOf(r, j) <= TimeOf(r, i)
          BY <1>10, <5>2, <5>3, Roots
        <5>5. j # i /\ j \in active
          BY <1>8, <1>10, <5>1, <5>4 DEF Same
        <5>6. TimeOf(r, j) \in Nat /\ TimeOf(r, i) \in Nat
          BY <1>10, <5>4, Located DEF IsHeap
        <5>7. alarm \in Nat /\ alarm <= TimeOf(r, j)
          BY <1>2, <4>1, <5>5
        <5>8. QED BY <5>4, <5>6, <5>7
      <4>3. QED BY <1>2, <1>4, <3>1, <4>1, <4>2
    <3>4. QED BY <3>1, <3>2, <3>3
  <2>3. QED BY <2>1, <2>2
<1>16. active' \subseteq Timers
  BY <1>2, <1>4
<1>17. QED BY <1>1, <1>3, <1>5, <1>6, <1>10, <1>11, <1>12, <1>14, <1>15, <1>16, Preserved

LEMMA MoveTimerPreserves ==
  ASSUME IInv, NEW i \in Timers, NEW j \in Timers, MoveTimer(i, j)
  PROVE  IInv'
<1>1. calls' \in 0..MaxCalls /\ UNCHANGED <<now, fired, alarm>> /\ i # j
  BY CallType DEF MoveTimer
<1>2. /\ waits \in [Timers -> Seq(Times)] /\ expiry \in [Timers -> Times] /\ active \subseteq Timers
      /\ mightWait \in [Timers -> BOOLEAN] /\ now' \in Times /\ fired' \in Seq(Times)
      /\ alarm' \in 0..Never
  BY <1>1 DEF IInv, TypeOK
<1>3. /\ waits' = [waits EXCEPT ![i] = waits[j], ![j] = <<>>]
      /\ active' = (active \ {i, j}) \cup (IF j \in active THEN {i} ELSE {})
      /\ expiry' = [expiry EXCEPT ![i] = expiry[j], ![j] = 0]
      /\ mightWait' = [mightWait EXCEPT ![i] = mightWait[j], ![j] = FALSE]
  BY DEF MoveTimer
<1>4. IsHeap(Q) /\ Q.index = index
  BY DEF IInv, HeapHoldsActive, Q
<1>5. \A l \in Timers : (l \in active <=> waits[l] # <<>>) /\ (l \in active <=> Q.index[l] # 0)
  BY DEF IInv, HeapHoldsActive, Q
<1>6. PICK q : q = IF i \in active THEN RemoveTimer(Q, i) ELSE Q
  OBVIOUS
<1>7. IsHeap(q) /\ q.index[i] = 0 /\ Same(Q, q, Timers \ {i})
  <2>1. CASE i \in active
    BY <1>4, <1>6, <2>1, RemoveTimerRemoves
  <2>2. CASE i \notin active
    <3>1. q = Q
      BY <1>6, <2>2
    <3>2. Same(Q, Q, Timers \ {i})
      BY DEF Same
    <3>3. QED BY <1>4, <1>5, <2>2, <3>1, <3>2
  <2>3. QED BY <2>1, <2>2
<1>8. PICK r : r = Renamed(q, i, j)
  OBVIOUS
<1>9. /\ IsHeap(r) /\ r.index[j] = 0 /\ r.index[i] = q.index[j]
      /\ q.index[j] # 0 => TimeOf(r, i) = TimeOf(q, j)
      /\ Same(q, r, Timers \ {i, j})
  BY <1>1, <1>7, <1>8, Renaming
<1>10. Q' = r
  <2>1. SetQueue(r)
    BY <1>6, <1>8 DEF MoveTimer, Renamed
  <2>2. QED BY <1>9, <2>1, SettingTheQueue DEF IsHeap, Indexed
<1>11. r.index[i] = 0 <=> Q.index[j] = 0
  BY <1>1, <1>7, <1>9 DEF Same
<1>12. Q.index[j] # 0 => TimeOf(r, i) = TimeOf(Q, j)
  BY <1>1, <1>7, <1>9 DEF Same
<1>13. /\ waits' \in [Timers -> Seq(Times)] /\ waits'[i] = waits[j] /\ waits'[j] = <<>>
       /\ \A l \in Timers \ {i, j} : waits'[l] = waits[l]
  <2>1. PICK w \in Seq(Times) : w = waits[j]
    BY <1>2
  <2>2. <<>> \in Seq(Times)
    OBVIOUS
  <2>3. waits' = [waits EXCEPT ![i] = w, ![j] = <<>>]
    BY <1>3, <2>1
  <2>4. QED BY <1>1, <1>2, <2>1, <2>2, <2>3
<1>14. /\ expiry' \in [Timers -> Times] /\ expiry'[i] = expiry[j]
       /\ \A l \in Timers \ {i, j} : expiry'[l] = expiry[l]
  <2>1. 0 \in Times
    BY TimerParameters DEF Times
  <2>2. QED BY <1>1, <1>2, <1>3, <2>1
<1>15. /\ mightWait' \in [Timers -> BOOLEAN] /\ mightWait'[i] = mightWait[j]
       /\ \A l \in Timers \ {i, j} : mightWait'[l] = mightWait[l]
  BY <1>1, <1>2, <1>3
<1>16. /\ active' \subseteq Timers /\ j \notin active' /\ (i \in active' <=> j \in active)
       /\ \A l \in Timers \ {i, j} : l \in active' <=> l \in active
  BY <1>1, <1>2, <1>3
<1>17. ASSUME NEW l \in Timers
       PROVE  (l \in active' <=> waits'[l] # <<>>) /\ (l \in active' <=> r.index[l] # 0)
  <2>1. CASE l = i
    BY <1>5, <1>11, <1>13, <1>16, <2>1
  <2>2. CASE l = j
    BY <1>9, <1>13, <1>16, <2>2
  <2>3. CASE l \in Timers \ {i, j}
    <3>1. r.index[l] = 0 <=> Q.index[l] = 0
      BY <1>7, <1>9, <2>3 DEF Same
    <3>2. QED BY <1>5, <1>13, <1>16, <2>3, <3>1
  <2>4. QED BY <2>1, <2>2, <2>3
<1>18. ASSUME NEW l \in active
       PROVE  /\ Q.index[l] # 0 /\ mightWait[l] /\ expiry[l] = TimeOf(Q, l)
              /\ \A k \in 1..Len(waits[l]) : waits[l][k] = TimeOf(Q, l)
  BY <1>2, <1>5 DEF IInv, EntryIsCurrent
<1>19. ASSUME NEW l \in active'
       PROVE  \/ l = i /\ j \in active /\ TimeOf(r, l) = TimeOf(Q, j)
              \/ l \in Timers \ {i, j} /\ l \in active /\ TimeOf(r, l) = TimeOf(Q, l)
  <2>1. CASE l = i
    BY <1>12, <1>16, <1>18, <2>1
  <2>2. CASE l # i
    <3>1. l \in Timers \ {i, j} /\ l \in active /\ Q.index[l] # 0
      BY <1>16, <1>18, <2>2
    <3>2. TimeOf(r, l) = TimeOf(Q, l)
      BY <1>7, <1>9, <3>1 DEF Same
    <3>3. QED BY <3>1, <3>2
  <2>3. QED BY <2>1, <2>2
<1>20. ASSUME NEW l \in active'
       PROVE  /\ mightWait'[l] /\ expiry'[l] = TimeOf(r, l)
              /\ \A k \in 1..Len(waits'[l]) : waits'[l][k] = TimeOf(r, l)
  <2>1. CASE l = i /\ j \in active /\ TimeOf(r, l) = TimeOf(Q, j)
    <3>1. /\ mightWait[j] /\ expiry[j] = TimeOf(Q, j)
          /\ \A k \in 1..Len(waits[j]) : waits[j][k] = TimeOf(Q, j)
      BY <1>18, <2>1
    <3>2. waits'[l] = waits[j] /\ expiry'[l] = expiry[j] /\ mightWait'[l] = mightWait[j]
      BY <1>13, <1>14, <1>15, <2>1
    <3>3. QED BY <2>1, <3>1, <3>2
  <2>2. CASE l \in Timers \ {i, j} /\ l \in active /\ TimeOf(r, l) = TimeOf(Q, l)
    <3>1. /\ mightWait[l] /\ expiry[l] = TimeOf(Q, l)
          /\ \A k \in 1..Len(waits[l]) : waits[l][k] = TimeOf(Q, l)
      BY <1>18, <2>2
    <3>2. waits'[l] = waits[l] /\ expiry'[l] = expiry[l] /\ mightWait'[l] = mightWait[l]
      BY <1>13, <1>14, <1>15, <2>2
    <3>3. QED BY <2>2, <3>1, <3>2
  <2>3. QED BY <1>19, <2>1, <2>2
<1>21. alarm' <= now' \/ \A l \in active' : alarm' <= TimeOf(r, l)
  <2>1. alarm <= now \/ \A l \in active : alarm <= TimeOf(Q, l)
    BY DEF IInv, AlarmBeforeAll
  <2>2. QED BY <1>1, <1>19, <2>1
<1>22. QED BY <1>1, <1>2, <1>9, <1>10, <1>13, <1>14, <1>15, <1>16, <1>17, <1>20, <1>21, Preserved

\* What get_ready_timers() did: the timers that were due are out of the heap.
LEMMA ReportTakesDue ==
  ASSUME IInv, Report
  PROVE  \E p : /\ p \in Gathers /\ NoneDue(p.q) /\ p = ReadyTimers
                /\ p.done = {i \in active : TimeOf(Q, i) <= now}
                /\ Q' = p.q /\ fired' = p.out /\ active' = active \ p.done
                /\ waits' = [i \in Timers |-> IF i \in p.done THEN <<>> ELSE waits[i]]
                /\ alarm' = AlarmFor(p.q.heap)
<1>1. PICK p : p = ReadyTimers
  OBVIOUS
<1>2. p \in Gathers /\ NoneDue(p.q)
  BY <1>1, ReadyTimersGather
<1>3. /\ SetQueue(p.q) /\ fired' = p.out /\ active' = active \ p.done
      /\ waits' = [i \in Timers |-> IF i \in p.done THEN <<>> ELSE waits[i]]
      /\ alarm' = AlarmFor(p.q.heap)
  BY <1>1 DEF Report
<1>4. /\ p.q \in Queues /\ IsHeap(p.q) /\ Same(Q, p.q, Timers \ p.done)
      /\ \A i \in p.done : i \in active /\ TimeOf(Q, i) <= now
  BY <1>2 DEF Gathers
<1>5. Q' = p.q
  BY <1>3, <1>4, SettingTheQueue
<1>6. ASSUME NEW i \in active, TimeOf(Q, i) <= now, i \notin p.done PROVE FALSE
  <2>1. i \in Timers /\ Q.index[i] # 0
    BY DEF IInv, TypeOK, HeapHoldsActive, Q
  <2>2. p.q.index[i] # 0 /\ TimeOf(p.q, i) = TimeOf(Q, i)
    BY <1>4, <1>6, <2>1 DEF Same
  <2>3. p.q.heap # <<>>
    <3>1. p.q.index[i] \in 1..Len(p.q.heap)
      BY <1>4, <2>1, <2>2 DEF IsHeap, Indexed
    <3>2. QED BY <3>1
  <2>4. PICK j : j = p.q.heap[1].timer
    OBVIOUS
  <2>5. /\ j \in Timers /\ p.q.index[j] = 1 /\ TimeOf(p.q, j) = p.q.heap[1].time
        /\ TimeOf(p.q, j) <= TimeOf(p.q, i)
    BY <1>4, <2>1, <2>2, <2>3, <2>4, Roots
  <2>6. TimeOf(p.q, j) > now
    BY <1>2, <2>3, <2>5 DEF NoneDue
  <2>7. TimeOf(p.q, j) \in Nat /\ TimeOf(p.q, i) \in Nat /\ now \in Nat
    <3>1. Indexed(p.q) /\ p.q.index[j] # 0
      BY <1>4, <2>5 DEF IsHeap
    <3>2. now \in Nat
      BY TimesType DEF IInv, TypeOK
    <3>3. QED BY <2>1, <2>2, <2>5, <3>1, <3>2, Located
  <2>8. QED BY <1>6, <2>2, <2>5, <2>6, <2>7
<1>7. p.done = {i \in active : TimeOf(Q, i) <= now}
  BY <1>4, <1>6
<1>8. QED BY <1>1, <1>2, <1>3, <1>5, <1>7

LEMMA ReportPreserves ==
  ASSUME IInv, Report
  PROVE  IInv'
<1>1. PICK p : /\ p \in Gathers /\ Q' = p.q /\ fired' = p.out /\ active' = active \ p.done
               /\ waits' = [i \in Timers |-> IF i \in p.done THEN <<>> ELSE waits[i]]
               /\ alarm' = AlarmFor(p.q.heap)
  BY ReportTakesDue
<1>2. PICK r : r = p.q
  OBVIOUS
<1>3. /\ IsHeap(r) /\ Same(Q, r, Timers \ p.done) /\ p.out \in Seq(Times)
      /\ \A i \in p.done : r.index[i] = 0
  BY <1>1, <1>2 DEF Gathers
<1>4. UNCHANGED <<now, expiry, mightWait, calls>>
  BY DEF Report
<1>5. /\ now \in Times /\ expiry' \in [Timers -> Times] /\ mightWait' \in [Timers -> BOOLEAN]
      /\ now' \in Times /\ calls' \in 0..MaxCalls /\ waits \in [Timers -> Seq(Times)]
      /\ active \subseteq Timers
  BY <1>4 DEF IInv, TypeOK
<1>6. /\ waits' \in [Timers -> Seq(Times)] /\ active' \subseteq Timers
      /\ \A i \in Timers : waits'[i] = IF i \in p.done THEN <<>> ELSE waits[i]
  BY <1>1, <1>5
<1>7. \A i \in Timers : (i \in active <=> waits[i] # <<>>) /\ (i \in active <=> Q.index[i] # 0)
  BY DEF IInv, HeapHoldsActive, Q
<1>8. ASSUME NEW i \in Timers
      PROVE  (i \in active' <=> waits'[i] # <<>>) /\ (i \in active' <=> r.index[i] # 0)
  <2>1. CASE i \in p.done
    BY <1>1, <1>3, <1>6, <2>1
  <2>2. CASE i \notin p.done
    <3>1. r.index[i] = 0 <=> Q.index[i] = 0
      BY <1>3, <2>2 DEF Same
    <3>2. QED BY <1>1, <1>6, <1>7, <2>2, <3>1
  <2>3. QED BY <2>1, <2>2
<1>9. ASSUME NEW i \in active'
      PROVE  /\ mightWait'[i] /\ expiry'[i] = TimeOf(r, i)
             /\ \A k \in 1..Len(waits'[i]) : waits'[i][k] = TimeOf(r, i)
  <2>1. i \in active /\ i \notin p.done /\ i \in Timers
    BY <1>1, <1>6
  <2>2. TimeOf(r, i) = TimeOf(Q, i)
    BY <1>3, <1>7, <2>1 DEF Same
  <2>3. /\ mightWait[i] /\ expiry[i] = TimeOf(Q, i)
        /\ \A k \in 1..Len(waits[i]) : waits[i][k] = TimeOf(Q, i)
    BY <2>1 DEF IInv, EntryIsCurrent
  <2>4. waits'[i] = waits[i]
    BY <1>6, <2>1
  <2>5. QED BY <1>4, <2>2, <2>3, <2>4
<1>10. alarm' \in 0..Never /\ (alarm' <= now' \/ \A i \in active' : alarm' <= TimeOf(r, i))
  <2>1. \A i \in active' : i \in Timers /\ r.index[i] # 0
    BY <1>6, <1>8
  <2>2. alarm' = AlarmFor(r.heap)
    BY <1>1, <1>2
  <2>3. /\ alarm' \in 0..Never
        /\ alarm' <= now \/ \A i \in Timers : r.index[i] # 0 => alarm' <= TimeOf(r, i)
    BY <1>3, <1>5, <2>2, AlarmForEarliest
  <2>4. CASE alarm' <= now
    BY <1>4, <2>3, <2>4
  <2>5. CASE \A i \in Timers : r.index[i] # 0 => alarm' <= TimeOf(r, i)
    BY <2>1, <2>3, <2>5
  <2>6. QED BY <2>3, <2>4, <2>5
<1>11. IsHeap(r) /\ Q' = r /\ fired' \in Seq(Times)
  BY <1>1, <1>2, <1>3
<1>12. QED BY <1>5, <1>6, <1>8, <1>9, <1>10, <1>11, Preserved

LEMMA TickPreserves ==
  ASSUME IInv, Tick
  PROVE  IInv'
<1>1. UNCHANGED <<expiry, mightWait, waits, active, heap, index, alarm, fired, calls>>
  BY DEF Tick, queue
<1>2. now \in Nat /\ now' \in Times /\ now' = now + 1 /\ alarm \in Nat
  BY TimerParameters DEF Tick, IInv, TypeOK, Times
<1>3. Q' = Q
  BY <1>1 DEF Q
<1>4. TypeOK'
  BY <1>1, <1>2 DEF IInv, TypeOK
<1>5. HeapHoldsActive'
  BY <1>1, <1>3 DEF IInv, HeapHoldsActive
<1>6. EntryIsCurrent'
  BY <1>1, <1>3 DEF IInv, EntryIsCurrent
<1>7. AlarmBeforeAll'
  <2>1. alarm <= now => alarm <= now + 1
    BY <1>2
  <2>2. QED BY <1>1, <1>2, <1>3, <2>1 DEF IInv, AlarmBeforeAll
<1>8. QED BY <1>4, <1>5, <1>6, <1>7 DEF IInv

LEMMA NextIInv == IInv /\ [Next]_vars => IInv'
<1> SUFFICES ASSUME IInv, [Next]_vars PROVE IInv'
  OBVIOUS
<1>1. CASE Report
  BY <1>1, ReportPreserves
<1>2. CASE Tick
  BY <1>2, TickPreserves
<1>3. ASSUME NEW i \in Timers, Owner(i) PROVE IInv'
  <2>1. CASE AsyncWait(i)
    BY <2>1, AsyncWaitPreserves
  <2>2. CASE Cancel(i)
    BY <2>2, CancelPreserves
  <2>3. CASE CancelOne(i)
    BY <2>3, CancelOnePreserves
  <2>4. CASE CancelByKey(i)
    BY <2>4, CancelByKeyPreserves
  <2>5. CASE ExpiresAt(i)
    BY <2>5, ExpiresAtPreserves
  <2>6. ASSUME NEW j \in Timers, MoveTimer(i, j) PROVE IInv'
    BY <2>6, MoveTimerPreserves
  <2>7. QED BY <1>3, <2>1, <2>2, <2>3, <2>4, <2>5, <2>6 DEF Owner
<1>4. CASE UNCHANGED vars
  <2>1. UNCHANGED <<now, expiry, mightWait, waits, active, heap, index, alarm, fired, calls>>
    BY <1>4 DEF vars, queue
  <2>2. Q' = Q
    BY <2>1 DEF Q
  <2>3. QED BY <2>1, <2>2 DEF IInv, TypeOK, HeapHoldsActive, EntryIsCurrent, AlarmBeforeAll
<1>5. QED BY <1>1, <1>2, <1>3, <1>4 DEF Next

-----------------------------------------------------------------------------
(* The theorems.                                                           *)

LEMMA Invariance == Spec => []IInv
<1>1. Init => IInv
  BY InitIInv
<1>2. IInv /\ [Next]_vars => IInv'
  BY NextIInv
<1>3. QED BY <1>1, <1>2, PTL DEF Spec

\* Every variable keeps its type; above all, no call leaves a timer with an
\* index beyond the end of the heap.
THEOREM TypeCorrect == Spec => []TypeOK
<1>1. IInv => TypeOK
  BY DEF IInv
<1>2. QED BY <1>1, Invariance, PTL

\* The heap of timer_queue.hpp and its timers agree after every call: each
\* entry is where its timer's heap_index_ says, no earlier than its parent, and
\* a timer is in the heap exactly while it has waits.
THEOREM HeapStaysAHeap == Spec => []HeapAgrees
<1>1. IInv => HeapAgrees
  <2> SUFFICES ASSUME IInv PROVE HeapAgrees
    OBVIOUS
  <2>1. Q.heap = heap /\ Q.index = index
    BY DEF Q
  <2>2. Indexed(Q) /\ Ordered(TimesOf(Q), Len(heap)) /\ Q \in Queues
    BY <2>1 DEF IInv, HeapHoldsActive, IsHeap, Indexed
  <2>3. \A k \in 1..Len(heap) : index[heap[k].timer] = k
    BY <2>1, <2>2 DEF Indexed
  <2>4. ASSUME NEW k \in 2..Len(heap) PROVE heap[k \div 2].time <= heap[k].time
    <3>1. Len(heap) \in Nat
      BY <2>1, <2>2, QueueTimes
    <3>2. PICK h \in 1..Len(heap) : h = k \div 2
      BY <3>1, Halves
    <3>3. TimesOf(Q)[k \div 2] <= TimesOf(Q)[k]
      BY <2>2 DEF Ordered
    <3>4. TimesOf(Q)[h] = heap[h].time /\ TimesOf(Q)[k] = heap[k].time
      BY <2>1, <3>1 DEF TimesOf
    <3>5. QED BY <3>2, <3>3, <3>4
  <2>5. ASSUME NEW i \in Timers
        PROVE  /\ i \in active <=> waits[i] # <<>>
               /\ i \in active => index[i] \in 1..Len(heap) /\ heap[index[i]].timer = i
               /\ i \notin active => index[i] = 0
    <3>1. (i \in active <=> waits[i] # <<>>) /\ (i \in active <=> index[i] # 0)
      BY DEF IInv, HeapHoldsActive
    <3>2. index[i] # 0 => index[i] \in 1..Len(heap) /\ heap[index[i]].timer = i
      BY <2>1, <2>2 DEF Indexed
    <3>3. QED BY <3>1, <3>2
  <2>6. QED BY <2>3, <2>4, <2>5 DEF HeapAgrees
<1>2. QED BY <1>1, Invariance, PTL

\* All waits of a timer were started for the time its heap entry has, and
\* cancel() will look for them: might_have_pending_waits is set.
THEOREM WaitsStayAtTheirTime == Spec => []WaitsAtTheirTime
<1>1. IInv => WaitsAtTheirTime
  <2> SUFFICES ASSUME IInv, NEW i \in Timers, waits[i] # <<>>
               PROVE  mightWait[i] /\ \A k \in 1..Len(waits[i]) : waits[i][k] = heap[index[i]].time
    BY DEF WaitsAtTheirTime
  <2>1. i \in active
    BY DEF IInv, HeapHoldsActive
  <2>2. TimeOf(Q, i) = heap[index[i]].time
    BY DEF TimeOf, Q
  <2>3. QED BY <2>1, <2>2 DEF IInv, EntryIsCurrent
<1>2. QED BY <1>1, Invariance, PTL

\* The timerfd is never set later than the earliest entry of the heap, however
\* the owners start, cancel and move their timers.
THEOREM AlarmIsInTime == Spec => []AlarmInTime
<1>1. IInv => AlarmInTime
  <2> SUFFICES ASSUME IInv, heap # <<>> PROVE alarm <= now \/ alarm <= heap[1].time
    BY DEF AlarmInTime
  <2>1. IsHeap(Q) /\ Q.heap = heap
    BY DEF IInv, HeapHoldsActive, Q
  <2>2. PICK i : i = Q.heap[1].timer
    OBVIOUS
  <2>3. i \in Timers /\ Q.index[i] = 1 /\ TimeOf(Q, i) = heap[1].time
    BY <2>1, <2>2, Roots
  <2>4. i \in active
    BY <2>3 DEF IInv, HeapHoldsActive, Q
  <2>5. QED BY <2>3, <2>4 DEF IInv, AlarmBeforeAll
<1>2. QED BY <1>1, Invariance, PTL

-----------------------------------------------------------------------------
(* The timer queue does what WaitList promises.                            *)

\* cancel(), expires_at(), cancel_one() and cancel_by_key() end waits of one timer.
LEMMA KeepAborts ==
  ASSUME IInv, NEW i \in Timers, UNCHANGED <<now, fired>>,
         NEW a \in 0..Len(waits[i]), NEW b \in a..Len(waits[i]), a = 0 \/ b = a + 1,
         Keep(i, SubSeq(waits[i], 1, a) \o SubSeq(waits[i], b + 1, Len(waits[i])))
  PROVE  List!Abort(i)
BY DEF Keep, List!Abort

LEMMA KeepNoneAborts ==
  ASSUME IInv, NEW i \in Timers, UNCHANGED <<now, fired>>, Keep(i, <<>>)
  PROVE  List!Abort(i)
<1>1. PICK n \in Nat : n = Len(waits[i])
  BY WaitsType
<1>2. SubSeq(waits[i], 1, 0) = <<>> /\ SubSeq(waits[i], n + 1, n) = <<>> /\ <<>> \o <<>> = <<>>
  BY <1>1, WaitsType, SubSeqEmpty
<1>3. Keep(i, SubSeq(waits[i], 1, 0) \o SubSeq(waits[i], n + 1, n))
  BY <1>2
<1>4. 0 \in 0..n /\ n \in 0..n
  OBVIOUS
<1>5. QED BY <1>1, <1>3, <1>4, KeepAborts

LEMMA CancelOneAborts ==
  ASSUME IInv, NEW i \in Timers, CancelOne(i)
  PROVE  List!Abort(i)
<1>1. UNCHANGED <<now, fired>>
  BY DEF CancelOne, Call
<1>2. CASE waits[i] # <<>> /\ Keep(i, Tail(waits[i]))
  <2>1. PICK n \in Nat : n = Len(waits[i])
    BY WaitsType
  <2>2. n >= 1
    BY <1>2, <2>1, WaitsType
  <2>3. SubSeq(waits[i], 1, 0) = <<>>
    BY SubSeqEmpty
  <2>4. Tail(waits[i]) = SubSeq(waits[i], 1 + 1, n)
    BY <1>2, <2>1, WaitsType
  <2>5. SubSeq(waits[i], 1 + 1, n) \in Seq(Times)
    BY <1>2, <2>4, WaitsType
  <2>6. SubSeq(waits[i], 1, 0) \o SubSeq(waits[i], 1 + 1, n) = Tail(waits[i])
    BY <2>3, <2>4, <2>5, ConcatEmptySeq
  <2>7. 0 \in 0..n /\ 1 \in 0..n
    BY <2>2
  <2>8. Keep(i, SubSeq(waits[i], 1, 0) \o SubSeq(waits[i], 1 + 1, n))
    BY <1>2, <2>6
  <2>9. QED BY <1>1, <2>1, <2>7, <2>8, KeepAborts
<1>3. CASE Keep(i, <<>>)
  BY <1>1, <1>3, KeepNoneAborts
<1>4. QED BY <1>2, <1>3, CancelOneKeeps

LEMMA CancelByKeyAborts ==
  ASSUME IInv, NEW i \in Timers, CancelByKey(i)
  PROVE  List!Abort(i)
<1>1. UNCHANGED <<now, fired>>
  BY DEF CancelByKey, Call
<1>2. PICK n \in Nat : n = Len(waits[i])
  BY WaitsType
<1>3. PICK k \in 1..n : Keep(i, SubSeq(waits[i], 1, k - 1) \o SubSeq(waits[i], k + 1, n))
  BY <1>2 DEF CancelByKey
<1>4. k - 1 \in 0..n /\ k \in k - 1..n /\ k = (k - 1) + 1
  OBVIOUS
<1>5. QED BY <1>1, <1>2, <1>3, <1>4, KeepAborts

LEMMA AsyncWaitStarts ==
  ASSUME IInv, NEW i \in Timers, AsyncWait(i)
  PROVE  List!Start(i)
<1>1. UNCHANGED <<now, fired>>
  BY DEF AsyncWait, Call
<1>2. expiry[i] \in Times
  BY DEF IInv, TypeOK
<1>3. waits' = [waits EXCEPT ![i] = Append(@, expiry[i])]
  BY DEF AsyncWait
<1>4. QED BY <1>1, <1>2, <1>3 DEF List!Start

LEMMA MoveTimerMoves ==
  ASSUME NEW i \in Timers, NEW j \in Timers, MoveTimer(i, j)
  PROVE  List!Move(i, j)
<1>1. UNCHANGED <<now, fired>>
  BY DEF MoveTimer, Call
<1>2. QED BY <1>1 DEF MoveTimer, List!Move

\* Each wait that ends is reported once: as many of every time as there were.
ReportedFor(out, e) == {k \in DOMAIN out : out[k] = e}
EndedFor(S, e) == {w \in EndedOf(S) : waits[w[1]][w[2]] = e}

LEMMA ListsCount ==
  ASSUME NEW out \in Seq(Times), NEW S, NEW f, Lists(out, S, f), NEW e
  PROVE  Cardinality(ReportedFor(out, e)) = Cardinality(EndedFor(S, e))
<1>1. PICK n \in Nat : n = Len(out) /\ DOMAIN out = 1..n
  OBVIOUS
<1>2. PICK A : A = ReportedFor(out, e) /\ A = {k \in 1..n : out[k] = e}
  BY <1>1 DEF ReportedFor
<1>3. PICK B : B = EndedFor(S, e) /\ B = {w \in EndedOf(S) : waits[w[1]][w[2]] = e}
  BY DEF EndedFor
<1>4. /\ f \in [1..n -> EndedOf(S)]
      /\ \A k, l \in 1..n : f[k] = f[l] => k = l
      /\ \A w \in EndedOf(S) : \E k \in 1..n : f[k] = w
      /\ \A k \in 1..n : out[k] = waits[f[k][1]][f[k][2]]
  BY <1>1 DEF Lists
<1>5. PICK g : g = [k \in A |-> f[k]]
  OBVIOUS
<1>6. g \in [A -> B]
  BY <1>2, <1>3, <1>4, <1>5
<1>7. \A k, l \in A : g[k] = g[l] => k = l
  BY <1>2, <1>4, <1>5
<1>8. \A w \in B : \E k \in A : g[k] = w
  BY <1>2, <1>3, <1>4, <1>5
<1>9. ExistsBijection(A, B)
  BY <1>6, <1>7, <1>8 DEF ExistsBijection, Bijection, Injection, Surjection, IsInjective
<1>10. IsFiniteSet(A)
  <2>1. IsFiniteSet(1..n)
    BY FS_Interval
  <2>2. A \in SUBSET (1..n)
    BY <1>2
  <2>3. QED BY <2>1, <2>2, FS_Subset
<1>11. Cardinality(A) = Cardinality(B)
  BY <1>9, <1>10, FS_Bijection
<1>12. QED BY <1>2, <1>3, <1>11

\* get_ready_timers() fires what is due: all waits of the timers whose time has
\* come, each once, the earlier ones first.
LEMMA ReportFires ==
  ASSUME IInv, Report
  PROVE  List!Fire
<1>1. PICK p : /\ p \in Gathers /\ p.done = {i \in active : TimeOf(Q, i) <= now}
               /\ fired' = p.out
               /\ waits' = [i \in Timers |-> IF i \in p.done THEN <<>> ELSE waits[i]]
  BY ReportTakesDue
<1>2. /\ p.out \in Seq(Times) /\ p.done \in SUBSET Timers /\ Sorted(p.out)
      /\ \E f : Lists(p.out, p.done, f)
  BY <1>1 DEF Gathers
<1>3. waits \in [Timers -> Seq(Times)]
  BY DEF IInv, TypeOK
<1>4. p.done = List!Due
  <2>1. ASSUME NEW i \in Timers
        PROVE  i \in p.done <=> \E k \in DOMAIN waits[i] : waits[i][k] <= now
    <3>1. DOMAIN waits[i] = 1..Len(waits[i]) /\ Len(waits[i]) \in Nat
      BY WaitsType
    <3>2. \A k \in DOMAIN waits[i] : waits[i][k] = TimeOf(Q, i)
      BY <3>1, WaitsType
    <3>3. i \in active <=> waits[i] # <<>>
      BY DEF IInv, HeapHoldsActive
    <3>4. waits[i] # <<>> => 1 \in DOMAIN waits[i]
      BY <3>1, WaitsType
    <3>5. waits[i] = <<>> => DOMAIN waits[i] = {}
      OBVIOUS
    <3>6. QED BY <1>1, <3>2, <3>3, <3>4, <3>5
  <2>2. QED BY <1>2, <2>1 DEF List!Due
<1>5. EndedOf(p.done) = List!Ended
  BY <1>4 DEF EndedOf, List!Ended
<1>6. ASSUME NEW w \in EndedOf(p.done) PROVE waits[w[1]][w[2]] <= now
  <2>1. PICK i \in p.done : \E k \in 1..Len(waits[i]) : w = <<i, k>>
    BY <1>2, <1>3, WaitsOf
  <2>2. PICK k \in 1..Len(waits[i]) : w = <<i, k>>
    BY <2>1
  <2>3. waits[i][k] = TimeOf(Q, i) /\ TimeOf(Q, i) <= now
    BY <1>1, <1>2, WaitsType
  <2>4. QED BY <2>2, <2>3
<1>7. ASSUME NEW e \in Times
      PROVE  Cardinality({k \in DOMAIN fired' : fired'[k] = e})
               = Cardinality({w \in List!Ended : waits[w[1]][w[2]] = e})
  <2>1. Cardinality(ReportedFor(p.out, e)) = Cardinality(EndedFor(p.done, e))
    BY <1>2, ListsCount
  <2>2. {k \in DOMAIN fired' : fired'[k] = e} = ReportedFor(p.out, e)
    BY <1>1 DEF ReportedFor
  <2>3. {w \in List!Ended : waits[w[1]][w[2]] = e} = EndedFor(p.done, e)
    BY <1>5 DEF EndedFor
  <2>4. QED BY <2>1, <2>2, <2>3
<1>8. fired' \in Seq(Times) /\ \A k \in 2..Len(fired') : fired'[k - 1] <= fired'[k]
  BY <1>1, <1>2 DEF Sorted
<1>9. waits' = [i \in Timers |-> IF i \in List!Due THEN <<>> ELSE waits[i]]
  BY <1>1, <1>4
<1>10. now' = now
  BY DEF Report
<1>11. \A w \in List!Ended : waits[w[1]][w[2]] <= now
  BY <1>5, <1>6
<1>12. \A e \in Times : List!Cardinality({k \in DOMAIN fired' : fired'[k] = e})
                          = List!Cardinality({w \in List!Ended : waits[w[1]][w[2]] = e})
  <2>1. \A S : List!Cardinality(S) = Cardinality(S)
    BY Zenon DEF List!Cardinality, Cardinality
  <2>2. QED BY <1>7, <2>1, Zenon
<1>13. QED BY <1>8, <1>9, <1>10, <1>11, <1>12, Zenon DEF List!Fire

LEMMA OwnerStep ==
  ASSUME IInv, NEW i \in Timers, Owner(i)
  PROVE  List!Start(i) \/ List!Abort(i) \/ \E j \in Timers : List!Move(i, j)
<1>1. CASE AsyncWait(i)
  BY <1>1, AsyncWaitStarts
<1>2. CASE Cancel(i) \/ ExpiresAt(i)
  <2>1. UNCHANGED <<now, fired>>
    BY <1>2 DEF Cancel, ExpiresAt, Call
  <2>2. QED BY <1>2, <2>1, CancelKeeps, KeepNoneAborts
<1>3. CASE CancelOne(i)
  BY <1>3, CancelOneAborts
<1>4. CASE CancelByKey(i)
  BY <1>4, CancelByKeyAborts
<1>5. ASSUME NEW j \in Timers, MoveTimer(i, j) PROVE List!Move(i, j)
  BY <1>5, MoveTimerMoves
<1>6. QED BY <1>1, <1>2, <1>3, <1>4, <1>5 DEF Owner

LEMMA ListStep == IInv /\ [Next]_vars => [List!Next]_List!vars
<1> SUFFICES ASSUME IInv, [Next]_vars PROVE List!Next \/ UNCHANGED <<now, waits, fired>>
  BY DEF List!vars
<1>1. CASE Report
  BY <1>1, ReportFires DEF List!Next
<1>2. CASE Tick
  BY <1>2 DEF Tick, queue, List!Tick, List!Next
<1>3. ASSUME NEW i \in Timers, Owner(i) PROVE List!Next
  BY <1>3, OwnerStep DEF List!Next
<1>4. CASE UNCHANGED vars
  BY <1>4 DEF vars, queue
<1>5. QED BY <1>1, <1>2, <1>3, <1>4 DEF Next

\* The timer queue implements WaitList: every wait ends once, by a cancellation
\* or, together with the others that are due and in the order of their times,
\* when its time has come.
THEOREM ImplementsWaitList == Spec => WaitListSpec
<1>1. Init => List!Init
  BY DEF Init, List!Init
<1>2. IInv /\ [Next]_vars => [List!Next]_List!vars
  BY ListStep
<1>3. QED BY <1>1, <1>2, Invariance, PTL DEF Spec, WaitListSpec, List!Spec
=============================================================================
