------------------------- MODULE EpollReactorProofs -------------------------
(***************************************************************************)
(* Theorems about EpollReactor, and Scheduler with it, for any number of   *)
(* threads, callers, descriptors and operations: the reactor has one       *)
(* runner, nothing is linked into two queues, the count of work is exact,  *)
(* and the io_context is a WorkPool.                                       *)
(***************************************************************************)
EXTENDS EpollReactor, SequenceTheorems, FiniteSetTheorems, TLAPS

-----------------------------------------------------------------------------
(* Sequences as sets of elements.                                          *)

\* The task stands behind every descriptor that is queued.
TaskBehind(q) == \A i, j \in 1..Len(q) : q[i] = Task /\ q[j] \in Descriptors => j < i

LEMMA Members ==
  ASSUME NEW S, NEW q \in Seq(S)
  PROVE  /\ Len(q) \in Nat /\ \A i \in 1..Len(q) : q[i] \in S
         /\ \A x : x \in ToSet(q) <=> \E i \in 1..Len(q) : q[i] = x
         /\ IsInjective(q) <=> \A i, j \in 1..Len(q) : q[i] = q[j] => i = j
<1>1. DOMAIN q = 1..Len(q) /\ Len(q) \in Nat /\ \A i \in 1..Len(q) : q[i] \in S
  BY LenProperties, ElementOfSeq
<1>2. QED BY <1>1 DEF ToSet, IsInjective

LEMMA SetOfEmpty == ToSet(<<>>) = {} /\ IsInjective(<<>>) /\ TaskBehind(<<>>)
  BY DEF ToSet, IsInjective, TaskBehind

LEMMA SetOfSingle ==
  ASSUME NEW x PROVE ToSet(<<x>>) = {x} /\ IsInjective(<<x>>)
  BY DEF ToSet, IsInjective

LEMMA SetOfConcat ==
  ASSUME NEW S, NEW q \in Seq(S), NEW r \in Seq(S)
  PROVE  /\ q \o r \in Seq(S) /\ ToSet(q \o r) = ToSet(q) \cup ToSet(r)
         /\ IsInjective(q) /\ IsInjective(r) /\ ToSet(q) \cap ToSet(r) = {} => IsInjective(q \o r)
         /\ TaskBehind(q) /\ Task \notin ToSet(r) /\ ToSet(r) \cap Descriptors = {} => TaskBehind(q \o r)
         /\ Task \notin ToSet(q) /\ Task \notin Descriptors => TaskBehind(q \o <<Task>>)
<1> DEFINE c == q \o r
<1>1. /\ c \in Seq(S) /\ Len(c) = Len(q) + Len(r) /\ Len(q) \in Nat /\ Len(r) \in Nat
      /\ \A i \in 1..Len(q) + Len(r) : c[i] = IF i <= Len(q) THEN q[i] ELSE r[i - Len(q)]
  BY ConcatProperties, LenProperties
<1> HIDE DEF c
<1>2. /\ \A x : x \in ToSet(c) <=> \E i \in 1..Len(c) : c[i] = x
      /\ \A x : x \in ToSet(q) <=> \E i \in 1..Len(q) : q[i] = x
      /\ \A x : x \in ToSet(r) <=> \E i \in 1..Len(r) : r[i] = x
  BY <1>1, Members
<1>3. /\ IsInjective(c) <=> \A i, j \in 1..Len(c) : c[i] = c[j] => i = j
      /\ IsInjective(q) <=> \A i, j \in 1..Len(q) : q[i] = q[j] => i = j
      /\ IsInjective(r) <=> \A i, j \in 1..Len(r) : r[i] = r[j] => i = j
  BY <1>1, Members
<1>4. ToSet(c) = ToSet(q) \cup ToSet(r)
  <2>1. ASSUME NEW i \in 1..Len(c) PROVE c[i] \in ToSet(q) \cup ToSet(r)
    <3>1. CASE i <= Len(q)
      <4>1. i \in 1..Len(q) /\ c[i] = q[i]
        BY <3>1, <1>1
      <4>2. QED BY <4>1, <1>2
    <3>2. CASE ~(i <= Len(q))
      <4>1. i - Len(q) \in 1..Len(r) /\ c[i] = r[i - Len(q)]
        BY <3>2, <1>1
      <4>2. QED BY <4>1, <1>2
    <3>3. QED BY <3>1, <3>2
  <2>2. ToSet(q) \subseteq ToSet(c)
    BY <1>1, <1>2
  <2>3. ASSUME NEW j \in 1..Len(r) PROVE r[j] \in ToSet(c)
    <3>1. /\ Len(q) + j \in 1..Len(q) + Len(r) /\ ~(Len(q) + j <= Len(q)) /\ (Len(q) + j) - Len(q) = j
          /\ Len(q) + j \in 1..Len(c)
      BY <1>1
    <3>2. c[Len(q) + j] = r[(Len(q) + j) - Len(q)]
      BY <3>1, <1>1
    <3>3. c[Len(q) + j] = r[j]
      BY <3>1, <3>2
    <3>4. QED BY <3>1, <3>3, <1>2
  <2>4. QED BY <2>1, <2>2, <2>3, <1>2
<1>5. ASSUME IsInjective(q), IsInjective(r), ToSet(q) \cap ToSet(r) = {} PROVE IsInjective(c)
  <2>1. \A i \in 1..Len(q), j \in 1..Len(r) : q[i] # r[j]
    BY <1>2, <1>5
  <2>2. SUFFICES ASSUME NEW i \in 1..Len(c), NEW j \in 1..Len(c), c[i] = c[j] PROVE i = j
    BY <1>3
  <2>3. \A k \in 1..Len(c) :
          \/ k \in 1..Len(q) /\ c[k] = q[k]
          \/ k - Len(q) \in 1..Len(r) /\ c[k] = r[k - Len(q)]
    BY <1>1
  <2>4. CASE i \in 1..Len(q) /\ c[i] = q[i] /\ j \in 1..Len(q) /\ c[j] = q[j]
    BY <1>3, <1>5, <2>2, <2>4
  <2>5. CASE /\ i - Len(q) \in 1..Len(r) /\ c[i] = r[i - Len(q)]
             /\ j - Len(q) \in 1..Len(r) /\ c[j] = r[j - Len(q)]
    <3>1. i - Len(q) = j - Len(q)
      BY <1>3, <1>5, <2>2, <2>5
    <3>2. QED BY <1>1, <3>1
  <2>6. QED BY <2>1, <2>2, <2>3, <2>4, <2>5
<1>6. ASSUME TaskBehind(q), Task \notin ToSet(r), ToSet(r) \cap Descriptors = {} PROVE TaskBehind(c)
  <2>1. \A j \in 1..Len(r) : r[j] # Task /\ r[j] \notin Descriptors
    BY <1>2, <1>6
  <2>2. ASSUME NEW k \in 1..Len(c), c[k] = Task \/ c[k] \in Descriptors
        PROVE  k \in 1..Len(q) /\ c[k] = q[k]
    <3>1. CASE k <= Len(q)
      BY <1>1, <3>1
    <3>2. CASE ~(k <= Len(q))
      <4>1. k - Len(q) \in 1..Len(r) /\ c[k] = r[k - Len(q)]
        BY <1>1, <3>2
      <4>2. QED BY <2>1, <2>2, <4>1
    <3>3. QED BY <3>1, <3>2
  <2>3. ASSUME NEW i \in 1..Len(c), NEW j \in 1..Len(c), c[i] = Task, c[j] \in Descriptors
        PROVE  j < i
    <3>1. i \in 1..Len(q) /\ q[i] = Task /\ j \in 1..Len(q) /\ q[j] \in Descriptors
      BY <2>2, <2>3
    <3>2. QED BY <3>1, <1>6 DEF TaskBehind
  <2>4. QED BY <2>3 DEF TaskBehind
<1>7. ASSUME Task \notin ToSet(q), Task \notin Descriptors PROVE TaskBehind(q \o <<Task>>)
  <2>1. /\ Len(q \o <<Task>>) = Len(q) + 1
        /\ \A i \in 1..Len(q) : (q \o <<Task>>)[i] = q[i]
        /\ (q \o <<Task>>)[Len(q) + 1] = Task
    <3>1. q \in Seq(S \cup {Task}) /\ <<Task>> \in Seq(S \cup {Task})
          /\ Len(<<Task>>) = 1 /\ <<Task>>[1] = Task
      BY SeqMonotonic
    <3>2. QED BY <3>1, <1>1, ConcatProperties
  <2>2. \A i \in 1..Len(q) : q[i] # Task
    BY <1>2, <1>7
  <2>3. QED BY <1>1, <1>7, <2>1, <2>2 DEF TaskBehind
<1>8. QED BY <1>1, <1>4, <1>5, <1>6, <1>7 DEF c

LEMMA SetOfTail ==
  ASSUME NEW S, NEW q \in Seq(S), q # <<>>, IsInjective(q)
  PROVE  /\ Head(q) \in S /\ Head(q) \in ToSet(q) /\ Tail(q) \in Seq(S)
         /\ ToSet(Tail(q)) = ToSet(q) \ {Head(q)} /\ IsInjective(Tail(q))
         /\ TaskBehind(q) => TaskBehind(Tail(q))
         /\ TaskBehind(q) /\ Head(q) = Task => ToSet(Tail(q)) \cap Descriptors = {}
<1> DEFINE r == Tail(q)
<1>1. /\ Len(r) = Len(q) - 1 /\ Len(q) \in Nat \ {0} /\ Head(q) = q[1] /\ Head(q) \in S /\ r \in Seq(S)
      /\ \A n \in 1..Len(r) : r[n] = q[n + 1]
  BY HeadTailProperties, EmptySeq, LenProperties
<1> HIDE DEF r
<1>2. /\ \A x : x \in ToSet(q) <=> \E i \in 1..Len(q) : q[i] = x
      /\ \A x : x \in ToSet(r) <=> \E i \in 1..Len(r) : r[i] = x
      /\ \A i, j \in 1..Len(q) : q[i] = q[j] => i = j
      /\ IsInjective(r) <=> \A i, j \in 1..Len(r) : r[i] = r[j] => i = j
  <2>1. r \in Seq(S)
    BY <1>1
  <2>2. /\ \A x : x \in ToSet(r) <=> \E i \in 1..Len(r) : r[i] = x
        /\ IsInjective(r) <=> \A i, j \in 1..Len(r) : r[i] = r[j] => i = j
    BY <2>1, Members, Zenon
  <2>3. /\ \A x : x \in ToSet(q) <=> \E i \in 1..Len(q) : q[i] = x
        /\ \A i, j \in 1..Len(q) : q[i] = q[j] => i = j
    BY Members, Zenon
  <2>4. QED BY <2>2, <2>3
<1>3. Head(q) \in ToSet(q)
  BY <1>1, <1>2
<1>4. ToSet(r) \subseteq ToSet(q) \ {Head(q)}
  <2>1. ASSUME NEW n \in 1..Len(r) PROVE r[n] \in ToSet(q) /\ r[n] # Head(q)
    BY <1>1, <1>2
  <2>2. QED BY <2>1, <1>2
<1>5. ASSUME NEW x \in ToSet(q), x # Head(q) PROVE x \in ToSet(r)
  <2>1. PICK n \in 1..Len(q) : x = q[n]
    BY <1>2
  <2>2. n - 1 \in 1..Len(r) /\ r[n - 1] = x
    BY <2>1, <1>1, <1>5
  <2>3. QED BY <2>2, <1>2
<1>6. IsInjective(r)
  BY <1>1, <1>2
<1>7. ASSUME TaskBehind(q) PROVE TaskBehind(r)
  <2>1. \A i, j \in 1..Len(r) : i + 1 \in 1..Len(q) /\ j + 1 \in 1..Len(q) /\ (j + 1 < i + 1 <=> j < i)
    BY <1>1
  <2>2. QED BY <1>1, <1>7, <2>1 DEF TaskBehind
<1>8. ASSUME TaskBehind(q), Head(q) = Task PROVE ToSet(r) \cap Descriptors = {}
  <2>1. \A n \in 1..Len(r) : n + 1 \in 1..Len(q) /\ 1 \in 1..Len(q) /\ ~(n + 1 < 1)
    BY <1>1
  <2>2. \A n \in 1..Len(r) : r[n] \notin Descriptors
    BY <1>1, <1>8, <2>1 DEF TaskBehind
  <2>3. QED BY <2>2, <1>2
<1>9. QED BY <1>1, <1>3, <1>4, <1>5, <1>6, <1>7, <1>8 DEF r

LEMMA SetOfParts ==
  ASSUME NEW S, NEW w \in Seq(S), NEW n \in 0..Len(w), IsInjective(w)
  PROVE  LET later == SubSeq(w, n + 1, Len(w))  first == SubSeq(w, 2, n) IN
         /\ later \in Seq(S) /\ first \in Seq(S)
         /\ IsInjective(later) /\ IsInjective(first)
         /\ ToSet(later) \subseteq ToSet(w) /\ ToSet(first) \subseteq ToSet(w)
         /\ ToSet(later) \cap ToSet(first) = {}
         /\ n > 0 => /\ Head(w) \in S /\ Head(w) \in ToSet(w)
                     /\ Head(w) \notin ToSet(later) /\ Head(w) \notin ToSet(first)
<1> DEFINE later == SubSeq(w, n + 1, Len(w))  first == SubSeq(w, 2, n)
<1>1. Len(w) \in Nat /\ DOMAIN w = 1..Len(w) /\ \A i \in 1..Len(w) : w[i] \in S
  BY LenProperties, ElementOfSeq
<1>2. /\ later \in Seq(S) /\ Len(later) = Len(w) - n
      /\ \A i \in 1..Len(w) - n : later[i] = w[n + i]
  <2>1. n + 1 \in Int /\ Len(w) \in Int /\ \A i \in n + 1..Len(w) : w[i] \in S
    BY <1>1
  <2>2. /\ later \in Seq(S) /\ Len(later) = IF n + 1 <= Len(w) THEN Len(w) - (n + 1) + 1 ELSE 0
        /\ \A i \in 1..Len(w) - (n + 1) + 1 : later[i] = w[n + 1 + i - 1]
    BY <2>1, SubSeqProperties
  <2> HIDE DEF later
  <2>3. \A i \in 1..Len(w) - n : i \in 1..Len(w) - (n + 1) + 1 /\ n + 1 + i - 1 = n + i
    BY <1>1
  <2>4. Len(later) = Len(w) - n
    <3>1. \A k, l \in Nat : k \in 0..l => (IF k + 1 <= l THEN l - (k + 1) + 1 ELSE 0) = l - k
      OBVIOUS
    <3>2. n \in Nat /\ Len(w) \in Nat /\ n \in 0..Len(w)
      BY <1>1
    <3>3. QED BY <2>2, <3>1, <3>2
  <2>5. ASSUME NEW i \in 1..Len(w) - n PROVE later[i] = w[n + i]
    <3>1. i \in 1..Len(w) - (n + 1) + 1 /\ n + 1 + i - 1 = n + i
      BY <2>3
    <3>2. later[i] = w[n + 1 + i - 1]
      BY <3>1, <2>2
    <3>3. QED BY <3>1, <3>2
  <2>6. QED BY <2>2, <2>4, <2>5
<1>3. /\ first \in Seq(S) /\ Len(first) = IF 2 <= n THEN n - 1 ELSE 0
      /\ \A i \in 1..n - 1 : first[i] = w[i + 1]
  BY <1>1, SubSeqProperties
<1> HIDE DEF later, first
<1>4. /\ \A x : x \in ToSet(w) <=> \E i \in 1..Len(w) : w[i] = x
      /\ \A i, j \in 1..Len(w) : w[i] = w[j] => i = j
      /\ \A x : x \in ToSet(later) <=> \E i \in 1..Len(later) : later[i] = x
      /\ \A x : x \in ToSet(first) <=> \E i \in 1..Len(first) : first[i] = x
      /\ IsInjective(later) <=> \A i, j \in 1..Len(later) : later[i] = later[j] => i = j
      /\ IsInjective(first) <=> \A i, j \in 1..Len(first) : first[i] = first[j] => i = j
  <2>1. /\ \A x : x \in ToSet(w) <=> \E i \in 1..Len(w) : w[i] = x
        /\ \A i, j \in 1..Len(w) : w[i] = w[j] => i = j
    BY Members
  <2>2. /\ \A x : x \in ToSet(later) <=> \E i \in 1..Len(later) : later[i] = x
        /\ IsInjective(later) <=> \A i, j \in 1..Len(later) : later[i] = later[j] => i = j
    <3>1. later \in Seq(S)
      BY <1>2
    <3>2. QED BY <3>1, Members, Zenon
  <2>3. /\ \A x : x \in ToSet(first) <=> \E i \in 1..Len(first) : first[i] = x
        /\ IsInjective(first) <=> \A i, j \in 1..Len(first) : first[i] = first[j] => i = j
    <3>1. first \in Seq(S)
      BY <1>3
    <3>2. QED BY <3>1, Members, Zenon
  <2>4. QED BY <2>1, <2>2, <2>3
<1>a. \A i \in 1..Len(later) : n + i \in 1..Len(w) /\ later[i] = w[n + i]
  <2>1. \A i \in 1..Len(w) - n : n + i \in 1..Len(w)
    BY <1>1
  <2>2. QED BY <2>1, <1>2
<1>b. \A i \in 1..Len(first) : i + 1 \in 2..n /\ i + 1 \in 1..Len(w) /\ first[i] = w[i + 1]
  BY <1>1, <1>3
<1>5. IsInjective(later)
  <2>1. ASSUME NEW i \in 1..Len(later), NEW j \in 1..Len(later), later[i] = later[j] PROVE i = j
    <3>1. n + i \in 1..Len(w) /\ n + j \in 1..Len(w) /\ w[n + i] = w[n + j]
      BY <1>a, <2>1
    <3>2. n + i = n + j
      BY <3>1, <1>4
    <3>3. QED BY <3>2, <1>1
  <2>2. QED BY <1>4, <2>1
<1>6. IsInjective(first)
  <2>1. ASSUME NEW i \in 1..Len(first), NEW j \in 1..Len(first), first[i] = first[j] PROVE i = j
    <3>1. i + 1 \in 1..Len(w) /\ j + 1 \in 1..Len(w) /\ w[i + 1] = w[j + 1]
      BY <1>b, <2>1
    <3>2. i + 1 = j + 1
      BY <3>1, <1>4
    <3>3. QED BY <3>2
  <2>2. QED BY <1>4, <2>1
<1>7. ToSet(later) \subseteq ToSet(w) /\ ToSet(first) \subseteq ToSet(w)
  <2>1. ASSUME NEW i \in 1..Len(later) PROVE later[i] \in ToSet(w)
    BY <1>4, <1>a
  <2>2. ASSUME NEW i \in 1..Len(first) PROVE first[i] \in ToSet(w)
    BY <1>4, <1>b
  <2>3. QED BY <1>4, <2>1, <2>2, SMTT(30)
<1>8. ToSet(later) \cap ToSet(first) = {}
  <2>1. ASSUME NEW i \in 1..Len(later), NEW j \in 1..Len(first) PROVE later[i] # first[j]
    <3>1. n + i # j + 1
      BY <1>1, <1>2, <1>b
    <3>2. n + i \in 1..Len(w) /\ j + 1 \in 1..Len(w) /\ later[i] = w[n + i] /\ first[j] = w[j + 1]
      BY <1>a, <1>b
    <3>3. QED BY <3>1, <3>2, <1>4
  <2>2. QED BY <1>4, <2>1
<1>9. ASSUME n > 0
      PROVE  Head(w) \in S /\ Head(w) \in ToSet(w) /\ Head(w) \notin ToSet(later) /\ Head(w) \notin ToSet(first)
  <2>1. Head(w) = w[1] /\ 1 \in 1..Len(w)
    BY <1>1, <1>9
  <2>2. \A i \in 1..Len(later) : n + i # 1
    BY <1>2, <1>1, <1>9
  <2>3. \A i \in 1..Len(first) : i + 1 # 1
    BY <1>1, <1>3
  <2>4. QED BY <2>1, <2>2, <2>3, <1>1, <1>4, <1>a, <1>b, SMTT(30)
<1>10. QED BY <1>2, <1>3, <1>5, <1>6, <1>7, <1>8, <1>9 DEF later, first
-----------------------------------------------------------------------------
(* The invariant.                                                          *)

RTypes ==
    /\ queue \in Seq(Entries) /\ priv \in [Threads -> Seq(Ops \cup Descriptors)]
    /\ posting \in [Callers -> Seq(Ops)] /\ waiting \in [Descriptors -> Seq(Ops)]
    /\ pc \in [Threads -> Places] /\ hand \in [Threads -> Entries]
    /\ life \in [Ops -> {"new", "pending", "running", "done"}] /\ data \in [Descriptors -> Nat]

\* EnqueuedOnce, kind of list by kind of list.
Once ==
    /\ IsInjective(queue)
    /\ \A t \in Threads : IsInjective(priv[t]) /\ ToSet(priv[t]) \cap ToSet(queue) = {}
    /\ \A a \in Callers : IsInjective(posting[a]) /\ ToSet(posting[a]) \cap ToSet(queue) = {}
    /\ \A d \in Descriptors : IsInjective(waiting[d]) /\ ToSet(waiting[d]) \cap ToSet(queue) = {}
    /\ \A t, u \in Threads : t # u => ToSet(priv[t]) \cap ToSet(priv[u]) = {}
    /\ \A a, b \in Callers : a # b => ToSet(posting[a]) \cap ToSet(posting[b]) = {}
    /\ \A d, e \in Descriptors : d # e => ToSet(waiting[d]) \cap ToSet(waiting[e]) = {}
    /\ \A t \in Threads, a \in Callers : ToSet(priv[t]) \cap ToSet(posting[a]) = {}
    /\ \A t \in Threads, d \in Descriptors : ToSet(priv[t]) \cap ToSet(waiting[d]) = {}
    /\ \A a \in Callers, d \in Descriptors : ToSet(posting[a]) \cap ToSet(waiting[d]) = {}

\* An operation that is not pending is in no list.
PendingOnly ==
    \A p \in Ops : life[p] # "pending" =>
      /\ p \notin ToSet(queue)
      /\ \A t \in Threads : p \notin ToSet(priv[t])
      /\ \A a \in Callers : p \notin ToSet(posting[a])
      /\ \A d \in Descriptors : p \notin ToSet(waiting[d])

\* The task is in the queue, or else one thread has it.
OneRunner ==
    /\ \A t, u \in Threads : RunsReactor(t) /\ RunsReactor(u) => t = u
    /\ Task \in ToSet(queue) <=> \A t \in Threads : ~RunsReactor(t)

\* What the reactor reported is handled before the reactor runs again: while a
\* thread has the task no descriptor is queued, but those that thread is about
\* to return, and then the task goes behind them.
DescriptorsFirst ==
    /\ TaskBehind(queue)
    /\ (\E t \in Threads : RunsReactor(t)) => ToSet(queue) \cap Descriptors = {}
    /\ \A t \in Threads : pc[t] # "polled" => ToSet(priv[t]) \cap Descriptors = {}
    /\ \A t \in Threads : pc[t] \in {"poll", "block"} => priv[t] = <<>>

InHand ==
    \A t \in Threads :
      /\ pc[t] = "handler" => hand[t] \in Ops /\ life[hand[t]] \in {"running", "done"}
      /\ pc[t] \in {"perform", "cleanup"} => hand[t] \in Descriptors

RInv == RTypes /\ Once /\ PendingOnly /\ OneRunner /\ DescriptorsFirst /\ InHand

LEMMA Kinds == Task \notin Ops /\ Task \notin Descriptors /\ Ops \cap Descriptors = {} /\ Threads \subseteq Callers
  BY SchedulerParameters DEF Ops, Callers

LEMMA RInvEnqueuedOnce == RInv => EnqueuedOnce
<1> SUFFICES ASSUME RInv PROVE EnqueuedOnce
  OBVIOUS
<1> USE DEF RInv, Once
<1>1. ASSUME NEW l \in Lists
      PROVE  \/ l[1] = "queue" /\ l = <<"queue", Task>> /\ List(l) = queue
             \/ l[1] = "private" /\ l[2] \in Threads /\ l = <<"private", l[2]>> /\ List(l) = priv[l[2]]
             \/ l[1] = "posting" /\ l[2] \in Callers /\ l = <<"posting", l[2]>> /\ List(l) = posting[l[2]]
             \/ l[1] = "waiting" /\ l[2] \in Descriptors /\ l = <<"waiting", l[2]>> /\ List(l) = waiting[l[2]]
  BY DEF Lists, List
<1>2. \A l \in Lists : IsInjective(List(l))
  BY <1>1
<1>3. ASSUME NEW l \in Lists, NEW m \in Lists, l # m PROVE ToSet(List(l)) \cap ToSet(List(m)) = {}
  <2>1. CASE l[1] = "queue"
    BY <1>1, <1>3, <2>1
  <2>2. CASE l[1] = "private"
    BY <1>1, <1>3, <2>2
  <2>3. CASE l[1] = "posting"
    BY <1>1, <1>3, <2>3
  <2>4. CASE l[1] = "waiting"
    BY <1>1, <1>3, <2>4, ZenonT(30)
  <2>5. QED BY <1>1, <2>1, <2>2, <2>3, <2>4
<1>4. QED BY <1>2, <1>3 DEF EnqueuedOnce

LEMMA RInvOneReactor == RInv => OneReactor
<1> SUFFICES ASSUME RInv PROVE OneReactor
  OBVIOUS
<1>1. /\ \A i, j \in 1..Len(queue) : queue[i] = queue[j] => i = j
      /\ Task \in ToSet(queue) <=> InQueue(Task)
  BY Members DEF RInv, RTypes, Once, InQueue
<1>2. QED BY <1>1 DEF RInv, OneRunner, OneReactor

LEMMA InitRInv == Init => RInv
<1> SUFFICES ASSUME Init PROVE RInv
  OBVIOUS
<1>1. 1 \in Ops
  BY SchedulerParameters DEF Ops
<1>2. /\ queue = <<Task, 1>> /\ queue \in Seq(Entries) /\ Len(queue) = 2 /\ queue[1] = Task /\ queue[2] = 1
  BY <1>1 DEF Init, SchedulerInit, Entries
<1>3. ToSet(queue) = {Task, 1} /\ IsInjective(queue)
  <2>a. /\ \A x : x \in ToSet(queue) <=> \E i \in 1..Len(queue) : queue[i] = x
        /\ IsInjective(queue) <=> \A i, j \in 1..Len(queue) : queue[i] = queue[j] => i = j
    <3>1. queue \in Seq(Entries)
      BY <1>2
    <3>2. QED BY ONLY <3>1, Members
  <2>1. \A x : x \in ToSet(queue) <=> \E i \in 1..2 : queue[i] = x
    BY <1>2, <2>a
  <2>2. IsInjective(queue) <=> \A i, j \in 1..2 : queue[i] = queue[j] => i = j
    BY <1>2, <2>a
  <2>3. Task # 1
    BY <1>1, Kinds
  <2>4. \A i : i \in 1..2 <=> i = 1 \/ i = 2
    OBVIOUS
  <2>5. ToSet(queue) = {Task, 1}
    BY <1>2, <2>1, <2>4
  <2>6. IsInjective(queue)
    BY <1>2, <2>2, <2>3, <2>4
  <2>7. QED BY <2>5, <2>6
<1>4. TaskBehind(queue)
  <2>1. queue[1] \notin Descriptors /\ queue[2] \notin Descriptors
    BY <1>1, <1>2, Kinds
  <2>2. QED BY <1>2, <2>1 DEF TaskBehind
<1>5. /\ \A t \in Threads : priv[t] = <<>> /\ pc[t] = "outside"
      /\ \A a \in Callers : posting[a] = <<>>
      /\ \A d \in Descriptors : waiting[d] = <<>>
      /\ \A p \in Ops : life[p] = IF p = 1 THEN "pending" ELSE "new"
  BY DEF Init, SchedulerInit
<1>6. RTypes
  <2>1. /\ pc \in [Threads -> Places] /\ hand \in [Threads -> Entries]
        /\ data \in [Descriptors -> Nat]
    BY DEF Init, SchedulerInit, Places, Entries
  <2>2. life \in [Ops -> {"new", "pending", "running", "done"}]
    BY DEF Init, SchedulerInit
  <2>3. \A S : <<>> \in Seq(S)
    BY EmptySeq
  <2>4. /\ priv \in [Threads -> Seq(Ops \cup Descriptors)] /\ posting \in [Callers -> Seq(Ops)]
        /\ waiting \in [Descriptors -> Seq(Ops)]
    BY <2>3 DEF Init, SchedulerInit
  <2>5. QED BY <1>2, <2>1, <2>2, <2>4 DEF RTypes
<1>7. Once
  BY <1>3, <1>5, SetOfEmpty DEF Once
<1>8. PendingOnly
  BY <1>3, <1>5, SetOfEmpty, Kinds DEF PendingOnly
<1>9. OneRunner
  BY <1>3, <1>5 DEF OneRunner, RunsReactor
<1>10. DescriptorsFirst
  BY <1>4, <1>5, SetOfEmpty DEF DescriptorsFirst, RunsReactor
<1>11. InHand
  BY <1>5 DEF InHand
<1>12. QED BY <1>6, <1>7, <1>8, <1>9, <1>10, <1>11 DEF RInv

-----------------------------------------------------------------------------
(* A thread that has the mutex.                                            *)

LEMMA LockedQueue ==
  ASSUME RInv, NEW t \in Threads, Locks(t)
  PROVE  /\ Queued(t) \in Seq(Entries) /\ IsInjective(Queued(t)) /\ TaskBehind(Queued(t))
         /\ ToSet(Queued(t)) = ToSet(queue) \cup ToSet(priv[t]) \cup (IF pc[t] = "polled" THEN {Task} ELSE {})
         /\ Task \in ToSet(Queued(t)) <=> \A u \in Threads : u # t => ~RunsReactor(u)
         /\ (\E u \in Threads : u # t /\ RunsReactor(u)) => ToSet(Queued(t)) \cap Descriptors = {}
<1> DEFINE b == queue \o priv[t]
<1>1. /\ queue \in Seq(Entries) /\ priv[t] \in Seq(Ops \cup Descriptors) /\ priv[t] \in Seq(Entries)
      /\ IsInjective(queue) /\ IsInjective(priv[t]) /\ ToSet(queue) \cap ToSet(priv[t]) = {}
      /\ TaskBehind(queue)
  BY SeqMonotonic DEF RInv, RTypes, Once, DescriptorsFirst, Entries
<1>2. Task \notin ToSet(priv[t])
  BY <1>1, Members, Kinds
<1>3. /\ b \in Seq(Entries) /\ ToSet(b) = ToSet(queue) \cup ToSet(priv[t]) /\ IsInjective(b)
      /\ ToSet(priv[t]) \cap Descriptors = {} => TaskBehind(b)
      /\ b \o <<>> = b
  BY <1>1, <1>2, SetOfConcat, ConcatEmptySeq
<1> HIDE DEF b
<1>4. CASE pc[t] = "polled"
  <2>1. RunsReactor(t) /\ (\A u \in Threads : RunsReactor(u) => u = t) /\ Task \notin ToSet(queue)
    BY <1>4 DEF RInv, OneRunner, RunsReactor
  <2>2. Queued(t) = b \o <<Task>> /\ Task \notin ToSet(b)
    BY <1>2, <1>3, <1>4, <2>1 DEF Queued, b
  <2> DEFINE k == <<Task>>
  <2>3. k \in Seq(Entries) /\ ToSet(k) = {Task} /\ IsInjective(k)
    BY SetOfSingle DEF Entries
  <2>4. b \in Seq(Entries) /\ ToSet(b) \cap {Task} = {}
    BY <1>3, <2>2
  <2>5. TaskBehind(b \o <<Task>>)
    BY <2>2, <2>4, SetOfConcat, Kinds
  <2> HIDE DEF k
  <2>6. /\ b \o k \in Seq(Entries) /\ ToSet(b \o k) = ToSet(b) \cup ToSet(k)
        /\ IsInjective(b) /\ IsInjective(k) /\ ToSet(b) \cap ToSet(k) = {} => IsInjective(b \o k)
    BY <2>3, <2>4, SetOfConcat
  <2>7. Queued(t) = b \o k
    BY <2>2 DEF k
  <2>8. IsInjective(Queued(t)) /\ TaskBehind(Queued(t))
    BY <1>3, <2>2, <2>3, <2>4, <2>5, <2>6, <2>7
  <2>9. QED BY <1>3, <1>4, <2>1, <2>3, <2>6, <2>7, <2>8
<1>5. CASE pc[t] # "polled"
  <2>1. ~RunsReactor(t)
    BY <1>5 DEF Locks, RunsReactor
  <2>2. ToSet(priv[t]) \cap Descriptors = {}
    BY <1>5 DEF RInv, DescriptorsFirst
  <2>3. Queued(t) = b
    BY <1>3, <1>5 DEF Queued, b
  <2>4. Task \in ToSet(b) <=> \A u \in Threads : u # t => ~RunsReactor(u)
    BY <1>2, <1>3, <2>1 DEF RInv, OneRunner
  <2>5. (\E u \in Threads : u # t /\ RunsReactor(u)) => ToSet(b) \cap Descriptors = {}
    BY <1>3, <2>2 DEF RInv, DescriptorsFirst
  <2>6. QED BY <1>3, <1>5, <2>2, <2>3, <2>4, <2>5
<1>6. QED BY <1>4, <1>5

\* What is taken from the private queue and the queue under the mutex is in no
\* other list.
LEMMA OnceLocked ==
  ASSUME RInv, NEW t \in Threads, Locks(t), queue' \in Seq(Entries), IsInjective(queue'),
         ToSet(queue') \subseteq ToSet(Queued(t)), priv' = [priv EXCEPT ![t] = <<>>],
         UNCHANGED <<posting, waiting>>
  PROVE  /\ Once' /\ priv' \in [Threads -> Seq(Ops \cup Descriptors)] /\ priv'[t] = <<>>
         /\ ToSet(priv'[t]) = {} /\ \A u \in Threads : u # t => priv'[u] = priv[u]
<1>1. ToSet(queue') \subseteq ToSet(queue) \cup ToSet(priv[t]) \cup {Task}
  BY LockedQueue
<1>2. /\ priv' \in [Threads -> Seq(Ops \cup Descriptors)] /\ priv'[t] = <<>> /\ ToSet(priv'[t]) = {}
      /\ IsInjective(priv'[t]) /\ \A u \in Threads : u # t => priv'[u] = priv[u]
  BY EmptySeq, SetOfEmpty DEF RInv, RTypes
<1>3. /\ \A u \in Threads : Task \notin ToSet(priv[u])
      /\ \A a \in Callers : Task \notin ToSet(posting[a])
      /\ \A d \in Descriptors : Task \notin ToSet(waiting[d])
  <2>1. \A u \in Threads : priv[u] \in Seq(Ops \cup Descriptors)
    BY DEF RInv, RTypes
  <2>2. \A a \in Callers : posting[a] \in Seq(Ops)
    BY DEF RInv, RTypes
  <2>3. \A d \in Descriptors : waiting[d] \in Seq(Ops)
    BY DEF RInv, RTypes
  <2>4. QED BY <2>1, <2>2, <2>3, Members, Kinds
<1>4. /\ \A u \in Threads : IsInjective(priv'[u]) /\ ToSet(priv'[u]) \cap ToSet(queue') = {}
      /\ \A u, v \in Threads : u # v => ToSet(priv'[u]) \cap ToSet(priv'[v]) = {}
  BY <1>1, <1>2, <1>3 DEF RInv, Once
<1>5. /\ \A a \in Callers : ToSet(posting[a]) \cap ToSet(queue') = {}
      /\ \A u \in Threads, a \in Callers : ToSet(priv'[u]) \cap ToSet(posting[a]) = {}
  BY <1>1, <1>2, <1>3 DEF RInv, Once
<1>6. /\ \A d \in Descriptors : ToSet(waiting[d]) \cap ToSet(queue') = {}
      /\ \A u \in Threads, d \in Descriptors : ToSet(priv'[u]) \cap ToSet(waiting[d]) = {}
  BY <1>1, <1>2, <1>3 DEF RInv, Once
<1>7. /\ \A a \in Callers : IsInjective(posting[a])
      /\ \A d \in Descriptors : IsInjective(waiting[d])
      /\ \A a, b \in Callers : a # b => ToSet(posting[a]) \cap ToSet(posting[b]) = {}
      /\ \A d, e \in Descriptors : d # e => ToSet(waiting[d]) \cap ToSet(waiting[e]) = {}
      /\ \A a \in Callers, d \in Descriptors : ToSet(posting[a]) \cap ToSet(waiting[d]) = {}
  BY DEF RInv, Once
<1>8. Once'
  BY <1>4, <1>5, <1>6, <1>7 DEF Once
<1>9. QED BY <1>2, <1>8

LEMMA PendingLocked ==
  ASSUME RInv, NEW t \in Threads, Locks(t), queue' \in Seq(Entries),
         ToSet(queue') \subseteq ToSet(Queued(t)), priv' = [priv EXCEPT ![t] = <<>>],
         UNCHANGED <<posting, waiting>>
  PROVE  \A p \in Ops :
           life[p] # "pending" => /\ p \notin ToSet(queue')
                                  /\ \A u \in Threads : p \notin ToSet(priv'[u])
                                  /\ \A a \in Callers : p \notin ToSet(posting'[a])
                                  /\ \A d \in Descriptors : p \notin ToSet(waiting'[d])
<1>1. ToSet(queue') \subseteq ToSet(queue) \cup ToSet(priv[t]) \cup {Task}
  BY LockedQueue
<1>2. ToSet(priv'[t]) = {} /\ \A u \in Threads : u # t => priv'[u] = priv[u]
  BY SetOfEmpty DEF RInv, RTypes
<1>3. QED BY <1>1, <1>2, Kinds DEF RInv, PendingOnly

LEMMA LeaveRInv ==
  ASSUME RInv, NEW t \in Threads, Leave(t), UNCHANGED reactor PROVE RInv'
<1>1. /\ Locks(t) /\ queue' = Queued(t) /\ priv' = [priv EXCEPT ![t] = <<>>]
      /\ pc' = [pc EXCEPT ![t] = "returned"]
      /\ UNCHANGED <<hand, posting, life, waiting, data>>
  BY DEF Leave, reactor, kernel
<1>2. queue' \in Seq(Entries) /\ IsInjective(queue') /\ TaskBehind(queue')
  BY <1>1, LockedQueue
<1>3. /\ Once' /\ priv' \in [Threads -> Seq(Ops \cup Descriptors)] /\ priv'[t] = <<>>
      /\ ToSet(priv'[t]) = {} /\ \A u \in Threads : u # t => priv'[u] = priv[u]
  BY <1>1, <1>2, OnceLocked
<1>4. /\ pc' \in [Threads -> Places] /\ pc'[t] = "returned"
      /\ \A u \in Threads : u # t => pc'[u] = pc[u]
  BY <1>1 DEF RInv, RTypes, Places
<1>5. RTypes'
  BY <1>1, <1>2, <1>3, <1>4 DEF RInv, RTypes
<1>6. PendingOnly'
  BY <1>1, <1>2, PendingLocked DEF PendingOnly
<1>7. OneRunner'
  BY <1>1, <1>4, LockedQueue DEF RInv, OneRunner, RunsReactor
<1>8. DescriptorsFirst'
  BY <1>1, <1>2, <1>3, <1>4, LockedQueue DEF RInv, DescriptorsFirst, RunsReactor
<1>9. InHand'
  BY <1>1, <1>4 DEF RInv, InHand
<1>10. QED BY <1>3, <1>5, <1>6, <1>7, <1>8, <1>9 DEF RInv

LEMMA TakeTaskRInv ==
  ASSUME RInv, NEW t \in Threads, TakeTask(t), UNCHANGED reactor PROVE RInv'
<1> DEFINE q == Queued(t)
<1>1. /\ Locks(t) /\ q # <<>> /\ Head(q) = Task /\ queue' = Tail(q)
      /\ priv' = [priv EXCEPT ![t] = <<>>]
      /\ pc' = [pc EXCEPT ![t] = IF Tail(q) # <<>> THEN "poll" ELSE "block"]
      /\ UNCHANGED <<hand, posting, life, waiting, data>>
  BY DEF TakeTask, reactor, kernel
<1>2. /\ q \in Seq(Entries) /\ IsInjective(q) /\ TaskBehind(q)
      /\ Task \in ToSet(q) <=> \A u \in Threads : u # t => ~RunsReactor(u)
  BY <1>1, LockedQueue
<1> HIDE DEF q
<1>3. /\ queue' \in Seq(Entries) /\ IsInjective(queue') /\ TaskBehind(queue')
      /\ Task \in ToSet(q) /\ ToSet(queue') = ToSet(q) \ {Task} /\ ToSet(queue') \cap Descriptors = {}
  BY <1>1, <1>2, SetOfTail
<1>4. ToSet(queue') \subseteq ToSet(Queued(t))
  BY <1>3 DEF q
<1>5. /\ Once' /\ priv' \in [Threads -> Seq(Ops \cup Descriptors)] /\ priv'[t] = <<>>
      /\ ToSet(priv'[t]) = {} /\ \A u \in Threads : u # t => priv'[u] = priv[u]
  BY <1>1, <1>3, <1>4, OnceLocked
<1>6. /\ pc' \in [Threads -> Places] /\ pc'[t] \in {"poll", "block"}
      /\ \A u \in Threads : u # t => pc'[u] = pc[u]
  BY <1>1 DEF RInv, RTypes, Places
<1>7. RTypes'
  BY <1>1, <1>3, <1>5, <1>6 DEF RInv, RTypes
<1>8. PendingOnly'
  BY <1>1, <1>3, <1>4, PendingLocked DEF PendingOnly
<1>9. \A u \in Threads : RunsReactor(u)' <=> u = t
  BY <1>2, <1>3, <1>6 DEF RunsReactor
<1>10. OneRunner'
  BY <1>3, <1>9 DEF OneRunner
<1>11. DescriptorsFirst'
  BY <1>3, <1>5, <1>6 DEF RInv, DescriptorsFirst
<1>12. InHand'
  BY <1>1, <1>6 DEF RInv, InHand
<1>13. QED BY <1>5, <1>7, <1>8, <1>10, <1>11, <1>12 DEF RInv

LEMMA TakeOpRInv ==
  ASSUME RInv, NEW t \in Threads, TakeOp(t), UNCHANGED reactor PROVE RInv'
<1> DEFINE q == Queued(t)
<1>1. /\ Locks(t) /\ q # <<>> /\ Head(q) # Task /\ queue' = Tail(q)
      /\ priv' = [priv EXCEPT ![t] = <<>>] /\ hand' = [hand EXCEPT ![t] = Head(q)]
      /\ UNCHANGED <<posting, waiting, data>>
      /\ \/ /\ Head(q) \in Ops /\ pc' = [pc EXCEPT ![t] = "handler"]
            /\ life' = [life EXCEPT ![Head(q)] = "running"]
         \/ Head(q) \notin Ops /\ pc' = [pc EXCEPT ![t] = "perform"] /\ UNCHANGED life
  BY DEF TakeOp, reactor, kernel
<1>2. /\ q \in Seq(Entries) /\ IsInjective(q) /\ TaskBehind(q)
      /\ Task \in ToSet(q) <=> \A u \in Threads : u # t => ~RunsReactor(u)
      /\ (\E u \in Threads : u # t /\ RunsReactor(u)) => ToSet(q) \cap Descriptors = {}
      /\ ToSet(q) \subseteq ToSet(queue) \cup ToSet(priv[t]) \cup {Task}
  BY <1>1, LockedQueue
<1> HIDE DEF q
<1>3. /\ Head(q) \in Entries /\ Head(q) \in ToSet(q) /\ queue' \in Seq(Entries) /\ IsInjective(queue')
      /\ ToSet(queue') = ToSet(q) \ {Head(q)} /\ TaskBehind(queue')
  BY <1>1, <1>2, SetOfTail
<1>4. ToSet(queue') \subseteq ToSet(Queued(t))
  BY <1>3 DEF q
<1>5. /\ Once' /\ priv' \in [Threads -> Seq(Ops \cup Descriptors)] /\ priv'[t] = <<>>
      /\ ToSet(priv'[t]) = {} /\ \A u \in Threads : u # t => priv'[u] = priv[u]
  BY <1>1, <1>3, <1>4, OnceLocked
<1>6. /\ pc' \in [Threads -> Places] /\ pc'[t] \in {"handler", "perform"}
      /\ \A u \in Threads : u # t => pc'[u] = pc[u]
  BY <1>1 DEF RInv, RTypes, Places
<1>7. /\ hand' \in [Threads -> Entries] /\ hand'[t] = Head(q)
      /\ \A u \in Threads : u # t => hand'[u] = hand[u]
  BY <1>1, <1>3 DEF RInv, RTypes
<1>8. /\ life' \in [Ops -> {"new", "pending", "running", "done"}]
      /\ \A p \in Ops : p # Head(q) => life'[p] = life[p]
      /\ Head(q) \in Ops => life'[Head(q)] = "running"
  BY <1>1 DEF RInv, RTypes
<1>9. RTypes'
  BY <1>1, <1>3, <1>5, <1>6, <1>7, <1>8 DEF RInv, RTypes
<1>10. PendingOnly'
  <2>1. ASSUME NEW p \in Ops, p # Head(q), life'[p] # "pending"
        PROVE  /\ p \notin ToSet(queue') /\ \A u \in Threads : p \notin ToSet(priv'[u])
               /\ \A a \in Callers : p \notin ToSet(posting'[a])
               /\ \A d \in Descriptors : p \notin ToSet(waiting'[d])
    BY <1>1, <1>3, <1>4, <1>8, <2>1, PendingLocked
  <2>2. ASSUME Head(q) \in Ops
        PROVE  /\ Head(q) \notin ToSet(queue') /\ \A u \in Threads : Head(q) \notin ToSet(priv'[u])
               /\ \A a \in Callers : Head(q) \notin ToSet(posting'[a])
               /\ \A d \in Descriptors : Head(q) \notin ToSet(waiting'[d])
    <3>1. Head(q) \in ToSet(queue) \/ Head(q) \in ToSet(priv[t])
      BY <1>1, <1>2, <1>3
    <3>2. \A u \in Threads : u # t => Head(q) \notin ToSet(priv[u])
      BY <3>1 DEF RInv, Once
    <3>3. /\ \A a \in Callers : Head(q) \notin ToSet(posting[a])
          /\ \A d \in Descriptors : Head(q) \notin ToSet(waiting[d])
      BY <3>1 DEF RInv, Once
    <3>4. QED BY <3>2, <3>3, <1>1, <1>3, <1>5
  <2>3. QED BY <2>1, <2>2 DEF PendingOnly
<1>11. \A u \in Threads : RunsReactor(u)' <=> u # t /\ RunsReactor(u)
  BY <1>6 DEF RunsReactor
<1>12. OneRunner'
  <2>1. Task \in ToSet(queue') <=> \A u \in Threads : ~RunsReactor(u)'
    BY <1>1, <1>2, <1>3, <1>11
  <2>2. QED BY <2>1, <1>11 DEF RInv, OneRunner
<1>13. DescriptorsFirst'
  BY <1>2, <1>3, <1>5, <1>6, <1>11 DEF RInv, DescriptorsFirst
<1>14. InHand'
  <2>1. Head(q) \in Ops \/ Head(q) \in Descriptors
    BY <1>1, <1>3 DEF Entries
  <2>2. pc'[t] = "handler" => Head(q) \in Ops /\ life'[Head(q)] = "running"
    BY <1>1, <1>6, <1>8 DEF RInv, RTypes
  <2>3. pc'[t] \in {"perform", "cleanup"} => Head(q) \in Descriptors
    BY <1>1, <1>6, <2>1 DEF RInv, RTypes
  <2>4. ASSUME NEW u \in Threads, u # t
        PROVE  /\ pc'[u] = "handler" => hand'[u] \in Ops /\ life'[hand'[u]] \in {"running", "done"}
               /\ pc'[u] \in {"perform", "cleanup"} => hand'[u] \in Descriptors
    BY <1>6, <1>7, <1>8, <2>4 DEF RInv, InHand
  <2>5. QED BY <1>7, <2>2, <2>3, <2>4 DEF InHand
<1>15. QED BY <1>5, <1>9, <1>10, <1>12, <1>13, <1>14 DEF RInv

-----------------------------------------------------------------------------
(* Steps that leave the lists alone.                                       *)

LEMMA Quiet ==
  ASSUME RInv, UNCHANGED <<queue, priv, posting, waiting, hand>>,
         pc' \in [Threads -> Places], data' \in [Descriptors -> Nat],
         life' \in [Ops -> {"new", "pending", "running", "done"}],
         \A t \in Threads :
           \/ pc'[t] = pc[t] \/ (pc[t] = "perform" /\ pc'[t] = "cleanup")
           \/ ~RunsReactor(t) /\ pc'[t] \in {"loop", "stop", "waiting", "woken"},
         \A p \in Ops : life'[p] = life[p] \/ (life[p] \in {"running", "done"} /\ life'[p] = "done")
  PROVE  RInv'
<1>1. RTypes'
  BY DEF RInv, RTypes
<1>2. Once'
  BY DEF RInv, Once
<1>3. PendingOnly'
  BY DEF RInv, PendingOnly
<1>4. \A t \in Threads :
        /\ RunsReactor(t)' <=> RunsReactor(t)
        /\ pc'[t] = "polled" <=> pc[t] = "polled"
        /\ pc'[t] \in {"poll", "block"} <=> pc[t] \in {"poll", "block"}
        /\ pc'[t] = "handler" => pc[t] = "handler"
        /\ pc'[t] \in {"perform", "cleanup"} => pc[t] \in {"perform", "cleanup"}
  BY DEF RunsReactor
<1>5. OneRunner'
  BY <1>4 DEF RInv, OneRunner, RunsReactor
<1>6. DescriptorsFirst'
  BY <1>4 DEF RInv, DescriptorsFirst, RunsReactor
<1>7. InHand'
  <2>1. ASSUME NEW t \in Threads, pc'[t] = "handler"
        PROVE  hand[t] \in Ops /\ life'[hand[t]] \in {"running", "done"}
    BY <2>1, <1>4 DEF RInv, InHand
  <2>2. ASSUME NEW t \in Threads, pc'[t] \in {"perform", "cleanup"} PROVE hand[t] \in Descriptors
    BY <2>2, <1>4 DEF RInv, InHand
  <2>3. QED BY <2>1, <2>2 DEF InHand
<1>8. QED BY <1>1, <1>2, <1>3, <1>5, <1>6, <1>7 DEF RInv

\* A thread's own steps that take nothing from the queue, signals, stop().
LEMMA RunQuiet ==
  ASSUME RInv, NEW t \in Threads, UNCHANGED reactor,
         EnterRun(t) \/ Sleep(t) \/ SleepAgain(t) \/ Finish(t) \/ StopIdle(t) \/ SpuriousWakeup(t)
  PROVE  RInv'
<1> USE DEF reactor, kernel, RunsReactor, Places, local, task, event
<1>t. /\ pc \in [Threads -> Places] /\ hand \in [Threads -> Entries]
      /\ life \in [Ops -> {"new", "pending", "running", "done"}] /\ data \in [Descriptors -> Nat]
  BY DEF RInv, RTypes
<1>1. CASE EnterRun(t)
  BY <1>t, <1>1, Quiet DEF EnterRun
<1>2. CASE Sleep(t)
  <2>1. pc[t] # "polled"
    <3>1. Task \in ToSet(Queued(t)) \/ pc[t] # "polled"
      BY <1>2, LockedQueue DEF Sleep
    <3>2. QED BY <3>1, <1>2, SetOfEmpty DEF Sleep
  <2>2. ~RunsReactor(t)
    BY <2>1, <1>2 DEF Sleep, Locks
  <2>3. QED BY <1>t, <1>2, <2>2, Quiet DEF Sleep
<1>3. CASE SleepAgain(t)
  BY <1>t, <1>3, Quiet DEF SleepAgain
<1>4. CASE Finish(t)
  <2>1. pc[t] \in {"handler", "cleanup"} /\ pc' = [pc EXCEPT ![t] = IF privWork[t] = 0 /\ work' = 0 THEN "stop" ELSE "loop"]
        /\ UNCHANGED <<queue, priv, posting, waiting, hand, data>>
        /\ life' = IF hand[t] \in Ops THEN [life EXCEPT ![hand[t]] = "done"] ELSE life
    BY <1>4 DEF Finish
  <2>2. \A p \in Ops : life'[p] = life[p] \/ (life[p] \in {"running", "done"} /\ life'[p] = "done")
    <3>1. hand[t] \in Ops => life[hand[t]] \in {"running", "done"}
      BY <2>1, Kinds DEF RInv, InHand
    <3>2. QED BY <1>t, <2>1, <3>1
  <2>3. life' \in [Ops -> {"new", "pending", "running", "done"}]
    BY <1>t, <2>1
  <2>4. pc' \in [Threads -> Places] /\ \A u \in Threads :
          pc'[u] = pc[u] \/ (~RunsReactor(u) /\ pc'[u] \in {"loop", "stop", "waiting", "woken"})
    BY <1>t, <2>1
  <2>5. QED BY <1>t, <2>1, <2>2, <2>3, <2>4, Quiet
<1>5. CASE StopIdle(t)
  BY <1>t, <1>5, Quiet DEF StopIdle, StopAll
<1>6. CASE SpuriousWakeup(t)
  BY <1>t, <1>6, Quiet DEF SpuriousWakeup
<1>7. QED BY <1>1, <1>2, <1>3, <1>4, <1>5, <1>6

LEMMA OtherQuiet ==
  ASSUME RInv, NEW a, NEW d,
         \/ (Signal(a) \/ Stop(a)) /\ UNCHANGED reactor
         \/ d \in Descriptors /\ (Reuse(a, d) \/ Arrive(d))
  PROVE  RInv'
<1> USE DEF reactor, kernel, RunsReactor, Places
<1>t. /\ pc \in [Threads -> Places] /\ hand \in [Threads -> Entries]
      /\ life \in [Ops -> {"new", "pending", "running", "done"}] /\ data \in [Descriptors -> Nat]
  BY DEF RInv, RTypes
<1>1. CASE Signal(a) /\ UNCHANGED reactor
  BY <1>t, <1>1, Quiet DEF Signal
<1>2. CASE Stop(a) /\ UNCHANGED reactor
  BY <1>t, <1>2, Quiet DEF Stop, StopAll
<1>3. CASE d \in Descriptors /\ Reuse(a, d)
  BY <1>t, <1>3, Quiet DEF Reuse, schedule, local
<1>4. CASE d \in Descriptors /\ Arrive(d)
  <2>1. data' \in [Descriptors -> Nat]
    BY <1>t, <1>4 DEF Arrive
  <2>2. QED BY <1>t, <1>4, <2>1, Quiet DEF Arrive, schedule, local
<1>5. QED BY <1>1, <1>2, <1>3, <1>4

\* Reads that complete take what is there.
LEMMA PerformTypes ==
  ASSUME NEW m \in Nat, data \in [Descriptors -> 0..m], NEW d \in Descriptors, NEW n \in Nat, Perform(d, n)
  PROVE  /\ data' \in [Descriptors -> 0..m]
         /\ speculate \in [Descriptors -> BOOLEAN] => speculate' \in [Descriptors -> BOOLEAN]
<1>1. data[d] \in 0..m
  OBVIOUS
<1>2. (IF n <= data[d] THEN data[d] - n ELSE 0) \in 0..m
  BY <1>1
<1>3. data' = [data EXCEPT ![d] = IF n <= data[d] THEN data[d] - n ELSE 0]
  BY DEF Perform
<1>4. data' \in [Descriptors -> 0..m]
  BY <1>2, <1>3
<1>5. QED BY <1>4 DEF Perform

LEMMA PerformData ==
  ASSUME RInv, NEW d \in Descriptors, NEW n \in Nat, Perform(d, n)
  PROVE  data' \in [Descriptors -> Nat] /\ Readable(d) \in Nat
<1>1. data \in [Descriptors -> Nat] /\ data[d] \in Nat
  BY DEF RInv, RTypes
<1>2. (IF n <= data[d] THEN data[d] - n ELSE 0) \in Nat
  BY <1>1
<1>3. data' = [data EXCEPT ![d] = IF n <= data[d] THEN data[d] - n ELSE 0]
  BY DEF Perform
<1>4. data' \in [Descriptors -> Nat]
  BY <1>1, <1>2, <1>3
<1>5. QED BY <1>1, <1>4 DEF Readable

-----------------------------------------------------------------------------
(* Steps that move operations from list to list.                           *)

LEMMA SetOfAppend ==
  ASSUME NEW S, NEW q \in Seq(S), NEW x \in S, x \notin ToSet(q), IsInjective(q)
  PROVE  Append(q, x) \in Seq(S) /\ ToSet(Append(q, x)) = ToSet(q) \cup {x} /\ IsInjective(Append(q, x))
<1> DEFINE r == <<x>>
<1>1. r \in Seq(S) /\ ToSet(r) = {x} /\ IsInjective(r) /\ Append(q, x) = q \o r
  BY SetOfSingle, AppendIsConcat
<1> HIDE DEF r
<1>2. /\ q \o r \in Seq(S) /\ ToSet(q \o r) = ToSet(q) \cup ToSet(r)
      /\ IsInjective(q) /\ IsInjective(r) /\ ToSet(q) \cap ToSet(r) = {} => IsInjective(q \o r)
  BY <1>1, SetOfConcat
<1>3. QED BY <1>1, <1>2

LEMMA FreshIsNowhere ==
  ASSUME RInv, NEW p \in Fresh
  PROVE  /\ p \in Ops /\ life[p] = "new" /\ p \notin ToSet(queue)
         /\ \A t \in Threads : p \notin ToSet(priv[t])
         /\ \A a \in Callers : p \notin ToSet(posting[a])
         /\ \A d \in Descriptors : p \notin ToSet(waiting[d])
  BY DEF Fresh, RInv, PendingOnly

LEMMA Moved ==
  ASSUME RInv, RTypes', Once', PendingOnly', UNCHANGED <<pc, hand>>,
         \A p \in Ops : life[p] # "new" => life'[p] = life[p],
         TaskBehind(queue'),
         Task \in ToSet(queue') <=> Task \in ToSet(queue),
         ToSet(queue') \cap Descriptors = ToSet(queue) \cap Descriptors,
         \A t \in Threads :
           priv'[t] = priv[t] \/ (pc[t] = "handler" /\ ToSet(priv'[t]) \cap Descriptors = {})
  PROVE  RInv'
<1>1. \A t \in Threads : RunsReactor(t)' <=> RunsReactor(t)
  BY DEF RunsReactor
<1>2. OneRunner'
  BY <1>1 DEF RInv, OneRunner, RunsReactor
<1>3. DescriptorsFirst'
  BY <1>1 DEF RInv, DescriptorsFirst, RunsReactor
<1>4. InHand'
  BY DEF RInv, InHand
<1>5. QED BY <1>2, <1>3, <1>4 DEF RInv

LEMMA NewInPosting ==
  ASSUME RInv, NEW a \in Callers, NEW p \in Fresh, posting[a] = <<>>,
         posting' = [posting EXCEPT ![a] = <<p>>], life' = [life EXCEPT ![p] = "pending"],
         UNCHANGED <<queue, priv, waiting, pc, hand>>, data' \in [Descriptors -> Nat]
  PROVE  RInv'
<1> DEFINE n == <<p>>
<1>1. n \in Seq(Ops) /\ ToSet(n) = {p} /\ IsInjective(n) /\ posting' = [posting EXCEPT ![a] = n]
  BY FreshIsNowhere, SetOfSingle
<1> HIDE DEF n
<1>2. /\ posting' \in [Callers -> Seq(Ops)] /\ ToSet(posting'[a]) = {p} /\ IsInjective(posting'[a])
      /\ \A b \in Callers : b # a => posting'[b] = posting[b]
  BY <1>1 DEF RInv, RTypes
<1>3. RTypes'
  BY <1>2 DEF RInv, RTypes
<1>4. Once'
  <2>1. /\ p \notin ToSet(queue) /\ \A v \in Threads : p \notin ToSet(priv[v])
        /\ \A b \in Callers : p \notin ToSet(posting[b])
        /\ \A e \in Descriptors : p \notin ToSet(waiting[e])
    BY FreshIsNowhere
  <2>2. \A b \in Callers : IsInjective(posting'[b]) /\ ToSet(posting'[b]) \cap ToSet(queue) = {}
    BY <1>2, <2>1 DEF RInv, Once
  <2>3. \A b, c \in Callers : b # c => ToSet(posting'[b]) \cap ToSet(posting'[c]) = {}
    BY <1>2, <2>1 DEF RInv, Once
  <2>4. /\ \A t \in Threads, b \in Callers : ToSet(priv[t]) \cap ToSet(posting'[b]) = {}
        /\ \A b \in Callers, e \in Descriptors : ToSet(posting'[b]) \cap ToSet(waiting[e]) = {}
    BY <1>2, <2>1 DEF RInv, Once
  <2>5. QED BY <2>2, <2>3, <2>4 DEF RInv, Once
<1>5. PendingOnly'
  BY <1>2 DEF RInv, RTypes, PendingOnly
<1>6. QED BY <1>3, <1>4, <1>5, Moved, FreshIsNowhere DEF RInv, RTypes, DescriptorsFirst

LEMMA NewInWaiting ==
  ASSUME RInv, NEW d \in Descriptors, NEW p \in Fresh,
         waiting' = [waiting EXCEPT ![d] = Append(@, p)], life' = [life EXCEPT ![p] = "pending"],
         UNCHANGED <<queue, priv, posting, pc, hand>>, data' \in [Descriptors -> Nat]
  PROVE  RInv'
<1> DEFINE n == Append(waiting[d], p)
<1>1. waiting[d] \in Seq(Ops) /\ IsInjective(waiting[d]) /\ p \in Ops /\ p \notin ToSet(waiting[d])
  BY FreshIsNowhere DEF RInv, RTypes, Once
<1>2. n \in Seq(Ops) /\ ToSet(n) = ToSet(waiting[d]) \cup {p} /\ IsInjective(n)
  BY <1>1, SetOfAppend
<1>3. waiting' = [waiting EXCEPT ![d] = n]
  OBVIOUS
<1> HIDE DEF n
<1>4. /\ waiting' \in [Descriptors -> Seq(Ops)] /\ ToSet(waiting'[d]) = ToSet(waiting[d]) \cup {p}
      /\ IsInjective(waiting'[d]) /\ \A e \in Descriptors : e # d => waiting'[e] = waiting[e]
  BY <1>2, <1>3 DEF RInv, RTypes
<1>5. RTypes'
  BY <1>4 DEF RInv, RTypes
<1>6. Once'
  <2>1. /\ p \notin ToSet(queue) /\ \A v \in Threads : p \notin ToSet(priv[v])
        /\ \A b \in Callers : p \notin ToSet(posting[b])
        /\ \A e \in Descriptors : p \notin ToSet(waiting[e])
    BY FreshIsNowhere
  <2>2. \A e \in Descriptors : IsInjective(waiting'[e]) /\ ToSet(waiting'[e]) \cap ToSet(queue) = {}
    BY <1>4, <2>1 DEF RInv, Once
  <2>3. \A e, f \in Descriptors : e # f => ToSet(waiting'[e]) \cap ToSet(waiting'[f]) = {}
    BY <1>4, <2>1 DEF RInv, Once
  <2>4. /\ \A t \in Threads, e \in Descriptors : ToSet(priv[t]) \cap ToSet(waiting'[e]) = {}
        /\ \A b \in Callers, e \in Descriptors : ToSet(posting[b]) \cap ToSet(waiting'[e]) = {}
    BY <1>4, <2>1 DEF RInv, Once
  <2>5. QED BY <2>2, <2>3, <2>4 DEF RInv, Once
<1>7. PendingOnly'
  BY <1>4 DEF RInv, RTypes, PendingOnly
<1>8. QED BY <1>5, <1>6, <1>7, Moved, FreshIsNowhere DEF RInv, RTypes, DescriptorsFirst

LEMMA WaitingToPosting ==
  ASSUME RInv, NEW a \in Callers, NEW d \in Descriptors, posting[a] = <<>>,
         posting' = [posting EXCEPT ![a] = waiting[d]], waiting' = [waiting EXCEPT ![d] = <<>>],
         UNCHANGED <<queue, priv, pc, hand, life>>, data' \in [Descriptors -> Nat]
  PROVE  RInv'
<1>1. /\ posting' \in [Callers -> Seq(Ops)] /\ posting'[a] = waiting[d]
      /\ \A b \in Callers : b # a => posting'[b] = posting[b]
  BY DEF RInv, RTypes
<1>2. /\ waiting' \in [Descriptors -> Seq(Ops)] /\ ToSet(waiting'[d]) = {} /\ IsInjective(waiting'[d])
      /\ \A e \in Descriptors : e # d => waiting'[e] = waiting[e]
  BY EmptySeq, SetOfEmpty DEF RInv, RTypes
<1>3. RTypes'
  BY <1>1, <1>2 DEF RInv, RTypes
<1>4. Once'
  <2>1. \A b \in Callers : IsInjective(posting'[b]) /\ ToSet(posting'[b]) \cap ToSet(queue) = {}
    BY <1>1 DEF RInv, Once
  <2>2. \A e \in Descriptors : IsInjective(waiting'[e]) /\ ToSet(waiting'[e]) \cap ToSet(queue) = {}
    BY <1>2 DEF RInv, Once
  <2>3. \A b, c \in Callers : b # c => ToSet(posting'[b]) \cap ToSet(posting'[c]) = {}
    BY <1>1 DEF RInv, Once
  <2>4. \A e, f \in Descriptors : e # f => ToSet(waiting'[e]) \cap ToSet(waiting'[f]) = {}
    BY <1>2 DEF RInv, Once
  <2>5. /\ \A t \in Threads, b \in Callers : ToSet(priv[t]) \cap ToSet(posting'[b]) = {}
        /\ \A t \in Threads, e \in Descriptors : ToSet(priv[t]) \cap ToSet(waiting'[e]) = {}
    BY <1>1, <1>2 DEF RInv, Once
  <2>6. ASSUME NEW b \in Callers, NEW e \in Descriptors
        PROVE  ToSet(posting'[b]) \cap ToSet(waiting'[e]) = {}
    <3>1. CASE e = d
      BY <1>2, <3>1
    <3>2. CASE e # d
      BY <1>1, <1>2, <3>2 DEF RInv, Once
    <3>3. QED BY <3>1, <3>2
  <2>7. /\ IsInjective(queue)
        /\ \A t \in Threads : IsInjective(priv[t]) /\ ToSet(priv[t]) \cap ToSet(queue) = {}
        /\ \A t, u \in Threads : t # u => ToSet(priv[t]) \cap ToSet(priv[u]) = {}
    BY DEF RInv, Once
  <2>8. QED BY <2>1, <2>2, <2>3, <2>4, <2>5, <2>6, <2>7 DEF Once
<1>5. PendingOnly'
  BY <1>1, <1>2 DEF RInv, PendingOnly
<1>6. QED BY <1>3, <1>4, <1>5, Moved DEF RInv, RTypes, DescriptorsFirst

LEMMA PushRInv ==
  ASSUME RInv, NEW a \in Callers, Push(a), UNCHANGED reactor PROVE RInv'
<1>1. /\ queue' = queue \o posting[a] /\ posting' = [posting EXCEPT ![a] = <<>>]
      /\ UNCHANGED <<priv, waiting, pc, hand, life, data>>
  BY DEF Push, reactor, kernel, local
<1>2. /\ queue \in Seq(Entries) /\ posting[a] \in Seq(Ops) /\ posting[a] \in Seq(Entries)
      /\ IsInjective(queue) /\ IsInjective(posting[a]) /\ ToSet(queue) \cap ToSet(posting[a]) = {}
      /\ TaskBehind(queue)
  BY SeqMonotonic DEF RInv, RTypes, Once, DescriptorsFirst, Entries
<1>3. ToSet(posting[a]) \subseteq Ops
  BY <1>2, Members
<1>4. Task \notin ToSet(posting[a]) /\ ToSet(posting[a]) \cap Descriptors = {}
  BY <1>3, Kinds
<1>5. /\ queue' \in Seq(Entries) /\ ToSet(queue') = ToSet(queue) \cup ToSet(posting[a])
      /\ IsInjective(queue') /\ TaskBehind(queue')
  BY <1>1, <1>2, <1>4, SetOfConcat
<1>6. /\ posting' \in [Callers -> Seq(Ops)] /\ ToSet(posting'[a]) = {} /\ IsInjective(posting'[a])
      /\ \A b \in Callers : b # a => posting'[b] = posting[b]
  BY <1>1, EmptySeq, SetOfEmpty DEF RInv, RTypes
<1>7. RTypes'
  BY <1>1, <1>5, <1>6 DEF RInv, RTypes
<1>8. Once'
  <2>1. /\ \A t \in Threads : ToSet(priv[t]) \cap ToSet(queue') = {}
        /\ \A e \in Descriptors : ToSet(waiting[e]) \cap ToSet(queue') = {}
    BY <1>5 DEF RInv, Once
  <2>2. \A b \in Callers : IsInjective(posting'[b]) /\ ToSet(posting'[b]) \cap ToSet(queue') = {}
    BY <1>5, <1>6 DEF RInv, Once
  <2>3. \A b, c \in Callers : b # c => ToSet(posting'[b]) \cap ToSet(posting'[c]) = {}
    BY <1>6 DEF RInv, Once
  <2>4. /\ \A t \in Threads, b \in Callers : ToSet(priv[t]) \cap ToSet(posting'[b]) = {}
        /\ \A b \in Callers, e \in Descriptors : ToSet(posting'[b]) \cap ToSet(waiting[e]) = {}
    BY <1>6 DEF RInv, Once
  <2>5. /\ \A t \in Threads : IsInjective(priv[t])
        /\ \A e \in Descriptors : IsInjective(waiting[e])
        /\ \A t, u \in Threads : t # u => ToSet(priv[t]) \cap ToSet(priv[u]) = {}
        /\ \A d, e \in Descriptors : d # e => ToSet(waiting[d]) \cap ToSet(waiting[e]) = {}
        /\ \A t \in Threads, e \in Descriptors : ToSet(priv[t]) \cap ToSet(waiting[e]) = {}
    BY DEF RInv, Once
  <2>6. QED BY <1>1, <1>5, <2>1, <2>2, <2>3, <2>4, <2>5 DEF Once
<1>9. PendingOnly'
  BY <1>1, <1>5, <1>6 DEF RInv, PendingOnly
<1>10. QED BY <1>1, <1>4, <1>5, <1>7, <1>8, <1>9, Moved

LEMMA PostContinuationRInv ==
  ASSUME RInv, NEW t \in Threads, PostContinuation(t), UNCHANGED waiting, data' \in [Descriptors -> Nat]
  PROVE  RInv'
<1>1. PICK p \in Fresh : /\ priv' = [priv EXCEPT ![t] = Append(@, p)]
                         /\ life' = [life EXCEPT ![p] = "pending"]
  BY DEF PostContinuation
<1>2. pc[t] = "handler" /\ UNCHANGED <<queue, posting, waiting, pc, hand>>
  BY DEF PostContinuation, MayCall
<1> DEFINE n == Append(priv[t], p)
<1>3. /\ priv[t] \in Seq(Ops \cup Descriptors) /\ IsInjective(priv[t])
      /\ p \in Ops /\ p \in Ops \cup Descriptors /\ p \notin ToSet(priv[t])
  BY FreshIsNowhere DEF RInv, RTypes, Once
<1>4. n \in Seq(Ops \cup Descriptors) /\ ToSet(n) = ToSet(priv[t]) \cup {p} /\ IsInjective(n)
  BY <1>3, SetOfAppend
<1>5. priv' = [priv EXCEPT ![t] = n]
  BY <1>1
<1> HIDE DEF n
<1>6. /\ priv' \in [Threads -> Seq(Ops \cup Descriptors)] /\ ToSet(priv'[t]) = ToSet(priv[t]) \cup {p}
      /\ IsInjective(priv'[t]) /\ \A u \in Threads : u # t => priv'[u] = priv[u]
  BY <1>4, <1>5 DEF RInv, RTypes
<1>7. RTypes'
  BY <1>1, <1>2, <1>3, <1>6 DEF RInv, RTypes
<1>8. Once'
  <2>1. /\ p \notin ToSet(queue) /\ \A v \in Threads : p \notin ToSet(priv[v])
        /\ \A b \in Callers : p \notin ToSet(posting[b])
        /\ \A e \in Descriptors : p \notin ToSet(waiting[e])
    BY FreshIsNowhere
  <2>2. \A u \in Threads : IsInjective(priv'[u]) /\ ToSet(priv'[u]) \cap ToSet(queue) = {}
    BY <1>6, <2>1 DEF RInv, Once
  <2>a. /\ \A u, v \in Threads : u # v => ToSet(priv[u]) \cap ToSet(priv[v]) = {}
        /\ \A u \in Threads, b \in Callers : ToSet(priv[u]) \cap ToSet(posting[b]) = {}
        /\ \A u \in Threads, e \in Descriptors : ToSet(priv[u]) \cap ToSet(waiting[e]) = {}
    BY DEF RInv, Once
  <2>b. \A u \in Threads : ToSet(priv'[u]) = IF u = t THEN ToSet(priv[t]) \cup {p} ELSE ToSet(priv[u])
    BY <1>6
  <2>3. ASSUME NEW u \in Threads, NEW v \in Threads, u # v PROVE ToSet(priv'[u]) \cap ToSet(priv'[v]) = {}
    BY <2>1, <2>3, <2>a, <2>b
  <2>4. /\ \A u \in Threads, b \in Callers : ToSet(priv'[u]) \cap ToSet(posting[b]) = {}
        /\ \A u \in Threads, e \in Descriptors : ToSet(priv'[u]) \cap ToSet(waiting[e]) = {}
    BY <2>1, <2>a, <2>b
  <2>5. QED BY <1>2, <2>2, <2>3, <2>4 DEF RInv, Once
<1>9. PendingOnly'
  BY <1>1, <1>2, <1>6 DEF RInv, RTypes, PendingOnly
<1>10. ToSet(priv'[t]) \cap Descriptors = {}
  BY <1>2, <1>3, <1>6, Kinds DEF RInv, DescriptorsFirst
<1>11. \A q \in Ops : life[q] # "new" => life'[q] = life[q]
  BY <1>1, <1>3, FreshIsNowhere DEF RInv, RTypes
<1>12. QED BY <1>2, <1>6, <1>7, <1>8, <1>9, <1>10, <1>11, Moved DEF RInv, DescriptorsFirst

LEMMA CallRInv ==
  ASSUME RInv, NEW a \in Callers, NEW d,
         \/ Post(a) /\ UNCHANGED reactor
         \/ d \in Descriptors /\ (StartNow(a, d) \/ StartWait(a, d) \/ CancelOps(a, d) \/ Close(a, d))
  PROVE  RInv'
<1>1. data \in [Descriptors -> Nat]
  BY DEF RInv, RTypes
<1>2. ASSUME Post(a), UNCHANGED waiting, data' \in [Descriptors -> Nat] PROVE RInv'
  <2>1. PICK p \in Fresh : /\ posting' = [posting EXCEPT ![a] = <<p>>]
                           /\ life' = [life EXCEPT ![p] = "pending"]
    BY <1>2 DEF Post
  <2>2. posting[a] = <<>> /\ UNCHANGED <<queue, priv, pc, hand>>
    BY <1>2 DEF Post, MayCall, Free, local
  <2>3. QED BY <1>2, <2>1, <2>2, NewInPosting
<1>3. CASE d \in Descriptors /\ StartNow(a, d)
  <2>1. /\ Post(a) \/ (a \in Threads /\ PostContinuation(a))
        /\ UNCHANGED data \/ Perform(d, 1)
        /\ UNCHANGED waiting
    BY <1>3 DEF StartNow
  <2>2. data' \in [Descriptors -> Nat]
    BY <1>1, <1>3, <2>1, PerformData
  <2>3. QED BY <1>2, <2>1, <2>2, PostContinuationRInv
<1>a. CASE d \in Descriptors /\ StartWait(a, d)
  <2>1. PICK p \in Fresh : /\ waiting' = [waiting EXCEPT ![d] = Append(@, p)]
                           /\ life' = [life EXCEPT ![p] = "pending"]
    BY <1>a DEF StartWait
  <2>2. UNCHANGED <<queue, priv, posting, pc, hand, data>>
    BY <1>a DEF StartWait, local, kernel
  <2>3. QED BY <1>1, <1>a, <2>1, <2>2, NewInWaiting
<1>4. CASE d \in Descriptors /\ CancelOps(a, d)
  BY <1>1, <1>4, WaitingToPosting DEF CancelOps, MayCall, Free, local, kernel
<1>5. CASE d \in Descriptors /\ Close(a, d)
  <2>1. data' \in [Descriptors -> Nat]
    BY <1>1, <1>5 DEF Close
  <2>2. QED BY <1>1, <1>5, <2>1, WaitingToPosting DEF Close, MayCall, Free, local
<1>6. QED BY <1>1, <1>2, <1>3, <1>a, <1>4, <1>5 DEF reactor, kernel

-----------------------------------------------------------------------------
(* The reactor.                                                            *)

LEMMA PollRInv ==
  ASSUME RInv, NEW t \in Threads, Poll(t) PROVE RInv'
<1> DEFINE D == {d \in Descriptors : edge[d]}
<1>1. PICK s \in SetToSeqs(D) : priv' = [priv EXCEPT ![t] = s]
  BY DEF Poll
<1>2. /\ pc[t] \in {"poll", "block"} /\ pc' = [pc EXCEPT ![t] = "polled"]
      /\ UNCHANGED <<queue, posting, waiting, hand, life, data>>
  BY DEF Poll
<1>3. s \in Seq(Ops \cup Descriptors) /\ IsInjective(s) /\ ToSet(s) \subseteq Descriptors
  <2>1. Cardinality(D) \in Nat
    <3>1. D \subseteq Descriptors
      OBVIOUS
    <3>2. QED BY <3>1, FS_Subset, FS_CardinalityType, SchedulerParameters
  <2>2. /\ s \in [1..Cardinality(D) -> D]
        /\ \A i, j \in 1..Cardinality(D) : i # j => s[i] # s[j]
    BY DEF SetToSeqs
  <2> HIDE DEF D
  <2>3. s \in Seq(D) /\ Len(s) = Cardinality(D)
    BY <2>1, <2>2
  <2>4. D \subseteq Descriptors /\ s \in Seq(Ops \cup Descriptors)
    BY <2>3, SeqMonotonic DEF D
  <2>5. \A i, j \in 1..Len(s) : s[i] = s[j] => i = j
    BY <2>2, <2>3
  <2>6. QED BY <2>3, <2>4, <2>5, Members
<1>4. /\ RunsReactor(t) /\ \A u \in Threads : RunsReactor(u) => u = t
      /\ ToSet(queue) \cap Descriptors = {} /\ Task \notin ToSet(queue)
      /\ \A u \in Threads : u # t => ToSet(priv[u]) \cap Descriptors = {}
  BY <1>2 DEF RInv, OneRunner, DescriptorsFirst, RunsReactor
<1>5. /\ priv' \in [Threads -> Seq(Ops \cup Descriptors)] /\ priv'[t] = s
      /\ \A u \in Threads : u # t => priv'[u] = priv[u]
      /\ pc' \in [Threads -> Places] /\ pc'[t] = "polled" /\ \A u \in Threads : u # t => pc'[u] = pc[u]
  BY <1>1, <1>2, <1>3 DEF RInv, RTypes, Places
<1>6. RTypes'
  BY <1>2, <1>5 DEF RInv, RTypes
<1>7. /\ \A a \in Callers : ToSet(posting[a]) \cap Descriptors = {}
      /\ \A d \in Descriptors : ToSet(waiting[d]) \cap Descriptors = {}
  <2>1. \A a \in Callers : posting[a] \in Seq(Ops)
    BY DEF RInv, RTypes
  <2>2. \A d \in Descriptors : waiting[d] \in Seq(Ops)
    BY DEF RInv, RTypes
  <2>3. QED BY <2>1, <2>2, Members, Kinds
<1>8. Once'
  <2>1. /\ \A u \in Threads : IsInjective(priv'[u]) /\ ToSet(priv'[u]) \cap ToSet(queue) = {}
        /\ \A u, v \in Threads : u # v => ToSet(priv'[u]) \cap ToSet(priv'[v]) = {}
    <3>1. ASSUME NEW u \in Threads PROVE IsInjective(priv'[u]) /\ ToSet(priv'[u]) \cap ToSet(queue) = {}
      <4>1. CASE u = t
        BY <1>3, <1>4, <1>5, <4>1
      <4>2. CASE u # t
        BY <1>5, <4>2 DEF RInv, Once
      <4>3. QED BY <4>1, <4>2
    <3>2. ASSUME NEW u \in Threads, NEW v \in Threads, u # v
          PROVE  ToSet(priv'[u]) \cap ToSet(priv'[v]) = {}
      <4>1. \A x \in Threads : x # t => ToSet(priv[x]) \cap ToSet(s) = {}
        BY <1>3, <1>4, <1>5 DEF RInv, Once
      <4>2. CASE u = t \/ v = t
        BY <1>5, <3>2, <4>1, <4>2
      <4>3. CASE u # t /\ v # t
        BY <1>5, <3>2, <4>3 DEF RInv, Once
      <4>4. QED BY <4>2, <4>3
    <3>3. QED BY <3>1, <3>2
  <2>2. /\ \A u \in Threads, a \in Callers : ToSet(priv'[u]) \cap ToSet(posting[a]) = {}
        /\ \A u \in Threads, d \in Descriptors : ToSet(priv'[u]) \cap ToSet(waiting[d]) = {}
    BY <1>3, <1>5, <1>7 DEF RInv, Once
  <2>3. QED BY <1>2, <2>1, <2>2 DEF RInv, Once
<1>9. PendingOnly'
  BY <1>2, <1>3, <1>5, Kinds DEF RInv, PendingOnly
<1>10. OneRunner'
  BY <1>2, <1>4, <1>5 DEF RInv, OneRunner, RunsReactor
<1>11. DescriptorsFirst'
  BY <1>2, <1>4, <1>5 DEF RInv, DescriptorsFirst, RunsReactor
<1>12. InHand'
  BY <1>2, <1>5 DEF RInv, InHand
<1>13. QED BY <1>6, <1>8, <1>9, <1>10, <1>11, <1>12 DEF RInv

LEMMA PerformIoRInv ==
  ASSUME RInv, NEW t \in Threads, PerformIo(t) PROVE RInv'
<1> DEFINE d == hand[t]
           w == waiting[d]
           n == IF Readable(d) < Len(w) THEN Readable(d) ELSE Len(w)
<1>1. /\ pc[t] = "perform" /\ posting[t] = <<>> /\ t \in Callers /\ UNCHANGED <<queue, priv>>
      /\ Perform(d, n) /\ waiting' = [waiting EXCEPT ![d] = SubSeq(@, n + 1, Len(@))]
      /\ n = 0 => pc' = [pc EXCEPT ![t] = "cleanup"] /\ UNCHANGED <<hand, posting, life>>
      /\ n # 0 => /\ pc' = [pc EXCEPT ![t] = "handler"] /\ hand' = [hand EXCEPT ![t] = Head(w)]
                  /\ life' = [life EXCEPT ![Head(w)] = "running"]
                  /\ posting' = [posting EXCEPT ![t] = SubSeq(w, 2, n)]
  BY Kinds DEF PerformIo, Free
<1>2. d \in Descriptors
  BY <1>1 DEF RInv, InHand
<1>3. w \in Seq(Ops) /\ data[d] \in Nat /\ Len(w) \in Nat /\ IsInjective(w)
  BY <1>2, LenProperties DEF RInv, RTypes, Once
<1>4. n \in 0..Len(w) /\ n \in Nat
  BY <1>3 DEF Readable
<1>5. data' \in [Descriptors -> Nat]
  <2> HIDE DEF n, d
  <2>1. QED BY <1>1, <1>2, <1>4, PerformData
<1> DEFINE later == SubSeq(w, n + 1, Len(w))
           first == SubSeq(w, 2, n)
<1>6. waiting' = [waiting EXCEPT ![d] = later]
  BY <1>1
<1> HIDE DEF n
<1>7. /\ later \in Seq(Ops) /\ first \in Seq(Ops) /\ IsInjective(later) /\ IsInjective(first)
      /\ ToSet(later) \subseteq ToSet(w) /\ ToSet(first) \subseteq ToSet(w)
      /\ ToSet(later) \cap ToSet(first) = {}
      /\ n > 0 => /\ Head(w) \in Ops /\ Head(w) \in ToSet(w)
                  /\ Head(w) \notin ToSet(later) /\ Head(w) \notin ToSet(first)
  BY <1>3, <1>4, SetOfParts
<1>8. CASE n = 0
  <2>1. SubSeq(w, 1, Len(w)) = w
    BY <1>3, SubSeqFull
  <2>2. later = w
    BY <2>1, <1>8
  <2>3. waiting' = waiting
    BY <1>6, <2>2, <1>2 DEF RInv, RTypes
  <2>4. QED BY <1>1, <1>5, <1>8, <2>3, Quiet DEF RInv, RTypes, Places
<1>9. CASE n # 0
  <2> DEFINE h == Head(w)
  <2>1. /\ h \in Ops /\ h \in ToSet(w) /\ h \notin ToSet(later) /\ h \notin ToSet(first)
    BY <1>4, <1>7, <1>9
  <2>2. /\ pc' = [pc EXCEPT ![t] = "handler"] /\ hand' = [hand EXCEPT ![t] = h]
        /\ life' = [life EXCEPT ![h] = "running"] /\ posting' = [posting EXCEPT ![t] = first]
    BY <1>1, <1>9
  <2>w. /\ ToSet(w) \cap ToSet(queue) = {} /\ \A u \in Threads : ToSet(priv[u]) \cap ToSet(w) = {}
        /\ \A a \in Callers : ToSet(posting[a]) \cap ToSet(w) = {}
        /\ \A e \in Descriptors : e # d => ToSet(waiting[e]) \cap ToSet(w) = {}
    BY <1>2 DEF RInv, Once
  <2>m. \A p \in ToSet(w) : p \in Ops
    BY <1>3, Members
  <2>3. /\ waiting' \in [Descriptors -> Seq(Ops)] /\ waiting'[d] = later
        /\ \A e \in Descriptors : e # d => waiting'[e] = waiting[e]
    BY <1>2, <1>6, <1>7 DEF RInv, RTypes
  <2> HIDE DEF later, first, w, h, d
  <2>4. /\ posting' \in [Callers -> Seq(Ops)] /\ posting'[t] = first
        /\ \A a \in Callers : a # t => posting'[a] = posting[a]
    BY <1>1, <1>7, <2>2 DEF RInv, RTypes
  <2>5. /\ pc' \in [Threads -> Places] /\ pc'[t] = "handler" /\ \A u \in Threads : u # t => pc'[u] = pc[u]
        /\ hand' \in [Threads -> Entries] /\ hand'[t] = h /\ \A u \in Threads : u # t => hand'[u] = hand[u]
    BY <2>1, <2>2 DEF RInv, RTypes, Places, Entries
  <2>6. /\ life' \in [Ops -> {"new", "pending", "running", "done"}] /\ life'[h] = "running"
        /\ \A p \in Ops : p # h => life'[p] = life[p]
    BY <2>1, <2>2 DEF RInv, RTypes
  <2>7. RTypes'
    BY <1>1, <1>5, <2>3, <2>4, <2>5, <2>6 DEF RInv, RTypes
  <2>8. Once'
    <3>1. /\ \A a \in Callers : IsInjective(posting'[a]) /\ ToSet(posting'[a]) \cap ToSet(queue) = {}
          /\ \A a, b \in Callers : a # b => ToSet(posting'[a]) \cap ToSet(posting'[b]) = {}
          /\ \A u \in Threads, a \in Callers : ToSet(priv[u]) \cap ToSet(posting'[a]) = {}
      BY <1>7, <2>w, <2>4 DEF RInv, Once
    <3>2. /\ \A e \in Descriptors : IsInjective(waiting'[e]) /\ ToSet(waiting'[e]) \cap ToSet(queue) = {}
          /\ \A e, f \in Descriptors : e # f => ToSet(waiting'[e]) \cap ToSet(waiting'[f]) = {}
          /\ \A u \in Threads, e \in Descriptors : ToSet(priv[u]) \cap ToSet(waiting'[e]) = {}
      <4>1. \A e \in Descriptors : IsInjective(waiting'[e]) /\ ToSet(waiting'[e]) \cap ToSet(queue) = {}
        BY <1>7, <2>w, <2>3 DEF RInv, Once
      <4>2. \A e, f \in Descriptors : e # f => ToSet(waiting'[e]) \cap ToSet(waiting'[f]) = {}
        BY <1>7, <2>w, <2>3 DEF RInv, Once
      <4>3. \A u \in Threads, e \in Descriptors : ToSet(priv[u]) \cap ToSet(waiting'[e]) = {}
        BY <1>7, <2>w, <2>3 DEF RInv, Once
      <4>4. QED BY <4>1, <4>2, <4>3
    <3>3. \A a \in Callers, e \in Descriptors : ToSet(posting'[a]) \cap ToSet(waiting'[e]) = {}
      BY <1>7, <2>w, <2>3, <2>4 DEF RInv, Once
    <3>4. QED BY <1>1, <3>1, <3>2, <3>3 DEF RInv, Once
  <2>9. PendingOnly'
    <3>1. ASSUME NEW p \in Ops, life'[p] # "pending"
          PROVE  /\ p \notin ToSet(queue) /\ \A u \in Threads : p \notin ToSet(priv[u])
                 /\ \A a \in Callers : p \notin ToSet(posting'[a])
                 /\ \A e \in Descriptors : p \notin ToSet(waiting'[e])
      <4>1. CASE p = h
        BY <4>1, <1>7, <2>1, <2>w, <2>3, <2>4
      <4>2. CASE p # h
        <5>1. life[p] # "pending"
          BY <3>1, <4>2, <2>6
        <5>2. p \notin ToSet(w)
          BY <5>1, <1>2 DEF RInv, PendingOnly, w
        <5>3. QED BY <5>1, <5>2, <1>7, <2>3, <2>4 DEF RInv, PendingOnly
      <4>3. QED BY <4>1, <4>2
    <3>2. QED BY <1>1, <3>1 DEF PendingOnly
  <2>10. \A u \in Threads : RunsReactor(u)' <=> RunsReactor(u)
    BY <1>1, <2>5 DEF RunsReactor
  <2>11. OneRunner'
    BY <1>1, <2>10 DEF RInv, OneRunner, RunsReactor
  <2>12. DescriptorsFirst'
    BY <1>1, <2>5, <2>10 DEF RInv, DescriptorsFirst, RunsReactor
  <2>13. InHand'
    BY <2>1, <2>5, <2>6 DEF RInv, InHand
  <2>14. QED BY <2>7, <2>8, <2>9, <2>11, <2>12, <2>13 DEF RInv
<1>10. QED BY <1>8, <1>9

-----------------------------------------------------------------------------
LEMMA NextRInv == RInv /\ [Next]_vars => RInv'
<1> SUFFICES ASSUME RInv, [Next]_vars PROVE RInv'
  OBVIOUS
<1>1. ASSUME NEW t \in Threads, Thread(t) PROVE RInv'
  BY <1>1, RunQuiet, LeaveRInv, TakeTaskRInv, TakeOpRInv, PollRInv, PerformIoRInv DEF Thread, RunStep
<1>2. ASSUME NEW t \in Threads, Continue(t) PROVE RInv'
  BY <1>2, PostContinuationRInv DEF Continue, reactor, kernel, RInv, RTypes
<1>3. ASSUME NEW a \in Callers, Caller(a) \/ AnyCaller(a) PROVE RInv'
  BY <1>3, OtherQuiet, PushRInv, CallRInv DEF Caller, AnyCaller, CallerStep
<1>4. CASE Kernel
  BY <1>4, OtherQuiet, RunQuiet DEF Kernel
<1>5. CASE UNCHANGED vars
  <2>1. UNCHANGED <<queue, priv, posting, waiting, pc, hand, life, data>>
    BY <1>5 DEF vars, schedule, reactor, kernel, local
  <2>2. QED BY <2>1, Quiet DEF RInv, RTypes
<1>6. QED BY <1>1, <1>2, <1>3, <1>4, <1>5 DEF Next

LEMMA SpecRInv == Spec => []RInv
  BY InitRInv, NextRInv, PTL DEF Spec

\* The reactor has one runner: however threads take, return and interrupt the
\* task (do_run_one, task_cleanup), it is in the queue once, or one thread has it.
THEOREM ReactorHasOneRunner == Spec => []OneReactor
  BY SpecRInv, RInvOneReactor, PTL

\* Nothing is ever linked into two of the intrusive lists, or twice into one:
\* the queue, the private queues of the threads, what a call is about to push
\* and what waits at a descriptor, through cancel, close and reuse.
THEOREM NothingLinkedTwice == Spec => []EnqueuedOnce
  BY SpecRInv, RInvEnqueuedOnce, PTL
-----------------------------------------------------------------------------
(* The count of work.                                                      *)

\* Operations a running handler has started on its own thread: they are in its
\* private count, outstanding_work_ does not know them yet.
Kept == {p \in Ops : \E t \in Threads : pc[t] = "handler" /\ p \in ToSet(priv[t])}
Counted == Unfinished \ Kept

\* The private count of a thread.
PrivateCounts ==
    \A t \in Threads :
      /\ pc[t] = "handler" => privWork[t] = Len(priv[t])
      /\ pc[t] = "cleanup" => privWork[t] = 1
      /\ pc[t] \notin {"handler", "cleanup"} => privWork[t] = 0
      /\ pc[t] = "perform" => priv[t] = <<>>

\* A handler runs on one thread.
OwnHands ==
    /\ \A t \in Threads : pc[t] = "handler" => life[hand[t]] = "running"
    /\ \A t, u \in Threads : pc[t] = "handler" /\ pc[u] = "handler" /\ hand[t] = hand[u] => t = u

WInv ==
    /\ privWork \in [Threads -> Nat] /\ PrivateCounts /\ OwnHands
    /\ work = Cardinality(Counted)

LEMMA FiniteOps == IsFiniteSet(Ops) /\ \A S \in SUBSET Ops : IsFiniteSet(S) /\ Cardinality(S) \in Nat
<1>1. IsFiniteSet(Ops)
  BY FS_Interval, SchedulerParameters DEF Ops
<1>2. QED BY <1>1, FS_Subset, FS_CardinalityType

LEMMA InitWInv == Init => WInv
<1> SUFFICES ASSUME Init PROVE WInv
  OBVIOUS
<1>1. \A t \in Threads : pc[t] = "outside" /\ privWork[t] = 0
  BY DEF Init, SchedulerInit
<1>2. 1 \in Ops
  BY SchedulerParameters DEF Ops
<1>3. Counted = {1} /\ work = 1
  BY <1>1, <1>2 DEF Init, SchedulerInit, Counted, Kept, Unfinished
<1>4. work = Cardinality(Counted)
  BY <1>3, FS_Singleton
<1>5. privWork \in [Threads -> Nat]
  BY DEF Init, SchedulerInit
<1>6. QED BY <1>1, <1>4, <1>5 DEF WInv, PrivateCounts, OwnHands

\* A step in which no operation begins or ends and no handler runs on a thread
\* that changes its place.
LEMMA SameWork ==
  ASSUME WInv, UNCHANGED <<work, privWork, life>>,
         \A t \in Threads :
           \/ pc'[t] = pc[t] /\ priv'[t] = priv[t] /\ hand'[t] = hand[t]
           \/ /\ pc[t] \notin {"handler", "cleanup"} /\ pc'[t] \notin {"handler", "cleanup"}
              /\ pc'[t] = "perform" => priv'[t] = <<>>
  PROVE  WInv'
<1>1. Kept' = Kept /\ Unfinished' = Unfinished
  BY DEF Kept, Unfinished
<1>2. PrivateCounts'
  BY DEF WInv, PrivateCounts
<1>3. OwnHands'
  BY DEF WInv, OwnHands
<1>4. QED BY <1>1, <1>2, <1>3 DEF WInv, Counted

\* A thread begins to run operation p.
LEMMA Begins ==
  ASSUME RInv, WInv, NEW t \in Threads, NEW p \in Ops, life[p] = "pending",
         pc[t] \notin {"handler", "cleanup"}, pc' = [pc EXCEPT ![t] = "handler"],
         hand' = [hand EXCEPT ![t] = p], life' = [life EXCEPT ![p] = "running"],
         priv'[t] = <<>>, \A u \in Threads : u # t => priv'[u] = priv[u],
         UNCHANGED <<work, privWork>>
  PROVE  WInv'
<1>1. /\ pc'[t] = "handler" /\ \A u \in Threads : u # t => pc'[u] = pc[u]
      /\ hand'[t] = p /\ \A u \in Threads : u # t => hand'[u] = hand[u]
      /\ life'[p] = "running" /\ \A q \in Ops : q # p => life'[q] = life[q]
  BY DEF RInv, RTypes
<1>2. Kept' = Kept
  BY <1>1, SetOfEmpty DEF Kept
<1>3. Unfinished' = Unfinished
  BY <1>1 DEF Unfinished
<1>4. PrivateCounts'
  <2>1. privWork[t] = 0 /\ Len(priv'[t]) = 0
    BY DEF WInv, PrivateCounts
  <2>2. QED BY <1>1, <2>1 DEF WInv, PrivateCounts
<1>5. OwnHands'
  <2>1. \A u \in Threads : pc[u] = "handler" => hand[u] \in Ops /\ life[hand[u]] = "running" /\ hand[u] # p
    BY DEF WInv, OwnHands, RInv, InHand
  <2>2. QED BY <1>1, <2>1 DEF WInv, OwnHands
<1>6. QED BY <1>2, <1>3, <1>4, <1>5 DEF WInv, Counted

\* An operation is handed over, and counted in outstanding_work_.
LEMMA Submits ==
  ASSUME RInv, WInv, NEW p \in Fresh, work' = work + 1,
         life' = [life EXCEPT ![p] = "pending"], UNCHANGED <<pc, hand, priv, privWork>>
  PROVE  WInv'
<1>1. /\ p \in Ops /\ life[p] = "new" /\ p \notin Kept
      /\ life'[p] = "pending" /\ \A q \in Ops : q # p => life'[q] = life[q]
  BY FreshIsNowhere DEF Kept, RInv, RTypes
<1>2. Kept' = Kept /\ Unfinished' = Unfinished \cup {p} /\ p \notin Unfinished
  BY <1>1 DEF Kept, Unfinished
<1>3. Counted' = Counted \cup {p} /\ p \notin Counted /\ Counted \in SUBSET Ops
  BY <1>1, <1>2 DEF Counted, Unfinished
<1>4. Cardinality(Counted') = Cardinality(Counted) + 1
  BY <1>3, FiniteOps, FS_AddElement
<1>5. PrivateCounts'
  BY DEF WInv, PrivateCounts
<1>6. OwnHands'
  BY <1>1 DEF WInv, OwnHands, RInv, InHand
<1>7. QED BY <1>4, <1>5, <1>6 DEF WInv

LEMMA PostContinuationWInv ==
  ASSUME RInv, WInv, NEW t \in Threads, PostContinuation(t) PROVE WInv'
<1>1. PICK p \in Fresh : /\ priv' = [priv EXCEPT ![t] = Append(@, p)]
                         /\ life' = [life EXCEPT ![p] = "pending"]
  BY DEF PostContinuation
<1>2. /\ pc[t] = "handler" /\ privWork' = [privWork EXCEPT ![t] = @ + 1]
      /\ UNCHANGED <<work, pc, hand>>
  BY DEF PostContinuation, MayCall
<1>3. /\ p \in Ops /\ life[p] = "new" /\ p \notin ToSet(priv[t])
      /\ priv[t] \in Seq(Ops \cup Descriptors) /\ IsInjective(priv[t])
      /\ life'[p] = "pending" /\ \A q \in Ops : q # p => life'[q] = life[q]
  BY <1>1, FreshIsNowhere DEF RInv, RTypes, Once
<1>4. ToSet(Append(priv[t], p)) = ToSet(priv[t]) \cup {p} /\ Len(Append(priv[t], p)) = Len(priv[t]) + 1
  BY <1>3, SetOfAppend, AppendProperties
<1>5. /\ ToSet(priv'[t]) = ToSet(priv[t]) \cup {p} /\ Len(priv'[t]) = Len(priv[t]) + 1
      /\ \A u \in Threads : u # t => priv'[u] = priv[u]
  BY <1>1, <1>4 DEF RInv, RTypes
<1>6. Kept' = Kept \cup {p}
  BY <1>2, <1>3, <1>5 DEF Kept
<1>7. Unfinished' = Unfinished \cup {p} /\ p \notin Unfinished
  BY <1>3 DEF Unfinished
<1>8. Counted' = Counted
  BY <1>6, <1>7 DEF Counted
<1>9. /\ privWork' \in [Threads -> Nat] /\ privWork'[t] = privWork[t] + 1
      /\ \A u \in Threads : u # t => privWork'[u] = privWork[u]
  BY <1>2 DEF WInv
<1>10. PrivateCounts'
  BY <1>2, <1>5, <1>9 DEF WInv, PrivateCounts
<1>11. OwnHands'
  BY <1>2, <1>3 DEF WInv, OwnHands, RInv, InHand
<1>12. QED BY <1>2, <1>8, <1>9, <1>10, <1>11 DEF WInv

\* A queue without repetitions is as long as its set is large.
LEMMA LengthCounts ==
  ASSUME NEW S, NEW q \in Seq(S), IsInjective(q)
  PROVE  IsFiniteSet(ToSet(q)) /\ Cardinality(ToSet(q)) = Len(q)
<1>1. /\ Len(q) \in Nat /\ DOMAIN q = 1..Len(q) /\ q = [i \in 1..Len(q) |-> q[i]]
      /\ \A x : x \in ToSet(q) <=> \E i \in 1..Len(q) : q[i] = x
      /\ \A i, j \in 1..Len(q) : q[i] = q[j] => i = j
  BY Members, LenProperties
<1>2. q \in Bijection(1..Len(q), ToSet(q))
  BY <1>1 DEF Bijection, Injection, Surjection, IsInjective
<1>3. ExistsBijection(1..Len(q), ToSet(q))
  BY <1>2 DEF ExistsBijection
<1>4. QED BY <1>1, <1>3, FS_NatBijection, FS_CountingElements

\* What a running handler keeps is pending, and is exactly its private queue.
LEMMA KeptByHandler ==
  ASSUME RInv, NEW t \in Threads, pc[t] = "handler"
  PROVE  /\ ToSet(priv[t]) \subseteq Kept /\ priv[t] \in Seq(Ops \cup Descriptors)
         /\ \A p \in ToSet(priv[t]) : p \in Ops /\ life[p] = "pending"
         /\ IsFiniteSet(ToSet(priv[t])) /\ Cardinality(ToSet(priv[t])) = Len(priv[t])
         /\ \A u \in Threads : u # t => ToSet(priv[u]) \cap ToSet(priv[t]) = {}
<1>1. priv[t] \in Seq(Ops \cup Descriptors) /\ IsInjective(priv[t])
  BY DEF RInv, RTypes, Once
<1>2. \A p \in ToSet(priv[t]) : p \in Ops
  BY <1>1, Members DEF RInv, DescriptorsFirst
<1>3. \A p \in ToSet(priv[t]) : life[p] = "pending"
  BY <1>2 DEF RInv, PendingOnly
<1>4. IsFiniteSet(ToSet(priv[t])) /\ Cardinality(ToSet(priv[t])) = Len(priv[t])
  BY <1>1, LengthCounts
<1>5. \A u \in Threads : u # t => ToSet(priv[u]) \cap ToSet(priv[t]) = {}
  BY DEF RInv, Once
<1>6. QED BY <1>1, <1>2, <1>3, <1>4, <1>5 DEF Kept

LEMMA FinishWInv ==
  ASSUME RInv, WInv, NEW t \in Threads, Finish(t) PROVE WInv'
<1>1. /\ pc[t] \in {"handler", "cleanup"} /\ work' = work + privWork[t] - 1
      /\ privWork' = [privWork EXCEPT ![t] = 0] /\ UNCHANGED <<hand, priv>>
      /\ life' = IF hand[t] \in Ops THEN [life EXCEPT ![hand[t]] = "done"] ELSE life
      /\ pc' = [pc EXCEPT ![t] = IF privWork[t] = 0 /\ work' = 0 THEN "stop" ELSE "loop"]
  BY DEF Finish
<1>2. /\ pc'[t] \in {"loop", "stop"} /\ \A u \in Threads : u # t => pc'[u] = pc[u]
      /\ privWork' \in [Threads -> Nat] /\ privWork'[t] = 0
      /\ \A u \in Threads : u # t => privWork'[u] = privWork[u]
  BY <1>1 DEF WInv, RInv, RTypes
<1>3. PrivateCounts'
  BY <1>1, <1>2 DEF WInv, PrivateCounts
<1>4. Counted \in SUBSET Ops
  BY DEF Counted, Unfinished
<1>5. CASE pc[t] = "cleanup"
  <2>1. hand[t] \notin Ops /\ privWork[t] = 1
    BY <1>5, Kinds DEF RInv, InHand, WInv, PrivateCounts
  <2>2. life' = life /\ work' = work
    <3>1. work \in Nat
      BY <1>4, FiniteOps DEF WInv
    <3>2. QED BY <1>1, <2>1, <3>1
  <2>3. Kept' = Kept /\ Unfinished' = Unfinished
    BY <1>1, <1>2, <1>5, <2>2 DEF Kept, Unfinished
  <2>4. OwnHands'
    BY <1>1, <1>2, <2>2 DEF WInv, OwnHands
  <2>5. QED BY <1>2, <1>3, <2>2, <2>3, <2>4 DEF WInv, Counted
<1>6. CASE pc[t] = "handler"
  <2> DEFINE h == hand[t]
             K == ToSet(priv[t])
  <2>1. h \in Ops /\ life[h] = "running" /\ privWork[t] = Len(priv[t])
    BY <1>6 DEF RInv, InHand, WInv, OwnHands, PrivateCounts
  <2>2. life'[h] = "done" /\ \A p \in Ops : p # h => life'[p] = life[p]
    BY <1>1, <2>1 DEF RInv, RTypes
  <2>3. /\ K \subseteq Kept /\ (\A p \in K : p \in Ops /\ life[p] = "pending")
        /\ IsFiniteSet(K) /\ Cardinality(K) = Len(priv[t]) /\ priv[t] \in Seq(Ops \cup Descriptors)
        /\ \A u \in Threads : u # t => ToSet(priv[u]) \cap K = {}
    BY <1>6, KeptByHandler
  <2>4. h \in Counted
    <3>1. h \notin Kept
      BY <2>1 DEF Kept, RInv, PendingOnly
    <3>2. QED BY <2>1, <3>1 DEF Counted, Unfinished
  <2>5. Kept' = Kept \ K
    BY <1>1, <1>2, <1>6, <2>3 DEF Kept
  <2>6. Unfinished' = Unfinished \ {h} /\ K \subseteq Unfinished /\ h \notin K
    BY <2>1, <2>2, <2>3 DEF Unfinished
  <2>7. Counted' = (Counted \ {h}) \cup K /\ (Counted \ {h}) \cap K = {}
    BY <2>3, <2>5, <2>6 DEF Counted
  <2> HIDE DEF K, h
  <2>8. IsFiniteSet(Counted \ {h}) /\ Cardinality(Counted \ {h}) = Cardinality(Counted) - 1
    BY <1>4, <2>4, FiniteOps, FS_RemoveElement
  <2>9. Cardinality(Counted') = Cardinality(Counted \ {h}) + Cardinality(K) - Cardinality({})
    BY <2>3, <2>7, <2>8, FS_Union
  <2>10. Cardinality(Counted) \in Nat /\ Len(priv[t]) \in Nat /\ Cardinality({}) = 0
    BY <1>4, <2>3, FiniteOps, FS_EmptySet, LenProperties
  <2>11. work' = Cardinality(Counted')
    BY <1>1, <2>1, <2>3, <2>8, <2>9, <2>10 DEF WInv
  <2>12. OwnHands'
    BY <1>1, <1>2, <1>6, <2>1, <2>2 DEF WInv, OwnHands, RInv, InHand, h
  <2>13. QED BY <1>2, <1>3, <2>11, <2>12 DEF WInv
<1>7. QED BY <1>1, <1>5, <1>6

LEMMA TakeOpWInv ==
  ASSUME RInv, WInv, NEW t \in Threads, TakeOp(t) PROVE WInv'
<1> DEFINE q == Queued(t)
<1>1. /\ Locks(t) /\ q # <<>> /\ Head(q) # Task /\ priv' = [priv EXCEPT ![t] = <<>>]
      /\ hand' = [hand EXCEPT ![t] = Head(q)] /\ UNCHANGED <<work, privWork>>
      /\ \/ /\ Head(q) \in Ops /\ pc' = [pc EXCEPT ![t] = "handler"]
            /\ life' = [life EXCEPT ![Head(q)] = "running"]
         \/ Head(q) \notin Ops /\ pc' = [pc EXCEPT ![t] = "perform"] /\ UNCHANGED life
  BY DEF TakeOp
<1>2. /\ q \in Seq(Entries) /\ IsInjective(q)
      /\ ToSet(q) \subseteq ToSet(queue) \cup ToSet(priv[t]) \cup {Task}
  BY <1>1, LockedQueue
<1>3. Head(q) \in ToSet(q)
  BY <1>1, <1>2, SetOfTail
<1> HIDE DEF q
<1>4. Head(q) \in Ops => life[Head(q)] = "pending"
  BY <1>1, <1>2, <1>3 DEF RInv, PendingOnly
<1>5. pc[t] \notin {"handler", "cleanup"}
  BY <1>1 DEF Locks
<1>6. priv'[t] = <<>> /\ \A u \in Threads : u # t => priv'[u] = priv[u]
  BY <1>1 DEF RInv, RTypes
<1>7. CASE Head(q) \in Ops
  BY <1>1, <1>4, <1>5, <1>6, <1>7, Begins
<1>8. CASE Head(q) \notin Ops
  <2>1. /\ pc'[t] = "perform" /\ \A u \in Threads : u # t => pc'[u] = pc[u] /\ hand'[u] = hand[u]
        /\ UNCHANGED life
    BY <1>1, <1>8 DEF RInv, RTypes
  <2>2. QED BY <1>1, <1>5, <1>6, <2>1, SameWork
<1>9. QED BY <1>7, <1>8

LEMMA PerformIoWInv ==
  ASSUME RInv, WInv, NEW t \in Threads, PerformIo(t) PROVE WInv'
<1> DEFINE d == hand[t]
           w == waiting[d]
           n == IF Readable(d) < Len(w) THEN Readable(d) ELSE Len(w)
<1>1. /\ pc[t] = "perform" /\ UNCHANGED <<work, priv>>
      /\ n = 0 => /\ pc' = [pc EXCEPT ![t] = "cleanup"] /\ privWork' = [privWork EXCEPT ![t] = @ + 1]
                  /\ UNCHANGED <<hand, life>>
      /\ n # 0 => /\ pc' = [pc EXCEPT ![t] = "handler"] /\ hand' = [hand EXCEPT ![t] = Head(w)]
                  /\ life' = [life EXCEPT ![Head(w)] = "running"] /\ UNCHANGED privWork
  BY DEF PerformIo
<1>2. d \in Descriptors
  BY <1>1 DEF RInv, InHand
<1>3. w \in Seq(Ops) /\ data[d] \in Nat /\ Len(w) \in Nat /\ IsInjective(w)
  BY <1>2, LenProperties DEF RInv, RTypes, Once
<1>4. n \in 0..Len(w)
  BY <1>3 DEF Readable
<1>5. priv[t] = <<>> /\ privWork[t] = 0
  BY <1>1 DEF WInv, PrivateCounts
<1> HIDE DEF n
<1>6. CASE n = 0
  <2>1. /\ pc'[t] = "cleanup" /\ \A u \in Threads : u # t => pc'[u] = pc[u]
        /\ privWork' \in [Threads -> Nat] /\ privWork'[t] = 1
        /\ \A u \in Threads : u # t => privWork'[u] = privWork[u]
    <3>1. pc \in [Threads -> Places] /\ privWork \in [Threads -> Nat]
      BY DEF RInv, RTypes, WInv
    <3>2. pc' = [pc EXCEPT ![t] = "cleanup"] /\ privWork' = [privWork EXCEPT ![t] = privWork[t] + 1]
      BY <1>1, <1>6
    <3>3. QED BY <1>5, <3>1, <3>2
  <2>2. Kept' = Kept /\ Unfinished' = Unfinished
    BY <1>1, <1>6, <2>1 DEF Kept, Unfinished
  <2>3. PrivateCounts'
    BY <1>1, <2>1 DEF WInv, PrivateCounts
  <2>4. OwnHands'
    BY <1>1, <1>6, <2>1 DEF WInv, OwnHands
  <2>5. QED BY <1>1, <2>1, <2>2, <2>3, <2>4 DEF WInv, Counted
<1>7. CASE n # 0
  <2>1. n > 0
    BY <1>4, <1>7
  <2>2. Head(w) \in Ops /\ Head(w) \in ToSet(w)
    BY <1>3, <1>4, <2>1, SetOfParts
  <2> HIDE DEF w
  <2>3. life[Head(w)] = "pending"
    BY <1>2, <2>2 DEF RInv, PendingOnly, w
  <2>4. QED BY <1>1, <1>5, <1>7, <2>2, <2>3, Begins
<1>8. QED BY <1>6, <1>7

LEMMA NextWInv == RInv /\ WInv /\ [Next]_vars => WInv'
<1> SUFFICES ASSUME RInv, WInv, [Next]_vars PROVE WInv'
  OBVIOUS
<1>t. pc \in [Threads -> Places]
  BY DEF RInv, RTypes
<1>1. ASSUME NEW t \in Threads, Thread(t) PROVE WInv'
  <2>1. CASE EnterRun(t)
    BY <1>t, <2>1, SameWork DEF EnterRun
  <2>2. CASE Leave(t) \/ TakeTask(t)
    <3>1. /\ Locks(t) /\ priv' = [priv EXCEPT ![t] = <<>>] /\ UNCHANGED <<work, privWork, life, hand>>
          /\ \E x \in {"returned", "poll", "block"} : pc' = [pc EXCEPT ![t] = x]
      BY <2>2 DEF Leave, TakeTask
    <3>2. /\ pc[t] \notin {"handler", "cleanup"} /\ pc'[t] \in {"returned", "poll", "block"}
          /\ \A u \in Threads : u # t => pc'[u] = pc[u] /\ priv'[u] = priv[u]
      BY <1>t, <3>1 DEF Locks, RInv, RTypes
    <3>3. QED BY <3>1, <3>2, SameWork
  <2>3. CASE TakeOp(t)
    BY <2>3, TakeOpWInv
  <2>4. CASE Sleep(t) \/ SleepAgain(t) \/ StopIdle(t)
    <3>1. /\ pc[t] \notin {"handler", "cleanup"} /\ UNCHANGED <<work, privWork, life, hand, priv>>
          /\ pc'[t] \in {"waiting", "loop"}
          /\ \A u \in Threads : u # t => pc'[u] = pc[u] \/ (pc[u] = "waiting" /\ pc'[u] = "woken")
      BY <1>t, <2>4 DEF Sleep, SleepAgain, StopIdle, StopAll, Locks
    <3>2. QED BY <3>1, SameWork
  <2>5. CASE Finish(t)
    BY <2>5, FinishWInv
  <2>6. CASE Poll(t)
    <3>1. PICK s : priv' = [priv EXCEPT ![t] = s]
      BY <2>6 DEF Poll
    <3>2. /\ pc[t] \in {"poll", "block"} /\ pc' = [pc EXCEPT ![t] = "polled"]
          /\ UNCHANGED <<work, privWork, life, hand>>
      BY <2>6 DEF Poll
    <3>3. pc'[t] = "polled" /\ \A u \in Threads : u # t => pc'[u] = pc[u] /\ priv'[u] = priv[u]
      BY <1>t, <3>1, <3>2 DEF RInv, RTypes
    <3>4. QED BY <3>2, <3>3, SameWork
  <2>7. CASE PerformIo(t)
    BY <2>7, PerformIoWInv
  <2>8. QED BY <1>1, <2>1, <2>2, <2>3, <2>4, <2>5, <2>6, <2>7 DEF Thread, RunStep
<1>2. ASSUME NEW t \in Threads, Continue(t) PROVE WInv'
  BY <1>2, PostContinuationWInv DEF Continue
<1>3. ASSUME NEW a \in Callers, Caller(a) \/ AnyCaller(a) PROVE WInv'
  <2>1. CASE Signal(a)
    <3>1. /\ UNCHANGED <<work, privWork, life, hand, priv>>
          /\ \A u \in Threads : pc'[u] = pc[u] \/ (pc[u] = "waiting" /\ pc'[u] = "woken")
      BY <1>t, <2>1 DEF Signal
    <3>2. QED BY <3>1, SameWork
  <2>2. CASE Push(a)
    BY <2>2, SameWork DEF Push, local
  <2>3. CASE Post(a)
    BY <2>3, Submits DEF Post, local
  <2>4. CASE Stop(a)
    <3>1. /\ UNCHANGED <<work, privWork, life, hand, priv>>
          /\ \A u \in Threads : pc'[u] = pc[u] \/ (pc[u] = "waiting" /\ pc'[u] = "woken")
      BY <1>t, <2>4 DEF Stop, StopAll
    <3>2. QED BY <3>1, SameWork
  <2>5. ASSUME NEW d \in Descriptors, StartNow(a, d) PROVE WInv'
    BY <2>3, <2>5, PostContinuationWInv DEF StartNow
  <2>6. ASSUME NEW d \in Descriptors, StartWait(a, d) PROVE WInv'
    BY <2>6, Submits DEF StartWait, local
  <2>7. ASSUME NEW d \in Descriptors, CancelOps(a, d) \/ Close(a, d) \/ Reuse(a, d) PROVE WInv'
    BY <2>7, SameWork DEF CancelOps, Close, Reuse, schedule, local
  <2>8. QED BY <1>3, <2>1, <2>2, <2>3, <2>4, <2>5, <2>6, <2>7 DEF Caller, AnyCaller, CallerStep
<1>4. CASE Kernel
  <2>1. ASSUME NEW d \in Descriptors, Arrive(d) PROVE WInv'
    BY <2>1, SameWork DEF Arrive, schedule, local
  <2>2. ASSUME NEW t \in Threads, SpuriousWakeup(t) PROVE WInv'
    BY <1>t, <2>2, SameWork DEF SpuriousWakeup
  <2>3. QED BY <1>4, <2>1, <2>2 DEF Kernel
<1>5. CASE UNCHANGED vars
  BY <1>5, SameWork DEF vars, schedule, local
<1>6. QED BY <1>1, <1>2, <1>3, <1>4, <1>5 DEF Next

LEMMA SpecWInv == Spec => [](RInv /\ WInv)
<1>1. Init /\ [][Next]_vars => [](RInv /\ WInv)
  BY InitRInv, InitWInv, NextRInv, NextWInv, PTL
<1>2. QED BY <1>1, PTL DEF Spec

\* The private counts stand for the operations kept and for the threads that
\* make up for the decrement to come.
LEMMA PrivateWorkIs ==
  ASSUME RInv, WInv
  PROVE  Cardinality(PrivateWork) = Cardinality(Kept) + Cardinality({t \in Threads : pc[t] = "cleanup"})
<1> DEFINE H == UNION {{t} \X (1..privWork[t]) : t \in {u \in Threads : pc[u] = "handler"}}
           C == {t \in Threads : pc[t] = "cleanup"}
           D == C \X {1}
           f == [x \in H |-> priv[x[1]][x[2]]]
<1>1. \A x : x \in H <=> \E t \in Threads : pc[t] = "handler" /\ \E i \in 1..privWork[t] : x = <<t, i>>
  OBVIOUS
<1>2. \A x : x \in PrivateWork <=> \E t \in Threads : \E i \in 1..privWork[t] : x = <<t, i>>
  BY DEF PrivateWork
<1>3. PrivateWork = H \cup D /\ H \cap D = {}
  <2>1. \A t \in Threads : /\ pc[t] = "cleanup" => 1..privWork[t] = {1}
                           /\ pc[t] \notin {"handler", "cleanup"} => 1..privWork[t] = {}
    BY DEF WInv, PrivateCounts
  <2>2. \A x : x \in D <=> \E t \in Threads : pc[t] = "cleanup" /\ x = <<t, 1>>
    OBVIOUS
  <2> HIDE DEF H, D
  <2>3. ASSUME NEW x \in PrivateWork PROVE x \in H \cup D
    <3>1. PICK t \in Threads : \E i \in 1..privWork[t] : x = <<t, i>>
      BY <1>2
    <3>2. PICK i \in 1..privWork[t] : x = <<t, i>>
      BY <3>1
    <3>3. CASE pc[t] = "handler"
      BY <1>1, <3>2, <3>3
    <3>4. CASE pc[t] # "handler"
      <4>1. pc[t] = "cleanup" /\ i = 1
        BY <2>1, <3>2, <3>4
      <4>2. QED BY <2>2, <3>2, <4>1
    <3>5. QED BY <3>3, <3>4
  <2>4. H \subseteq PrivateWork
    BY <1>1, <1>2
  <2>5. D \subseteq PrivateWork
    BY <1>2, <2>1, <2>2
  <2>6. H \cap D = {}
    BY <1>1, <2>2
  <2>7. QED BY <2>3, <2>4, <2>5, <2>6
<1>4. \A t \in Threads : pc[t] = "handler" =>
        /\ priv[t] \in Seq(Ops \cup Descriptors) /\ privWork[t] = Len(priv[t])
        /\ IsInjective(priv[t]) /\ ToSet(priv[t]) \subseteq Ops
  BY KeptByHandler DEF WInv, PrivateCounts, RInv, Once
<1>5. \A t \in Threads : pc[t] = "handler" =>
        /\ \A i \in 1..privWork[t] : priv[t][i] \in ToSet(priv[t])
        /\ \A i, j \in 1..privWork[t] : priv[t][i] = priv[t][j] => i = j
        /\ \A p \in ToSet(priv[t]) : \E i \in 1..privWork[t] : priv[t][i] = p
  <2> SUFFICES ASSUME NEW t \in Threads, pc[t] = "handler"
               PROVE  /\ \A i \in 1..privWork[t] : priv[t][i] \in ToSet(priv[t])
                      /\ \A i, j \in 1..privWork[t] : priv[t][i] = priv[t][j] => i = j
                      /\ \A p \in ToSet(priv[t]) : \E i \in 1..privWork[t] : priv[t][i] = p
    OBVIOUS
  <2>1. priv[t] \in Seq(Ops \cup Descriptors) /\ privWork[t] = Len(priv[t]) /\ IsInjective(priv[t])
    BY <1>4
  <2>2. /\ \A x : x \in ToSet(priv[t]) <=> \E i \in 1..Len(priv[t]) : priv[t][i] = x
        /\ \A i, j \in 1..Len(priv[t]) : priv[t][i] = priv[t][j] => i = j
    BY <2>1, Members
  <2>3. QED BY <2>1, <2>2
<1>6. \A x \in H : /\ x[1] \in Threads /\ pc[x[1]] = "handler" /\ x[2] \in 1..privWork[x[1]]
                   /\ x = <<x[1], x[2]>> /\ priv[x[1]][x[2]] \in ToSet(priv[x[1]])
  BY <1>1, <1>5
<1> HIDE DEF H
<1>7. f \in [H -> Kept]
  <2>1. ASSUME NEW x \in H PROVE priv[x[1]][x[2]] \in Kept
    BY <1>4, <1>6 DEF Kept
  <2>2. QED BY <2>1
<1>8. ASSUME NEW x \in H, NEW y \in H, f[x] = f[y] PROVE x = y
  <2>1. priv[x[1]][x[2]] = priv[y[1]][y[2]]
    BY <1>8
  <2>2. x[1] = y[1]
    BY <2>1, <1>6 DEF RInv, Once
  <2>3. x[2] = y[2]
    BY <2>1, <2>2, <1>5, <1>6
  <2>4. QED BY <2>2, <2>3, <1>6
<1>9. ASSUME NEW p \in Kept PROVE \E x \in H : f[x] = p
  <2>1. PICK t \in Threads : pc[t] = "handler" /\ p \in ToSet(priv[t])
    BY DEF Kept
  <2>2. PICK i \in 1..privWork[t] : priv[t][i] = p
    BY <1>5, <2>1
  <2>3. <<t, i>> \in H
    BY <1>1, <2>1
  <2>4. f[<<t, i>>] = p
    BY <2>2, <2>3
  <2>5. QED BY <2>3, <2>4
<1> HIDE DEF f
<1>10. f \in Injection(H, Kept) /\ f \in Surjection(H, Kept)
  BY <1>7, <1>8, <1>9 DEF Injection, Surjection, IsInjective
<1>11. Kept \in SUBSET Ops
  BY DEF Kept
<1>12. IsFiniteSet(H) /\ Cardinality(H) = Cardinality(Kept)
  BY <1>10, <1>11, FiniteOps, FS_Injection
<1>13. IsFiniteSet(C) /\ Cardinality(C) \in Nat
  <2>1. C \in SUBSET Threads
    OBVIOUS
  <2>2. QED BY <2>1, FS_Subset, FS_CardinalityType, SchedulerParameters
<1>14. IsFiniteSet({1}) /\ Cardinality({1}) = 1
  BY FS_Singleton
<1> HIDE DEF C
<1>15. IsFiniteSet(D) /\ Cardinality(D) = Cardinality(C)
  <2> DEFINE I == {1}
  <2> HIDE DEF I
  <2>1. IsFiniteSet(C \X I) /\ Cardinality(C \X I) = Cardinality(C) * Cardinality(I)
    BY <1>13, <1>14, FS_Product DEF I
  <2>2. Cardinality(I) = 1 /\ Cardinality(C) * 1 = Cardinality(C)
    BY <1>13, <1>14 DEF I
  <2>3. D = C \X I
    BY DEF I
  <2>4. QED BY <2>1, <2>2, <2>3
<1> HIDE DEF D
<1>16. Cardinality(PrivateWork) = Cardinality(H) + Cardinality(D) - Cardinality({})
  BY <1>3, <1>12, <1>15, FS_Union
<1>17. Cardinality(H) \in Nat /\ Cardinality({}) = 0
  BY <1>12, FS_CardinalityType, FS_EmptySet
<1>18. Cardinality(PrivateWork) = Cardinality(Kept) + Cardinality(C)
  BY <1>12, <1>13, <1>15, <1>16, <1>17
<1>19. QED BY <1>18 DEF C

LEMMA KeptUnfinished == RInv => Kept \subseteq Unfinished
<1> SUFFICES ASSUME RInv PROVE Kept \subseteq Unfinished
  OBVIOUS
<1>1. ASSUME NEW p \in Kept PROVE p \in Unfinished
  <2>1. PICK t \in Threads : pc[t] = "handler" /\ p \in ToSet(priv[t])
    BY DEF Kept
  <2>2. QED BY <2>1, KeptByHandler DEF Unfinished
<1>2. QED BY <1>1

LEMMA WInvCountsWork == RInv /\ WInv => CountsWork
<1> SUFFICES ASSUME RInv, WInv PROVE CountsWork
  OBVIOUS
<1>1. /\ Kept \in SUBSET Ops /\ Unfinished \in SUBSET Ops /\ Counted \in SUBSET Ops
      /\ Unfinished = Counted \cup Kept /\ Counted \cap Kept = {}
  BY KeptUnfinished DEF Kept, Unfinished, Counted
<1>2. Cardinality(Unfinished) = Cardinality(Counted) + Cardinality(Kept) - Cardinality({})
  BY <1>1, FiniteOps, FS_Union
<1>3. Cardinality(Counted) \in Nat /\ Cardinality(Kept) \in Nat /\ Cardinality({}) = 0
  BY <1>1, FiniteOps, FS_EmptySet
<1> DEFINE C == {t \in Threads : pc[t] = "cleanup"}
<1>4. Cardinality(PrivateWork) = Cardinality(Kept) + Cardinality(C)
  BY PrivateWorkIs
<1>5. Cardinality(C) \in Nat
  <2>1. C \in SUBSET Threads
    OBVIOUS
  <2>2. QED BY <2>1, FS_Subset, FS_CardinalityType, SchedulerParameters
<1> HIDE DEF C
<1>6. work + Cardinality(PrivateWork) = Cardinality(Unfinished) + Cardinality(C)
  BY <1>2, <1>3, <1>4, <1>5 DEF WInv
<1>7. QED BY <1>6 DEF CountsWork, C

\* Work is counted exactly, by any number of threads: what handlers start on
\* their own thread and what the reactor makes up for (work_cleanup,
\* compensating_work_started) included, outstanding_work_ and the private counts
\* add up to the unfinished operations.
THEOREM WorkIsCounted == Spec => []CountsWork
<1>1. RInv /\ WInv => CountsWork
  BY WInvCountsWork
<1>2. QED BY <1>1, SpecWInv, PTL
-----------------------------------------------------------------------------
(* Types.                                                                  *)

\* What is left of TypeOK: flags, and the counters behind the bounds.
FInv ==
    /\ stopped \in BOOLEAN /\ interrupted \in BOOLEAN /\ signalled \in BOOLEAN /\ poked \in BOOLEAN
    /\ signalling \subseteq Callers /\ asked \in BOOLEAN
    /\ speculate \in [Descriptors -> BOOLEAN] /\ edge \in [Descriptors -> BOOLEAN]
    /\ open \in [Descriptors -> BOOLEAN] /\ ended \in [Descriptors -> BOOLEAN]
    /\ arrivals \in 0..MaxArrivals /\ reuses \in 0..MaxReuses
    /\ data \in [Descriptors -> 0..arrivals]

LEMMA InitFInv == Init => FInv
<1> SUFFICES ASSUME Init PROVE FInv
  OBVIOUS
<1>1. /\ arrivals = 0 /\ arrivals \in 0..MaxArrivals /\ reuses \in 0..MaxReuses
      /\ data = [d \in Descriptors |-> 0] /\ data \in [Descriptors -> 0..arrivals]
  BY ReactorParameters DEF Init
<1>2. /\ speculate \in [Descriptors -> BOOLEAN] /\ edge \in [Descriptors -> BOOLEAN]
      /\ open \in [Descriptors -> BOOLEAN] /\ ended \in [Descriptors -> BOOLEAN]
  BY DEF Init
<1>3. QED BY <1>1, <1>2 DEF Init, SchedulerInit, FInv

LEMMA WakeOneFlags ==
  ASSUME FInv, NEW a \in Callers, NEW W, NEW i \in BOOLEAN, WakeOne(a, W, i)
  PROVE  signalled' \in BOOLEAN /\ interrupted' \in BOOLEAN /\ poked' \in BOOLEAN /\ signalling' \subseteq Callers
  BY DEF WakeOne, FInv

LEMMA NextFInv == RInv /\ FInv /\ [Next]_vars => FInv'
<1> SUFFICES ASSUME RInv, FInv, [Next]_vars PROVE FInv'
  OBVIOUS
<1>1. ASSUME NEW t \in Threads, Thread(t) PROVE FInv'
  <2>1. CASE (EnterRun(t) \/ SleepAgain(t) \/ Sleep(t) \/ Finish(t)) /\ UNCHANGED reactor
    BY <2>1 DEF EnterRun, SleepAgain, Sleep, Finish, task, event, reactor, kernel, sockets, FInv
  <2>2. CASE Leave(t) /\ UNCHANGED reactor
    BY <2>2 DEF Leave, Interrupted, event, reactor, kernel, sockets, FInv
  <2>3. CASE TakeTask(t) /\ UNCHANGED reactor
    <3>1. t \in Callers
      BY Kinds
    <3>2. QED BY <2>3, <3>1 DEF TakeTask, reactor, kernel, sockets, FInv
  <2>4. CASE TakeOp(t) /\ UNCHANGED reactor
    <3>1. t \in Callers /\ Interrupted(t) \in BOOLEAN
      BY Kinds DEF Interrupted, FInv
    <3>2. UNCHANGED <<stopped, asked, reactor>>
      BY <2>4 DEF TakeOp
    <3>3. \/ WakeOne(t, Waiters \ {t}, Interrupted(t))
          \/ interrupted' = Interrupted(t) /\ UNCHANGED <<poked, signalled, signalling>>
      BY <2>4 DEF TakeOp, event
    <3>4. /\ signalled' \in BOOLEAN /\ interrupted' \in BOOLEAN /\ poked' \in BOOLEAN
          /\ signalling' \subseteq Callers
      <4>1. CASE WakeOne(t, Waiters \ {t}, Interrupted(t))
        BY <3>1, <4>1, WakeOneFlags
      <4>2. CASE interrupted' = Interrupted(t) /\ UNCHANGED <<poked, signalled, signalling>>
        BY <3>1, <4>2 DEF FInv
      <4>3. QED BY <3>3, <4>1, <4>2
    <3>5. QED BY <3>2, <3>4 DEF reactor, kernel, sockets, FInv
  <2>5. CASE StopIdle(t) /\ UNCHANGED reactor
    BY <2>5 DEF StopIdle, StopAll, reactor, kernel, sockets, FInv
  <2>6. CASE Poll(t)
    BY <2>6 DEF Poll, event, sockets, FInv
  <2>7. CASE PerformIo(t)
    <3> DEFINE d == hand[t]
               n == IF Readable(d) < Len(waiting[d]) THEN Readable(d) ELSE Len(waiting[d])
    <3>1. /\ Perform(d, n) /\ pc[t] = "perform"
          /\ UNCHANGED <<stopped, task, event, asked, ended, edge, arrivals, sockets>>
      BY <2>7 DEF PerformIo
    <3>2. d \in Descriptors /\ arrivals \in Nat
      BY <3>1 DEF RInv, InHand, FInv
    <3>3. data[d] \in Nat /\ Len(waiting[d]) \in Nat
      BY <3>2, LenProperties DEF RInv, RTypes
    <3>4. n \in Nat
      BY <3>3 DEF Readable
    <3> HIDE DEF n, d
    <3>5. data' \in [Descriptors -> 0..arrivals] /\ speculate' \in [Descriptors -> BOOLEAN]
      BY <3>1, <3>2, <3>4, PerformTypes DEF FInv
    <3>6. QED BY <3>1, <3>5 DEF task, event, sockets, FInv
  <2>8. QED BY <1>1, <2>1, <2>2, <2>3, <2>4, <2>5, <2>6, <2>7 DEF Thread, RunStep
<1>2. ASSUME NEW t \in Threads, Continue(t) PROVE FInv'
  BY <1>2 DEF Continue, PostContinuation, task, event, reactor, kernel, sockets, FInv
<1>3. ASSUME NEW a \in Callers, Caller(a) \/ AnyCaller(a) PROVE FInv'
  <2>1. CASE Signal(a) /\ UNCHANGED reactor
    BY <2>1 DEF Signal, task, reactor, kernel, sockets, FInv
  <2>2. CASE Push(a) /\ UNCHANGED reactor
    <3>1. /\ UNCHANGED <<stopped, asked, reactor>> /\ WakeOne(a, Waiters, interrupted)
          /\ interrupted \in BOOLEAN
      BY <2>2 DEF Push, FInv
    <3>2. QED BY <3>1, WakeOneFlags DEF reactor, kernel, sockets, FInv
  <2>3. CASE Post(a) /\ UNCHANGED reactor
    BY <2>3 DEF Post, task, event, reactor, kernel, sockets, FInv
  <2>4. CASE Stop(a) /\ UNCHANGED reactor
    BY <2>4 DEF Stop, StopAll, reactor, kernel, sockets, FInv
  <2>5. ASSUME NEW d \in Descriptors, StartNow(a, d) PROVE FInv'
    <3>1. /\ UNCHANGED <<stopped, task, event, asked, ended, edge, arrivals, sockets>>
          /\ UNCHANGED <<data, speculate>> \/ Perform(d, 1)
      BY <2>5 DEF StartNow, Post, PostContinuation
    <3>2. data' \in [Descriptors -> 0..arrivals] /\ speculate' \in [Descriptors -> BOOLEAN]
      <4>1. arrivals \in Nat
        BY DEF FInv
      <4>2. QED BY <3>1, <4>1, PerformTypes DEF FInv
    <3>3. QED BY <3>1, <3>2 DEF task, event, sockets, FInv
  <2>6. ASSUME NEW d \in Descriptors, StartWait(a, d) PROVE FInv'
    BY <2>6 DEF StartWait, task, event, kernel, sockets, FInv
  <2>7. ASSUME NEW d \in Descriptors, CancelOps(a, d) PROVE FInv'
    BY <2>7 DEF CancelOps, task, event, kernel, sockets, FInv
  <2>8. ASSUME NEW d \in Descriptors, Close(a, d) PROVE FInv'
    BY <2>8 DEF Close, task, event, FInv
  <2>9. ASSUME NEW d \in Descriptors, Reuse(a, d) PROVE FInv'
    BY <2>9, ReactorParameters DEF Reuse, schedule, task, event, kernel, FInv
  <2>10. QED
    BY <1>3, <2>1, <2>2, <2>3, <2>4, <2>5, <2>6, <2>7, <2>8, <2>9 DEF Caller, AnyCaller, CallerStep
<1>4. CASE Kernel
  <2>1. ASSUME NEW d \in Descriptors, Arrive(d) PROVE FInv'
    <3>1. /\ arrivals < MaxArrivals /\ arrivals' = arrivals + 1
          /\ \/ data' = [data EXCEPT ![d] = @ + 1] /\ UNCHANGED ended
             \/ ended' = [ended EXCEPT ![d] = TRUE] /\ UNCHANGED data
          /\ edge' = [edge EXCEPT ![d] = TRUE] /\ UNCHANGED <<schedule, speculate, sockets>>
      BY <2>1 DEF Arrive
    <3>2. arrivals' \in 0..MaxArrivals /\ data' \in [Descriptors -> 0..arrivals']
      BY <3>1, ReactorParameters DEF FInv
    <3>3. ended' \in [Descriptors -> BOOLEAN]
      BY <3>1 DEF FInv
    <3>4. QED BY <3>1, <3>2, <3>3 DEF schedule, task, event, sockets, FInv
  <2>2. ASSUME NEW t \in Threads, SpuriousWakeup(t) /\ UNCHANGED reactor PROVE FInv'
    BY <2>2 DEF SpuriousWakeup, task, event, reactor, kernel, sockets, FInv
  <2>3. QED BY <1>4, <2>1, <2>2 DEF Kernel
<1>5. CASE UNCHANGED vars
  BY <1>5 DEF vars, schedule, reactor, task, event, kernel, sockets, FInv
<1>6. QED BY <1>1, <1>2, <1>3, <1>4, <1>5 DEF Next

LEMMA InvTypes == RInv /\ WInv /\ FInv => TypeOK
<1> SUFFICES ASSUME RInv, WInv, FInv PROVE TypeOK
  OBVIOUS
<1>1. work \in Nat
  <2>1. Counted \in SUBSET Ops
    BY DEF Counted, Unfinished
  <2>2. QED BY <2>1, FiniteOps DEF WInv
<1>2. SchedulerTypeOK
  BY <1>1 DEF RInv, RTypes, WInv, FInv, SchedulerTypeOK
<1>3. data \in [Descriptors -> 0..MaxArrivals]
  <2>1. 0..arrivals \subseteq 0..MaxArrivals
    BY ReactorParameters DEF FInv
  <2>2. QED BY <2>1 DEF FInv
<1>4. QED BY <1>2, <1>3 DEF RInv, RTypes, FInv, TypeOK

\* Every variable keeps its type; outstanding_work_ never falls below zero,
\* which would keep run() from ever finding it there.
THEOREM TypeCorrect == Spec => []TypeOK
<1>1. Init /\ [][Next]_vars => [](RInv /\ WInv /\ FInv)
  BY InitRInv, InitWInv, InitFInv, NextRInv, NextWInv, NextFInv, PTL
<1>2. QED BY <1>1, InvTypes, PTL DEF Spec
-----------------------------------------------------------------------------
(* The io_context is a WorkPool.                                           *)

Ending == stopped \/ \E t \in Threads : pc[t] = "stop"
Returned == {t \in Threads : pc[t] = "returned"}

\* With nothing counted no operation is left: the operation of a running handler
\* is counted, and without one no thread keeps anything to itself.
LEMMA NothingCounted ==
  ASSUME RInv, WInv, work = 0 PROVE Unfinished = {}
<1>1. Counted = {}
  <2>1. Counted \in SUBSET Ops
    BY DEF Counted, Unfinished
  <2>2. QED BY <2>1, FiniteOps, FS_EmptySet DEF WInv
<1>2. ASSUME NEW t \in Threads, pc[t] = "handler" PROVE FALSE
  <2>1. hand[t] \in Ops /\ life[hand[t]] = "running"
    BY <1>2 DEF RInv, InHand, WInv, OwnHands
  <2>2. hand[t] \notin Kept
    BY <2>1 DEF Kept, RInv, PendingOnly
  <2>3. QED BY <1>1, <2>1, <2>2 DEF Counted, Unfinished
<1>3. QED BY <1>1, <1>2 DEF Counted, Kept

\* And with no operation left nothing is counted.
LEMMA NothingLeft ==
  ASSUME RInv, WInv, NEW t \in Threads, Finish(t), pc[t] = "handler", Unfinished' = {}
  PROVE  privWork[t] = 0 /\ work' = 0
<1>1. /\ IsFiniteSet(ToSet(priv[t])) /\ Cardinality(ToSet(priv[t])) = Len(priv[t])
      /\ \A p \in ToSet(priv[t]) : p \in Ops /\ life[p] = "pending"
  BY KeptByHandler
<1>2. /\ hand[t] \in Ops /\ life[hand[t]] = "running" /\ privWork[t] = Len(priv[t])
      /\ life' = [life EXCEPT ![hand[t]] = "done"]
  BY DEF Finish, RInv, InHand, WInv, OwnHands, PrivateCounts
<1>3. ToSet(priv[t]) = {}
  <2>1. \A p \in ToSet(priv[t]) : p \in Ops /\ life'[p] = "pending"
    BY <1>1, <1>2 DEF RInv, RTypes
  <2>2. QED BY <2>1 DEF Unfinished
<1>4. privWork[t] = 0
  BY <1>1, <1>2, <1>3, FS_EmptySet
<1>5. Counted' = {}
  BY DEF Counted
<1>6. work' = Cardinality(Counted')
  BY FinishWInv DEF WInv
<1>7. QED BY <1>4, <1>5, <1>6, FS_EmptySet

\* What a step does to the pool: an operation moves on, the pool ends, or a
\* thread returns.
PoolStutters == life' = life /\ asked' = asked /\ Ending' = Ending /\ Returned' = Returned

LEMMA PoolActions ==
  /\ \A p \in Ops : life[p] = "new" /\ life' = [life EXCEPT ![p] = "pending"]
       /\ asked' = asked /\ Ending' = Ending /\ Returned' = Returned => Pool!Next
  /\ \A p \in Ops : life[p] = "pending" /\ life' = [life EXCEPT ![p] = "running"] /\ Returned # Threads
       /\ asked' = asked /\ Ending' = Ending /\ Returned' = Returned => Pool!Next
  /\ \A p \in Ops : life[p] = "running" /\ life' = [life EXCEPT ![p] = "done"]
       /\ Ending' = (Ending \/ Unfinished' = {})
       /\ asked' = asked /\ Returned' = Returned => Pool!Next
  /\ Unfinished = {} /\ Ending' = TRUE /\ life' = life /\ asked' = asked /\ Returned' = Returned => Pool!Next
  /\ asked' = TRUE /\ Ending' = TRUE /\ life' = life /\ Returned' = Returned => Pool!Next
  /\ \A t \in Threads : Ending /\ t \notin Returned /\ Returned' = Returned \cup {t}
       /\ life' = life /\ asked' = asked /\ Ending' = Ending => Pool!Next
  BY DEF Pool!Next, Pool!Submit, Pool!Begin, Pool!Complete, Pool!Idle, Pool!Ask, Pool!Return,
         Pool!Move, Pool!Unfinished, Unfinished, Ending, Returned

LEMMA InitPool == Init => Pool!Init
<1> SUFFICES ASSUME Init PROVE Pool!Init
  OBVIOUS
<1>1. \A t \in Threads : pc[t] = "outside"
  BY DEF Init, SchedulerInit
<1>2. life \in [Ops -> {"new", "pending"}] /\ asked = FALSE /\ stopped = FALSE
  BY DEF Init, SchedulerInit
<1>3. QED BY <1>1, <1>2 DEF Pool!Init

\* Steps that neither begin nor end an operation, and let no thread return.
LEMMA PoolQuiet ==
  ASSUME UNCHANGED <<life, asked, stopped>>,
         \A t \in Threads : \/ pc'[t] = pc[t]
                            \/ pc[t] \notin {"stop", "returned"} /\ pc'[t] \notin {"stop", "returned"}
  PROVE  PoolStutters
<1>1. Ending' = Ending
  BY DEF Ending
<1>2. Returned' = Returned
  BY DEF Returned
<1>3. QED BY <1>1, <1>2 DEF PoolStutters

LEMMA SubmitPool ==
  ASSUME NEW p \in Fresh, life' = [life EXCEPT ![p] = "pending"], UNCHANGED <<pc, asked, stopped>>
  PROVE  Pool!Next
<1>1. Ending' = Ending /\ Returned' = Returned /\ p \in Ops /\ life[p] = "new"
  BY DEF Ending, Returned, Fresh
<1>2. QED BY <1>1, PoolActions

LEMMA BeginPool ==
  ASSUME RInv, NEW p \in Ops, NEW t \in Threads, life[p] = "pending", life' = [life EXCEPT ![p] = "running"],
         pc[t] \notin {"stop", "returned"}, pc' = [pc EXCEPT ![t] = "handler"], UNCHANGED <<asked, stopped>>
  PROVE  Pool!Next
<1>1. pc'[t] = "handler" /\ \A u \in Threads : u # t => pc'[u] = pc[u]
  BY DEF RInv, RTypes
<1>2. Ending' = Ending
  BY <1>1 DEF Ending
<1>3. Returned' = Returned /\ Returned # Threads
  BY <1>1 DEF Returned
<1>4. QED BY <1>2, <1>3, PoolActions

\* stop_all_threads() on behalf of a thread that stops, or of stop().
LEMMA StopAllPool ==
  ASSUME NEW where, StopAll(where), UNCHANGED life,
         \A t \in Threads : where[t] = "returned" <=> pc[t] = "returned"
  PROVE  Ending' = TRUE /\ Returned' = Returned
<1>1. Ending' = TRUE
  BY DEF StopAll, Ending
<1>2. \A t \in Threads : pc'[t] = "returned" <=> pc[t] = "returned"
  BY DEF StopAll
<1>3. QED BY <1>1, <1>2 DEF Returned

LEMMA FinishPool ==
  ASSUME RInv, WInv, RInv', WInv', NEW t \in Threads, Finish(t)
  PROVE  Pool!Next \/ (UNCHANGED asked /\ PoolStutters)
<1>1. /\ pc[t] \in {"handler", "cleanup"} /\ UNCHANGED <<hand, priv, stopped, asked>>
      /\ life' = IF hand[t] \in Ops THEN [life EXCEPT ![hand[t]] = "done"] ELSE life
      /\ pc' = [pc EXCEPT ![t] = IF privWork[t] = 0 /\ work' = 0 THEN "stop" ELSE "loop"]
  BY DEF Finish
<1>2. /\ pc'[t] = (IF privWork[t] = 0 /\ work' = 0 THEN "stop" ELSE "loop")
      /\ \A u \in Threads : u # t => pc'[u] = pc[u]
  BY <1>1 DEF RInv, RTypes
<1>3. Returned' = Returned
  BY <1>1, <1>2 DEF Returned
<1>4. CASE pc[t] = "cleanup"
  <2>1. life' = life /\ pc'[t] = "loop"
    BY <1>1, <1>2, <1>4, Kinds DEF RInv, InHand, WInv, PrivateCounts
  <2>2. QED BY <1>1, <1>2, <1>4, <2>1, PoolQuiet
<1>5. CASE pc[t] = "handler"
  <2>1. hand[t] \in Ops /\ life[hand[t]] = "running"
    BY <1>5 DEF RInv, InHand, WInv, OwnHands
  <2>2. CASE privWork[t] = 0 /\ work' = 0
    <3>1. Unfinished' = {}
      <4>1. RInv /\ WInv /\ work = 0 => Unfinished = {}
        BY NothingCounted
      <4>2. (RInv /\ WInv /\ work = 0 => Unfinished = {})'
        BY NothingCounted, PTL
      <4>3. QED BY <2>2, <4>2
    <3>2. Ending' = TRUE
      BY <1>2, <2>2 DEF Ending
    <3>3. QED BY <1>1, <1>3, <2>1, <3>1, <3>2, PoolActions
  <2>3. CASE ~(privWork[t] = 0 /\ work' = 0)
    <3>1. Unfinished' # {}
      BY <1>5, <2>3, NothingLeft
    <3>2. Ending' = Ending
      BY <1>1, <1>2, <1>5, <2>3 DEF Ending
    <3>3. Ending \in BOOLEAN => Ending' = (Ending \/ Unfinished' = {})
      BY <3>1, <3>2
    <3>4. Ending \in BOOLEAN
      BY DEF Ending
    <3>5. QED BY <1>1, <1>3, <2>1, <3>3, <3>4, PoolActions
  <2>4. QED BY <2>2, <2>3
<1>6. QED BY <1>1, <1>4, <1>5

LEMMA NextPool ==
  RInv /\ WInv /\ RInv' /\ WInv' /\ [Next]_vars => Pool!Next \/ PoolStutters
<1> SUFFICES ASSUME RInv, WInv, RInv', WInv', [Next]_vars PROVE Pool!Next \/ PoolStutters
  OBVIOUS
<1>t. pc \in [Threads -> Places]
  BY DEF RInv, RTypes
<1>1. ASSUME NEW t \in Threads, Thread(t) PROVE Pool!Next \/ PoolStutters
  <2>1. CASE EnterRun(t)
    <3>1. /\ pc[t] = "outside" /\ pc' = [pc EXCEPT ![t] = IF work = 0 THEN "stop" ELSE "loop"]
          /\ UNCHANGED <<life, asked, stopped>>
      BY <2>1 DEF EnterRun
    <3>2. pc'[t] = (IF work = 0 THEN "stop" ELSE "loop") /\ \A u \in Threads : u # t => pc'[u] = pc[u]
      BY <1>t, <3>1
    <3>3. CASE work = 0
      <4>1. Unfinished = {}
        BY <3>3, NothingCounted
      <4>2. Ending' = TRUE
        BY <3>2, <3>3 DEF Ending
      <4>3. Returned' = Returned
        BY <3>1, <3>2 DEF Returned
      <4>4. QED BY <3>1, <4>1, <4>2, <4>3, PoolActions
    <3>4. CASE work # 0
      BY <3>1, <3>2, <3>4, PoolQuiet
    <3>5. QED BY <3>3, <3>4
  <2>2. CASE Leave(t)
    <3>1. /\ Locks(t) /\ stopped /\ pc' = [pc EXCEPT ![t] = "returned"]
          /\ UNCHANGED <<life, asked, stopped>>
      BY <2>2 DEF Leave
    <3>2. pc[t] # "returned" /\ pc'[t] = "returned" /\ \A u \in Threads : u # t => pc'[u] = pc[u]
      BY <1>t, <3>1 DEF Locks
    <3>3. Ending /\ Ending' = Ending
      BY <3>1 DEF Ending
    <3>4. t \notin Returned /\ Returned' = Returned \cup {t}
      BY <3>2 DEF Returned
    <3>5. QED BY <3>1, <3>3, <3>4, PoolActions
  <2>3. CASE TakeTask(t)
    <3>1. /\ Locks(t) /\ UNCHANGED <<life, asked, stopped>>
          /\ \E x \in {"poll", "block"} : pc' = [pc EXCEPT ![t] = x]
      BY <2>3 DEF TakeTask
    <3>2. /\ pc[t] \notin {"stop", "returned"} /\ pc'[t] \notin {"stop", "returned"}
          /\ \A u \in Threads : u # t => pc'[u] = pc[u]
      BY <1>t, <3>1 DEF Locks
    <3>3. QED BY <3>1, <3>2, PoolQuiet
  <2>4. CASE TakeOp(t)
    <3> DEFINE q == Queued(t)
    <3>1. /\ Locks(t) /\ q # <<>> /\ UNCHANGED <<asked, stopped>>
          /\ \/ /\ Head(q) \in Ops /\ pc' = [pc EXCEPT ![t] = "handler"]
                /\ life' = [life EXCEPT ![Head(q)] = "running"]
             \/ Head(q) \notin Ops /\ pc' = [pc EXCEPT ![t] = "perform"] /\ UNCHANGED life
      BY <2>4 DEF TakeOp
    <3>2. /\ q \in Seq(Entries) /\ IsInjective(q)
          /\ ToSet(q) \subseteq ToSet(queue) \cup ToSet(priv[t]) \cup {Task}
      BY <3>1, LockedQueue
    <3>3. Head(q) \in ToSet(q)
      BY <3>1, <3>2, SetOfTail
    <3> HIDE DEF q
    <3>4. pc[t] \notin {"stop", "returned"}
      BY <3>1 DEF Locks
    <3>5. CASE Head(q) \in Ops
      <4>1. life[Head(q)] = "pending"
        BY <3>2, <3>3, <3>5, Kinds DEF RInv, PendingOnly
      <4>2. QED BY <3>1, <3>4, <3>5, <4>1, BeginPool
    <3>6. CASE Head(q) \notin Ops
      <4>1. pc'[t] = "perform" /\ \A u \in Threads : u # t => pc'[u] = pc[u]
        BY <1>t, <3>1, <3>6
      <4>2. QED BY <3>1, <3>4, <3>6, <4>1, PoolQuiet
    <3>7. QED BY <3>5, <3>6
  <2>5. CASE Sleep(t) \/ SleepAgain(t)
    <3>1. /\ pc[t] \notin {"stop", "returned"} /\ pc' = [pc EXCEPT ![t] = "waiting"]
          /\ UNCHANGED <<life, asked, stopped>>
      BY <2>5 DEF Sleep, SleepAgain, Locks
    <3>2. pc'[t] = "waiting" /\ \A u \in Threads : u # t => pc'[u] = pc[u]
      BY <1>t, <3>1
    <3>3. QED BY <3>1, <3>2, PoolQuiet
  <2>6. CASE Finish(t)
    BY <2>6, FinishPool
  <2>7. CASE StopIdle(t)
    <3> DEFINE where == [pc EXCEPT ![t] = "loop"]
    <3>1. pc[t] = "stop" /\ StopAll(where) /\ UNCHANGED <<life, asked>>
      BY <2>7 DEF StopIdle
    <3>2. \A u \in Threads : where[u] = "returned" <=> pc[u] = "returned"
      BY <1>t, <3>1
    <3> HIDE DEF where
    <3>3. Ending' = TRUE /\ Returned' = Returned
      BY <3>1, <3>2, StopAllPool
    <3>4. Ending = TRUE
      BY <3>1 DEF Ending
    <3>5. QED BY <3>1, <3>3, <3>4 DEF PoolStutters
  <2>8. CASE Poll(t)
    <3>1. /\ pc[t] \in {"poll", "block"} /\ pc' = [pc EXCEPT ![t] = "polled"]
          /\ UNCHANGED <<life, asked, stopped>>
      BY <2>8 DEF Poll
    <3>2. pc'[t] = "polled" /\ \A u \in Threads : u # t => pc'[u] = pc[u]
      BY <1>t, <3>1
    <3>3. QED BY <3>1, <3>2, PoolQuiet
  <2>9. CASE PerformIo(t)
    <3> DEFINE d == hand[t]
               w == waiting[d]
               n == IF Readable(d) < Len(w) THEN Readable(d) ELSE Len(w)
    <3>1. /\ pc[t] = "perform" /\ UNCHANGED <<asked, stopped>>
          /\ n = 0 => pc' = [pc EXCEPT ![t] = "cleanup"] /\ UNCHANGED life
          /\ n # 0 => pc' = [pc EXCEPT ![t] = "handler"] /\ life' = [life EXCEPT ![Head(w)] = "running"]
      BY <2>9 DEF PerformIo
    <3>2. d \in Descriptors
      BY <3>1 DEF RInv, InHand
    <3>3. w \in Seq(Ops) /\ data[d] \in Nat /\ Len(w) \in Nat /\ IsInjective(w)
      BY <3>2, LenProperties DEF RInv, RTypes, Once
    <3>4. n \in 0..Len(w)
      BY <3>3 DEF Readable
    <3> HIDE DEF n
    <3>5. CASE n = 0
      <4>1. pc'[t] = "cleanup" /\ \A u \in Threads : u # t => pc'[u] = pc[u]
        BY <1>t, <3>1, <3>5
      <4>2. QED BY <3>1, <3>5, <4>1, PoolQuiet
    <3>6. CASE n # 0
      <4>1. n > 0
        BY <3>4, <3>6
      <4>2. Head(w) \in Ops /\ Head(w) \in ToSet(w)
        BY <3>3, <3>4, <4>1, SetOfParts
      <4> HIDE DEF w
      <4>3. life[Head(w)] = "pending"
        BY <3>2, <4>2 DEF RInv, PendingOnly, w
      <4>4. QED BY <3>1, <3>6, <4>2, <4>3, BeginPool
    <3>7. QED BY <3>5, <3>6
  <2>10. QED BY <1>1, <2>1, <2>2, <2>3, <2>4, <2>5, <2>6, <2>7, <2>8, <2>9 DEF Thread, RunStep
<1>2. ASSUME NEW t \in Threads, PostContinuation(t) PROVE Pool!Next
  BY <1>2, SubmitPool DEF PostContinuation
<1>3. ASSUME NEW a \in Callers, Caller(a) \/ AnyCaller(a) PROVE Pool!Next \/ PoolStutters
  <2>1. CASE Signal(a)
    <3>1. /\ UNCHANGED <<life, asked, stopped>>
          /\ \A u \in Threads : pc'[u] = pc[u] \/ (pc[u] = "waiting" /\ pc'[u] = "woken")
      BY <1>t, <2>1 DEF Signal
    <3>2. QED BY <3>1, PoolQuiet
  <2>2. CASE Push(a)
    BY <2>2, PoolQuiet DEF Push, local
  <2>3. CASE Post(a)
    BY <2>3, SubmitPool DEF Post, local
  <2>4. CASE Stop(a)
    <3>1. StopAll(pc) /\ asked' = TRUE /\ UNCHANGED life
      BY <2>4 DEF Stop
    <3>2. Ending' = TRUE /\ Returned' = Returned
      BY <3>1, StopAllPool
    <3>3. QED BY <3>1, <3>2, PoolActions
  <2>5. ASSUME NEW d \in Descriptors, StartNow(a, d) PROVE Pool!Next \/ PoolStutters
    BY <1>2, <2>3, <2>5 DEF StartNow
  <2>6. ASSUME NEW d \in Descriptors, StartWait(a, d) PROVE Pool!Next
    BY <2>6, SubmitPool DEF StartWait, local
  <2>7. ASSUME NEW d \in Descriptors, CancelOps(a, d) \/ Close(a, d) \/ Reuse(a, d) PROVE PoolStutters
    BY <2>7, PoolQuiet DEF CancelOps, Close, Reuse, schedule, local
  <2>8. QED BY <1>3, <2>1, <2>2, <2>3, <2>4, <2>5, <2>6, <2>7 DEF Caller, AnyCaller, CallerStep
<1>4. CASE Kernel
  <2>1. ASSUME NEW d \in Descriptors, Arrive(d) PROVE PoolStutters
    BY <2>1, PoolQuiet DEF Arrive, schedule, local
  <2>2. ASSUME NEW t \in Threads, SpuriousWakeup(t) PROVE PoolStutters
    BY <1>t, <2>2, PoolQuiet DEF SpuriousWakeup
  <2>3. QED BY <1>4, <2>1, <2>2 DEF Kernel
<1>5. CASE UNCHANGED vars
  BY <1>5, PoolQuiet DEF vars, schedule, local
<1>6. QED BY <1>1, <1>2, <1>3, <1>4, <1>5 DEF Next, Continue

\* The io_context keeps what WorkPool promises: an operation is run at most
\* once, by a thread in run(), and run() returns only after stop() or with
\* nothing unfinished (run, do_run_one, work_cleanup, stop).
THEOREM ContextIsWorkPool == Spec => PoolSpec
<1>1. PoolStutters => UNCHANGED <<life, asked, stopped \/ (\E t \in Threads : pc[t] = "stop"),
                                  {t \in Threads : pc[t] = "returned"}>>
  BY DEF PoolStutters, Ending, Returned
<1>2. RInv /\ WInv /\ RInv' /\ WInv' /\ [Next]_vars
        => [Pool!Next]_<<life, asked, stopped \/ (\E t \in Threads : pc[t] = "stop"),
                         {t \in Threads : pc[t] = "returned"}>>
  BY <1>1, NextPool
<1>3. Init => Pool!Init
  BY InitPool
<1>4. QED BY <1>2, <1>3, SpecWInv, PTL DEF Spec, PoolSpec, Pool!Spec
=============================================================================
