------------------------ MODULE PrinterTimersProofs ------------------------
(***************************************************************************)
(* Theorems about PrinterTimers, for any number of threads and timers and  *)
(* any limit.                                                              *)
(***************************************************************************)
EXTENDS PrinterTimers, SequenceTheorems, FiniteSetTheorems, TLAPS

-----------------------------------------------------------------------------
(* The invariant.                                                          *)

\* A thread that runs the strand, or is about to: it took the lock and has not
\* handed it on.
Holds(t) == pc[t] \in {"invoke", "strand", "check", "read", "write", "rearm", "post"}

\* The lock is one token: held by one thread, or by the posted invoker.
OneHolder ==
    /\ \A t, u \in Threads : Holds(t) /\ Holds(u) => t = u
    /\ Invoker \in pending => \A t \in Threads : ~Holds(t)
    /\ locked <=> Invoker \in pending \/ \E t \in Threads : Holds(t)

\* Nothing waits in a strand that nobody runs, and the ready queue is empty
\* while its next function is on its way there.
NothingStranded ==
    /\ ~locked => strandReady = <<>> /\ strandWaiting = <<>>
    /\ \A t \in Threads : pc[t] = "invoke" => strandReady = <<>>

\* A thread has a timer's handler exactly where it uses it.
HasHandler(t) == pc[t] \in {"enqueue", "invoke", "check", "read", "write", "rearm"}
Handed == \A t \in Threads : HasHandler(t) => hand[t] \in Timers

\* What print1() and print2() have seen of count_ is still true when they use it.
NothingStale ==
    \A t \in Threads :
      /\ pc[t] \in {"read", "write"} => count < Limit
      /\ pc[t] = "write" => reg[t] = count

IInv == TypeOK /\ OneHolder /\ NothingStranded /\ Handed /\ NothingStale

LEMMA InitIInv == Init => IInv
<1> SUFFICES ASSUME Init PROVE IInv
  OBVIOUS
<1>1. TypeOK
  <2>1. /\ reg \in [Threads -> 0..Limit] /\ count \in 0..Limit /\ locked \in BOOLEAN
        /\ strandReady \in Seq(Timers) /\ strandWaiting \in Seq(Timers)
    <3>1. reg \in [Threads -> 0..Limit] /\ count \in 0..Limit
      BY PrinterParameters DEF Init
    <3>2. strandReady \in Seq(Timers) /\ strandWaiting \in Seq(Timers)
      BY EmptySeq DEF Init
    <3>3. locked \in BOOLEAN
      BY DEF Init
    <3>4. QED BY <3>1, <3>2, <3>3
  <2>2. /\ now \in Nat /\ expiry \in [Timers -> Nat] /\ prints \in [Timers -> Nat]
        /\ armed \subseteq Timers /\ pending \subseteq Timers \cup {Invoker}
    BY DEF Init
  <2>3. pc \in [Threads -> Places] /\ hand \in [Threads -> Timers \cup {None}]
    BY DEF Init, Places
  <2>4. QED BY <2>1, <2>2, <2>3 DEF TypeOK
<1>2. OneHolder /\ NothingStranded
  BY DEF Init, OneHolder, NothingStranded, Holds
<1>3. Handed /\ NothingStale
  BY DEF Init, Handed, HasHandler, NothingStale
<1>4. QED BY <1>1, <1>2, <1>3 DEF IInv

LEMMA NextIInv == IInv /\ [Next]_vars => IInv'
<1> SUFFICES ASSUME IInv, [Next]_vars PROVE IInv'
  OBVIOUS
<1> USE PrinterParameters DEF IInv, TypeOK, Places
<1>1. CASE Tick
  <2>1. TypeOK'
    BY <1>1 DEF Tick, counter, strand
  <2>2. UNCHANGED <<pending, pc, hand, reg, count, locked, strandReady, strandWaiting>>
    BY <1>1 DEF Tick, counter, strand
  <2>3. QED BY <2>1, <2>2 DEF OneHolder, NothingStranded, Handed, HasHandler, NothingStale, Holds
<1>2. ASSUME NEW i \in Timers, Expire(i) PROVE IInv'
  <2>1. TypeOK'
    BY <1>2 DEF Expire, counter, strand
  <2>2. (Invoker \in pending' <=> Invoker \in pending) /\ UNCHANGED <<pc, hand, reg, count, strand>>
    BY <1>2 DEF Expire, counter, Invoker
  <2>3. QED BY <2>1, <2>2 DEF strand, OneHolder, NothingStranded, Handed, HasHandler, NothingStale, Holds
<1>3. ASSUME NEW t \in Threads, Run(t) PROVE IInv'
  <2>1. CASE TakeTimer(t)
    <3>1. PICK i \in pending \cap Timers :
            /\ Go(t, "loop", "enqueue") /\ hand' = [hand EXCEPT ![t] = i] /\ pending' = pending \ {i}
            /\ UNCHANGED <<timers, counter, strand>>
      BY <2>1 DEF TakeTimer
    <3>2. TypeOK'
      BY <3>1 DEF Go, timers, counter, strand
    <3>3. \A u \in Threads : Holds(u)' <=> Holds(u)
      BY <3>1 DEF Go, Holds
    <3>4. Invoker \in pending' <=> Invoker \in pending
      BY <3>1 DEF Invoker
    <3>5. OneHolder' /\ NothingStranded'
      BY <3>1, <3>3, <3>4 DEF Go, strand, OneHolder, NothingStranded
    <3>6. Handed' /\ NothingStale'
      BY <3>1 DEF Go, counter, Handed, HasHandler, NothingStale
    <3>7. QED BY <3>2, <3>5, <3>6
  <2>2. CASE TakeInvoker(t)
    <3>1. TypeOK'
      BY <2>2 DEF TakeInvoker, Go, timers, counter, strand
    <3>2. OneHolder' /\ NothingStranded'
      BY <2>2 DEF TakeInvoker, Go, strand, OneHolder, NothingStranded, Holds
    <3>3. Handed' /\ NothingStale'
      BY <2>2 DEF TakeInvoker, Go, counter, Handed, HasHandler, NothingStale
    <3>4. QED BY <3>1, <3>2, <3>3
  <2>3. CASE Leave(t)
    <3>1. TypeOK'
      BY <2>3 DEF Leave, Go, timers, counter, strand
    <3>2. OneHolder' /\ NothingStranded'
      BY <2>3, SMTT(30) DEF Leave, Go, strand, OneHolder, NothingStranded, Holds
    <3>3. Handed' /\ NothingStale'
      BY <2>3 DEF Leave, Go, counter, Handed, HasHandler, NothingStale
    <3>4. QED BY <3>1, <3>2, <3>3
  <2>4. CASE Enqueue(t)
    <3>1. hand[t] \in Timers /\ pc[t] = "enqueue" /\ ~Holds(t)
      BY <2>4 DEF Enqueue, Go, Handed, HasHandler, Holds
    <3>2. CASE locked
      <4>1. /\ strandWaiting' = Append(strandWaiting, hand[t]) /\ pc' = [pc EXCEPT ![t] = "loop"]
            /\ hand' = [hand EXCEPT ![t] = None]
            /\ UNCHANGED <<locked, strandReady, pending, timers, counter>>
        BY <2>4, <3>2 DEF Enqueue, Go
      <4>2. strandWaiting' \in Seq(Timers)
        BY <3>1, <4>1
      <4>3. TypeOK'
        BY <4>1, <4>2 DEF timers, counter
      <4>4. \A u \in Threads : Holds(u)' <=> Holds(u)
        BY <3>1, <4>1 DEF Holds
      <4>5. OneHolder' /\ NothingStranded'
        BY <3>2, <4>1, <4>4 DEF OneHolder, NothingStranded
      <4>6. Handed' /\ NothingStale'
        BY <3>1, <4>1 DEF counter, Handed, HasHandler, NothingStale
      <4>7. QED BY <4>3, <4>5, <4>6
    <3>3. CASE ~locked
      <4>1. \A u \in Threads : ~Holds(u)
        BY <3>3 DEF OneHolder
      <4>2. TypeOK'
        BY <2>4, <3>1, <3>3 DEF Enqueue, Go, timers, counter
      <4>3. OneHolder' /\ NothingStranded'
        BY <2>4, <3>1, <3>3, <4>1 DEF Enqueue, Go, OneHolder, NothingStranded, Holds
      <4>4. Handed' /\ NothingStale'
        BY <2>4, <3>1, <3>3 DEF Enqueue, Go, counter, Handed, HasHandler, NothingStale
      <4>5. QED BY <4>2, <4>3, <4>4
    <3>4. QED BY <3>2, <3>3
  <2>5. CASE Invoke(t)
    <3>1. hand[t] \in Timers /\ pc[t] = "invoke" /\ Holds(t)
      BY <2>5 DEF Invoke, Go, Handed, HasHandler, Holds
    <3>2. TypeOK'
      BY <2>5, <3>1, SMTT(30) DEF Invoke, Go, timers, counter
    <3>3. OneHolder' /\ NothingStranded'
      BY <2>5, <3>1 DEF Invoke, Go, OneHolder, NothingStranded, Holds
    <3>4. Handed' /\ NothingStale'
      BY <2>5, <3>1 DEF Invoke, Go, counter, Handed, HasHandler, NothingStale
    <3>5. QED BY <3>2, <3>3, <3>4
  <2>6. CASE RunNext(t)
    <3>1. Head(strandReady) \in Timers /\ Tail(strandReady) \in Seq(Timers) /\ pc[t] = "strand" /\ Holds(t)
      BY <2>6, HeadTailProperties DEF RunNext, Go, Holds
    <3>2. TypeOK'
      BY <2>6, <3>1 DEF RunNext, Go, timers, counter
    <3>3. OneHolder' /\ NothingStranded'
      BY <2>6, <3>1, SMTT(30) DEF RunNext, Go, OneHolder, NothingStranded, Holds
    <3>4. Handed' /\ NothingStale'
      BY <2>6, <3>1 DEF RunNext, Go, counter, Handed, HasHandler, NothingStale
    <3>5. QED BY <3>2, <3>3, <3>4
  <2>7. CASE InvokerExit(t)
    <3>1. pc[t] = "strand" /\ Holds(t) /\ Invoker \notin pending /\ \A u \in Threads : Holds(u) => u = t
      BY <2>7 DEF InvokerExit, Go, Holds, OneHolder
    <3>2. TypeOK'
      BY <2>7 DEF InvokerExit, Go, timers, counter
    <3>3. OneHolder' /\ NothingStranded'
      BY <2>7, <3>1 DEF InvokerExit, Go, OneHolder, NothingStranded, Holds
    <3>4. Handed' /\ NothingStale'
      BY <2>7, <3>1 DEF InvokerExit, Go, counter, Handed, HasHandler, NothingStale
    <3>5. QED BY <3>2, <3>3, <3>4
  <2>8. CASE PostInvoker(t)
    <3>1. pc[t] = "post" /\ Holds(t) /\ \A u \in Threads : Holds(u) => u = t
      BY <2>8 DEF PostInvoker, Go, Holds, OneHolder
    <3>2. TypeOK'
      BY <2>8 DEF PostInvoker, Go, timers, counter, strand
    <3>3. OneHolder' /\ NothingStranded'
      BY <2>8, <3>1 DEF PostInvoker, Go, strand, OneHolder, NothingStranded, Holds
    <3>4. Handed' /\ NothingStale'
      BY <2>8, <3>1 DEF PostInvoker, Go, counter, Handed, HasHandler, NothingStale
    <3>5. QED BY <3>2, <3>3, <3>4
  <2>9. CASE Check(t)
    <3>1. TypeOK'
      BY <2>9 DEF Check, Go, timers, counter, strand
    <3>2. OneHolder' /\ NothingStranded'
      BY <2>9, SMTT(30) DEF Check, Go, strand, OneHolder, NothingStranded, Holds
    <3>3. Handed' /\ NothingStale'
      BY <2>9 DEF Check, Go, counter, Handed, HasHandler, NothingStale
    <3>4. QED BY <3>1, <3>2, <3>3
  <2>10. CASE Read(t)
    <3>1. hand[t] \in Timers /\ Holds(t) /\ \A u \in Threads : Holds(u) => u = t
      BY <2>10 DEF Read, Go, Handed, HasHandler, OneHolder, Holds
    <3>2. TypeOK'
      BY <2>10, <3>1, SMTT(30) DEF Read, Go, timers, strand, NothingStale
    <3>3. OneHolder' /\ NothingStranded'
      BY <2>10, <3>1, SMTT(30) DEF Read, Go, timers, strand, OneHolder, NothingStranded, Holds, Invoker
    <3>4. Handed' /\ NothingStale'
      BY <2>10, <3>1 DEF Read, Go, timers, strand, Handed, HasHandler, NothingStale, Holds
    <3>5. QED BY <3>2, <3>3, <3>4
  <2>11. CASE Write(t)
    <3>1. hand[t] \in Timers /\ Holds(t) /\ \A u \in Threads : Holds(u) => u = t
      BY <2>11 DEF Write, Go, Handed, HasHandler, OneHolder, Holds
    <3>2. TypeOK'
      BY <2>11, <3>1, SMTT(30) DEF Write, Go, timers, strand, NothingStale
    <3>3. OneHolder' /\ NothingStranded'
      BY <2>11, <3>1 DEF Write, Go, timers, strand, OneHolder, NothingStranded, Holds, Invoker
    <3>4. Handed' /\ NothingStale'
      BY <2>11, <3>1 DEF Write, Go, timers, strand, Handed, HasHandler, NothingStale, Holds
    <3>5. QED BY <3>2, <3>3, <3>4
  <2>12. CASE Rearm(t)
    <3>1. hand[t] \in Timers /\ Holds(t) /\ \A u \in Threads : Holds(u) => u = t
      BY <2>12 DEF Rearm, Go, Handed, HasHandler, OneHolder, Holds
    <3>2. TypeOK'
      BY <2>12, <3>1 DEF Rearm, Go, counter, strand, NothingStale
    <3>3. OneHolder' /\ NothingStranded'
      BY <2>12, <3>1, SMTT(30) DEF Rearm, Go, counter, strand, OneHolder, NothingStranded, Holds, Invoker
    <3>4. Handed' /\ NothingStale'
      BY <2>12, <3>1 DEF Rearm, Go, counter, strand, Handed, HasHandler, NothingStale, Holds
    <3>5. QED BY <3>2, <3>3, <3>4
  <2>13. QED
    BY <1>3, <2>1, <2>2, <2>3, <2>4, <2>5, <2>6, <2>7, <2>8, <2>9, <2>10, <2>11, <2>12 DEF Run
<1>4. CASE Done \/ UNCHANGED vars
  <2>1. UNCHANGED vars
    BY <1>4 DEF Done
  <2>2. TypeOK'
    BY <2>1 DEF vars
  <2>3. (OneHolder /\ NothingStranded /\ Handed /\ NothingStale)'
    BY <2>1 DEF vars, OneHolder, NothingStranded, Handed, HasHandler, NothingStale, Holds
  <2>4. QED BY <2>2, <2>3
<1>5. QED BY <1>1, <1>2, <1>3, <1>4 DEF Next, Clock

LEMMA Invariance == Spec => []IInv
  BY InitIInv, NextIInv, PTL DEF Spec

\* The types; above all count_ never exceeds the limit, however many threads
\* run the handlers (the test and the increment in print1() and print2()).
THEOREM TypeCorrect == Spec => []TypeOK
<1>1. IInv => TypeOK
  BY DEF IInv
<1>2. QED BY <1>1, Invariance, PTL

\* No two threads are in the handlers of the timers at the same time (the
\* strand: the lock is passed on, never taken twice).
THEOREM HandlersExclude == Spec => []Exclusive
<1>1. IInv => Exclusive
  BY DEF IInv, OneHolder, Exclusive, InHandler, Holds
<1>2. QED BY <1>1, Invariance, PTL

-----------------------------------------------------------------------------
(* The strand is a SerialExecutor.                                         *)

\* What the refinement mapping comes to, thread by thread.
Mapped ==
    /\ (\A t \in Threads : pc[t] # "invoke") => Fifo = strandReady \o strandWaiting
    /\ \A t \in Threads : pc[t] = "invoke" => Fifo = <<hand[t]>> \o strandWaiting
    /\ (\A t \in Threads : ~InHandler(t)) => Running = None
    /\ \A t \in Threads : InHandler(t) => Running = hand[t] /\ hand[t] # None

LEMMA Mapping == IInv => Mapped
<1> SUFFICES ASSUME IInv PROVE Mapped
  OBVIOUS
<1>1. ASSUME \A t \in Threads : pc[t] # "invoke" PROVE Fifo = strandReady \o strandWaiting
  <2>1. Invoking = {}
    BY <1>1 DEF Invoking
  <2>2. QED BY <2>1, ConcatEmptySeq DEF Fifo, IInv, TypeOK
<1>2. ASSUME NEW t \in Threads, pc[t] = "invoke" PROVE Fifo = <<hand[t]>> \o strandWaiting
  <2>1. Invoking = {t}
    BY <1>2 DEF Invoking, IInv, OneHolder, Holds
  <2>2. strandReady = <<>> /\ hand[t] \in Timers
    BY <1>2 DEF IInv, NothingStranded, Handed, HasHandler
  <2>3. <<hand[t]>> \in Seq(Timers) /\ <<hand[t]>> \o <<>> = <<hand[t]>>
    BY <2>2, ConcatEmptySeq
  <2>4. QED BY <2>1, <2>2, <2>3 DEF Fifo
<1>3. ASSUME NEW t \in Threads, InHandler(t) PROVE Running = hand[t] /\ hand[t] # None
  <2>1. InStrand = {t}
    BY <1>3 DEF IInv, OneHolder, InStrand, InHandler, Holds
  <2>2. hand[t] \in Timers
    BY <1>3 DEF IInv, Handed, HasHandler, InHandler
  <2>3. QED BY <2>1, <2>2, PrinterParameters DEF Running
<1>4. ASSUME \A t \in Threads : ~InHandler(t) PROVE Running = None
  BY <1>4 DEF Running, InStrand
<1>5. QED BY <1>1, <1>2, <1>3, <1>4 DEF Mapped

LEMMA MappingNext == IInv' => Mapped'
  BY Mapping, PTL

\* A step that moves no function into, within or out of the strand.
LEMMA Stutters ==
  ASSUME Mapped, Mapped', UNCHANGED <<strandReady, strandWaiting>>,
         \A u \in Threads : /\ (pc[u] = "invoke")' <=> pc[u] = "invoke"
                            /\ InHandler(u)' <=> InHandler(u)
                            /\ pc[u] = "invoke" \/ InHandler(u) => hand'[u] = hand[u]
  PROVE  UNCHANGED <<Fifo, Running>>
<1>1. Fifo' = Fifo
  <2>1. CASE \E u \in Threads : pc[u] = "invoke"
    BY <2>1 DEF Mapped
  <2>2. CASE \A u \in Threads : pc[u] # "invoke"
    BY <2>2 DEF Mapped
  <2>3. QED BY <2>1, <2>2
<1>2. Running' = Running
  <2>1. CASE \E u \in Threads : InHandler(u)
    BY <2>1 DEF Mapped
  <2>2. CASE \A u \in Threads : ~InHandler(u)
    BY <2>2 DEF Mapped
  <2>3. QED BY <2>1, <2>2
<1>3. QED BY <1>1, <1>2

LEMMA AppendToConcat ==
  ASSUME NEW s \in Seq(Timers), NEW w \in Seq(Timers), NEW i \in Timers
  PROVE  s \o Append(w, i) = Append(s \o w, i)
<1>1. Append(w, i) = w \o <<i>> /\ Append(s \o w, i) = (s \o w) \o <<i>> /\ <<i>> \in Seq(Timers)
  BY ConcatProperties
<1>2. QED BY <1>1, ConcatAssociative

LEMMA HeadOfConcat ==
  ASSUME NEW s \in Seq(Timers), NEW w \in Seq(Timers), s # <<>>
  PROVE  s \o w # <<>> /\ Head(s \o w) = Head(s) /\ Tail(s \o w) = Tail(s) \o w
<1> DEFINE h == Head(s)  r == Tail(s)
<1>1. h \in Timers /\ r \in Seq(Timers) /\ Len(r) = Len(s) - 1 /\ \A i \in 1..Len(r) : r[i] = s[i + 1]
  BY HeadTailProperties
<1>2. s \o w \in Seq(Timers) /\ Len(s \o w) = Len(s) + Len(w) /\ Len(s) \in Nat \ {0} /\ Len(w) \in Nat
  BY ConcatProperties, EmptySeq, LenProperties
<1>3. s \o w # <<>>
  BY <1>2
<1>4. Head(s \o w) = s[1] /\ h = s[1]
  BY <1>2, <1>3
<1>5. /\ Tail(s \o w) \in Seq(Timers) /\ Len(Tail(s \o w)) = Len(s) + Len(w) - 1
      /\ \A i \in 1..Len(Tail(s \o w)) : Tail(s \o w)[i] = (s \o w)[i + 1]
  BY <1>2, <1>3, HeadTailProperties
<1>6. r \o w \in Seq(Timers) /\ Len(r \o w) = Len(r) + Len(w)
      /\ \A i \in 1..Len(r) + Len(w) : (r \o w)[i] = IF i <= Len(r) THEN r[i] ELSE w[i - Len(r)]
  BY <1>1, ConcatProperties
<1>7. \A i \in 1..Len(r \o w) : (r \o w)[i] = Tail(s \o w)[i]
  <2> TAKE i \in 1..Len(r \o w)
  <2>1. (s \o w)[i + 1] = IF i + 1 <= Len(s) THEN s[i + 1] ELSE w[i + 1 - Len(s)]
    BY <1>1, <1>2, <1>6, ConcatProperties
  <2>2. QED BY <2>1, <1>1, <1>2, <1>5, <1>6
<1>8. r \o w = Tail(s \o w)
  BY <1>1, <1>2, <1>5, <1>6, <1>7, SeqEqual
<1>9. QED BY <1>3, <1>4, <1>8

LEMMA InitRefines == Init => Executor!Init
<1> SUFFICES ASSUME Init PROVE Executor!Init
  OBVIOUS
<1>1. Fifo = strandReady \o strandWaiting /\ Running = None
  BY InitIInv, Mapping DEF Init, Mapped, InHandler
<1>2. QED BY <1>1, ConcatEmptySeq DEF Init, Executor!Init

LEMMA NextRefines == IInv /\ IInv' /\ [Next]_vars => [Executor!Next]_<<Fifo, Running>>
<1> SUFFICES ASSUME IInv, IInv', [Next]_vars PROVE Executor!Next \/ UNCHANGED <<Fifo, Running>>
  OBVIOUS
<1>a. Mapped /\ Mapped'
  BY Mapping, MappingNext
<1>b. /\ strandReady \in Seq(Timers) /\ strandWaiting \in Seq(Timers)
      /\ pc \in [Threads -> Places] /\ hand \in [Threads -> Timers \cup {None}]
  BY DEF IInv, TypeOK
<1>1. CASE Clock \/ Done \/ UNCHANGED vars
  <2>1. UNCHANGED <<pc, hand, strandReady, strandWaiting>>
    BY <1>1 DEF Clock, Tick, Expire, Done, vars, strand
  <2>2. QED BY <2>1, <1>a, Stutters DEF InHandler
<1>2. ASSUME NEW t \in Threads, Run(t) PROVE Executor!Next \/ UNCHANGED <<Fifo, Running>>
  <2>1. CASE TakeTimer(t)
    <3>1. UNCHANGED <<strandReady, strandWaiting>>
      BY <2>1 DEF TakeTimer, strand
    <3>2. \A u \in Threads : u # t => pc'[u] = pc[u] /\ hand'[u] = hand[u]
      BY <2>1, <1>b DEF TakeTimer, Go
    <3>3. pc[t] = "loop" /\ pc'[t] = "enqueue"
      BY <2>1, <1>b DEF TakeTimer, Go
    <3>4. QED BY <3>1, <3>2, <3>3, <1>a, Stutters DEF InHandler
  <2>2. CASE TakeInvoker(t) \/ Leave(t) \/ PostInvoker(t) \/ Read(t) \/ Write(t)
    BY <2>2, <1>a, <1>b, Stutters DEF TakeInvoker, Leave, PostInvoker, Read, Write, Go, strand, InHandler
  <2>3. CASE Enqueue(t)
    <3>1. hand[t] \in Timers
      BY <2>3 DEF Enqueue, Go, IInv, Handed, HasHandler
    <3>2. CASE locked
      <4>1. /\ pc[t] = "enqueue" /\ pc' = [pc EXCEPT ![t] = "loop"] /\ UNCHANGED strandReady
            /\ strandWaiting' = Append(strandWaiting, hand[t]) /\ hand' = [hand EXCEPT ![t] = None]
        BY <2>3, <3>2 DEF Enqueue, Go
      <4>2. \A u \in Threads : /\ (pc[u] = "invoke")' <=> pc[u] = "invoke"
                               /\ InHandler(u)' <=> InHandler(u)
                               /\ pc[u] = "invoke" \/ InHandler(u) => hand'[u] = hand[u]
        BY <4>1, <1>b DEF InHandler
      <4>3. Running' = Running
        <5>1. CASE \E u \in Threads : InHandler(u)
          BY <5>1, <4>2, <1>a DEF Mapped
        <5>2. CASE \A u \in Threads : ~InHandler(u)
          BY <5>2, <4>2, <1>a DEF Mapped
        <5>3. QED BY <5>1, <5>2
      <4>4. Fifo' = Append(Fifo, hand[t])
        <5>1. ASSUME NEW u \in Threads, pc[u] = "invoke" PROVE Fifo' = Append(Fifo, hand[t])
          <6>1. hand[u] \in Timers /\ <<hand[u]>> \in Seq(Timers)
            BY <5>1 DEF IInv, Handed, HasHandler
          <6>2. Fifo = <<hand[u]>> \o strandWaiting /\ Fifo' = <<hand[u]>> \o strandWaiting'
            BY <5>1, <4>2, <1>a DEF Mapped
          <6>3. QED BY <6>1, <6>2, <4>1, <3>1, <1>b, AppendToConcat
        <5>2. CASE \A u \in Threads : pc[u] # "invoke"
          <6>1. Fifo = strandReady \o strandWaiting /\ Fifo' = strandReady \o strandWaiting'
            BY <5>2, <4>1, <4>2, <1>a DEF Mapped
          <6>2. QED BY <6>1, <4>1, <3>1, <1>b, AppendToConcat
        <5>3. QED BY <5>1, <5>2
      <4>5. QED BY <4>3, <4>4, <3>1 DEF Executor!Next, Executor!Give
    <3>3. CASE ~locked
      <4>1. /\ pc' = [pc EXCEPT ![t] = "invoke"] /\ UNCHANGED <<hand, strandWaiting>>
            /\ strandReady = <<>> /\ strandWaiting = <<>> /\ pc[t] = "enqueue"
        BY <2>3, <3>3 DEF Enqueue, Go, IInv, NothingStranded
      <4>2. \A u \in Threads : pc[u] # "invoke" /\ ~InHandler(u)
        BY <3>3 DEF IInv, OneHolder, Holds, InHandler
      <4>3. pc'[t] = "invoke" /\ \A u \in Threads : ~InHandler(u)'
        BY <4>1, <4>2, <1>b DEF InHandler
      <4>4. Running' = Running
        BY <4>2, <4>3, <1>a DEF Mapped
      <4>5. Fifo = <<>> \o <<>> /\ Fifo' = <<hand[t]>> \o <<>>
        BY <4>1, <4>2, <4>3, <1>a DEF Mapped
      <4>6. Fifo' = Append(Fifo, hand[t])
        BY <4>5, <3>1, ConcatEmptySeq
      <4>7. QED BY <4>4, <4>6, <3>1 DEF Executor!Next, Executor!Give
    <3>4. QED BY <3>2, <3>3
  <2>4. CASE Invoke(t)
    <3>1. /\ pc[t] = "invoke" /\ pc' = [pc EXCEPT ![t] = "strand"] /\ UNCHANGED strandWaiting
          /\ strandReady' = Append(strandReady, hand[t]) /\ strandReady = <<>> /\ hand[t] \in Timers
      BY <2>4 DEF Invoke, Go, IInv, NothingStranded, Handed, HasHandler
    <3>2. \A u \in Threads : ~InHandler(u) /\ ~InHandler(u)' /\ pc'[u] # "invoke"
      BY <3>1, <1>b DEF IInv, OneHolder, Holds, InHandler
    <3>3. Running' = Running /\ Fifo = <<hand[t]>> \o strandWaiting /\ Fifo' = strandReady' \o strandWaiting
      BY <3>1, <3>2, <1>a DEF Mapped
    <3>4. strandReady' = <<hand[t]>>
      BY <3>1
    <3>5. QED BY <3>3, <3>4
  <2>5. CASE RunNext(t)
    <3>1. /\ pc[t] = "strand" /\ pc' = [pc EXCEPT ![t] = "check"] /\ strandReady # <<>>
          /\ hand' = [hand EXCEPT ![t] = Head(strandReady)] /\ strandReady' = Tail(strandReady)
          /\ UNCHANGED strandWaiting
      BY <2>5 DEF RunNext, Go
    <3>2. \A u \in Threads : ~InHandler(u) /\ pc[u] # "invoke" /\ pc'[u] # "invoke"
      BY <3>1, <1>b DEF IInv, OneHolder, Holds, InHandler
    <3>3. InHandler(t)' /\ hand'[t] = Head(strandReady)
      BY <3>1, <1>b DEF InHandler
    <3>4. Running = None /\ Running' = Head(strandReady)
      BY <3>2, <3>3, <1>a DEF Mapped
    <3>5. Fifo = strandReady \o strandWaiting /\ Fifo' = Tail(strandReady) \o strandWaiting
      BY <3>1, <3>2, <1>a DEF Mapped
    <3>6. Fifo # <<>> /\ Head(Fifo) = Head(strandReady) /\ Fifo' = Tail(Fifo)
      BY <3>1, <3>5, <1>b, HeadOfConcat
    <3>7. QED BY <3>4, <3>6 DEF Executor!Next, Executor!Start
  <2>6. CASE InvokerExit(t)
    <3>1. /\ pc[t] = "strand" /\ pc'[t] \in {"post", "loop"} /\ \A u \in Threads : u # t => pc'[u] = pc[u]
          /\ strandReady = <<>> /\ strandReady' = strandWaiting /\ strandWaiting' = <<>>
      BY <2>6, <1>b DEF InvokerExit, Go
    <3>2. \A u \in Threads : /\ ~InHandler(u) /\ pc[u] # "invoke"
                             /\ ~InHandler(u)' /\ pc'[u] # "invoke"
      BY <3>1 DEF IInv, OneHolder, Holds, InHandler
    <3>3. Running' = Running /\ Fifo = <<>> \o strandWaiting /\ Fifo' = strandWaiting \o <<>>
      BY <3>1, <3>2, <1>a DEF Mapped
    <3>4. QED BY <3>3, <1>b, ConcatEmptySeq
  <2>7. CASE Check(t) \/ Rearm(t)
    <3>1. /\ InHandler(t) /\ UNCHANGED <<strandReady, strandWaiting>>
          /\ \A u \in Threads : u # t => pc'[u] = pc[u] /\ hand'[u] = hand[u]
          /\ pc'[t] = "strand" \/ (pc'[t] = "read" /\ hand'[t] = hand[t])
      BY <2>7, <1>b DEF Check, Rearm, Go, InHandler, strand
    <3>2. \A u \in Threads : (InHandler(u) => u = t) /\ pc[u] # "invoke" /\ pc'[u] # "invoke"
      BY <3>1 DEF IInv, OneHolder, Holds, InHandler
    <3>3. Fifo' = Fifo
      BY <3>1, <3>2, <1>a DEF Mapped
    <3>4. CASE pc'[t] = "read" /\ hand'[t] = hand[t]
      BY <3>1, <3>3, <3>4, <1>a DEF Mapped, InHandler
    <3>5. CASE pc'[t] = "strand"
      <4>1. \A u \in Threads : ~InHandler(u)'
        BY <3>1, <3>2, <3>5 DEF InHandler
      <4>2. Running # None /\ Running' = None
        BY <4>1, <3>1, <1>a DEF Mapped
      <4>3. QED BY <4>2, <3>3 DEF Executor!Next, Executor!Return
    <3>6. QED BY <3>1, <3>4, <3>5
  <2>8. QED BY <1>2, <2>1, <2>2, <2>3, <2>4, <2>5, <2>6, <2>7 DEF Run
<1>3. QED BY <1>1, <1>2 DEF Next

\* The strand of any number of threads implements SerialExecutor: what is given
\* to it runs one at a time in the order given (enqueue(), the two queues of
\* strand_impl and the invoker that hands itself on).
THEOREM StrandIsSerial == Spec => ExecutorSpec
<1>1. Init /\ []IInv /\ [][Next]_vars => Executor!Init /\ [][Executor!Next]_<<Fifo, Running>>
  BY InitRefines, NextRefines, PTL
<1>2. QED BY <1>1, Invariance, PTL DEF Spec, ExecutorSpec, Executor!Spec
-----------------------------------------------------------------------------
(* The pace.                                                               *)

Elements(q) == {q[n] : n \in 1..Len(q)}
Distinct(q) == \A m, n \in 1..Len(q) : q[m] = q[n] => m = n

\* A timer's handler is in one place: its wait is pending, or it has expired,
\* or it waits in the strand, or a thread has it.
OnePlace ==
    /\ armed \cap pending = {}
    /\ (armed \cup pending) \cap (Elements(strandReady) \cup Elements(strandWaiting)) = {}
    /\ Elements(strandReady) \cap Elements(strandWaiting) = {}
    /\ Distinct(strandReady) /\ Distinct(strandWaiting)
    /\ \A t \in Threads : HasHandler(t) =>
         /\ hand[t] \notin armed \cup pending \cup Elements(strandReady) \cup Elements(strandWaiting)
         /\ \A u \in Threads : HasHandler(u) /\ hand[u] = hand[t] => u = t

\* A timer has printed once for every second of its expiry but the last, for
\* which it prints only when that has come; past the print, its handler has yet
\* to move the expiry.
Printed(t) == pc[t] \in {"write", "rearm"}
OnSchedule ==
    /\ \A i \in Timers : prints[i] \in Nat /\ expiry[i] \in Nat /\ prints[i] <= now
    /\ \A i \in armed : expiry[i] = prints[i] + 1
    /\ \A i \in (pending \cap Timers) \cup Elements(strandReady) \cup Elements(strandWaiting) :
         expiry[i] = prints[i] + 1 /\ expiry[i] <= now
    /\ \A t \in Threads : HasHandler(t) =>
         /\ Printed(t) => expiry[hand[t]] = prints[hand[t]]
         /\ ~Printed(t) => expiry[hand[t]] = prints[hand[t]] + 1 /\ expiry[hand[t]] <= now

PInv == OnePlace /\ OnSchedule

LEMMA ElementsOfAppend ==
  ASSUME NEW q \in Seq(Timers), NEW i \in Timers
  PROVE  /\ Elements(Append(q, i)) = Elements(q) \cup {i}
         /\ Distinct(q) /\ i \notin Elements(q) => Distinct(Append(q, i))
<1>1. /\ Len(Append(q, i)) = Len(q) + 1 /\ Len(q) \in Nat
      /\ \A n \in 1..Len(q) : Append(q, i)[n] = q[n]
      /\ Append(q, i)[Len(q) + 1] = i
  OBVIOUS
<1>2. Elements(Append(q, i)) = Elements(q) \cup {i}
  BY <1>1 DEF Elements
<1>3. Distinct(q) /\ i \notin Elements(q) => Distinct(Append(q, i))
  BY <1>1 DEF Elements, Distinct
<1>4. QED BY <1>2, <1>3

LEMMA ElementsOfTail ==
  ASSUME NEW q \in Seq(Timers), q # <<>>, Distinct(q)
  PROVE  /\ Elements(Tail(q)) = Elements(q) \ {Head(q)} /\ Head(q) \in Elements(q)
         /\ Distinct(Tail(q))
<1>1. /\ Len(Tail(q)) = Len(q) - 1 /\ Len(q) \in Nat \ {0} /\ Head(q) = q[1]
      /\ \A n \in 1..Len(Tail(q)) : Tail(q)[n] = q[n + 1]
  BY HeadTailProperties, EmptySeq
<1>2. Head(q) \in Elements(q)
  BY <1>1 DEF Elements
<1>3. Elements(Tail(q)) \subseteq Elements(q) \ {Head(q)}
  BY <1>1 DEF Elements, Distinct
<1>4. ASSUME NEW x \in Elements(q), x # Head(q) PROVE x \in Elements(Tail(q))
  <2>1. PICK n \in 1..Len(q) : x = q[n]
    BY DEF Elements
  <2>2. n - 1 \in 1..Len(Tail(q)) /\ Tail(q)[n - 1] = x
    BY <2>1, <1>1, <1>4
  <2>3. QED BY <2>2 DEF Elements
<1>5. Distinct(Tail(q))
  BY <1>1 DEF Distinct
<1>6. QED BY <1>2, <1>3, <1>4, <1>5

LEMMA ElementsOfEmpty == Elements(<<>>) = {} /\ Distinct(<<>>)
  BY DEF Elements, Distinct

LEMMA InitPInv == Init => PInv
<1> SUFFICES ASSUME Init PROVE PInv
  OBVIOUS
<1>1. Elements(strandReady) = {} /\ Elements(strandWaiting) = {} /\ Distinct(strandReady) /\ Distinct(strandWaiting)
  BY ElementsOfEmpty DEF Init
<1>2. OnePlace
  BY <1>1 DEF Init, OnePlace, HasHandler
<1>3. OnSchedule
  BY <1>1 DEF Init, OnSchedule, HasHandler
<1>4. QED BY <1>2, <1>3 DEF PInv

LEMMA NextPInv == IInv /\ PInv /\ [Next]_vars => PInv'
<1> SUFFICES ASSUME IInv, PInv, [Next]_vars PROVE PInv'
  OBVIOUS
<1>a. /\ strandReady \in Seq(Timers) /\ strandWaiting \in Seq(Timers) /\ now \in Nat
      /\ pc \in [Threads -> Places] /\ hand \in [Threads -> Timers \cup {None}]
      /\ armed \subseteq Timers /\ expiry \in [Timers -> Nat] /\ prints \in [Timers -> Nat]
  BY DEF IInv, TypeOK
<1>b. \A t \in Threads : HasHandler(t) => hand[t] \in Timers
  BY DEF IInv, Handed
<1> USE DEF PInv
<1>1. CASE Tick
  <2>1. OnePlace'
    BY <1>1 DEF Tick, counter, strand, OnePlace, HasHandler
  <2>2. OnSchedule'
    <3>1. /\ now' = now + 1
          /\ UNCHANGED <<expiry, armed, pending, pc, hand, prints, strandReady, strandWaiting>>
      BY <1>1 DEF Tick, counter, strand
    <3>2. Elements(strandReady) \subseteq Timers /\ Elements(strandWaiting) \subseteq Timers
      BY <1>a, SMTT(30) DEF Elements
    <3>3. \A i \in Timers : /\ prints[i] <= now => prints[i] <= now'
                            /\ expiry[i] <= now => expiry[i] <= now'
      BY <3>1, <1>a
    <3>4. QED BY <3>1, <3>2, <3>3, <1>a, <1>b DEF OnSchedule, HasHandler, Printed
  <2>3. QED BY <2>1, <2>2
<1>2. ASSUME NEW i \in Timers, Expire(i) PROVE PInv'
  <2>1. OnePlace'
    BY <1>2 DEF Expire, counter, strand, OnePlace, HasHandler
  <2>2. OnSchedule'
    BY <1>2, <1>a, <1>b DEF Expire, counter, strand, OnSchedule, HasHandler, Printed
  <2>3. QED BY <2>1, <2>2
<1>3. ASSUME NEW t \in Threads, Run(t) PROVE PInv'
  <2>1. CASE TakeTimer(t)
    <3>1. PICK i \in pending \cap Timers :
            /\ Go(t, "loop", "enqueue") /\ hand' = [hand EXCEPT ![t] = i] /\ pending' = pending \ {i}
            /\ UNCHANGED <<timers, counter, strand>>
      BY <2>1 DEF TakeTimer
    <3>2. OnePlace'
      BY <3>1, <1>a DEF Go, timers, strand, OnePlace, HasHandler
    <3>3. OnSchedule'
      BY <3>1, <1>a, <1>b DEF Go, timers, counter, strand, OnSchedule, HasHandler, Printed
    <3>4. QED BY <3>2, <3>3
  <2>2. CASE TakeInvoker(t) \/ Leave(t) \/ PostInvoker(t)
    <3>1. /\ UNCHANGED <<timers, counter, strand, hand>>
          /\ pending' \cap Timers = pending \cap Timers
          /\ \A u \in Threads : HasHandler(u)' <=> HasHandler(u)
          /\ \A u \in Threads : HasHandler(u) => pc'[u] = pc[u]
      <4>1. UNCHANGED <<timers, counter, strand, hand>>
        BY <2>2 DEF TakeInvoker, Leave, PostInvoker
      <4>2. pending' \cap Timers = pending \cap Timers
        BY <2>2, PrinterParameters DEF TakeInvoker, Leave, PostInvoker, Invoker
      <4>3. /\ pc[t] \in {"loop", "post"} /\ pc'[t] \in {"strand", "returned", "loop"}
            /\ \A u \in Threads : u # t => pc'[u] = pc[u]
        BY <2>2, <1>a DEF TakeInvoker, Leave, PostInvoker, Go
      <4>4. QED BY <4>1, <4>2, <4>3 DEF HasHandler
    <3>2. Elements(strandReady) \subseteq Timers /\ Elements(strandWaiting) \subseteq Timers
      BY <1>a DEF Elements
    <3>3. OnePlace'
      <4>1. \A i \in Timers : i \in pending' <=> i \in pending
        BY <3>1
      <4>2. QED BY <3>1, <3>2, <4>1, <1>a, <1>b DEF timers, strand, OnePlace
    <3>4. OnSchedule'
      BY <3>1, <1>a, <1>b DEF timers, counter, strand, OnSchedule, Printed
    <3>5. QED BY <3>3, <3>4
  <2>3. CASE Enqueue(t)
    <3>1. hand[t] \in Timers /\ pc[t] = "enqueue" /\ HasHandler(t)
      BY <2>3, <1>b DEF Enqueue, Go, HasHandler
    <3>2. CASE locked
      <4>1. /\ strandWaiting' = Append(strandWaiting, hand[t]) /\ pc' = [pc EXCEPT ![t] = "loop"]
            /\ hand' = [hand EXCEPT ![t] = None]
            /\ UNCHANGED <<strandReady, pending, timers, counter>>
        BY <2>3, <3>2 DEF Enqueue, Go
      <4>2. /\ Elements(strandWaiting') = Elements(strandWaiting) \cup {hand[t]}
            /\ hand[t] \notin Elements(strandWaiting) /\ Distinct(strandWaiting) => Distinct(strandWaiting')
        BY <4>1, <3>1, <1>a, ElementsOfAppend
      <4>3. \A u \in Threads : HasHandler(u)' <=> HasHandler(u) /\ u # t
        BY <4>1, <1>a DEF HasHandler
      <4>4. \A u \in Threads : u # t => hand'[u] = hand[u] /\ pc'[u] = pc[u]
        BY <4>1, <1>a
      <4>5. OnePlace'
        BY <4>1, <4>2, <4>3, <4>4, <3>1, <1>b DEF timers, OnePlace
      <4>6. OnSchedule'
        BY <4>1, <4>2, <4>3, <4>4, <3>1, <1>b DEF timers, counter, OnSchedule, Printed
      <4>7. QED BY <4>5, <4>6
    <3>3. CASE ~locked
      <4>1. /\ UNCHANGED <<hand, strandReady, strandWaiting, pending, timers, counter>>
            /\ pc' = [pc EXCEPT ![t] = "invoke"]
        BY <2>3, <3>3 DEF Enqueue, Go
      <4>2. \A u \in Threads : (HasHandler(u)' <=> HasHandler(u)) /\ (Printed(u)' <=> Printed(u))
        BY <4>1, <3>1, <1>a DEF HasHandler, Printed
      <4>3. QED BY <4>1, <4>2 DEF timers, counter, OnePlace, OnSchedule
    <3>4. QED BY <3>2, <3>3
  <2>4. CASE Invoke(t)
    <3>1. /\ pc[t] = "invoke" /\ pc' = [pc EXCEPT ![t] = "strand"] /\ hand[t] \in Timers /\ HasHandler(t)
          /\ strandReady' = Append(strandReady, hand[t]) /\ hand' = [hand EXCEPT ![t] = None]
          /\ UNCHANGED <<strandWaiting, pending, timers, counter>>
      BY <2>4, <1>b DEF Invoke, Go, HasHandler
    <3>2. /\ Elements(strandReady') = Elements(strandReady) \cup {hand[t]}
          /\ hand[t] \notin Elements(strandReady) /\ Distinct(strandReady) => Distinct(strandReady')
      BY <3>1, <1>a, ElementsOfAppend
    <3>3. \A u \in Threads : HasHandler(u)' <=> HasHandler(u) /\ u # t
      BY <3>1, <1>a DEF HasHandler
    <3>4. \A u \in Threads : u # t => hand'[u] = hand[u] /\ pc'[u] = pc[u]
      BY <3>1, <1>a
    <3>5. OnePlace'
      BY <3>1, <3>2, <3>3, <3>4, <1>b DEF timers, OnePlace
    <3>6. OnSchedule'
      BY <3>1, <3>2, <3>3, <3>4, <1>b DEF timers, counter, OnSchedule, Printed
    <3>7. QED BY <3>5, <3>6
  <2>5. CASE RunNext(t)
    <3>1. /\ pc[t] = "strand" /\ pc' = [pc EXCEPT ![t] = "check"] /\ strandReady # <<>>
          /\ hand' = [hand EXCEPT ![t] = Head(strandReady)] /\ strandReady' = Tail(strandReady)
          /\ UNCHANGED <<strandWaiting, pending, timers, counter>>
      BY <2>5 DEF RunNext, Go
    <3>2. /\ Elements(strandReady') = Elements(strandReady) \ {Head(strandReady)}
          /\ Head(strandReady) \in Elements(strandReady) /\ Distinct(strandReady')
      BY <3>1, <1>a, ElementsOfTail DEF OnePlace
    <3>3. \A u \in Threads : HasHandler(u)' <=> HasHandler(u) \/ u = t
      BY <3>1, <1>a DEF HasHandler
    <3>4. \A u \in Threads : u # t => hand'[u] = hand[u] /\ pc'[u] = pc[u]
      BY <3>1, <1>a
    <3>5. hand'[t] = Head(strandReady) /\ pc'[t] = "check" /\ ~HasHandler(t)
      BY <3>1, <1>a DEF HasHandler
    <3>6. OnePlace'
      BY <3>1, <3>2, <3>3, <3>4, <3>5 DEF timers, OnePlace
    <3>7. OnSchedule'
      BY <3>1, <3>2, <3>3, <3>4, <3>5, <1>b DEF timers, counter, OnSchedule, Printed
    <3>8. QED BY <3>6, <3>7
  <2>6. CASE InvokerExit(t)
    <3>1. /\ strandReady = <<>> /\ strandReady' = strandWaiting /\ strandWaiting' = <<>>
          /\ UNCHANGED <<hand, pending, timers, counter>>
      BY <2>6 DEF InvokerExit
    <3>2. \A u \in Threads : (HasHandler(u)' <=> HasHandler(u)) /\ (Printed(u)' <=> Printed(u))
      BY <2>6, <1>a DEF InvokerExit, Go, HasHandler, Printed
    <3>3. QED BY <3>1, <3>2, ElementsOfEmpty DEF timers, counter, OnePlace, OnSchedule
  <2>7. CASE Check(t)
    <3>1. /\ pc[t] = "check" /\ UNCHANGED <<timers, pending, counter, strand>>
          /\ \A u \in Threads : u # t => hand'[u] = hand[u] /\ pc'[u] = pc[u]
          /\ pc'[t] = "strand" \/ (pc'[t] = "read" /\ hand'[t] = hand[t])
      BY <2>7, <1>a DEF Check, Go
    <3>2. \A u \in Threads : /\ HasHandler(u)' => HasHandler(u) /\ hand'[u] = hand[u]
                             /\ HasHandler(u)' => (Printed(u)' <=> Printed(u))
      BY <3>1 DEF HasHandler, Printed
    <3>3. QED BY <3>1, <3>2 DEF timers, counter, strand, OnePlace, OnSchedule
  <2>8. CASE Read(t)
    <3>1. /\ pc[t] = "read" /\ pc' = [pc EXCEPT ![t] = "write"] /\ hand[t] \in Timers /\ HasHandler(t)
          /\ prints' = [prints EXCEPT ![hand[t]] = @ + 1]
          /\ UNCHANGED <<timers, pending, hand, strand>>
      BY <2>8, <1>b DEF Read, Go, HasHandler
    <3>2. \A u \in Threads : /\ HasHandler(u)' <=> HasHandler(u)
                             /\ Printed(u)' <=> Printed(u) \/ u = t
      BY <3>1, <1>a DEF HasHandler, Printed
    <3>3. OnePlace'
      BY <3>1, <3>2 DEF timers, strand, OnePlace
    <3>4. /\ prints'[hand[t]] = prints[hand[t]] + 1 /\ prints' \in [Timers -> Nat]
          /\ \A i \in Timers : i # hand[t] => prints'[i] = prints[i]
      BY <3>1, <1>a
    <3>5. ~Printed(t) /\ expiry[hand[t]] = prints[hand[t]] + 1 /\ expiry[hand[t]] <= now
      BY <3>1 DEF OnSchedule, Printed
    <3>6. Elements(strandReady) \subseteq Timers /\ Elements(strandWaiting) \subseteq Timers
      BY <1>a DEF Elements
    <3>7. /\ \A i \in Timers : prints'[i] \in Nat /\ prints'[i] <= now
          /\ \A i \in armed : expiry[i] = prints'[i] + 1
      BY <3>1, <3>4, <3>5, <1>a DEF OnSchedule, OnePlace
    <3>8. \A i \in (pending \cap Timers) \cup Elements(strandReady) \cup Elements(strandWaiting) :
            expiry[i] = prints'[i] + 1 /\ expiry[i] <= now
      BY <3>1, <3>4, <3>6 DEF OnSchedule, OnePlace
    <3>9. ASSUME NEW u \in Threads, HasHandler(u)
          PROVE  /\ Printed(u)' => expiry[hand[u]] = prints'[hand[u]]
                 /\ ~Printed(u)' => expiry[hand[u]] = prints'[hand[u]] + 1 /\ expiry[hand[u]] <= now
      <4>1. CASE u = t
        BY <4>1, <3>2, <3>4, <3>5
      <4>2. CASE u # t
        <5>1. hand[u] # hand[t] /\ hand[u] \in Timers
          BY <4>2, <3>1, <3>9, <1>b DEF OnePlace
        <5>2. QED BY <5>1, <4>2, <3>2, <3>4, <3>9 DEF OnSchedule
      <4>3. QED BY <4>1, <4>2
    <3>10. OnSchedule'
      BY <3>1, <3>2, <3>7, <3>8, <3>9, <1>a DEF timers, strand, OnSchedule
    <3>11. QED BY <3>3, <3>10
  <2>9. CASE Write(t)
    <3>1. /\ UNCHANGED <<timers, pending, hand, prints, strand>>
          /\ \A u \in Threads : (HasHandler(u)' <=> HasHandler(u)) /\ (Printed(u)' <=> Printed(u))
      BY <2>9, <1>a DEF Write, Go, HasHandler, Printed
    <3>2. QED BY <3>1 DEF timers, strand, OnePlace, OnSchedule
  <2>10. CASE Rearm(t)
    <3>1. /\ pc[t] = "rearm" /\ pc' = [pc EXCEPT ![t] = "strand"] /\ hand[t] \in Timers /\ HasHandler(t)
          /\ expiry' = [expiry EXCEPT ![hand[t]] = @ + 1] /\ armed' = armed \cup {hand[t]}
          /\ hand' = [hand EXCEPT ![t] = None] /\ Printed(t)
          /\ UNCHANGED <<now, pending, prints, strand>>
      BY <2>10, <1>b DEF Rearm, Go, HasHandler, Printed, counter
    <3>2. \A u \in Threads : HasHandler(u)' <=> HasHandler(u) /\ u # t
      BY <3>1, <1>a DEF HasHandler
    <3>3. \A u \in Threads : u # t => hand'[u] = hand[u] /\ pc'[u] = pc[u]
      BY <3>1, <1>a
    <3>4. OnePlace'
      BY <3>1, <3>2, <3>3 DEF strand, OnePlace
    <3>5. /\ expiry'[hand[t]] = prints[hand[t]] + 1 /\ expiry' \in [Timers -> Nat]
          /\ \A i \in Timers : i # hand[t] => expiry'[i] = expiry[i]
      BY <3>1, <1>a DEF OnSchedule
    <3>6. Elements(strandReady) \subseteq Timers /\ Elements(strandWaiting) \subseteq Timers
      BY <1>a DEF Elements
    <3>7. \A i \in armed' : expiry'[i] = prints[i] + 1
      BY <3>1, <3>5, <1>a DEF OnSchedule
    <3>8. \A i \in (pending \cap Timers) \cup Elements(strandReady) \cup Elements(strandWaiting) :
            expiry'[i] = prints[i] + 1 /\ expiry'[i] <= now
      BY <3>1, <3>5, <3>6 DEF OnSchedule, OnePlace
    <3>9. \A u \in Threads : HasHandler(u)' => hand[u] \in Timers /\ hand[u] # hand[t] /\ HasHandler(u)
      BY <3>1, <3>2, <1>b DEF OnePlace
    <3>10. OnSchedule'
      BY <3>1, <3>2, <3>3, <3>5, <3>7, <3>8, <3>9, <1>a DEF strand, OnSchedule, Printed
    <3>11. QED BY <3>4, <3>10
  <2>11. QED
    BY <1>3, <2>1, <2>2, <2>3, <2>4, <2>5, <2>6, <2>7, <2>8, <2>9, <2>10 DEF Run
<1>4. CASE Done \/ UNCHANGED vars
  <2>1. UNCHANGED vars
    BY <1>4 DEF Done
  <2>2. QED BY <2>1 DEF vars, OnePlace, OnSchedule, HasHandler, Printed
<1>5. QED BY <1>1, <1>2, <1>3, <1>4 DEF Next, Clock

\* No timer of any number prints twice in one second, however late its handler
\* runs (expires_at(expiry() + 1s) in print1() and print2()).
THEOREM PrintsArePaced == Spec => []Paced
<1>1. PInv => Paced
  BY DEF PInv, OnSchedule, Paced
<1>2. QED BY <1>1, InitPInv, NextPInv, Invariance, PTL DEF Spec
-----------------------------------------------------------------------------
(* The count.                                                              *)

\* Every print has been counted, but for that of the thread which has yet to
\* write count_ back.
Uncounted == IF \E t \in Threads : pc[t] = "write" THEN 1 ELSE 0
Counted == IsFiniteSet(Printouts) /\ Cardinality(Printouts) = count + Uncounted

\* Until the limit is reached no timer is forgotten.
Somewhere(i) ==
    \/ i \in armed \cup pending \cup Elements(strandReady) \cup Elements(strandWaiting)
    \/ \E t \in Threads : HasHandler(t) /\ hand[t] = i
NoneForgotten == count < Limit => \A i \in Timers : Somewhere(i)

\* A thread returns only when nothing is left to run.
ReturnedLast ==
    (\E t \in Threads : pc[t] = "returned") =>
      armed = {} /\ pending = {} /\ \A t \in Threads : pc[t] \in {"loop", "returned"}

CInv == Counted /\ NoneForgotten /\ ReturnedLast

LEMMA PrintAdds ==
  ASSUME NEW i \in Timers, NEW p \in [Timers -> Nat], NEW q \in [Timers -> Nat],
         q = [p EXCEPT ![i] = @ + 1],
         IsFiniteSet(UNION {{j} \X (1..p[j]) : j \in Timers})
  PROVE  LET P == UNION {{j} \X (1..p[j]) : j \in Timers}
             Q == UNION {{j} \X (1..q[j]) : j \in Timers}
         IN  IsFiniteSet(Q) /\ Cardinality(Q) = Cardinality(P) + 1
<1> DEFINE P == UNION {{j} \X (1..p[j]) : j \in Timers}
           Q == UNION {{j} \X (1..q[j]) : j \in Timers}
           x == <<i, p[i] + 1>>
<1>1. \A y : y \in P <=> \E j \in Timers : \E n \in 1..p[j] : y = <<j, n>>
  OBVIOUS
<1>2. \A y : y \in Q <=> \E j \in Timers : \E n \in 1..q[j] : y = <<j, n>>
  OBVIOUS
<1>3. x \notin P
  BY <1>1
<1>4. 1..q[i] = (1..p[i]) \cup {p[i] + 1} /\ \A j \in Timers : j # i => q[j] = p[j]
  OBVIOUS
<1>5. Q = P \cup {x}
  <2>1. ASSUME NEW y \in Q PROVE y \in P \cup {x}
    <3>1. PICK j \in Timers, n \in Nat : n \in 1..q[j] /\ y = <<j, n>>
      BY <1>2
    <3>2. QED BY <3>1, <1>1, <1>4
  <2>2. ASSUME NEW y \in P PROVE y \in Q
    <3>1. PICK j \in Timers, n \in Nat : n \in 1..p[j] /\ y = <<j, n>>
      BY <1>1
    <3>2. n \in 1..q[j]
      <4>1. CASE j = i
        BY <4>1, <3>1, <1>4
      <4>2. CASE j # i
        BY <4>2, <3>1, <1>4
      <4>3. QED BY <4>1, <4>2
    <3>3. QED BY <3>1, <3>2, <1>2
  <2>3. x \in Q
    BY <1>2, <1>4
  <2>4. QED BY <2>1, <2>2, <2>3
<1> HIDE DEF P, Q, x
<1>6. IsFiniteSet(P)
  BY DEF P
<1>7. IsFiniteSet(Q) /\ Cardinality(Q) = Cardinality(P) + 1
  BY <1>3, <1>5, <1>6, FS_AddElement
<1>8. QED BY <1>7 DEF P, Q

LEMMA InitCInv == Init => CInv
<1> SUFFICES ASSUME Init PROVE CInv
  OBVIOUS
<1>1. Printouts = {}
  BY DEF Init, Printouts
<1>2. Counted
  BY <1>1, FS_EmptySet DEF Init, Counted, Uncounted
<1>3. NoneForgotten /\ ReturnedLast
  BY DEF Init, NoneForgotten, Somewhere, ReturnedLast
<1>4. QED BY <1>2, <1>3 DEF CInv

LEMMA NextCounted == IInv /\ Counted /\ [Next]_vars => Counted'
<1> SUFFICES ASSUME IInv, Counted, [Next]_vars PROVE Counted'
  OBVIOUS
<1>a. /\ pc \in [Threads -> Places] /\ prints \in [Timers -> Nat] /\ count \in Nat
      /\ \A t, u \in Threads : pc[t] = "write" /\ Holds(u) => t = u
  BY PrinterParameters DEF IInv, TypeOK, OneHolder, Holds
<1>b. \A t \in Threads : pc[t] \in {"read", "write"} => Holds(t)
  BY DEF Holds
<1>1. ASSUME UNCHANGED <<count, prints>>, \A t \in Threads : pc'[t] = "write" <=> pc[t] = "write"
      PROVE  Counted'
  BY <1>1 DEF Counted, Uncounted, Printouts
<1>2. ASSUME NEW t \in Threads, Read(t) PROVE Counted'
  <2>1. /\ pc[t] = "read" /\ pc' = [pc EXCEPT ![t] = "write"] /\ hand[t] \in Timers /\ count' = count
        /\ prints' = [prints EXCEPT ![hand[t]] = @ + 1] /\ prints' \in [Timers -> Nat]
    BY <1>2, <1>a DEF Read, Go, IInv, Handed, HasHandler
  <2>2. Uncounted = 0 /\ Uncounted' = 1
    <3>1. \A u \in Threads : pc[u] # "write"
      BY <2>1, <1>a, <1>b
    <3>2. pc'[t] = "write"
      BY <2>1, <1>a
    <3>3. QED BY <3>1, <3>2 DEF Uncounted
  <2>3. IsFiniteSet(Printouts') /\ Cardinality(Printouts') = Cardinality(Printouts) + 1
    <3>1. IsFiniteSet(UNION {{j} \X (1..prints[j]) : j \in Timers})
      BY DEF Counted, Printouts
    <3>2. PICK i \in Timers : i = hand[t]
      BY <2>1
    <3>3. prints' = [prints EXCEPT ![i] = @ + 1]
      BY <2>1, <3>2
    <3>4. /\ IsFiniteSet(UNION {{j} \X (1..prints'[j]) : j \in Timers})
          /\ Cardinality(UNION {{j} \X (1..prints'[j]) : j \in Timers})
               = Cardinality(UNION {{j} \X (1..prints[j]) : j \in Timers}) + 1
      BY <1>a, <2>1, <3>1, <3>3, PrintAdds
    <3>5. QED BY <3>4 DEF Printouts
  <2>4. QED BY <2>1, <2>2, <2>3, <1>a DEF Counted
<1>3. ASSUME NEW t \in Threads, Write(t) PROVE Counted'
  <2>1. /\ pc[t] = "write" /\ pc' = [pc EXCEPT ![t] = "rearm"] /\ UNCHANGED prints
        /\ count' = count + 1
    BY <1>3 DEF Write, Go, IInv, NothingStale
  <2>2. Uncounted = 1 /\ Uncounted' = 0
    <3>1. \A u \in Threads : pc'[u] # "write"
      BY <2>1, <1>a, <1>b
    <3>2. QED BY <2>1, <3>1 DEF Uncounted
  <2>3. QED BY <2>1, <2>2, <1>a DEF Counted, Printouts
<1>4. ASSUME NEW t \in Threads, Run(t), ~Read(t), ~Write(t) PROVE Counted'
  <2>1. /\ UNCHANGED <<count, prints>> /\ pc[t] \notin {"read", "write"}
        /\ \E p \in Places \ {"write"} : pc' = [pc EXCEPT ![t] = p]
    <3>1. CASE TakeTimer(t) \/ TakeInvoker(t) \/ Leave(t) \/ Enqueue(t) \/ Invoke(t)
      BY <3>1 DEF TakeTimer, TakeInvoker, Leave, Enqueue, Invoke, Go, counter, Places
    <3>2. CASE RunNext(t) \/ InvokerExit(t) \/ PostInvoker(t) \/ Check(t) \/ Rearm(t)
      BY <3>2 DEF RunNext, InvokerExit, PostInvoker, Check, Rearm, Go, counter, Places
    <3>3. QED BY <1>4, <3>1, <3>2 DEF Run
  <2>2. QED BY <2>1, <1>1, <1>a
<1>5. CASE Clock \/ Done \/ UNCHANGED vars
  <2>1. UNCHANGED <<count, prints, pc>>
    BY <1>5 DEF Clock, Tick, Expire, Done, counter, vars
  <2>2. QED BY <2>1, <1>1
<1>6. QED BY <1>2, <1>3, <1>4, <1>5 DEF Next

LEMMA ReturnedNext == ReturnedLast /\ IInv /\ [Next]_vars => ReturnedLast'
<1> SUFFICES ASSUME ReturnedLast, IInv, [Next]_vars PROVE ReturnedLast'
  OBVIOUS
<1>a. pc \in [Threads -> Places] /\ armed \subseteq Timers /\ strandReady \in Seq(Timers)
  BY DEF IInv, TypeOK
<1>1. ASSUME NEW t \in Threads, Leave(t) PROVE ReturnedLast'
  <2>1. /\ armed = {} /\ pending = {} /\ \A u \in Threads : pc[u] \in {"loop", "returned"}
        /\ pc' = [pc EXCEPT ![t] = "returned"] /\ UNCHANGED <<armed, pending>>
    BY <1>1 DEF Leave, Go, timers
  <2>2. QED BY <2>1, <1>a DEF ReturnedLast
<1>2. ASSUME NEW t \in Threads, Run(t), ~Leave(t) PROVE ReturnedLast'
  <2>1. pending # {} \/ pc[t] \notin {"loop", "returned"}
    <3>1. CASE TakeTimer(t) \/ TakeInvoker(t)
      BY <3>1 DEF TakeTimer, TakeInvoker
    <3>2. CASE Enqueue(t) \/ Invoke(t) \/ RunNext(t) \/ InvokerExit(t) \/ PostInvoker(t)
      BY <3>2 DEF Enqueue, Invoke, RunNext, InvokerExit, PostInvoker, Go
    <3>3. CASE Check(t) \/ Read(t) \/ Write(t) \/ Rearm(t)
      BY <3>3 DEF Check, Read, Write, Rearm, Go
    <3>4. QED BY <1>2, <3>1, <3>2, <3>3 DEF Run
  <2>2. \A u \in Threads : pc[u] # "returned"
    BY <2>1 DEF ReturnedLast
  <2>3. \E p \in Places \ {"returned"} : pc' = [pc EXCEPT ![t] = p]
    <3>1. CASE TakeTimer(t) \/ TakeInvoker(t)
      BY <3>1 DEF TakeTimer, TakeInvoker, Go, Places
    <3>2. CASE Enqueue(t) \/ Invoke(t) \/ RunNext(t) \/ InvokerExit(t) \/ PostInvoker(t)
      BY <3>2 DEF Enqueue, Invoke, RunNext, InvokerExit, PostInvoker, Go, Places
    <3>3. CASE Check(t) \/ Read(t) \/ Write(t) \/ Rearm(t)
      BY <3>3 DEF Check, Read, Write, Rearm, Go, Places
    <3>4. QED BY <1>2, <3>1, <3>2, <3>3 DEF Run
  <2>4. QED BY <2>2, <2>3, <1>a DEF ReturnedLast
<1>3. CASE Clock
  <2>1. armed # {} /\ pc' = pc
    BY <1>3 DEF Clock, Tick, Expire
  <2>2. QED BY <2>1 DEF ReturnedLast
<1>4. CASE Done \/ UNCHANGED vars
  BY <1>4 DEF Done, vars, ReturnedLast
<1>5. QED BY <1>1, <1>2, <1>3, <1>4 DEF Next

LEMMA NextNoneForgotten == IInv /\ PInv /\ NoneForgotten /\ [Next]_vars => NoneForgotten'
<1> SUFFICES ASSUME IInv, PInv, NoneForgotten, [Next]_vars PROVE NoneForgotten'
  OBVIOUS
<1>a. /\ strandReady \in Seq(Timers) /\ strandWaiting \in Seq(Timers) /\ count \in Nat /\ Limit \in Nat
      /\ pc \in [Threads -> Places] /\ hand \in [Threads -> Timers \cup {None}]
  BY PrinterParameters DEF IInv, TypeOK
<1>b. Invoker \notin Timers
  BY PrinterParameters DEF Invoker
<1>1. CASE Clock \/ Done \/ UNCHANGED vars
  <2>1. /\ UNCHANGED <<pc, hand, count, strandReady, strandWaiting>>
        /\ armed \cup pending = armed' \cup pending'
    BY <1>1 DEF Clock, Tick, Expire, Done, vars, counter, strand
  <2>2. QED BY <2>1 DEF NoneForgotten, Somewhere, HasHandler
<1>2. ASSUME NEW t \in Threads, Run(t) PROVE NoneForgotten'
  \* Where the thread's own timer goes; the others stay.
  <2>1. ASSUME NEW i \in Timers, Somewhere(i), count < Limit PROVE Somewhere(i)'
    <3>1. CASE TakeTimer(t)
      <4>1. PICK j \in pending \cap Timers :
              /\ pc[t] = "loop" /\ pc' = [pc EXCEPT ![t] = "enqueue"]
              /\ hand' = [hand EXCEPT ![t] = j] /\ pending' = pending \ {j}
              /\ UNCHANGED <<armed, strandReady, strandWaiting>>
        BY <3>1 DEF TakeTimer, Go, timers, strand
      <4>2. \A u \in Threads : HasHandler(u) => HasHandler(u)' /\ hand'[u] = hand[u]
        BY <4>1, <1>a DEF HasHandler
      <4>3. HasHandler(t)' /\ hand'[t] = j
        BY <4>1, <1>a DEF HasHandler
      <4>4. QED BY <2>1, <4>1, <4>2, <4>3 DEF Somewhere
    <3>2. CASE TakeInvoker(t) \/ Leave(t) \/ PostInvoker(t)
      <4>1. /\ UNCHANGED <<armed, hand, strandReady, strandWaiting>>
            /\ \A j \in Timers : j \in pending => j \in pending'
        BY <3>2, <1>b DEF TakeInvoker, Leave, PostInvoker, timers, strand
      <4>2. \A u \in Threads : HasHandler(u) => HasHandler(u)'
        BY <3>2, <1>a DEF TakeInvoker, Leave, PostInvoker, Go, HasHandler
      <4>3. QED BY <2>1, <4>1, <4>2 DEF Somewhere
    <3>3. CASE Enqueue(t) /\ locked
      <4>1. /\ strandWaiting' = Append(strandWaiting, hand[t]) /\ pc' = [pc EXCEPT ![t] = "loop"]
            /\ hand' = [hand EXCEPT ![t] = None] /\ pc[t] = "enqueue"
            /\ UNCHANGED <<strandReady, pending, armed>>
        BY <3>3 DEF Enqueue, Go, timers
      <4>2. Elements(strandWaiting') = Elements(strandWaiting) \cup {hand[t]}
        <5>1. hand[t] \in Timers
          BY <4>1 DEF IInv, Handed, HasHandler
        <5>2. QED BY <4>1, <5>1, <1>a, ElementsOfAppend
      <4>3. \A u \in Threads : HasHandler(u) /\ u # t => HasHandler(u)' /\ hand'[u] = hand[u]
        BY <4>1, <1>a DEF HasHandler
      <4>4. QED BY <2>1, <4>1, <4>2, <4>3 DEF Somewhere
    <3>4. CASE Enqueue(t) /\ ~locked
      <4>1. /\ UNCHANGED <<hand, strandReady, strandWaiting, pending, armed>>
            /\ pc' = [pc EXCEPT ![t] = "invoke"]
        BY <3>4 DEF Enqueue, Go, timers
      <4>2. \A u \in Threads : HasHandler(u) => HasHandler(u)'
        BY <4>1, <1>a DEF HasHandler
      <4>3. QED BY <2>1, <4>1, <4>2 DEF Somewhere
    <3>5. CASE Invoke(t)
      <4>1. /\ strandReady' = Append(strandReady, hand[t]) /\ pc' = [pc EXCEPT ![t] = "strand"]
            /\ hand' = [hand EXCEPT ![t] = None] /\ pc[t] = "invoke"
            /\ UNCHANGED <<strandWaiting, pending, armed>>
        BY <3>5 DEF Invoke, Go, timers
      <4>2. Elements(strandReady') = Elements(strandReady) \cup {hand[t]}
        <5>1. hand[t] \in Timers
          BY <4>1 DEF IInv, Handed, HasHandler
        <5>2. QED BY <4>1, <5>1, <1>a, ElementsOfAppend
      <4>3. \A u \in Threads : HasHandler(u) /\ u # t => HasHandler(u)' /\ hand'[u] = hand[u]
        BY <4>1, <1>a DEF HasHandler
      <4>4. QED BY <2>1, <4>1, <4>2, <4>3 DEF Somewhere
    <3>6. CASE RunNext(t)
      <4>1. /\ pc[t] = "strand" /\ pc' = [pc EXCEPT ![t] = "check"] /\ strandReady # <<>>
            /\ hand' = [hand EXCEPT ![t] = Head(strandReady)] /\ strandReady' = Tail(strandReady)
            /\ UNCHANGED <<strandWaiting, pending, armed>>
        BY <3>6 DEF RunNext, Go, timers
      <4>2. Elements(strandReady) \subseteq Elements(strandReady') \cup {Head(strandReady)}
        BY <4>1, <1>a, ElementsOfTail DEF PInv, OnePlace
      <4>3. \A u \in Threads : HasHandler(u) => HasHandler(u)' /\ hand'[u] = hand[u]
        BY <4>1, <1>a DEF HasHandler
      <4>4. HasHandler(t)' /\ hand'[t] = Head(strandReady)
        <5>1. Head(strandReady) \in Timers
          BY <4>1, <1>a
        <5>2. QED BY <4>1, <5>1, <1>a DEF HasHandler
      <4>5. QED BY <2>1, <4>1, <4>2, <4>3, <4>4 DEF Somewhere
    <3>7. CASE InvokerExit(t)
      <4>1. /\ strandReady = <<>> /\ strandReady' = strandWaiting
            /\ UNCHANGED <<hand, pending, armed>>
        BY <3>7 DEF InvokerExit, timers
      <4>2. \A u \in Threads : HasHandler(u) => HasHandler(u)'
        BY <3>7, <1>a DEF InvokerExit, Go, HasHandler
      <4>3. QED BY <2>1, <4>1, <4>2, ElementsOfEmpty DEF Somewhere
    <3>8. CASE Check(t) \/ Read(t) \/ Write(t)
      <4>1. UNCHANGED <<armed, pending, hand, strandReady, strandWaiting>>
        BY <3>8, <2>1 DEF Check, Read, Write, timers, strand
      <4>2. \A u \in Threads : HasHandler(u) => HasHandler(u)'
        BY <3>8, <2>1, <1>a DEF Check, Read, Write, Go, HasHandler
      <4>3. QED BY <2>1, <4>1, <4>2 DEF Somewhere
    <3>9. CASE Rearm(t)
      <4>1. /\ pc' = [pc EXCEPT ![t] = "strand"] /\ armed' = armed \cup {hand[t]}
            /\ hand' = [hand EXCEPT ![t] = None] /\ UNCHANGED <<pending, strandReady, strandWaiting>>
        BY <3>9 DEF Rearm, Go, strand
      <4>2. \A u \in Threads : HasHandler(u) /\ u # t => HasHandler(u)' /\ hand'[u] = hand[u]
        BY <4>1, <1>a DEF HasHandler
      <4>3. QED BY <2>1, <4>1, <4>2 DEF Somewhere
    <3>10. QED
      BY <1>2, <3>1, <3>2, <3>3, <3>4, <3>5, <3>6, <3>7, <3>8, <3>9 DEF Run
  <2>2. count' < Limit => count < Limit
    <3>1. CASE Write(t)
      BY <3>1, <1>a DEF Write, Go, IInv, NothingStale
    <3>2. CASE ~Write(t)
      <4>1. count' = count
        BY <1>2, <3>2 DEF Run, TakeTimer, TakeInvoker, Leave, Enqueue, Invoke, RunNext, InvokerExit,
                          PostInvoker, Check, Read, Rearm, counter
      <4>2. QED BY <4>1
    <3>3. QED BY <3>1, <3>2
  <2>3. QED BY <2>1, <2>2 DEF NoneForgotten
<1>3. QED BY <1>1, <1>2 DEF Next

\* Both threads of timer5 return with count_ at its limit, and it is the number
\* of lines printed: no increment is lost and no timer dies before its time.
THEOREM CountsEveryPrint == Spec => []FinalCount
<1>1. IInv /\ CInv => FinalCount
  <2> SUFFICES ASSUME IInv, CInv, \A t \in Threads : pc[t] = "returned"
               PROVE  count = Limit /\ Cardinality(Printouts) = Limit
    BY DEF FinalCount
  <2>1. Uncounted = 0 /\ \A t \in Threads : ~HasHandler(t) /\ ~Holds(t)
    BY DEF Uncounted, HasHandler, Holds
  <2>2. count \in Nat /\ count <= Limit /\ Limit \in Nat
    BY PrinterParameters DEF IInv, TypeOK
  <2>3. count = Limit
    <3>1. SUFFICES ASSUME count < Limit PROVE FALSE
      BY <2>2
    <3>2. PICK i \in Timers : Somewhere(i)
      BY <3>1, PrinterParameters DEF CInv, NoneForgotten
    <3>3. armed = {} /\ pending = {}
      BY PrinterParameters DEF CInv, ReturnedLast
    <3>4. strandReady = <<>> /\ strandWaiting = <<>>
      BY <3>3, <2>1 DEF IInv, OneHolder, NothingStranded
    <3>5. QED BY <3>2, <3>3, <3>4, <2>1, ElementsOfEmpty DEF Somewhere
  <2>4. QED BY <2>1, <2>2, <2>3 DEF CInv, Counted
<1>2. IInv /\ PInv /\ CInv /\ [Next]_vars => CInv'
  BY NextCounted, ReturnedNext, NextNoneForgotten DEF CInv
<1>3. QED BY <1>1, <1>2, InitCInv, InitPInv, NextPInv, Invariance, PTL DEF Spec
=============================================================================
