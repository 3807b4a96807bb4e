--------------------------- MODULE PrinterTimers ---------------------------
(***************************************************************************)
(* The repeating timers of timer5.cpp: several threads in io.run(), timers *)
(* whose handlers count together and wait again, and the strand that keeps *)
(* the handlers apart (strand_executor_service).  With one thread it is    *)
(* the program of timer3.cpp and timer4.cpp.                               *)
(*                                                                         *)
(* Of io_context only what WorkPool promises is used: a thread in run()    *)
(* takes any pending operation, and returns when none is unfinished.       *)
(***************************************************************************)
EXTENDS Naturals, Sequences, FiniteSets

CONSTANTS
    Threads,  \* threads in run()
    Timers,
    Limit,    \* prints (10 in timer5.cpp)
    None

ASSUME PrinterParameters ==
    /\ Limit \in Nat /\ Threads # {} /\ Timers # {} /\ None \notin Timers /\ "invoker" \notin Timers

VARIABLES
    now,      \* seconds since the start
    expiry,   \* of each timer
    armed,    \* timers with a pending async_wait
    pending,  \* operations of the io_context that are ready to run
    pc,       \* where each thread is
    hand,     \* the timer whose handler it has
    reg,      \* count_, as it read it for ++
    count,    \* count_
    locked, strandReady, strandWaiting,  \* strand_
    prints    \* history: prints of each timer

vars == <<now, expiry, armed, pending, pc, hand, reg, count, locked, strandReady,
          strandWaiting, prints>>
strand == <<locked, strandReady, strandWaiting>>
timers == <<now, expiry, armed>>
counter == <<reg, count, prints>>

Invoker == "invoker"
InHandler(t) == pc[t] \in {"check", "read", "write", "rearm"}
Places == {"loop", "enqueue", "invoke", "strand", "check", "read", "write", "rearm",
           "post", "returned"}

TypeOK ==
    /\ now \in Nat /\ expiry \in [Timers -> Nat]
    /\ armed \subseteq Timers /\ pending \subseteq Timers \cup {Invoker}
    /\ pc \in [Threads -> Places] /\ hand \in [Threads -> Timers \cup {None}]
    /\ reg \in [Threads -> 0..Limit] /\ count \in 0..Limit
    /\ locked \in BOOLEAN /\ strandReady \in Seq(Timers) /\ strandWaiting \in Seq(Timers)
    /\ prints \in [Timers -> Nat]

\* The constructor starts every timer for one second; then the threads run.
Init ==
    /\ now = 0 /\ expiry = [i \in Timers |-> 1] /\ armed = Timers /\ pending = {}
    /\ pc = [t \in Threads |-> "loop"] /\ hand = [t \in Threads |-> None]
    /\ reg = [t \in Threads |-> 0] /\ count = 0
    /\ locked = FALSE /\ strandReady = <<>> /\ strandWaiting = <<>>
    /\ prints = [i \in Timers |-> 0]

Go(t, from, to) == pc[t] = from /\ pc' = [pc EXCEPT ![t] = to]

-----------------------------------------------------------------------------
(* The clock, the timers and io_context.                                   *)

\* Time that passes when no timer waits for it makes no difference.
Tick ==
    /\ \E i \in armed : expiry[i] > now
    /\ now' = now + 1
    /\ UNCHANGED <<expiry, armed, pending, pc, hand, counter, strand>>

Expire(i) ==
    /\ i \in armed /\ expiry[i] <= now
    /\ armed' = armed \ {i} /\ pending' = pending \cup {i}
    /\ UNCHANGED <<now, expiry, pc, hand, counter, strand>>

TakeTimer(t) ==
    \E i \in pending \cap Timers :
       /\ Go(t, "loop", "enqueue") /\ hand' = [hand EXCEPT ![t] = i]
       /\ pending' = pending \ {i}
       /\ UNCHANGED <<timers, counter, strand>>

TakeInvoker(t) ==
    /\ Invoker \in pending /\ Go(t, "loop", "strand") /\ pending' = pending \ {Invoker}
    /\ UNCHANGED <<timers, hand, counter, strand>>

Leave(t) ==
    /\ armed = {} /\ pending = {} /\ \A u \in Threads : pc[u] \in {"loop", "returned"}
    /\ Go(t, "loop", "returned")
    /\ UNCHANGED <<timers, pending, hand, counter, strand>>

-----------------------------------------------------------------------------
(* The strand.                                                             *)

\* Operators named Bad... are wrong variants of the definition that follows
\* them; the checks substitute them to see that a property notices.

\* enqueue(): the function waits, or its thread takes the lock ...
BadEnqueue(t) ==
    /\ pc[t] = "enqueue"
    /\ IF locked
       THEN /\ strandReady' = Append(strandReady, hand[t]) /\ UNCHANGED <<locked, strandWaiting>>
            /\ hand' = [hand EXCEPT ![t] = None] /\ Go(t, "enqueue", "strand")
       ELSE locked' = TRUE /\ Go(t, "enqueue", "invoke") /\ UNCHANGED <<hand, strandReady, strandWaiting>>
    /\ UNCHANGED <<timers, pending, counter>>

Enqueue(t) ==
    /\ IF locked
       THEN /\ strandWaiting' = Append(strandWaiting, hand[t]) /\ Go(t, "enqueue", "loop")
            /\ hand' = [hand EXCEPT ![t] = None] /\ UNCHANGED locked
       ELSE locked' = TRUE /\ Go(t, "enqueue", "invoke") /\ UNCHANGED <<hand, strandWaiting>>
    /\ UNCHANGED <<timers, pending, counter, strandReady>>

\* ... and, past the mutex, adds it and runs the strand in place.
Invoke(t) ==
    /\ Go(t, "invoke", "strand")
    /\ strandReady' = Append(strandReady, hand[t]) /\ hand' = [hand EXCEPT ![t] = None]
    /\ UNCHANGED <<timers, pending, counter, locked, strandWaiting>>

BadRunNext(t) ==
    /\ Go(t, "strand", "check") /\ strandReady # <<>>
    /\ hand' = [hand EXCEPT ![t] = strandReady[Len(strandReady)]]
    /\ strandReady' = SubSeq(strandReady, 1, Len(strandReady) - 1)
    /\ UNCHANGED <<timers, pending, counter, locked, strandWaiting>>

RunNext(t) ==
    /\ Go(t, "strand", "check") /\ strandReady # <<>>
    /\ hand' = [hand EXCEPT ![t] = Head(strandReady)] /\ strandReady' = Tail(strandReady)
    /\ UNCHANGED <<timers, pending, counter, locked, strandWaiting>>

\* on_invoker_exit: push_waiting_to_ready(), and another invoker for the rest.
BadInvokerExit(t) ==
    /\ strandReady = <<>> /\ Go(t, "strand", "loop")
    /\ strandReady' = strandWaiting /\ strandWaiting' = <<>> /\ locked' = (strandWaiting # <<>>)
    /\ UNCHANGED <<timers, pending, hand, counter>>

InvokerExit(t) ==
    /\ strandReady = <<>>
    /\ Go(t, "strand", IF strandWaiting # <<>> THEN "post" ELSE "loop")
    /\ strandReady' = strandWaiting /\ strandWaiting' = <<>> /\ locked' = (strandWaiting # <<>>)
    /\ UNCHANGED <<timers, pending, hand, counter>>

PostInvoker(t) ==
    /\ Go(t, "post", "loop") /\ pending' = pending \cup {Invoker}
    /\ UNCHANGED <<timers, hand, counter, strand>>

-----------------------------------------------------------------------------
(* print1() and print2().                                                  *)

BadCheck(t) ==
    /\ Go(t, "check", IF count <= Limit THEN "read" ELSE "strand")
    /\ hand' = IF count <= Limit THEN hand ELSE [hand EXCEPT ![t] = None]
    /\ UNCHANGED <<timers, pending, counter, strand>>

Check(t) ==
    /\ Go(t, "check", IF count < Limit THEN "read" ELSE "strand")
    /\ hand' = IF count < Limit THEN hand ELSE [hand EXCEPT ![t] = None]
    /\ UNCHANGED <<timers, pending, counter, strand>>

Read(t) ==
    /\ Go(t, "read", "write") /\ reg' = [reg EXCEPT ![t] = count]
    /\ prints' = [prints EXCEPT ![hand[t]] = @ + 1]
    /\ UNCHANGED <<timers, pending, hand, count, strand>>

Write(t) ==
    /\ Go(t, "write", "rearm") /\ count' = reg[t] + 1
    /\ UNCHANGED <<timers, pending, hand, reg, prints, strand>>

\* expires_at(expiry() + 1s), then async_wait(); the other way round the new
\* expiry cancels the wait, and the handler, which ignores the error, runs.
BadRearm(t) ==
    /\ Go(t, "rearm", "strand")
    /\ expiry' = [expiry EXCEPT ![hand[t]] = @ + 1] /\ pending' = pending \cup {hand[t]}
    /\ hand' = [hand EXCEPT ![t] = None]
    /\ UNCHANGED <<now, armed, counter, strand>>

Rearm(t) ==
    /\ Go(t, "rearm", "strand")
    /\ expiry' = [expiry EXCEPT ![hand[t]] = @ + 1] /\ armed' = armed \cup {hand[t]}
    /\ hand' = [hand EXCEPT ![t] = None]
    /\ UNCHANGED <<now, pending, counter, strand>>

-----------------------------------------------------------------------------
Run(t) ==
    \/ TakeTimer(t) \/ TakeInvoker(t) \/ Leave(t)
    \/ Enqueue(t) \/ Invoke(t) \/ RunNext(t) \/ InvokerExit(t) \/ PostInvoker(t)
    \/ Check(t) \/ Read(t) \/ Write(t) \/ Rearm(t)

Clock == Tick \/ \E i \in Timers : Expire(i)

Done == (\A t \in Threads : pc[t] = "returned") /\ UNCHANGED vars

Next == Clock \/ Done \/ \E t \in Threads : Run(t)

\* Time passes, timers expire and threads run.
Fairness == WF_vars(Clock) /\ \A t \in Threads : WF_vars(Run(t))

Spec == Init /\ [][Next]_vars /\ Fairness

-----------------------------------------------------------------------------
\* The strand keeps the handlers apart: the test of count_, its increment and
\* the use of the timers, which are not thread-safe, are one step to the rest.
Exclusive == \A t, u \in Threads : InHandler(t) /\ InHandler(u) => t = u

\* A timer prints at most once in a second.
Paced == \A i \in Timers : prints[i] <= now

\* When run() has returned on every thread the final count is the limit, and
\* no print was lost in it.
Printouts == UNION {{i} \X (1..prints[i]) : i \in Timers}
FinalCount ==
    (\A t \in Threads : pc[t] = "returned") => count = Limit /\ Cardinality(Printouts) = Limit

\* The limit is reached and run() returns on every thread: no handler is left
\* behind in the strand.
AllReturn == <>(count = Limit /\ \A t \in Threads : pc[t] = "returned")

\* The strand is a SerialExecutor: what a thread holds between the lock and the
\* ready queue comes first, what came meanwhile last.
Invoking == {t \in Threads : pc[t] = "invoke"}
InStrand == {t \in Threads : InHandler(t)}
Fifo == (IF Invoking = {} THEN <<>> ELSE <<hand[CHOOSE t \in Invoking : TRUE]>>)
          \o strandReady \o strandWaiting
Running == IF InStrand = {} THEN None ELSE hand[CHOOSE t \in InStrand : TRUE]

Executor == INSTANCE SerialExecutor WITH
    Functions <- Timers, Nothing <- None, fifo <- Fifo, running <- Running

ExecutorSpec == Executor!Spec
=============================================================================
