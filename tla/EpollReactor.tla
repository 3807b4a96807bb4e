---------------------------- MODULE EpollReactor ----------------------------
(***************************************************************************)
(* The epoll reactor (epoll_reactor.ipp) and the io_context it makes with  *)
(* Scheduler.                                                              *)
(*                                                                         *)
(* A read that finds no data waits at its descriptor.  epoll reports every *)
(* change once (EPOLLET); the thread that polls puts the descriptor itself *)
(* into the scheduler's queue, and whoever takes it performs the reads     *)
(* that wait, runs the first one's handler and posts the others.  A read   *)
(* completes with a piece of data, or, once the peer has closed, with the  *)
(* end of the stream.                                                      *)
(***************************************************************************)
EXTENDS Scheduler, SequencesExt

CONSTANTS
    MaxArrivals,  \* bound: pieces of data that arrive, and ends of streams
    MaxReuses     \* bound: how often a freed descriptor_state is used again

VARIABLES
    waiting,     \* the reads that wait at each descriptor (op_queue_[read_op])
    speculate,   \* try_speculative_[read_op]
    open,        \* is it registered for an open socket?
    data,        \* pieces in the kernel's buffer
    ended,       \* has the peer closed its side?
    edge,        \* does epoll have a change to report?
    arrivals, reuses  \* counters held below their bounds

ASSUME ReactorParameters == MaxArrivals \in Nat /\ MaxReuses \in Nat

schedule == <<queue, work, stopped, task, event, local, posting, life, asked>>
kernel == <<data, ended, edge, arrivals>>
sockets == <<open, reuses>>
reactor == <<waiting, speculate, kernel, sockets>>
vars == <<schedule, reactor>>

TypeOK ==
    /\ SchedulerTypeOK
    /\ waiting \in [Descriptors -> Seq(Ops)] /\ speculate \in [Descriptors -> BOOLEAN]
    /\ data \in [Descriptors -> 0..MaxArrivals] /\ ended \in [Descriptors -> BOOLEAN]
    /\ edge \in [Descriptors -> BOOLEAN] /\ open \in [Descriptors -> BOOLEAN]
    /\ arrivals \in 0..MaxArrivals /\ reuses \in 0..MaxReuses

Init ==
    /\ SchedulerInit
    /\ waiting = [d \in Descriptors |-> <<>>] /\ speculate = [d \in Descriptors |-> TRUE]
    /\ data = [d \in Descriptors |-> 0] /\ ended = [d \in Descriptors |-> FALSE]
    /\ edge = [d \in Descriptors |-> FALSE] /\ open = [d \in Descriptors |-> TRUE]
    /\ arrivals = 0 /\ reuses = 0

-----------------------------------------------------------------------------
\* The peer sends a piece, or closes.
Arrive(d) ==
    /\ open[d] /\ ~ended[d] /\ arrivals < MaxArrivals /\ arrivals' = arrivals + 1
    /\ \/ data' = [data EXCEPT ![d] = @ + 1] /\ UNCHANGED ended
       \/ ended' = [ended EXCEPT ![d] = TRUE] /\ UNCHANGED data
    /\ edge' = [edge EXCEPT ![d] = TRUE]
    /\ UNCHANGED <<schedule, waiting, speculate, sockets>>

\* perform(), of n reads that complete: each takes a piece, and the one behind
\* the last piece finds the end of the stream (done_and_exhausted).
Readable(d) == data[d] + (IF ended[d] THEN 1 ELSE 0)
Perform(d, n) ==
    /\ data' = [data EXCEPT ![d] = IF n <= @ THEN @ - n ELSE 0]
    /\ speculate' = [speculate EXCEPT ![d] = n <= data[d]]

\* start_op(): a first read is tried at once, unless the last one found the end
\* of the stream; when it completes, or the socket is closed, its handler is
\* posted, as a continuation or not.
StartNow(a, d) ==
    /\ Post(a) \/ (a \in Threads /\ PostContinuation(a))
    /\ \/ ~open[d] /\ UNCHANGED <<data, speculate>>
       \/ open[d] /\ waiting[d] = <<>> /\ speculate[d] /\ Readable(d) > 0 /\ Perform(d, 1)
    /\ UNCHANGED <<waiting, ended, edge, arrivals, sockets>>

\* ... and otherwise it waits, counted.
StartWait(a, d) ==
    /\ MayCall(a) /\ open[d] /\ (waiting[d] = <<>> /\ speculate[d] => Readable(d) = 0)
    /\ \E p \in Fresh :
       /\ work' = work + 1 /\ life' = [life EXCEPT ![p] = "pending"]
       /\ waiting' = [waiting EXCEPT ![d] = Append(@, p)]
    /\ UNCHANGED <<queue, stopped, task, event, local, posting, asked, speculate, kernel, sockets>>

\* cancel_ops(): the reads that wait are posted; they have been counted.
CancelOps(a, d) ==
    /\ MayCall(a) /\ waiting[d] # <<>>
    /\ posting' = [posting EXCEPT ![a] = waiting[d]]
    /\ waiting' = [waiting EXCEPT ![d] = <<>>]
    /\ UNCHANGED <<queue, work, stopped, task, event, local, life, asked, speculate, kernel, sockets>>

\* close(): deregister_descriptor(), and cleanup_descriptor_data(), which frees
\* the descriptor_state even if it is in the scheduler's queue.
Close(a, d) ==
    /\ MayCall(a) /\ open[d] /\ open' = [open EXCEPT ![d] = FALSE]
    /\ posting' = [posting EXCEPT ![a] = waiting[d]]
    /\ waiting' = [waiting EXCEPT ![d] = <<>>]
    /\ data' = [data EXCEPT ![d] = 0] /\ ended' = [ended EXCEPT ![d] = FALSE]
    /\ edge' = [edge EXCEPT ![d] = FALSE]
    /\ UNCHANGED <<queue, work, stopped, task, event, local, life, asked, speculate, arrivals, reuses>>

\* register_descriptor() for another socket gets the freed object.
Reuse(a, d) ==
    /\ MayCall(a) /\ ~open[d] /\ reuses < MaxReuses /\ reuses' = reuses + 1
    /\ open' = [open EXCEPT ![d] = TRUE] /\ speculate' = [speculate EXCEPT ![d] = TRUE]
    /\ UNCHANGED <<schedule, waiting, kernel>>

\* epoll_wait() returns: the descriptors reported go to the private queue.
Poll(t) ==
    /\ pc[t] \in {"poll", "block"} /\ Free(t)
    /\ pc[t] = "block" => poked \/ \E d \in Descriptors : edge[d]
    /\ \E s \in SetToSeqs({d \in Descriptors : edge[d]}) : priv' = [priv EXCEPT ![t] = s]
    /\ edge' = [d \in Descriptors |-> FALSE] /\ poked' = FALSE
    /\ pc' = [pc EXCEPT ![t] = "polled"]
    /\ UNCHANGED <<queue, work, stopped, interrupted, event, hand, privWork, posting, life, asked,
                   waiting, speculate, data, ended, arrivals, sockets>>

\* perform_io(): when no read completes, compensating_work_started() makes up
\* for the decrement that follows.
BadPerformIo(t) ==
    /\ pc[t] = "perform" /\ Free(t)
    /\ LET d == hand[t]
           n == IF Readable(d) < Len(waiting[d]) THEN Readable(d) ELSE Len(waiting[d])
       IN  /\ Perform(d, n)
           /\ waiting' = [waiting EXCEPT ![d] = SubSeq(@, n + 1, Len(@))]
           /\ IF n = 0
              THEN /\ pc' = [pc EXCEPT ![t] = "cleanup"]
                   /\ UNCHANGED <<hand, privWork, posting, life>>
              ELSE /\ pc' = [pc EXCEPT ![t] = "handler"]
                   /\ hand' = [hand EXCEPT ![t] = Head(waiting[d])]
                   /\ life' = [life EXCEPT ![Head(waiting[d])] = "running"]
                   /\ posting' = [posting EXCEPT ![t] = SubSeq(waiting[d], 2, n)]
                   /\ UNCHANGED privWork
    /\ UNCHANGED <<queue, work, stopped, task, event, priv, asked, ended, edge, arrivals, sockets>>

PerformIo(t) ==
    /\ pc[t] = "perform" /\ Free(t)
    /\ LET d == hand[t]
           n == IF Readable(d) < Len(waiting[d]) THEN Readable(d) ELSE Len(waiting[d])
       IN  /\ Perform(d, n)
           /\ waiting' = [waiting EXCEPT ![d] = SubSeq(@, n + 1, Len(@))]
           /\ IF n = 0
              THEN /\ pc' = [pc EXCEPT ![t] = "cleanup"]
                   /\ privWork' = [privWork EXCEPT ![t] = @ + 1]
                   /\ UNCHANGED <<hand, posting, life>>
              ELSE /\ pc' = [pc EXCEPT ![t] = "handler"]
                   /\ hand' = [hand EXCEPT ![t] = Head(waiting[d])]
                   /\ life' = [life EXCEPT ![Head(waiting[d])] = "running"]
                   /\ posting' = [posting EXCEPT ![t] = SubSeq(waiting[d], 2, n)]
                   /\ UNCHANGED privWork
    /\ UNCHANGED <<queue, work, stopped, task, event, priv, asked, ended, edge, arrivals, sockets>>

-----------------------------------------------------------------------------
\* run() on thread t, with the reactor it may run.
Thread(t) == (RunStep(t) /\ UNCHANGED reactor) \/ Poll(t) \/ PerformIo(t)

Caller(a) == CallerStep(a) /\ UNCHANGED reactor

\* A handler calls what it likes, and so does any other thread.
Continue(t) == PostContinuation(t) /\ UNCHANGED reactor

AnyCaller(a) ==
    \/ (Post(a) \/ (a \in Outsiders /\ Stop(a))) /\ UNCHANGED reactor
    \/ \E d \in Descriptors :
         StartNow(a, d) \/ StartWait(a, d) \/ CancelOps(a, d) \/ Close(a, d) \/ Reuse(a, d)

Kernel == (\E d \in Descriptors : Arrive(d)) \/ (\E t \in Threads : SpuriousWakeup(t) /\ UNCHANGED reactor)

Next ==
    \/ \E t \in Threads : Thread(t) \/ Continue(t)
    \/ \E a \in Callers : Caller(a) \/ AnyCaller(a)
    \/ Kernel

\* Threads run, handlers return and a call that has begun ends; nobody must
\* call anything, and no data must arrive.
Fairness ==
    (\A t \in Threads : WF_vars(Thread(t))) /\ (\A a \in Callers : WF_vars(Caller(a)))

Spec == Init /\ [][Next]_vars /\ Fairness

-----------------------------------------------------------------------------
\* The count is exact, whatever threads keep to themselves: outstanding_work_
\* and the private counts add up to the unfinished operations.  A count too
\* low would end run() early, one too high would keep it for ever.
Unfinished == {p \in Ops : life[p] \in {"pending", "running"}}
PrivateWork == UNION {{t} \X (1..privWork[t]) : t \in Threads}
CountsWork ==
    work + Cardinality(PrivateWork)
      = Cardinality(Unfinished) + Cardinality({t \in Threads : pc[t] = "cleanup"})

\* The reactor has one runner: the task is in the queue once, or one thread
\* holds it.
InQueue(o) == \E i \in 1..Len(queue) : queue[i] = o
RunsReactor(t) == pc[t] \in {"poll", "block", "polled"}
OneReactor ==
    /\ \A i, j \in 1..Len(queue) : queue[i] = Task /\ queue[j] = Task => i = j
    /\ \A t, u \in Threads : RunsReactor(t) /\ RunsReactor(u) => t = u
    /\ InQueue(Task) <=> \A t \in Threads : ~RunsReactor(t)

\* The queues are intrusive lists: no operation and no descriptor may be in two
\* places.  For descriptors this rests on the order in which a thread returns
\* the reactor's results and the task.
Lists == {<<"queue", Task>>} \cup ({"private"} \X Threads) \cup ({"posting"} \X Callers)
           \cup ({"waiting"} \X Descriptors)
List(l) ==
    CASE l[1] = "queue"   -> queue
      [] l[1] = "private" -> priv[l[2]]
      [] l[1] = "posting" -> posting[l[2]]
      [] l[1] = "waiting" -> waiting[l[2]]
EnqueuedOnce ==
    /\ \A l \in Lists : IsInjective(List(l))
    /\ \A l, m \in Lists : l # m => ToSet(List(l)) \cap ToSet(List(m)) = {}

\* An operation that has been posted, or whose data or end of stream is there,
\* is run: no wake-up is lost between the queue, the event and the reactor, and
\* no edge between the kernel and the descriptor.  The end of the stream is
\* reported to one read; a later one waits until it is cancelled.
Due(p) ==
    life[p] = "pending" /\ \A d \in Descriptors :
      \A i \in 1..Len(waiting[d]) : waiting[d][i] = p =>
        i <= IF speculate[d] THEN Readable(d) ELSE data[d]
EveryDueRuns == \A p \in Ops : Due(p) ~> (life[p] = "done" \/ stopped)

\* After stop(), or with nothing left to do, run() returns on every thread.
RunReturns == stopped ~> \A t \in Threads : pc[t] = "returned"

Pool == INSTANCE WorkPool WITH
    life <- life, asked <- asked,
    ending <- stopped \/ (\E t \in Threads : pc[t] = "stop"),
    returned <- {t \in Threads : pc[t] = "returned"}

\* io_context keeps what WorkPool promises.
PoolSpec == Pool!Spec
=============================================================================
