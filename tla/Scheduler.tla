----------------------------- MODULE Scheduler -----------------------------
(***************************************************************************)
(* The scheduler of io_context (scheduler.ipp, scheduler.hpp,              *)
(* posix_event.hpp) with several threads in run().                         *)
(*                                                                         *)
(* Handlers wait in one queue, next to the task: the entry whose holder    *)
(* runs the reactor.  A thread that finds the queue empty waits for an     *)
(* event (a condition variable with a flag); one that takes the task       *)
(* blocks in epoll_wait.  Whoever adds a handler wakes a waiting thread,   *)
(* or else interrupts the reactor.  outstanding_work_ counts the           *)
(* unfinished operations; run() returns when it reaches zero.              *)
(*                                                                         *)
(* An action is one hold of mutex_, or one atomic step outside it.         *)
(* EpollReactor adds the reactor and closes the specification.             *)
(***************************************************************************)
EXTENDS Integers, Sequences, FiniteSets

CONSTANTS
    Threads,      \* threads that call run()
    Outsiders,    \* threads that only post() and stop()
    MaxOps,       \* bound: operations
    Descriptors,  \* descriptor_state objects of the reactor
    Task,         \* task_operation_
    MayStop       \* does anyone call io_context::stop()?

ASSUME SchedulerParameters ==
    /\ MaxOps \in Nat \ {0} /\ MayStop \in BOOLEAN
    /\ Task \notin 1..MaxOps /\ Task \notin Descriptors
    /\ Threads \cap Outsiders = {} /\ Descriptors \cap 1..MaxOps = {}
    /\ IsFiniteSet(Descriptors) /\ IsFiniteSet(Threads)

VARIABLES
    queue,        \* op_queue_
    work,         \* outstanding_work_
    stopped,      \* stopped_
    interrupted,  \* task_interrupted_
    signalled,    \* the low bit of the event's state_
    poked,        \* has the reactor been interrupted since epoll_wait last reported?
    pc,           \* where each thread in run() is
    hand,         \* the entry it has taken
    priv,         \* its private_op_queue
    privWork,     \* its private_outstanding_work
    posting,      \* operations a caller counted or took over and has yet to push
    signalling,   \* callers between unlock() and pthread_cond_signal()
    life,         \* of each operation
    asked         \* history: has stop() been called?

event == <<signalled, signalling>>
local == <<pc, hand, priv, privWork>>
task  == <<interrupted, poked>>

Ops == 1..MaxOps
Callers == Threads \cup Outsiders
Entries == Ops \cup Descriptors \cup {Task}
Places == {"outside", "loop", "poll", "block", "polled", "perform", "handler", "cleanup",
           "stop", "waiting", "woken", "returned"}

SchedulerTypeOK ==
    /\ queue \in Seq(Entries) /\ work \in Nat
    /\ {stopped, interrupted, signalled, poked} \subseteq BOOLEAN
    /\ pc \in [Threads -> Places] /\ hand \in [Threads -> Entries]
    /\ priv \in [Threads -> Seq(Ops \cup Descriptors)] /\ privWork \in [Threads -> Nat]
    /\ posting \in [Callers -> Seq(Ops)] /\ signalling \subseteq Callers
    /\ life \in [Ops -> {"new", "pending", "running", "done"}] /\ asked \in BOOLEAN

\* The reactor has been created; one operation was posted before run().
SchedulerInit ==
    /\ queue = <<Task, 1>> /\ work = 1
    /\ stopped = FALSE /\ interrupted = TRUE /\ signalled = TRUE /\ poked = FALSE
    /\ pc = [t \in Threads |-> "outside"] /\ hand = [t \in Threads |-> Task]
    /\ priv = [t \in Threads |-> <<>>] /\ privWork = [t \in Threads |-> 0]
    /\ posting = [a \in Callers |-> <<>>] /\ signalling = {}
    /\ life = [p \in Ops |-> IF p = 1 THEN "pending" ELSE "new"] /\ asked = FALSE

Free(a) == a \notin signalling /\ posting[a] = <<>>
Waiters == {t \in Threads : pc[t] \in {"waiting", "woken"}}

\* Operators named Bad... are wrong variants of the definition that follows
\* them; the checks substitute them to see that a property notices.

\* wake_one_thread_and_unlock(), W being the waiters and intr task_interrupted_.
BadWakeOne(a, W, intr) ==
    /\ signalled' = TRUE /\ UNCHANGED signalling
    /\ IF W # {}
       THEN interrupted' = intr /\ UNCHANGED poked
       ELSE interrupted' = TRUE /\ poked' = (poked \/ ~intr)

WakeOne(a, W, intr) ==
    /\ signalled' = TRUE
    /\ IF W # {}
       THEN signalling' = signalling \cup {a} /\ interrupted' = intr /\ UNCHANGED poked
       ELSE interrupted' = TRUE /\ poked' = (poked \/ ~intr) /\ UNCHANGED signalling

Signal(a) ==
    /\ a \in signalling /\ signalling' = signalling \ {a}
    /\ \/ \E t \in Threads : pc[t] = "waiting" /\ pc' = [pc EXCEPT ![t] = "woken"]
       \/ (\A t \in Threads : pc[t] # "waiting") /\ UNCHANGED pc
    /\ UNCHANGED <<queue, work, stopped, task, signalled, hand, priv, privWork, posting, life, asked>>

SpuriousWakeup(t) ==
    /\ pc[t] = "waiting" /\ pc' = [pc EXCEPT ![t] = "woken"]
    /\ UNCHANGED <<queue, work, stopped, task, event, hand, priv, privWork, posting, life, asked>>

\* stop_all_threads(); `where' is pc once the caller has moved on.
BadStopAll(where) ==
    /\ stopped' = TRUE /\ signalled' = TRUE
    /\ pc' = [t \in Threads |-> IF where[t] = "waiting" THEN "woken" ELSE where[t]]
    /\ UNCHANGED task

StopAll(where) ==
    /\ stopped' = TRUE /\ signalled' = TRUE
    /\ pc' = [t \in Threads |-> IF where[t] = "waiting" THEN "woken" ELSE where[t]]
    /\ interrupted' = TRUE /\ poked' = (poked \/ ~interrupted)

-----------------------------------------------------------------------------
(* run() and do_run_one().                                                 *)

EnterRun(t) ==
    /\ pc[t] = "outside"
    /\ pc' = [pc EXCEPT ![t] = IF work = 0 THEN "stop" ELSE "loop"]
    /\ UNCHANGED <<queue, work, stopped, task, event, hand, priv, privWork, posting, life, asked>>

\* A thread that has the mutex first adds what its handler, or the reactor it
\* ran, has left in its private queue; the task goes behind that.
BadQueued(t) ==
    queue \o (IF pc[t] = "polled" THEN <<Task>> ELSE <<>>) \o priv[t]

Queued(t) == queue \o priv[t] \o (IF pc[t] = "polled" THEN <<Task>> ELSE <<>>)

Interrupted(t) == interrupted \/ pc[t] = "polled"

Locks(t) ==
    Free(t) /\ (pc[t] \in {"loop", "polled"} \/ (pc[t] = "woken" /\ signalled))

Leave(t) ==
    /\ Locks(t) /\ stopped
    /\ queue' = Queued(t) /\ interrupted' = Interrupted(t)
    /\ priv' = [priv EXCEPT ![t] = <<>>] /\ pc' = [pc EXCEPT ![t] = "returned"]
    /\ UNCHANGED <<work, stopped, poked, event, hand, privWork, posting, life, asked>>

\* With more handlers queued another thread is signalled and epoll_wait only polls.
BadTakeTask(t) ==
    /\ Locks(t) /\ ~stopped /\ Queued(t) # <<>> /\ Head(Queued(t)) = Task
    /\ LET rest == Tail(Queued(t)) IN
       /\ queue' = IF rest # <<>> THEN Append(rest, Task) ELSE rest
       /\ interrupted' = (rest # <<>>)
       /\ signalled' = (signalled \/ rest # <<>>)
       /\ signalling' = IF rest # <<>> /\ Waiters \ {t} # {} THEN signalling \cup {t} ELSE signalling
       /\ pc' = [pc EXCEPT ![t] = IF rest # <<>> THEN "poll" ELSE "block"]
    /\ priv' = [priv EXCEPT ![t] = <<>>]
    /\ UNCHANGED <<work, stopped, poked, hand, privWork, posting, life, asked>>

TakeTask(t) ==
    /\ Locks(t) /\ ~stopped /\ Queued(t) # <<>> /\ Head(Queued(t)) = Task
    /\ LET rest == Tail(Queued(t)) IN
       /\ queue' = rest /\ interrupted' = (rest # <<>>)
       /\ signalled' = (signalled \/ rest # <<>>)
       /\ signalling' = IF rest # <<>> /\ Waiters \ {t} # {} THEN signalling \cup {t} ELSE signalling
       /\ pc' = [pc EXCEPT ![t] = IF rest # <<>> THEN "poll" ELSE "block"]
    /\ priv' = [priv EXCEPT ![t] = <<>>]
    /\ UNCHANGED <<work, stopped, poked, hand, privWork, posting, life, asked>>

TakeOp(t) ==
    /\ Locks(t) /\ ~stopped /\ Queued(t) # <<>> /\ Head(Queued(t)) # Task
    /\ LET o == Head(Queued(t))  rest == Tail(Queued(t)) IN
       /\ queue' = rest /\ hand' = [hand EXCEPT ![t] = o]
       /\ IF o \in Ops
          THEN pc' = [pc EXCEPT ![t] = "handler"] /\ life' = [life EXCEPT ![o] = "running"]
          ELSE pc' = [pc EXCEPT ![t] = "perform"] /\ UNCHANGED life
       /\ IF rest # <<>>
          THEN WakeOne(t, Waiters \ {t}, Interrupted(t))
          ELSE interrupted' = Interrupted(t) /\ UNCHANGED <<poked, event>>
    /\ priv' = [priv EXCEPT ![t] = <<>>]
    /\ UNCHANGED <<work, stopped, privWork, posting, asked>>

\* wakeup_event_.clear(), wait().
Sleep(t) ==
    /\ Locks(t) /\ ~stopped /\ Queued(t) = <<>>
    /\ signalled' = FALSE /\ pc' = [pc EXCEPT ![t] = "waiting"]
    /\ UNCHANGED <<queue, work, stopped, task, signalling, hand, priv, privWork, posting, life, asked>>

SleepAgain(t) ==
    /\ pc[t] = "woken" /\ ~signalled /\ pc' = [pc EXCEPT ![t] = "waiting"]
    /\ UNCHANGED <<queue, work, stopped, task, event, hand, priv, privWork, posting, life, asked>>

\* The end of a handler and work_cleanup: what the handler started on its own
\* thread pays for what it finishes.
BadFinish(t) ==
    /\ pc[t] \in {"handler", "cleanup"} /\ Free(t)
    /\ work' = work + privWork[t]
    /\ pc' = [pc EXCEPT ![t] = IF work' = 0 THEN "stop" ELSE "loop"]
    /\ privWork' = [privWork EXCEPT ![t] = 0]
    /\ life' = IF hand[t] \in Ops THEN [life EXCEPT ![hand[t]] = "done"] ELSE life
    /\ UNCHANGED <<queue, stopped, task, event, hand, priv, posting, asked>>

Finish(t) ==
    /\ pc[t] \in {"handler", "cleanup"} /\ Free(t)
    /\ work' = work + privWork[t] - 1
    /\ pc' = [pc EXCEPT ![t] = IF privWork[t] = 0 /\ work' = 0 THEN "stop" ELSE "loop"]
    /\ privWork' = [privWork EXCEPT ![t] = 0]
    /\ life' = IF hand[t] \in Ops THEN [life EXCEPT ![hand[t]] = "done"] ELSE life
    /\ UNCHANGED <<queue, stopped, task, event, hand, priv, posting, asked>>

\* stop(), called by the thread that took the work to zero or found it there.
StopIdle(t) ==
    /\ pc[t] = "stop" /\ StopAll([pc EXCEPT ![t] = "loop"])
    /\ UNCHANGED <<queue, work, signalling, hand, priv, privWork, posting, life, asked>>

-----------------------------------------------------------------------------
(* What handlers and other threads call.                                   *)

MayCall(a) == Free(a) /\ (a \in Threads => pc[a] = "handler")
Fresh == {p \in Ops : life[p] = "new" /\ \A q \in Ops : q < p => life[q] # "new"}

\* post_immediate_completion(): work_started(), then the mutex and the queue.
Post(a) ==
    /\ MayCall(a)
    /\ \E p \in Fresh :
       /\ work' = work + 1 /\ posting' = [posting EXCEPT ![a] = <<p>>]
       /\ life' = [life EXCEPT ![p] = "pending"]
    /\ UNCHANGED <<queue, stopped, task, event, local, asked>>

Push(a) ==
    /\ posting[a] # <<>> /\ a \notin signalling
    /\ queue' = queue \o posting[a] /\ posting' = [posting EXCEPT ![a] = <<>>]
    /\ WakeOne(a, Waiters, interrupted)
    /\ UNCHANGED <<work, stopped, local, life, asked>>

\* ... for a continuation of the running handler: it stays with the thread.
PostContinuation(t) ==
    /\ MayCall(t)
    /\ \E p \in Fresh :
       /\ priv' = [priv EXCEPT ![t] = Append(@, p)]
       /\ life' = [life EXCEPT ![p] = "pending"]
    /\ privWork' = [privWork EXCEPT ![t] = @ + 1]
    /\ UNCHANGED <<queue, work, stopped, task, event, pc, hand, posting, asked>>

Stop(a) ==
    /\ MayStop /\ MayCall(a) /\ ~asked /\ StopAll(pc)
    /\ asked' = TRUE
    /\ UNCHANGED <<queue, work, signalling, hand, priv, privWork, posting, life>>

\* What a thread in run() does by itself.
RunStep(t) ==
    EnterRun(t) \/ Leave(t) \/ TakeTask(t) \/ TakeOp(t) \/ Sleep(t) \/ SleepAgain(t)
      \/ Finish(t) \/ StopIdle(t)

CallerStep(a) == Signal(a) \/ Push(a)
=============================================================================
