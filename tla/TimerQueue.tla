----------------------------- MODULE TimerQueue -----------------------------
(***************************************************************************)
(* The timers of an io_context: the heap of timer_queue.hpp, the calls of  *)
(* deadline_timer_service.hpp that use it and the timerfd that tells the   *)
(* epoll reactor when to look at it (epoll_reactor.hpp, .ipp).  Each call  *)
(* holds the reactor's mutex for what it does to the queue.                *)
(***************************************************************************)
EXTENDS Naturals, Sequences, FiniteSets

CONSTANTS
    Timers,
    Constructed,  \* the expiry time each timer is constructed with
    MaxTime,      \* bound: the latest expiry time
    MaxCalls      \* bound: the owners' calls

Times == 0..MaxTime

ASSUME TimerParameters ==
    /\ MaxTime \in Nat /\ MaxCalls \in Nat
    /\ Constructed \in [Timers -> Times]

Never == MaxTime + 1

VARIABLES
    now,
    expiry,     \* of each timer
    mightWait,  \* might_have_pending_waits
    waits,      \* op_queue_: of each wait the time it was started for
    active,     \* the linked list timers_
    heap,       \* heap_, from 1
    index,      \* heap_index_, 0 when there is none
    alarm,      \* when the timerfd becomes readable
    fired,      \* what get_ready_timers() gave to the reactor last
    calls       \* counter held below its bound

queue == <<waits, active, heap, index>>
vars == <<now, expiry, mightWait, queue, alarm, fired, calls>>

TypeOK ==
    /\ now \in Times /\ expiry \in [Timers -> Times] /\ mightWait \in [Timers -> BOOLEAN]
    /\ waits \in [Timers -> Seq(Times)] /\ active \subseteq Timers
    /\ heap \in Seq([time : Times, timer : Timers]) /\ index \in [Timers -> 0..Len(heap)]
    /\ alarm \in 0..Never /\ fired \in Seq(Times)
    /\ calls \in 0..MaxCalls

Init ==
    /\ now = 0 /\ expiry = Constructed /\ mightWait = [i \in Timers |-> FALSE]
    /\ waits = [i \in Timers |-> <<>>] /\ active = {}
    /\ heap = <<>> /\ index = [i \in Timers |-> 0]
    /\ alarm = Never /\ fired = <<>>
    /\ calls = 0

-----------------------------------------------------------------------------
(* The heap: q.heap, and q.index which says where a timer is in it.        *)

Q == [heap |-> heap, index |-> index]
Time(q, k) == q.heap[k].time

SwapHeap(q, a, b) ==
    [heap  |-> [q.heap EXCEPT ![a] = q.heap[b], ![b] = q.heap[a]],
     index |-> [q.index EXCEPT ![q.heap[b].timer] = a, ![q.heap[a].timer] = b]]

\* A while loop: n turns, of which those after the last change nothing.
Loop(Turn(_), x, n) ==
    LET turn[i \in 0..n] == IF i = 0 THEN x ELSE Turn(turn[i - 1]) IN turn[n]

UpTurn(p) ==
    IF p.k = 1 \/ Time(p.q, p.k) >= Time(p.q, p.k \div 2) THEN p
    ELSE [q |-> SwapHeap(p.q, p.k, p.k \div 2), k |-> p.k \div 2]

UpHeap(q, k) == Loop(UpTurn, [q |-> q, k |-> k], k).q

MinChild(q, k) ==
    IF 2 * k = Len(q.heap) \/ Time(q, 2 * k) < Time(q, 2 * k + 1) THEN 2 * k ELSE 2 * k + 1

DownTurn(p) ==
    LET child == MinChild(p.q, p.k) IN
    IF 2 * p.k > Len(p.q.heap) \/ Time(p.q, p.k) < Time(p.q, child) THEN p
    ELSE [q |-> SwapHeap(p.q, p.k, child), k |-> child]

DownHeap(q, k) == Loop(DownTurn, [q |-> q, k |-> k], Len(q.heap)).q

\* Operators named Bad... are wrong variants of the definition that follows
\* them; the checks substitute them to see that a property notices.

BadPopBack(q, i) ==
    [heap |-> SubSeq(q.heap, 1, Len(q.heap) - 1), index |-> q.index]

PopBack(q, i) ==
    [heap |-> SubSeq(q.heap, 1, Len(q.heap) - 1), index |-> [q.index EXCEPT ![i] = 0]]

\* remove_timer(): the last entry takes the place, and may belong higher up.
BadRemoveTimer(q, i) ==
    LET k == q.index[i]  n == Len(q.heap)  r == PopBack(SwapHeap(q, k, n), i) IN
    IF k = 0 THEN q ELSE IF k = n THEN PopBack(q, i) ELSE DownHeap(r, k)

RemoveTimer(q, i) ==
    LET k == q.index[i]  n == Len(q.heap)  r == PopBack(SwapHeap(q, k, n), i) IN
    IF k = 0 THEN q
    ELSE IF k = n THEN PopBack(q, i)
    ELSE IF k > 1 /\ Time(r, k) < Time(r, k \div 2) THEN UpHeap(r, k) ELSE DownHeap(r, k)

\* enqueue_timer(): a timer that is active keeps its place, and its time.
EnqueueTimer(i) ==
    LET n == Len(heap) + 1 IN
    IF i \in active THEN Q
    ELSE UpHeap([heap |-> Append(heap, [time |-> expiry[i], timer |-> i]),
                 index |-> [index EXCEPT ![i] = n]], n)

\* get_ready_timers(): p.out collects the waits.
BadReadyTurn(p) ==
    LET i == p.q.heap[1].timer IN
    IF p.q.heap = <<>> \/ Time(p.q, 1) >= now THEN p
    ELSE [q |-> RemoveTimer(p.q, i), out |-> p.out \o waits[i], done |-> p.done \cup {i}]

ReadyTurn(p) ==
    LET i == p.q.heap[1].timer IN
    IF p.q.heap = <<>> \/ Time(p.q, 1) > now THEN p
    ELSE [q |-> RemoveTimer(p.q, i), out |-> p.out \o waits[i], done |-> p.done \cup {i}]

ReadyTimers == Loop(ReadyTurn, [q |-> Q, out |-> <<>>, done |-> {}], Len(heap))

SetQueue(q) == heap' = q.heap /\ index' = q.index

\* timerfd_settime() for the earliest entry; a time that has come is now.
AlarmFor(h) == IF h = <<>> THEN Never ELSE IF h[1].time < now THEN now ELSE h[1].time

\* What is left of timer i when only the waits in s are.
Keep(i, s) ==
    /\ waits' = [waits EXCEPT ![i] = s]
    /\ IF i \in active /\ s = <<>>
       THEN active' = active \ {i} /\ SetQueue(RemoveTimer(Q, i))
       ELSE UNCHANGED <<active, heap, index>>

-----------------------------------------------------------------------------
(* The calls of a timer's owner.                                           *)

Call == calls < MaxCalls /\ calls' = calls + 1 /\ UNCHANGED <<now, fired>>

\* async_wait(): the reactor is told when the wait is the first to expire.
BadAsyncWait(i) ==
    /\ Call
    /\ mightWait' = [mightWait EXCEPT ![i] = TRUE]
    /\ waits' = [waits EXCEPT ![i] = Append(@, expiry[i])] /\ active' = active \cup {i}
    /\ SetQueue(EnqueueTimer(i))
    /\ alarm' = IF heap = <<>> THEN AlarmFor(heap') ELSE alarm
    /\ UNCHANGED expiry

AsyncWait(i) ==
    /\ Call
    /\ mightWait' = [mightWait EXCEPT ![i] = TRUE]
    /\ waits' = [waits EXCEPT ![i] = Append(@, expiry[i])] /\ active' = active \cup {i}
    /\ SetQueue(EnqueueTimer(i))
    /\ alarm' = IF index'[i] = 1 /\ waits[i] = <<>> THEN AlarmFor(heap') ELSE alarm
    /\ UNCHANGED expiry

\* cancel(): nothing to do for a timer that has had no wait since the last time.
Cancel(i) ==
    /\ Call
    /\ IF mightWait[i] THEN Keep(i, <<>>) ELSE UNCHANGED queue
    /\ mightWait' = [mightWait EXCEPT ![i] = FALSE]
    /\ UNCHANGED <<expiry, alarm>>

CancelOne(i) ==
    /\ Call
    /\ IF mightWait[i] /\ waits[i] # <<>>
       THEN Keep(i, Tail(waits[i])) /\ UNCHANGED mightWait
       ELSE mightWait' = [mightWait EXCEPT ![i] = FALSE] /\ UNCHANGED queue
    /\ UNCHANGED <<expiry, alarm>>

\* cancel_timer_by_key(), the cancellation slot of one wait.
CancelByKey(i) ==
    /\ Call
    /\ \E k \in 1..Len(waits[i]) :
         Keep(i, SubSeq(waits[i], 1, k - 1) \o SubSeq(waits[i], k + 1, Len(waits[i])))
    /\ UNCHANGED <<expiry, mightWait, alarm>>

\* expires_at(): cancel(), then the new time.
BadExpiresAt(i) ==
    /\ Call
    /\ \E e \in Times : expiry' = [expiry EXCEPT ![i] = e]
    /\ UNCHANGED <<queue, mightWait, alarm>>

ExpiresAt(i) ==
    /\ Call
    /\ IF mightWait[i] THEN Keep(i, <<>>) ELSE UNCHANGED queue
    /\ mightWait' = [mightWait EXCEPT ![i] = FALSE]
    /\ \E e \in Times : expiry' = [expiry EXCEPT ![i] = e]
    /\ UNCHANGED alarm

\* i = std::move(j): the waits of i are cancelled, those of j become its own.
MoveTimer(i, j) ==
    /\ Call /\ i # j
    /\ LET q == IF i \in active THEN RemoveTimer(Q, i) ELSE Q
           k == q.index[j] IN
       SetQueue([heap  |-> IF k = 0 THEN q.heap ELSE [q.heap EXCEPT ![k].timer = i],
                 index |-> [q.index EXCEPT ![i] = k, ![j] = 0]])
    /\ waits' = [waits EXCEPT ![i] = waits[j], ![j] = <<>>]
    /\ active' = (active \ {i, j}) \cup (IF j \in active THEN {i} ELSE {})
    /\ expiry' = [expiry EXCEPT ![i] = expiry[j], ![j] = 0]
    /\ mightWait' = [mightWait EXCEPT ![i] = mightWait[j], ![j] = FALSE]
    /\ UNCHANGED alarm

-----------------------------------------------------------------------------
\* epoll_wait() reports the timerfd: get_ready_timers(), and the next alarm.
Report ==
    /\ alarm <= now
    /\ LET p == ReadyTimers IN
       /\ SetQueue(p.q) /\ fired' = p.out
       /\ active' = active \ p.done
       /\ waits' = [i \in Timers |-> IF i \in p.done THEN <<>> ELSE waits[i]]
       /\ alarm' = AlarmFor(p.q.heap)
    /\ UNCHANGED <<now, expiry, mightWait, calls>>

Tick ==
    /\ now < MaxTime /\ now' = now + 1
    /\ UNCHANGED <<expiry, mightWait, queue, alarm, fired, calls>>

Owner(i) ==
    \/ AsyncWait(i) \/ Cancel(i) \/ CancelOne(i) \/ CancelByKey(i) \/ ExpiresAt(i)
    \/ \E j \in Timers : MoveTimer(i, j)

Next == Report \/ Tick \/ \E i \in Timers : Owner(i)

Spec == Init /\ [][Next]_vars

-----------------------------------------------------------------------------
\* The heap and the timers agree: every active timer is at the index it has,
\* no earlier than its parent, and it is active exactly while it has waits.
HeapAgrees ==
    /\ \A k \in 1..Len(heap) : index[heap[k].timer] = k
    /\ \A k \in 2..Len(heap) : heap[k \div 2].time <= heap[k].time
    /\ \A i \in Timers : /\ i \in active <=> waits[i] # <<>>
                         /\ i \in active => index[i] \in 1..Len(heap) /\ heap[index[i]].timer = i
                         /\ i \notin active => index[i] = 0

\* A timer's waits share one heap entry, so they must have been started for its
\* time, and cancel() must not be talked out of looking for them.
WaitsAtTheirTime ==
    \A i \in Timers : waits[i] # <<>> =>
        mightWait[i] /\ \A k \in 1..Len(waits[i]) : waits[i][k] = heap[index[i]].time

\* The reactor is woken in time for the earliest wait.
AlarmInTime == heap # <<>> => alarm <= now \/ alarm <= heap[1].time

List == INSTANCE WaitList WITH now <- now, waits <- waits, fired <- fired

\* The timer queue does what WaitList promises.
WaitListSpec == List!Spec
=============================================================================
