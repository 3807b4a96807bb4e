----------------------------- MODULE TcpClient -----------------------------
(***************************************************************************)
(* TcpClient (network/tcp_client.h, tcp_client.cpp): an asynchronous TCP   *)
(* client that reconnects with exponential back-off, driven the way        *)
(* tcp/tcp_client2.cpp drives it: main calls start(), hands io_context to  *)
(* one thread, calls send() in a loop, then stop(), io.stop(), join().     *)
(*                                                                         *)
(* Two threads take steps.  The io thread runs completion handlers one at  *)
(* a time from the io_context's FIFO queue `ready'; the handler it is in   *)
(* is `call'.  Every piece of client code starts by reading the atomic     *)
(* stopped_, and that read (CheckStopped) is a step of its own: main may   *)
(* store to stopped_ between the read and what follows it.  The kernel and *)
(* the peer change `sock' and decide which pending operation completes.    *)
(***************************************************************************)
EXTENDS Integers, Sequences

CONSTANTS
    MaxSends,        \* bound: calls of send() by main
    MaxStarts,       \* bound: calls of start(), the first one included
    MaxFaults,       \* bound: refused connects, peer closes and resets
    MaxDelay,        \* cap of reconnect_delay_ in seconds (30 in the code)
    NEndpoints,      \* addresses the host name resolves to
    ResolveMayFail,  \* may resolver.resolve() throw?
    CallIoStop,      \* does main call io.stop() between stop() and join()?
    Prompt           \* are handlers run faster than the timer's whole second?

ASSUME BoundsAssumption ==
    MaxSends \in Nat /\ MaxStarts \in Nat \ {0} /\ MaxFaults \in Nat
ASSUME DelayAssumption == MaxDelay \in Nat \ {0}
ASSUME EndpointsAssumption == NEndpoints \in Nat \ {0}
ASSUME SwitchAssumption ==
    ResolveMayFail \in BOOLEAN /\ CallIoStop \in BOOLEAN /\ Prompt \in BOOLEAN

VARIABLES
    stopped,         \* stopped_
    status,          \* current_status_
    reconnectDelay,  \* reconnect_delay_
    writeMsgs,       \* write_msgs_
    sock,            \* socket_ and the connection behind it
    connEp,          \* pending async_connect: its endpoint, 0 when none
    nReads,          \* pending async_read_some operations
    writes,          \* pending async_write operations: their messages
    timer,           \* is an async_wait of timer_ pending?
    ready,           \* the io_context's queue of completions and posts
    call,            \* client code being run
    io,              \* the thread that runs io.run()
    main,            \* where main is
    sends, starts, faults,  \* counters held below their bounds
    accepted,        \* history: messages taken into write_msgs_
    wire             \* history: messages the kernel took whole

config  == <<stopped, status, reconnectDelay>>
ops     == <<sock, connEp, nReads, writes>>
outbox  == <<writeMsgs, accepted>>
counts  == <<sends, starts>>
threads == <<io, main>>
vars == <<config, ops, outbox, wire, timer, ready, call, threads, counts, faults>>

Status == {"Connected", "Disconnected", "Error", "Reconnecting"}
Errors == {"ok", "eof", "error", "aborted"}
Handlers == {"connect_op", "read", "write", "timer", "close", "send", "start", "io"}
Segments == {"none", "connect", "do_connect", "do_read", "do_write", "schedule_reconnect"}

\* A completion or a post in the queue; arg is an endpoint or a message.
Entry(op, ec, arg) == [op |-> op, ec |-> ec, arg |-> arg]
Entries == [op : Handlers, ec : Errors, arg : Nat]
Calls == [op : (Handlers \ {"io"}) \cup Segments, ec : Errors, arg : Nat, checked : BOOLEAN]

NoCall == [op |-> "none", ec |-> "ok", arg |-> 0, checked |-> FALSE]
Goto(op) == [NoCall EXCEPT !.op = op]

\* Handlers whose first act is not to read stopped_.
Unguarded == {"connect_op", "close", "start"}
Begin(e) == [op |-> e.op, ec |-> e.ec, arg |-> e.arg, checked |-> e.op \in Unguarded]
Running(op) == call.op = op /\ call.checked

SmallerOf(a, b) == IF a < b THEN a ELSE b
Times(n, e) == [i \in 1..n |-> e]
Queued(op) == \E i \in 1..Len(ready) : ready[i].op = op

TypeOK ==
    /\ stopped \in BOOLEAN
    /\ status \in Status
    /\ reconnectDelay \in 1..MaxDelay
    /\ writeMsgs \in Seq(Nat)
    /\ sock \in {"closed", "connecting", "established", "eof", "broken"}
    /\ connEp \in 0..NEndpoints
    /\ nReads \in Nat
    /\ writes \in Seq(Nat)
    /\ timer \in BOOLEAN
    /\ ready \in Seq(Entries)
    /\ call \in Calls
    /\ io \in {"unstarted", "running", "stopping", "exited", "crashed"}
    /\ main \in {"init", "starting", "loop", "stopping", "stopped", "joining", "done"}
    /\ sends \in 0..MaxSends /\ starts \in 0..MaxStarts /\ faults \in 0..MaxFaults
    /\ accepted \in Seq(Nat) /\ wire \in Seq(Nat)

Init ==
    /\ stopped = TRUE /\ status = "Disconnected" /\ reconnectDelay = 1
    /\ writeMsgs = <<>> /\ accepted = <<>> /\ wire = <<>>
    /\ sock = "closed" /\ connEp = 0 /\ nReads = 0 /\ writes = <<>>
    /\ timer = FALSE /\ ready = <<>> /\ call = NoCall
    /\ io = "unstarted" /\ main = "init"
    /\ sends = 0 /\ starts = 0 /\ faults = 0

-----------------------------------------------------------------------------
(* What Asio and the kernel do for one operation of the socket.            *)

\* The result a pending or a new operation may have now, "none" if it has to
\* wait.  The write of a message succeeds when the kernel takes all of it; it
\* may also have to wait, for as long as the peer does not read.
ConnectResult == CASE sock \in {"established", "eof"} -> "ok"
                   [] sock = "broken" -> "error"
                   [] OTHER -> "none"
ReadResult == CASE sock = "established" -> "ok"
                [] sock = "eof" -> "eof"
                [] sock \in {"broken", "closed"} -> "error"
                [] OTHER -> "none"
WriteResult == CASE sock \in {"established", "eof"} -> "ok"
                 [] sock \in {"broken", "closed"} -> "error"
                 [] OTHER -> "none"

\* An operation whose result is already certain does not stay pending.
ReadMayWait == sock \in {"connecting", "established"}
WriteMayWait == sock \in {"connecting", "established", "eof"}

\* Closing or replacing the socket completes what is pending, reads first.
AbortedOps ==
    Times(nReads, Entry("read", "aborted", 0))
      \o (IF connEp = 0 THEN <<>> ELSE <<Entry("connect_op", "aborted", connEp)>>)
      \o [i \in 1..Len(writes) |-> Entry("write", "aborted", writes[i])]

CloseSocket ==
    /\ sock' = "closed" /\ connEp' = 0 /\ nReads' = 0 /\ writes' = <<>>
    /\ ready' = ready \o AbortedOps

\* One step of the composed async_connect: close, reopen, connect to ep.
ConnectTo(ep) ==
    /\ nReads' = 0 /\ writes' = <<>>
    /\ \/ /\ sock' = "connecting" /\ connEp' = ep
          /\ ready' = ready \o AbortedOps
          /\ UNCHANGED faults
       \/ /\ sock' = "established" /\ connEp' = 0
          /\ ready' = ready \o AbortedOps \o <<Entry("connect_op", "ok", ep)>>
          /\ UNCHANGED faults
       \/ /\ faults < MaxFaults /\ faults' = faults + 1
          /\ sock' = "broken" /\ connEp' = 0
          /\ ready' = ready \o AbortedOps \o <<Entry("connect_op", "error", ep)>>

-----------------------------------------------------------------------------
(* Client code, run by the io thread (by main for the first start()).      *)

\* Operators named Bad... are wrong variants of the definition that follows
\* them; the checks substitute them to see that a property notices.
BadCheckStopped ==
    /\ call # NoCall /\ ~call.checked
    /\ call' = IF stopped /\ call.op \in {"read", "write", "send", "do_write"}
               THEN NoCall ELSE [call EXCEPT !.checked = TRUE]
    /\ UNCHANGED <<config, ops, outbox, wire, timer, ready, threads, counts, faults>>

\* "if (stopped_.load()) return;"
CheckStopped ==
    /\ call # NoCall /\ ~call.checked
    /\ call' = IF stopped THEN NoCall ELSE [call EXCEPT !.checked = TRUE]
    /\ UNCHANGED <<config, ops, outbox, wire, timer, ready, threads, counts, faults>>

\* do_connect() after its check: resolve, which may throw through io.run() or
\* main and end the process, then the first step of async_connect.
DoConnect ==
    /\ Running("do_connect")
    /\ call' = NoCall
    /\ \/ ConnectTo(1) /\ UNCHANGED threads
       \/ /\ ResolveMayFail
          /\ io' = "crashed"
          /\ UNCHANGED <<ops, ready, faults, main>>
    /\ UNCHANGED <<config, outbox, wire, timer, counts>>

\* The composed async_connect between two endpoints.  It reads socket_ anew:
\* a socket closed meanwhile turns any result into operation_aborted.
ConnectOp ==
    /\ Running("connect_op")
    /\ IF sock # "closed" /\ call.ec # "ok" /\ call.arg < NEndpoints
       THEN call' = NoCall /\ ConnectTo(call.arg + 1)
       ELSE /\ call' = [Goto("connect") EXCEPT
                          !.ec = IF sock = "closed" THEN "aborted" ELSE call.ec]
            /\ UNCHANGED <<ops, ready, faults>>
    /\ UNCHANGED <<config, outbox, wire, timer, threads, counts>>

BadOnConnect ==
    /\ Running("connect")
    /\ \/ /\ call.ec = "ok"
          /\ reconnectDelay' = 1 /\ status' = "Connected"
          /\ call' = Goto("do_read")
       \/ /\ call.ec # "ok"
          /\ status' = "Error" /\ UNCHANGED reconnectDelay
          /\ call' = NoCall
    /\ UNCHANGED <<stopped, ops, outbox, wire, timer, ready, threads, counts, faults>>

\* The handler of async_connect.
OnConnect ==
    /\ Running("connect")
    /\ \/ /\ call.ec = "ok"
          /\ reconnectDelay' = 1 /\ status' = "Connected"
          /\ call' = Goto("do_read")
       \/ /\ call.ec # "ok"
          /\ status' = "Error" /\ UNCHANGED reconnectDelay
          /\ call' = Goto("schedule_reconnect")
    /\ UNCHANGED <<stopped, ops, outbox, wire, timer, ready, threads, counts, faults>>

\* expires_after() cancels the wait that is still pending; one whose expiry is
\* already in the queue is out of its reach.
ScheduleReconnect ==
    /\ Running("schedule_reconnect")
    /\ status' = "Reconnecting"
    /\ timer' = TRUE
    /\ ready' = IF timer THEN Append(ready, Entry("timer", "aborted", 0)) ELSE ready
    /\ call' = NoCall
    /\ UNCHANGED <<stopped, reconnectDelay, ops, outbox, wire, threads, counts, faults>>

BadOnTimer ==
    /\ Running("timer")
    /\ \/ /\ call.ec = "ok"
          /\ CloseSocket
          /\ reconnectDelay' = 2 * reconnectDelay
          /\ call' = Goto("do_connect")
       \/ /\ call.ec # "ok"
          /\ call' = NoCall
          /\ UNCHANGED <<reconnectDelay, ops, ready>>
    /\ UNCHANGED <<stopped, status, outbox, wire, timer, threads, counts, faults>>

\* The handler of async_wait.  The doubling stands after do_connect() in the
\* code; do_connect() neither reads nor writes the delay.
OnTimer ==
    /\ Running("timer")
    /\ \/ /\ call.ec = "ok"
          /\ CloseSocket
          /\ reconnectDelay' = SmallerOf(2 * reconnectDelay, MaxDelay)
          /\ call' = Goto("do_connect")
       \/ /\ call.ec # "ok"
          /\ call' = NoCall
          /\ UNCHANGED <<reconnectDelay, ops, ready>>
    /\ UNCHANGED <<stopped, status, outbox, wire, timer, threads, counts, faults>>

\* async_read_some: tried at once, else pending.
DoRead ==
    /\ Running("do_read")
    /\ call' = NoCall
    /\ \/ ReadMayWait /\ nReads' = nReads + 1 /\ UNCHANGED ready
       \/ /\ ReadResult # "none"
          /\ ready' = Append(ready, Entry("read", ReadResult, 0)) /\ UNCHANGED nReads
    /\ UNCHANGED <<config, sock, connEp, writes, outbox, wire, timer, threads, counts, faults>>

\* The status of a read that failed: Disconnected if the server closed or reset
\* the connection; an "error" is a reset or any other error.
ReadStatus ==
    \/ call.ec \in {"eof", "error"} /\ status' = "Disconnected"
    \/ call.ec \in {"error", "aborted"} /\ status' = "Error"

BadOnReadRetriesAtOnce ==
    /\ Running("read")
    /\ IF call.ec = "ok"
       THEN call' = Goto("do_read") /\ UNCHANGED <<status, timer>>
       ELSE /\ ReadStatus
            /\ timer' = TRUE /\ call' = Goto("do_connect")
    /\ UNCHANGED <<stopped, reconnectDelay, ops, outbox, wire, ready, threads, counts, faults>>

\* The handler of async_read_some.
OnRead ==
    /\ Running("read")
    /\ \/ /\ call.ec = "ok"
          /\ call' = Goto("do_read") /\ UNCHANGED status
       \/ /\ call.ec # "ok"
          /\ ReadStatus
          /\ call' = Goto("schedule_reconnect")
    /\ UNCHANGED <<stopped, reconnectDelay, ops, outbox, wire, timer, ready, threads, counts, faults>>

BadOnSend ==
    /\ Running("send")
    /\ writeMsgs' = Append(writeMsgs, call.arg)
    /\ accepted' = Append(accepted, call.arg)
    /\ call' = Goto("do_write")
    /\ UNCHANGED <<config, ops, wire, timer, ready, threads, counts, faults>>

\* The body of the function send() posts.
OnSend ==
    /\ Running("send")
    /\ writeMsgs' = Append(writeMsgs, call.arg)
    /\ accepted' = Append(accepted, call.arg)
    /\ call' = IF writeMsgs = <<>> THEN Goto("do_write") ELSE NoCall
    /\ UNCHANGED <<config, ops, wire, timer, ready, threads, counts, faults>>

\* async_write of the front message: tried at once, else pending.
DoWrite ==
    /\ Running("do_write")
    /\ call' = NoCall
    /\ \/ /\ WriteMayWait
          /\ writes' = Append(writes, Head(writeMsgs))
          /\ UNCHANGED <<ready, wire>>
       \/ /\ WriteResult # "none"
          /\ ready' = Append(ready, Entry("write", WriteResult, Head(writeMsgs)))
          /\ wire' = IF WriteResult = "ok" THEN Append(wire, Head(writeMsgs)) ELSE wire
          /\ UNCHANGED writes
    /\ UNCHANGED <<config, sock, connEp, nReads, outbox, timer, threads, counts, faults>>

BadOnWrite ==
    /\ Running("write")
    /\ writeMsgs' = Tail(writeMsgs)
    /\ IF call.ec = "ok"
       THEN /\ call' = IF Tail(writeMsgs) = <<>> THEN NoCall ELSE Goto("do_write")
            /\ UNCHANGED status
       ELSE status' = "Error" /\ call' = Goto("schedule_reconnect")
    /\ UNCHANGED <<stopped, reconnectDelay, ops, accepted, wire, timer, ready, threads, counts, faults>>

\* The handler of async_write.
OnWrite ==
    /\ Running("write")
    /\ \/ /\ call.ec = "ok"
          /\ writeMsgs' = Tail(writeMsgs)
          /\ call' = IF Tail(writeMsgs) = <<>> THEN NoCall ELSE Goto("do_write")
          /\ UNCHANGED status
       \/ /\ call.ec # "ok"
          /\ status' = "Error" /\ UNCHANGED writeMsgs
          /\ call' = Goto("schedule_reconnect")
    /\ UNCHANGED <<stopped, reconnectDelay, ops, accepted, wire, timer, ready, threads, counts, faults>>

BadOnCloseKeepsStatus ==
    /\ Running("close")
    /\ CloseSocket /\ call' = NoCall
    /\ UNCHANGED <<config, outbox, wire, timer, threads, counts, faults>>

BadOnCloseIfConnected ==
    /\ Running("close")
    /\ IF status = "Connected"
       THEN CloseSocket /\ status' = "Disconnected"
       ELSE UNCHANGED <<ops, ready, status>>
    /\ call' = NoCall
    /\ UNCHANGED <<stopped, reconnectDelay, outbox, wire, timer, threads, counts, faults>>

\* The body of the function close() posts.
OnClose ==
    /\ Running("close")
    /\ IF sock # "closed"
       THEN CloseSocket /\ status' = "Disconnected"
       ELSE UNCHANGED <<ops, ready, status>>
    /\ call' = NoCall
    /\ UNCHANGED <<stopped, reconnectDelay, outbox, wire, timer, threads, counts, faults>>

\* start() called on the io thread, from a posted function.
OnStart ==
    /\ Running("start")
    /\ stopped' = FALSE
    /\ call' = Goto("do_connect")
    /\ UNCHANGED <<status, reconnectDelay, ops, outbox, wire, timer, ready, threads, counts, faults>>

-----------------------------------------------------------------------------
(* The io thread between handlers: scheduler::run and epoll_reactor.       *)

Between == call = NoCall /\ io = "running"
Outstanding == ready # <<>> \/ connEp # 0 \/ nReads > 0 \/ writes # <<>> \/ timer

Dequeue ==
    /\ Between /\ ready # <<>> /\ Head(ready).op # "io"
    /\ call' = Begin(Head(ready))
    /\ ready' = Tail(ready)
    /\ UNCHANGED <<config, ops, outbox, wire, timer, threads, counts, faults>>

\* The completions of the connect if it has settled, of the first nw writes and
\* of nr reads.
ConnectDone ==
    IF connEp # 0 /\ ConnectResult # "none"
    THEN <<Entry("connect_op", ConnectResult, connEp)>> ELSE <<>>
Done(nw, nr) ==
    ConnectDone \o [i \in 1..nw |-> Entry("write", WriteResult, writes[i])]
                \o Times(nr, Entry("read", ReadResult, 0))

\* The descriptor's entry performs the operations that can make progress, in
\* the order connect, write, read; the first one's handler runs at once and
\* the others go to the end of the queue.  A read or a write that may wait may
\* also find nothing to do.
PerformIo ==
    /\ Between /\ ready # <<>> /\ Head(ready).op = "io"
    /\ \E nw \in 0..Len(writes), nr \in 0..nReads :
         /\ nw > 0 => WriteResult # "none"
         /\ nr > 0 => ReadResult # "none"
         /\ WriteMayWait \/ nw = Len(writes)
         /\ ReadMayWait \/ nr = nReads
         /\ connEp' = IF ConnectDone = <<>> THEN connEp ELSE 0
         /\ writes' = SubSeq(writes, nw + 1, Len(writes))
         /\ nReads' = nReads - nr
         /\ wire' = IF WriteResult = "ok" THEN wire \o SubSeq(writes, 1, nw) ELSE wire
         /\ IF Done(nw, nr) = <<>>
            THEN call' = NoCall /\ ready' = Tail(ready)
            ELSE /\ call' = Begin(Head(Done(nw, nr)))
                 /\ ready' = Tail(ready) \o Tail(Done(nw, nr))
    /\ UNCHANGED <<config, sock, outbox, timer, threads, counts, faults>>

\* Must a pending operation complete now?  Otherwise it may, in Reactor.
EventDue ==
    \/ connEp # 0 /\ ConnectResult # "none"
    \/ nReads > 0 /\ ~ReadMayWait
    \/ writes # <<>> /\ ~WriteMayWait
EventPossible ==
    \/ EventDue
    \/ nReads > 0 /\ ReadResult # "none"
    \/ writes # <<>> /\ WriteResult # "none"

\* epoll_wait reports the descriptor: its entry goes into the queue once.
Report ==
    /\ ready' = Append(ready, Entry("io", "ok", 0))
    /\ UNCHANGED <<config, ops, outbox, wire, timer, call, threads, counts, faults>>
ReportDue      == Between /\ EventDue /\ ~Queued("io") /\ Report
ReportPossible == Between /\ EventPossible /\ ~EventDue /\ ~Queued("io") /\ Report

\* The timer queue releases the wait: from here on it cannot be cancelled.
TimerExpires ==
    /\ Between /\ timer
    /\ Prompt => ready = <<>> /\ ~EventDue
    /\ timer' = FALSE
    /\ ready' = Append(ready, Entry("timer", "ok", 0))
    /\ UNCHANGED <<config, ops, outbox, wire, call, threads, counts, faults>>

\* run() returns when nothing is outstanding, or after io.stop() at the end of
\* the handler in progress.
IoExit ==
    /\ call = NoCall
    /\ \/ io = "stopping"
       \/ io = "running" /\ ~Outstanding
    /\ io' = "exited"
    /\ UNCHANGED <<config, ops, outbox, wire, timer, ready, call, main, counts, faults>>

-----------------------------------------------------------------------------
(* The network.                                                            *)

ConnectionSettles ==
    /\ sock = "connecting" /\ io # "crashed"
    /\ \/ sock' = "established" /\ UNCHANGED faults
       \/ sock' = "broken" /\ faults < MaxFaults /\ faults' = faults + 1
    /\ UNCHANGED <<config, connEp, nReads, writes, outbox, wire, timer, ready, call, threads, counts>>

PeerClosesOrResets ==
    /\ sock \in {"established", "eof"} /\ io # "crashed"
    /\ faults < MaxFaults /\ faults' = faults + 1
    /\ sock' \in {"eof", "broken"} \ {sock}
    /\ UNCHANGED <<config, connEp, nReads, writes, outbox, wire, timer, ready, call, threads, counts>>

-----------------------------------------------------------------------------
(* main of tcp_client2.cpp; restarting is what start() and stop() allow.   *)

MainStart ==
    /\ main = "init" /\ main' = "starting"
    /\ stopped' = FALSE /\ starts' = starts + 1
    /\ call' = Goto("do_connect")
    /\ UNCHANGED <<status, reconnectDelay, ops, outbox, wire, timer, ready, io, sends, faults>>

MainRun ==
    /\ main = "starting" /\ call = NoCall /\ io = "unstarted"
    /\ main' = "loop" /\ io' = "running"
    /\ UNCHANGED <<config, ops, outbox, wire, timer, ready, call, counts, faults>>

\* send(): a post, from any thread.
MainSend ==
    /\ main = "loop" /\ io # "crashed" /\ sends < MaxSends
    /\ sends' = sends + 1
    /\ ready' = Append(ready, Entry("send", "ok", sends + 1))
    /\ UNCHANGED <<config, ops, outbox, wire, timer, call, threads, starts, faults>>

\* stop(): first the store, then close(), which posts.  A start() that was
\* posted has run by then: main waits for what it asked for.
MainStopStore ==
    /\ main = "loop" /\ io # "crashed" /\ ~stopped
    /\ main' = "stopping" /\ stopped' = TRUE
    /\ UNCHANGED <<status, reconnectDelay, ops, outbox, wire, timer, ready, call, io, counts, faults>>

MainStopPost ==
    /\ main = "stopping" /\ io # "crashed"
    /\ main' = "stopped"
    /\ ready' = Append(ready, Entry("close", "ok", 0))
    /\ UNCHANGED <<config, ops, outbox, wire, timer, call, io, counts, faults>>

MainRestart ==
    /\ main = "stopped" /\ io # "crashed" /\ starts < MaxStarts
    /\ main' = "loop" /\ starts' = starts + 1
    /\ ready' = Append(ready, Entry("start", "ok", 0))
    /\ UNCHANGED <<config, ops, outbox, wire, timer, call, io, sends, faults>>

MainIoStop ==
    /\ main = "stopped" /\ io # "crashed"
    /\ main' = "joining"
    /\ io' = IF CallIoStop /\ io = "running" THEN "stopping" ELSE io
    /\ UNCHANGED <<config, ops, outbox, wire, timer, ready, call, counts, faults>>

MainJoin ==
    /\ main = "joining" /\ io = "exited"
    /\ main' = "done"
    /\ UNCHANGED <<config, ops, outbox, wire, timer, ready, call, io, counts, faults>>

-----------------------------------------------------------------------------
Client == \/ DoConnect \/ ConnectOp \/ OnConnect \/ ScheduleReconnect \/ OnTimer
          \/ DoRead \/ OnRead \/ OnSend \/ DoWrite \/ OnWrite \/ OnClose \/ OnStart

IoThread == CheckStopped \/ Client \/ Dequeue \/ PerformIo \/ IoExit

Main == \/ MainStart \/ MainRun \/ MainSend \/ MainStopStore \/ MainStopPost
        \/ MainRestart \/ MainIoStop \/ MainJoin

\* The process has ended; or main went on after the io thread was done.
Ended ==
    /\ \/ main = "done" \/ io = "crashed"
       \/ io = "exited" /\ main = "loop"
    /\ UNCHANGED vars

Next ==
    \/ IoThread \/ ReportDue \/ ReportPossible \/ TimerExpires
    \/ ConnectionSettles \/ PeerClosesOrResets
    \/ Main \/ Ended

\* The io thread keeps running what is queued, epoll reports what is due, the
\* timer expires, a connection attempt ends, and main gets past start(), stop()
\* and join().  Nothing makes the peer read or answer, or main send or stop.
Fairness ==
    /\ WF_vars(IoThread) /\ WF_vars(ReportDue) /\ WF_vars(TimerExpires)
    /\ WF_vars(ConnectionSettles)
    /\ WF_vars(MainStart) /\ WF_vars(MainRun)
    /\ WF_vars(MainStopPost) /\ WF_vars(MainIoStop) /\ WF_vars(MainJoin)

Spec == Init /\ [][Next]_vars /\ Fairness
-----------------------------------------------------------------------------
(* What the client promises.                                               *)

\* The queue entries and pieces of code that carry the reconnect loop on.
CarriesOn(x) ==
    \/ x.op \in {"connect_op", "connect", "read", "start",
                 "do_connect", "do_read", "schedule_reconnect"}
    \/ x.op = "timer" /\ x.ec = "ok"
Carried(q) == \E i \in 1..Len(q) : CarriesOn(q[i])
LoopAlive ==
    \/ connEp # 0 \/ nReads > 0 \/ timer
    \/ CarriesOn(call) \/ Carried(ready)

\* As long as the client has not been stopped, the reconnect loop never runs
\* dry: a connect, a read or the back-off wait is pending, queued or being
\* handled, on every path through do_connect, do_read and schedule_reconnect.
KeepsTrying == io \in {"unstarted", "running"} /\ ~stopped => LoopAlive

\* The loop never forks: it is carried on in one place.  Two loops would share
\* socket_, timer_ and read_buf_ and tear down each other's connections.
OneCarried(q) == \A i, j \in 1..Len(q) : CarriesOn(q[i]) /\ CarriesOn(q[j]) => i = j
OneLoop ==
    /\ nReads <= 1 /\ OneCarried(ready)
    /\ Carried(ready) => connEp = 0 /\ nReads = 0 /\ ~timer /\ ~CarriesOn(call)
    /\ CarriesOn(call) => connEp = 0 /\ nReads = 0 /\ ~timer
    /\ timer => connEp = 0 /\ nReads = 0
    /\ nReads > 0 => connEp = 0

\* No async_write is started while another is in progress: at most one write
\* is about to start, pending, or complete and not yet handled.
NoWrite(q) == \A i \in 1..Len(q) : q[i].op # "write"
AtMostOneWrite(q) ==
    \A i, j \in 1..Len(q) : q[i].op = "write" /\ q[j].op = "write" => i = j
InWrite == call.op \in {"write", "do_write"}
OneWrite ==
    /\ Len(writes) <= 1 /\ AtMostOneWrite(ready)
    /\ writes # <<>> => NoWrite(ready) /\ ~InWrite
    /\ InWrite => NoWrite(ready)

\* Once the function that close() posted has run, and until start() is called
\* again, the socket stays closed and nothing is pending on it, whatever
\* handler was running or queued while main executed stop().
StopIsFinal ==
    main \in {"stopped", "joining", "done"} /\ ~Queued("close") /\ call.op # "close"
      => sock = "closed" /\ connEp = 0 /\ nReads = 0 /\ writes = <<>>

\* get_status() says Connected only while socket_ holds a connection that was
\* established (the peer may have closed it since), with the back-off reset.
ConnectedTruthful ==
    status = "Connected" => sock \in {"established", "eof", "broken"} /\ reconnectDelay = 1

\* Messages reach the connection in the order send() accepted them, each at
\* most once (the deque write_msgs_, popped only when a write succeeded).
Messages == 1..MaxSends
Delivery == INSTANCE Outbox WITH
    Messages <- Messages, accepted <- accepted, wire <- wire
OutboxSpec == Delivery!Spec

\* Once the network has stopped failing, the client ends up connected for good,
\* unless it is stopped.
Recovers == <>[](stopped \/ (sock = "established" /\ status = "Connected"))

\* After stop(), even without io.stop(), the io thread runs out of work and
\* join() returns: no handler re-arms anything once stopped_ is set.
StopDrains == main = "joining" ~> main = "done"
=============================================================================
