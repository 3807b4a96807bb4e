------------------------- MODULE SerialPortSession -------------------------
(***************************************************************************)
(* SerialPortSession (serial_port_session.h, .cpp): a serial port with an  *)
(* io thread of its own.  The owner calls start(), stop() and lets go of   *)
(* its shared_ptr; other threads, and the callbacks on the io thread, call *)
(* send().                                                                 *)
(*                                                                         *)
(* All handlers go through strand_.  A function posted to the strand waits *)
(* in strandReady or strandWaiting; while the strand is locked exactly one *)
(* invoker is queued in io_ (`ready') or running (`inStrand').  stop()     *)
(* waits for a promise that the posted close function fulfils, then stops  *)
(* io_ and joins the thread.  The session lives as long as a thread, a     *)
(* pending operation or a queued function holds a reference to it.         *)
(***************************************************************************)
EXTENDS Integers, Sequences, FiniteSets

CONSTANTS
    Senders,         \* threads that call send()
    MaxSends,        \* bound: messages posted
    Parts,           \* pieces a message may be written in
    MaxReads,        \* bound: pieces of data that arrive
    MaxStarts,       \* bound: calls of start()
    MayRestart,      \* does the owner call start() again after stop()?
    MayFail,         \* may opening the port fail, and the line?
    Echo,            \* may the callbacks call send()?
    CallbackStops,   \* may the callbacks call stop()?
    MayForgetStop    \* may the owner let go of the session without stop()?

ASSUME SerialBounds ==
    /\ MaxSends \in Nat /\ MaxReads \in Nat
    /\ MaxStarts \in Nat \ {0} /\ Parts \in Nat \ {0}
ASSUME SerialSwitches ==
    {MayRestart, MayFail, Echo, CallbackStops, MayForgetStop} \subseteq BOOLEAN

VARIABLES
    running,        \* running_
    open,           \* is serial_ open?
    lost,           \* has the device gone?
    reads,          \* pending async_read_some operations
    writes,         \* pending async_write_some operations: their messages
    done,           \* history: pieces of each message that were written
    begun,          \* history: messages whose async_write was started
    ready,          \* the queue of io_
    locked, strandReady, strandWaiting,  \* strand_
    inStrand,       \* is the io thread running the strand's functions?
    call,           \* the function it is in
    ioStopped,      \* has io_.stop() been called?  (nothing calls restart())
    io,             \* the io thread
    closed,         \* has the promise of stop() been fulfilled?
    owner, sender,  \* where the threads are
    life,           \* of the session object
    sends, data, starts  \* counters held below their bounds

port    == <<open, reads, writes>>
strand  == <<locked, strandReady, strandWaiting>>
history == <<done, begun>>
thread  == <<inStrand, call>>
loop    == <<ioStopped, io, closed>>
clients == <<owner, sender>>
counts  == <<sends, data, starts>>
vars == <<running, port, lost, history, ready, strand, thread, loop, clients, life, counts>>

Kinds == {"invoker", "io", "read", "write", "send", "close"}
Entry(op, ec, msg) == [op |-> op, ec |-> ec, msg |-> msg]
Entries == [op : Kinds, ec : {"ok", "error", "aborted"}, msg : Nat]
Calls == [op : Kinds \cup {"none", "start_read", "stop_wait"},
          ec : {"ok", "error", "aborted"}, msg : Nat]
NoCall == Entry("none", "ok", 0)
Invoker == Entry("invoker", "ok", 0)
Queued(op) == \E i \in 1..Len(ready) : ready[i].op = op

TypeOK ==
    /\ running \in BOOLEAN /\ open \in BOOLEAN /\ lost \in BOOLEAN
    /\ reads \in 0..1 /\ writes \in Seq(1..MaxSends)
    /\ done \in [1..MaxSends -> 0..Parts] /\ begun \in Seq(1..MaxSends)
    /\ ready \in Seq(Entries)
    /\ locked \in BOOLEAN /\ strandReady \in Seq(Entries) /\ strandWaiting \in Seq(Entries)
    /\ inStrand \in BOOLEAN /\ call \in Calls
    /\ ioStopped \in BOOLEAN /\ io \in {"none", "running", "exited"} /\ closed \in BOOLEAN
    /\ owner \in {"fresh", "spawn", "mark", "up", "post", "wait", "join", "down", "gone"}
    /\ sender \in [Senders -> {"idle", "checked", "gone"}]
    /\ life \in {"alive", "destroyed", "crashed"}
    /\ sends \in 0..MaxSends /\ data \in 0..MaxReads /\ starts \in 0..MaxStarts

Init ==
    /\ running = FALSE /\ open = FALSE /\ lost = FALSE
    /\ reads = 0 /\ writes = <<>>
    /\ done = [m \in 1..MaxSends |-> 0] /\ begun = <<>>
    /\ ready = <<>> /\ locked = FALSE /\ strandReady = <<>> /\ strandWaiting = <<>>
    /\ inStrand = FALSE /\ call = NoCall
    /\ ioStopped = FALSE /\ io = "none" /\ closed = FALSE
    /\ owner = "fresh" /\ sender = [t \in Senders |-> "idle"]
    /\ life = "alive"
    /\ sends = 0 /\ data = 0 /\ starts = 0

-----------------------------------------------------------------------------
(* The strand (strand_executor_service).                                   *)

\* Operators named Bad... are wrong variants of the definition that follows
\* them; the checks substitute them to see that a property notices.

\* asio::post(strand_, f): the one that locks the strand queues the invoker.
Post(f) ==
    /\ locked' = TRUE
    /\ IF locked
       THEN strandWaiting' = Append(strandWaiting, f) /\ UNCHANGED <<strandReady, ready>>
       ELSE /\ strandReady' = Append(strandReady, f) /\ ready' = Append(ready, Invoker)
            /\ UNCHANGED strandWaiting

\* A completion that the io thread has taken from its queue, q being the rest
\* of it: run at once in a strand nobody holds, else appended to the strand.
Dispatch(f, q) ==
    /\ locked' = TRUE /\ ready' = q /\ UNCHANGED call
    /\ IF locked
       THEN strandWaiting' = Append(strandWaiting, f) /\ UNCHANGED <<strandReady, inStrand>>
       ELSE /\ strandReady' = Append(strandReady, f) /\ inStrand' = TRUE
            /\ UNCHANGED strandWaiting

Between == io = "running" /\ call = NoCall /\ ~inStrand /\ ~ioStopped

RunInvoker ==
    /\ Between /\ ready # <<>> /\ Head(ready).op = "invoker"
    /\ inStrand' = TRUE /\ ready' = Tail(ready)
    /\ UNCHANGED <<running, port, lost, history, strand, call, loop, clients, life, counts>>

RunNext ==
    /\ inStrand /\ call = NoCall /\ strandReady # <<>>
    /\ call' = Head(strandReady) /\ strandReady' = Tail(strandReady)
    /\ UNCHANGED <<running, port, lost, history, ready, locked, strandWaiting, inStrand,
                   loop, clients, life, counts>>

\* on_invoker_exit: what waited meanwhile becomes ready, for a new invoker.
InvokerExit ==
    /\ inStrand /\ call = NoCall /\ strandReady = <<>>
    /\ inStrand' = FALSE
    /\ strandReady' = strandWaiting /\ strandWaiting' = <<>>
    /\ locked' = (strandWaiting # <<>>)
    /\ ready' = IF strandWaiting # <<>> THEN Append(ready, Invoker) ELSE ready
    /\ UNCHANGED <<running, port, lost, history, call, loop, clients, life, counts>>

-----------------------------------------------------------------------------
(* The port: operations are tried at once or wait for the descriptor.      *)

\* A read that starts, q being the queue so far.
BeginRead(q) ==
    \/ ~open /\ ready' = Append(q, Entry("read", "error", 0)) /\ UNCHANGED <<reads, data>>
    \/ /\ open /\ lost
       /\ ready' = Append(q, Entry("read", "error", 0)) /\ UNCHANGED <<reads, data>>
    \/ /\ open /\ ~lost /\ data < MaxReads /\ data' = data + 1
       /\ ready' = Append(q, Entry("read", "ok", 0)) /\ UNCHANGED reads
    \/ open /\ ~lost /\ reads' = reads + 1 /\ ready' = q /\ UNCHANGED data

\* The next async_write_some of async_write; it is not tried while another
\* write is pending.
BeginWrite(m) ==
    \/ /\ ~open \/ (lost /\ writes = <<>>)
       /\ ready' = Append(ready, Entry("write", "error", m)) /\ UNCHANGED <<writes, done>>
    \/ /\ open /\ ~lost /\ writes = <<>>
       /\ \E d \in done[m] + 1 .. Parts : done' = [done EXCEPT ![m] = d]
       /\ ready' = Append(ready, Entry("write", "ok", m)) /\ UNCHANGED writes
    \/ /\ open /\ (lost => writes # <<>>)
       /\ writes' = Append(writes, m) /\ UNCHANGED <<ready, done>>

Completions(nw, nr, ec) ==
    [i \in 1..nw |-> Entry("write", ec, writes[i])] \o [i \in 1..nr |-> Entry("read", ec, 0)]

TakeCompletion ==
    /\ Between /\ ready # <<>> /\ Head(ready).op \in {"read", "write"}
    /\ Dispatch(Head(ready), Tail(ready))
    /\ UNCHANGED <<running, port, lost, history, loop, clients, life, counts>>

\* The descriptor's entry performs the first nw writes, then the read (nr = 1);
\* the first completion runs at once, the others are queued.
PerformIo ==
    /\ Between /\ ready # <<>> /\ Head(ready).op = "io"
    /\ \E nw \in 0..Len(writes), nr \in 0..reads :
         LET Complete == Completions(nw, nr, IF lost THEN "error" ELSE "ok") IN
         /\ lost => nw = Len(writes) /\ nr = reads
         /\ data' = data + (IF lost THEN 0 ELSE nr) /\ data' <= MaxReads
         /\ reads' = reads - nr
         /\ writes' = SubSeq(writes, nw + 1, Len(writes))
         /\ done' \in [1..MaxSends -> 0..Parts]
         /\ \A m \in 1..MaxSends :
              IF ~lost /\ \E i \in 1..nw : writes[i] = m
              THEN done'[m] > done[m] ELSE done'[m] = done[m]
         /\ IF Complete = <<>>
            THEN ready' = Tail(ready) /\ UNCHANGED <<strand, thread>>
            ELSE Dispatch(Head(Complete), Tail(ready) \o Tail(Complete))
    /\ UNCHANGED <<running, open, lost, begun, loop, clients, life, sends, starts>>

\* epoll_wait reports the descriptor; an error is reported for certain.
Report ==
    /\ Between /\ ~Queued("io") /\ (reads > 0 \/ writes # <<>>)
    /\ ready' = Append(ready, Entry("io", "ok", 0))
    /\ UNCHANGED <<running, port, lost, history, strand, thread, loop, clients, life, counts>>
ReportError == lost /\ Report
ReportReady == ~lost /\ Report

\* The device is unplugged.
LineFails ==
    /\ MayFail /\ open /\ ~lost
    /\ lost' = TRUE
    /\ UNCHANGED <<running, port, history, ready, strand, thread, loop, clients, life, counts>>

-----------------------------------------------------------------------------
(* The functions the io thread runs in the strand.                         *)

Step(op) == io = "running" /\ call.op = op

\* The function send() posts: the first piece of its own async_write.
OnSend ==
    /\ Step("send") /\ call' = NoCall
    /\ IF open
       THEN BeginWrite(call.msg) /\ begun' = Append(begun, call.msg)
       ELSE UNCHANGED <<writes, done, ready, begun>>
    /\ UNCHANGED <<running, open, reads, lost, strand, inStrand, loop, clients, life, counts>>

BadCallbackSends ==
    /\ Echo /\ running /\ sends < MaxSends
    /\ sends' = sends + 1 /\ strandReady' = <<Entry("send", "ok", sends + 1)>> \o strandReady
    /\ UNCHANGED <<running, ready, locked, strandWaiting>>

\* A callback sends: the read of running_ and the post are one step here; the
\* threads in Senders show what may happen between the two.
CallbackSends ==
    /\ Echo /\ running /\ sends < MaxSends
    /\ sends' = sends + 1 /\ Post(Entry("send", "ok", sends + 1))
    /\ UNCHANGED running

\* A callback calls stop(): it waits for a function that only the thread it
\* waits on can run, so nothing follows the wait.
CallbackStop ==
    /\ CallbackStops /\ running
    /\ running' = FALSE /\ Post(Entry("close", "ok", 0))
    /\ call' = [NoCall EXCEPT !.op = "stop_wait"] /\ UNCHANGED sends

\* A handler on the io thread calls the receive or the error callback, which may
\* send or stop; the handler goes on to "next" if the callback returns.
Callback(next) ==
    \/ CallbackStop
    \/ /\ call' = [NoCall EXCEPT !.op = next]
       /\ CallbackSends \/ UNCHANGED <<running, sends, strand, ready>>

BadOnWrite ==
    /\ Step("write")
    /\ \/ /\ call.ec = "error" /\ Callback("none")
       \/ /\ call.ec # "error" /\ call' = NoCall /\ UNCHANGED <<running, sends, strand, ready>>
    /\ UNCHANGED <<port, lost, history, inStrand, loop, clients, life, data, starts>>

\* async_write goes on until all of the message is written or a piece fails; then
\* its handler reports an error to the error callback, but not an abort.
OnWrite ==
    /\ Step("write")
    /\ \/ /\ call.ec = "ok" /\ done[call.msg] < Parts
          /\ call' = NoCall /\ BeginWrite(call.msg) /\ UNCHANGED <<running, sends, strand>>
       \/ /\ call.ec = "error"
          /\ Callback("none") /\ UNCHANGED <<writes, done>>
       \/ /\ call.ec = "aborted" \/ (call.ec = "ok" /\ done[call.msg] = Parts)
          /\ call' = NoCall /\ UNCHANGED <<running, sends, strand, ready, writes, done>>
    /\ UNCHANGED <<open, reads, lost, begun, inStrand, loop, clients, life, data, starts>>

\* The handler of async_read_some: the receive callback, then the next read; any
\* error ends the chain of reads, and only an abort is not reported.
OnRead ==
    /\ Step("read")
    /\ \/ call.ec = "ok" /\ Callback("start_read")
       \/ call.ec = "error" /\ Callback("none")
       \/ /\ call.ec = "aborted" /\ call' = NoCall
          /\ UNCHANGED <<running, sends, strand, ready>>
    /\ UNCHANGED <<port, lost, history, inStrand, loop, clients, life, data, starts>>

StartRead ==
    /\ Step("start_read") /\ call' = NoCall
    /\ BeginRead(ready)
    /\ UNCHANGED <<running, open, writes, lost, history, strand, inStrand, loop, clients,
                   life, sends, starts>>

\* The function stop() posts: cancel, close, fulfil the promise.
OnClose ==
    /\ Step("close") /\ call' = NoCall /\ closed' = TRUE
    /\ open' = FALSE /\ reads' = 0 /\ writes' = <<>>
    /\ ready' = ready \o [i \in 1..reads |-> Entry("read", "aborted", 0)]
                      \o [i \in 1..Len(writes) |-> Entry("write", "aborted", writes[i])]
    /\ UNCHANGED <<running, lost, history, strand, inStrand, ioStopped, io, clients, life, counts>>

BadIoExit ==
    /\ io = "running" /\ call = NoCall /\ ~inStrand
    /\ ioStopped \/ (ready = <<>> /\ reads = 0 /\ writes = <<>>)
    /\ io' = "exited"
    /\ UNCHANGED <<running, port, lost, history, ready, strand, thread, ioStopped, closed,
                   clients, life, counts>>

\* work_guard_ keeps run() from returning for want of work.
IoExit ==
    /\ io = "running" /\ call = NoCall /\ ~inStrand /\ ioStopped
    /\ io' = "exited"
    /\ UNCHANGED <<running, port, lost, history, ready, strand, thread, ioStopped, closed,
                   clients, life, counts>>

-----------------------------------------------------------------------------
(* The owner: start(), stop(), and the end of its shared_ptr.              *)

\* start() finds running_ false and opens the port.  open() fails if the port
\* is open already, if serial_.open() fails, or if an option is refused, which
\* leaves it open; else the first read starts.
Open ==
    /\ owner = "fresh" \/ (MayRestart /\ owner = "down")
    /\ ~running /\ starts < MaxStarts /\ starts' = starts + 1
    /\ \/ /\ open \/ MayFail
          /\ UNCHANGED <<owner, port, ready, data, lost>>
       \/ /\ MayFail /\ ~open /\ open' = TRUE
          /\ lost' = FALSE
          /\ UNCHANGED <<owner, reads, writes, ready, data>>
       \/ /\ ~open /\ open' = TRUE /\ lost' = FALSE /\ owner' = "spawn"
          /\ \/ reads' = reads + 1 /\ UNCHANGED <<ready, data>>
             \/ /\ data < MaxReads /\ data' = data + 1
                /\ ready' = Append(ready, Entry("read", "ok", 0)) /\ UNCHANGED reads
          /\ UNCHANGED writes
    /\ UNCHANGED <<running, history, strand, thread, loop, sender, life, sends>>

\* std::thread: a second one replaces the first, which has been joined.
SpawnThread ==
    /\ owner = "spawn" /\ owner' = "mark"
    /\ io' = "running"
    /\ UNCHANGED <<running, port, lost, history, ready, strand, thread, ioStopped, closed,
                   sender, life, counts>>

BadMarkRunning ==
    /\ owner = "mark" /\ owner' = "up"
    /\ running' = TRUE /\ reads' = reads + 1
    /\ UNCHANGED <<open, writes, lost, history, ready, strand, thread, loop, sender, life, counts>>

MarkRunning ==
    /\ owner = "mark" /\ owner' = "up"
    /\ running' = TRUE
    /\ UNCHANGED <<port, lost, history, ready, strand, thread, loop, sender, life, counts>>

\* stop() reads running_ ...
StopCheck ==
    /\ owner = "up"
    /\ owner' = IF running THEN "post" ELSE "down"
    /\ UNCHANGED <<running, port, lost, history, ready, strand, thread, loop, sender, life, counts>>

\* ... clears it and posts the close, with a new promise ...
StopPost ==
    /\ owner = "post" /\ owner' = "wait"
    /\ running' = FALSE /\ closed' = FALSE
    /\ Post(Entry("close", "ok", 0))
    /\ UNCHANGED <<port, lost, history, thread, ioStopped, io, sender, life, counts>>

BadStopWait ==
    /\ owner = "wait" /\ owner' = "join"
    /\ ioStopped' = TRUE
    /\ UNCHANGED <<running, port, lost, history, ready, strand, thread, io, closed, sender, life, counts>>

BadStopWaitOnly ==
    /\ owner = "wait" /\ closed /\ owner' = "join"
    /\ UNCHANGED <<running, port, lost, history, ready, strand, thread, loop, sender, life, counts>>

\* ... waits for it, stops io_ ...
StopWait ==
    /\ owner = "wait" /\ closed /\ owner' = "join"
    /\ ioStopped' = TRUE
    /\ UNCHANGED <<running, port, lost, history, ready, strand, thread, io, closed, sender, life, counts>>

BadStopJoin ==
    /\ owner = "join" /\ owner' = "down"
    /\ UNCHANGED <<running, port, lost, history, ready, strand, thread, loop, sender, life, counts>>

\* ... and joins the thread.
StopJoin ==
    /\ owner = "join" /\ io = "exited" /\ owner' = "down"
    /\ UNCHANGED <<running, port, lost, history, ready, strand, thread, loop, sender, life, counts>>

OwnerLetsGo ==
    /\ owner = "down" \/ (owner = "fresh" /\ starts > 0) \/ (MayForgetStop /\ owner = "up")
    /\ owner' = "gone"
    /\ UNCHANGED <<running, port, lost, history, ready, strand, thread, loop, sender, life, counts>>

-----------------------------------------------------------------------------
(* The threads that send.                                                  *)

\* send() finds running_ set; else it reports an error and returns.
SendCheck(t) ==
    /\ sender[t] = "idle" /\ running /\ sends < MaxSends
    /\ sender' = [sender EXCEPT ![t] = "checked"]
    /\ UNCHANGED <<running, port, lost, history, ready, strand, thread, loop, owner, life, counts>>

SendPost(t) ==
    /\ sender[t] = "checked"
    /\ IF sends < MaxSends
       THEN sends' = sends + 1 /\ Post(Entry("send", "ok", sends + 1))
       ELSE UNCHANGED <<sends, ready, strand>>
    /\ sender' = [sender EXCEPT ![t] = "idle"]
    /\ UNCHANGED <<running, port, lost, history, thread, loop, owner, life, data, starts>>

SenderLetsGo(t) ==
    /\ sender[t] = "idle"
    /\ sender' = [sender EXCEPT ![t] = "gone"]
    /\ UNCHANGED <<running, port, lost, history, ready, strand, thread, loop, owner, life, counts>>

-----------------------------------------------------------------------------
(* The session object.                                                     *)

\* Does anyone hold a reference?  The invoker and the descriptor's entry do not.
Held ==
    \/ owner # "gone" \/ \E t \in Senders : sender[t] # "gone"
    \/ reads > 0 \/ writes # <<>> \/ call # NoCall
    \/ strandReady # <<>> \/ strandWaiting # <<>>
    \/ \E i \in 1..Len(ready) : ready[i].op \in {"read", "write"}

\* ~SerialPortSession calls stop(), whose shared_from_this() throws if it gets
\* that far: no owner is left.  The members are destroyed after it.
Destructor ==
    /\ ~Held
    /\ life' = IF running THEN "crashed" ELSE "destroyed"
    /\ open' = FALSE
    /\ UNCHANGED <<running, reads, writes, lost, history, ready, strand, thread, loop, clients, counts>>

Handlers == OnSend \/ OnWrite \/ OnRead \/ StartRead \/ OnClose
IoThread == RunInvoker \/ RunNext \/ InvokerExit \/ TakeCompletion \/ PerformIo \/ Handlers \/ IoExit
OwnerStops == StopPost \/ StopWait \/ StopJoin
Owner == Open \/ SpawnThread \/ MarkRunning \/ StopCheck \/ OwnerStops \/ OwnerLetsGo
Sender(t) == SendCheck(t) \/ SendPost(t) \/ SenderLetsGo(t)

\* Nothing is left to happen.
Ended ==
    /\ owner = "gone" /\ \A t \in Senders : sender[t] = "gone"
    /\ UNCHANGED vars

Next ==
    \/ life = "alive" /\ \/ IoThread \/ ReportError \/ ReportReady \/ LineFails
                         \/ Owner \/ (\E t \in Senders : Sender(t))
                         \/ Destructor
    \/ Ended

\* The io thread runs what is queued, epoll reports an error, stop() and start()
\* go on once called, and an object nobody holds is destroyed at once.
Fairness ==
    /\ WF_vars(life = "alive" /\ IoThread) /\ WF_vars(life = "alive" /\ ReportError)
    /\ WF_vars(life = "alive" /\ (SpawnThread \/ MarkRunning))
    /\ WF_vars(life = "alive" /\ OwnerStops)
    /\ WF_vars(life = "alive" /\ Destructor)

Spec == Init /\ [][Next]_vars /\ Fairness
-----------------------------------------------------------------------------
(* What the session promises.                                              *)

\* Writes begin in the order in which send() accepted their messages, whoever
\* called it.
BegunInOrder == \A i \in 1..Len(begun) : begun[i] = i

\* What the session has in hand: the function it runs, all that is queued, and the
\* writes pending at the port.  A message is carried on by the function that
\* send() posted, by a pending write or by the completion of a piece of it.
InHand == <<call>> \o ready \o strandReady \o strandWaiting \o Completions(Len(writes), 0, "ok")
Carries(e, m) == e.msg = m /\ (e.op = "send" \/ (e.op = "write" /\ e.ec = "ok"))
Hands(m) == {i \in 1..Len(InHand) : Carries(InHand[i], m)}

\* A message that send() accepted is never in two hands, which would both write
\* its next piece; and on a port that works it is in one until all of it has been
\* written: no step of the strand and no partial write loses it.
EachInOneHand ==
    \A m \in 1..sends : /\ \A i, j \in Hands(m) : i = j
                        /\ open /\ ~lost => done[m] = Parts \/ Hands(m) # {}

\* Between the first and the last piece of a message no other message is being
\* written, so the pieces of two messages never mix on the line.  async_write
\* demands it of its callers; send() does not see to it (run serial_mixed_writes).
Writing(m) ==
    done[m] < Parts /\ \E i \in 1..Len(InHand) : InHand[i].op = "write" /\ InHand[i].msg = m
WritesDoNotOverlap == \A m, n \in 1..sends : Writing(m) /\ Writing(n) => m = n

\* As long as running_ says so the io thread runs handlers: send() never posts
\* to an io_context that nobody runs.
Serving == running => io = "running"

\* When stop() has returned, the port is closed, the thread has ended and no
\* callback is running.
Quiet == owner = "down" => ~open /\ io = "exited" /\ call = NoCall /\ reads = 0 /\ writes = <<>>

\* The session is not destroyed while its thread still runs io_.
NoUseAfterFree == life = "destroyed" => io # "running"

\* A call of stop() returns.
StopReturns == owner = "post" ~> owner = "down"
=============================================================================
