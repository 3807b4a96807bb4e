---------------------- MODULE SerialPortSessionProofs ----------------------
(***************************************************************************)
(* Theorems about SerialPortSession, for every value of its constants.     *)
(***************************************************************************)
EXTENDS SerialPortSession, SequenceTheorems, TLAPS

-----------------------------------------------------------------------------
(* The handlers of read and write, by what they do.                        *)

\* A write goes on, or ends with nothing to report.
WriteOn ==
    /\ Step("write") /\ call' = NoCall
    /\ IF call.ec = "ok" /\ done[call.msg] < Parts
       THEN BeginWrite(call.msg)
       ELSE UNCHANGED <<writes, done, ready>>
    /\ UNCHANGED <<running, open, reads, lost, begun, strand, inStrand, loop, clients, life, counts>>

\* A read, or a write that failed, calls a callback (an aborted read calls none).
CallsBack ==
    /\ Step("read") \/ (Step("write") /\ call.ec = "error")
    /\ \/ CallbackStop
       \/ /\ CallbackSends \/ UNCHANGED <<running, sends, strand, ready>>
          /\ \/ call' = NoCall
             \/ /\ call' = [NoCall EXCEPT !.op = "start_read"]
                /\ call.op = "read" /\ call.ec = "ok"
    /\ UNCHANGED <<port, lost, history, inStrand, loop, clients, life, data, starts>>

LEMMA HandlerCases == Handlers => OnSend \/ WriteOn \/ CallsBack \/ StartRead \/ OnClose
<1>1. [NoCall EXCEPT !.op = "none"] = NoCall
  BY DEF NoCall, Entry
<1>2. OnWrite => WriteOn \/ CallsBack
  <2>1. CASE OnWrite /\ call.ec # "error"
    BY <2>1, SerialBounds DEF OnWrite, WriteOn, counts
  <2>2. CASE OnWrite /\ call.ec = "error"
    BY <1>1, <2>2 DEF OnWrite, CallsBack, Callback, port, history
  <2>3. QED BY <2>1, <2>2
<1>3. OnRead => CallsBack
  BY <1>1 DEF OnRead, CallsBack, Callback, Step
<1>4. QED BY <1>2, <1>3 DEF Handlers

-----------------------------------------------------------------------------
(* The session outlives its thread.                                        *)

\* A callback is in stop(), waiting for what only its own thread can run.
Stuck == call.op = "stop_wait"

\* NoUseAfterFree with what it takes: nobody is the owner of a session whose
\* thread runs, unless running_ is set (then the destructor does not destroy)
\* or a callback of it never returns (then it is held for ever).
ThreadOwned ==
    /\ owner = "fresh" => io # "running"
    /\ owner = "up"    => running \/ Stuck
    /\ owner = "down"  => io # "running" \/ Stuck
    /\ owner = "gone"  => io # "running" \/ Stuck \/ running
    /\ NoUseAfterFree

LEMMA ThreadOwnedNext == ThreadOwned /\ [Next]_vars => ThreadOwned'
<1> SUFFICES ASSUME ThreadOwned, [Next]_vars PROVE ThreadOwned'
  OBVIOUS
<1> USE DEF ThreadOwned, Stuck, NoUseAfterFree
<1>1. CASE life = "alive" /\ RunInvoker
  BY <1>1 DEF RunInvoker, loop, clients
<1>2. CASE life = "alive" /\ RunNext
  BY <1>2 DEF RunNext, loop, clients, NoCall, Entry
<1>3. CASE life = "alive" /\ InvokerExit
  BY <1>3 DEF InvokerExit, loop, clients
<1>4. CASE life = "alive" /\ TakeCompletion
  BY <1>4 DEF TakeCompletion, Dispatch, loop, clients
<1>5. CASE life = "alive" /\ PerformIo
  <2>1. UNCHANGED <<running, io, owner, life, call>>
    BY <1>5 DEF PerformIo, Dispatch, loop, clients, thread
  <2>2. QED BY <1>5, <2>1
<1>6. CASE life = "alive" /\ (OnSend \/ WriteOn \/ StartRead \/ OnClose)
  <2>1. ~Stuck /\ UNCHANGED <<running, io, owner, life>>
    BY <1>6 DEF OnSend, WriteOn, StartRead, OnClose, Step, loop, clients
  <2>2. QED BY <1>6, <2>1
<1>7. CASE life = "alive" /\ CallsBack
  <2>1. ~Stuck /\ UNCHANGED <<io, owner, life>>
    BY <1>7 DEF CallsBack, Step, loop, clients
  <2>2. Stuck' \/ running' = running
    BY <1>7 DEF CallsBack, CallbackStop, CallbackSends, NoCall, Entry
  <2>3. QED BY <1>7, <2>1, <2>2
<1>8. CASE life = "alive" /\ IoExit
  BY <1>8 DEF IoExit, clients, thread
<1>9. CASE life = "alive" /\ (ReportError \/ ReportReady \/ LineFails)
  BY <1>9 DEF ReportError, ReportReady, Report, LineFails, loop, clients, thread
<1>10. CASE life = "alive" /\ Open
  <2>1. owner' \in {owner, "spawn"} /\ UNCHANGED <<running, io, call, life>>
    BY <1>10 DEF Open, loop, thread
  <2>2. QED BY <1>10, <2>1
<1>11. CASE life = "alive" /\ (SpawnThread \/ MarkRunning \/ StopCheck)
  BY <1>11 DEF SpawnThread, MarkRunning, StopCheck, loop, thread
<1>12. CASE life = "alive" /\ OwnerStops
  BY <1>12 DEF OwnerStops, StopPost, StopWait, StopJoin, loop, thread
<1>13. CASE life = "alive" /\ OwnerLetsGo
  BY <1>13 DEF OwnerLetsGo, loop, thread
<1>14. CASE life = "alive" /\ \E t \in Senders : Sender(t)
  BY <1>14 DEF Sender, SendCheck, SendPost, SenderLetsGo, loop, thread
<1>15. CASE life = "alive" /\ Destructor
  <2>1. owner = "gone" /\ ~Stuck
    BY <1>15 DEF Destructor, Held, NoCall, Entry
  <2>2. QED BY <1>15, <2>1 DEF Destructor, loop, clients, thread
<1>16. CASE Ended \/ UNCHANGED vars
  BY <1>16 DEF Ended, vars, loop, clients, thread
<1>17. QED
  BY HandlerCases, <1>1, <1>2, <1>3, <1>4, <1>5, <1>6, <1>7, <1>8, <1>9, <1>10, <1>11, <1>12, <1>13, <1>14,
     <1>15, <1>16 DEF Next, IoThread, Owner

\* The destructor never destroys the members while the io thread runs on them,
\* however start(), stop(), restarts, callbacks that stop, and the end of the
\* last reference interleave (the reference counting of stop() and the handlers).
THEOREM ThreadOutlived == Spec => []NoUseAfterFree
<1>1. Init => ThreadOwned
  BY DEF Init, ThreadOwned, NoUseAfterFree
<1>2. ThreadOwned => NoUseAfterFree
  BY DEF ThreadOwned
<1>3. QED BY <1>1, <1>2, ThreadOwnedNext, PTL DEF Spec

-----------------------------------------------------------------------------
(* A session that is started once.                                         *)

\* Serving with what it takes: from the start of the thread until stop() has
\* stopped io_ the thread runs, and running_ is cleared before that.
ServingUntilStop ==
    /\ ioStopped => owner \in {"join", "down", "gone"}
    /\ owner \in {"mark", "up", "post", "wait"} => io = "running"
    /\ owner \in {"wait", "join", "down"} => ~running
    /\ running => ~ioStopped
    /\ Serving

\* Steps that leave the threads, running_ and the promise as they are.
WorkSteps ==
    \/ RunInvoker \/ RunNext \/ InvokerExit \/ TakeCompletion \/ PerformIo
    \/ OnSend \/ WriteOn \/ StartRead \/ ReportError \/ ReportReady \/ LineFails
    \/ \E t \in Senders : Sender(t)

LEMMA WorkStepsLemma ==
    WorkSteps => UNCHANGED <<running, ioStopped, io, closed, owner>>
  BY DEF WorkSteps, RunInvoker, RunNext, InvokerExit, TakeCompletion, PerformIo, OnSend, WriteOn,
         StartRead, ReportError, ReportReady, Report, LineFails, Sender, SendCheck, SendPost,
         SenderLetsGo, loop, clients

LEMMA ServingNext == ~MayRestart /\ ServingUntilStop /\ [Next]_vars => ServingUntilStop'
<1> SUFFICES ASSUME ~MayRestart, ServingUntilStop, [Next]_vars PROVE ServingUntilStop'
  OBVIOUS
<1> USE DEF ServingUntilStop, Serving
<1>1. CASE WorkSteps
  BY <1>1, WorkStepsLemma
<1>2. CASE CallsBack
  <2>1. UNCHANGED <<ioStopped, io, owner>>
    BY <1>2 DEF CallsBack, loop, clients
  <2>2. running' => running
    BY <1>2 DEF CallsBack, CallbackStop, CallbackSends
  <2>3. QED BY <2>1, <2>2
<1>3. CASE OnClose \/ Destructor
  BY <1>3 DEF OnClose, Destructor, loop, clients
<1>4. CASE IoExit
  BY <1>4 DEF IoExit, clients
<1>5. CASE Open
  <2>1. owner = "fresh" /\ owner' \in {"fresh", "spawn"} /\ UNCHANGED <<running, ioStopped, io>>
    BY <1>5 DEF Open, loop
  <2>2. QED BY <2>1
<1>6. CASE SpawnThread \/ MarkRunning \/ StopCheck
  BY <1>6 DEF SpawnThread, MarkRunning, StopCheck, loop
<1>7. CASE OwnerStops
  BY <1>7 DEF OwnerStops, StopPost, StopWait, StopJoin, loop
<1>8. CASE OwnerLetsGo
  BY <1>8 DEF OwnerLetsGo, loop
<1>9. CASE Ended \/ UNCHANGED vars
  BY <1>9 DEF Ended, vars, loop, clients
<1>10. QED
  BY HandlerCases, <1>1, <1>2, <1>3, <1>4, <1>5, <1>6, <1>7, <1>8, <1>9
     DEF Next, IoThread, Owner, WorkSteps

\* Without a restart, running_ is only ever set while the io thread runs: a
\* send() that finds it set posts to a thread that is there (start() spawns the
\* thread first, stop() clears running_ before it stops io_).
THEOREM ServesWhileRunning == ~MayRestart => (Spec => []Serving)
<1> SUFFICES ASSUME ~MayRestart PROVE Spec => []Serving
  OBVIOUS
<1>1. Init => ServingUntilStop
  BY DEF Init, ServingUntilStop, Serving
<1>2. ServingUntilStop /\ [Next]_vars => ServingUntilStop'
  BY ServingNext
<1>3. ServingUntilStop => Serving
  BY DEF ServingUntilStop
<1>4. QED BY <1>1, <1>2, <1>3, PTL DEF Spec

-----------------------------------------------------------------------------
(* What stop() leaves behind.                                              *)

Shut == ~open /\ reads = 0 /\ writes = <<>>

\* Quiet with what it takes: the promise is fulfilled only by a function that
\* has shut the port, stop() gets past it only then, and nothing opens a port
\* or starts an operation on a closed one afterwards.
ShutByStop ==
    /\ owner \in {"fresh", "spawn"} => io = "none" /\ ~closed
    /\ owner = "up" => running
    /\ closed => Shut
    /\ owner \in {"join", "down"} => closed
    /\ io = "exited" => call = NoCall /\ ~inStrand
    /\ owner = "down" => io = "exited"

\* A port that is shut is left shut by every step of its handlers.
LEMMA ShutStays ==
    ASSUME Shut, WorkSteps \/ CallsBack \/ OnClose
    PROVE  Shut'
<1> USE DEF Shut
<1>1. CASE PerformIo
  <2>1. PICK nw \in 0..Len(writes), nr \in 0..reads :
          reads' = reads - nr /\ writes' = SubSeq(writes, nw + 1, Len(writes))
    BY <1>1 DEF PerformIo
  <2>2. nw = 0 /\ nr = 0 /\ Len(writes) = 0
    BY <2>1
  <2>3. writes' = <<>> /\ reads' = 0
    BY <2>1, <2>2
  <2>4. QED BY <1>1, <2>3 DEF PerformIo
<1>2. CASE OnSend \/ WriteOn
  BY <1>2 DEF OnSend, WriteOn, BeginWrite
<1>3. CASE StartRead
  BY <1>3 DEF StartRead, BeginRead
<1>4. CASE OnClose
  BY <1>4 DEF OnClose
<1>5. CASE RunInvoker \/ RunNext \/ InvokerExit \/ TakeCompletion \/ CallsBack \/ LineFails
  BY <1>5 DEF RunInvoker, RunNext, InvokerExit, TakeCompletion, CallsBack, LineFails, port
<1>6. CASE ReportError \/ ReportReady
  BY <1>6 DEF ReportError, ReportReady, Report, port
<1>7. CASE \E t \in Senders : Sender(t)
  BY <1>7 DEF Sender, SendCheck, SendPost, SenderLetsGo, port
<1>8. QED
  BY <1>1, <1>2, <1>3, <1>4, <1>5, <1>6, <1>7 DEF WorkSteps

\* A thread that has left run() calls nothing any more.
LEMMA ExitedStays ==
    ASSUME io = "exited", call = NoCall, ~inStrand, WorkSteps \/ CallsBack \/ OnClose
    PROVE  call' = NoCall /\ ~inStrand'
<1>1. CASE RunInvoker \/ RunNext \/ InvokerExit \/ TakeCompletion \/ PerformIo
  BY <1>1 DEF RunInvoker, RunNext, InvokerExit, TakeCompletion, PerformIo, Between
<1> USE DEF NoCall, Entry
<1>2. CASE OnSend \/ WriteOn \/ StartRead \/ CallsBack \/ OnClose
  BY <1>2 DEF OnSend, WriteOn, StartRead, CallsBack, OnClose, Step
<1>3. CASE ReportError \/ ReportReady \/ LineFails \/ \E t \in Senders : Sender(t)
  BY <1>3 DEF ReportError, ReportReady, Report, LineFails, Sender, SendCheck, SendPost,
       SenderLetsGo, thread
<1>4. QED BY <1>1, <1>2, <1>3 DEF WorkSteps

LEMMA ShutNext ==
    ~MayRestart /\ ~CallbackStops /\ ShutByStop /\ [Next]_vars => ShutByStop'
<1> SUFFICES ASSUME ~MayRestart, ~CallbackStops, ShutByStop, [Next]_vars PROVE ShutByStop'
  OBVIOUS
<1> USE DEF ShutByStop
<1>1. CASE WorkSteps
  <2>1. UNCHANGED <<running, io, closed, owner>>
    BY <1>1, WorkStepsLemma
  <2>2. QED BY <1>1, <2>1, ShutStays, ExitedStays
<1>2. CASE CallsBack
  <2>1. UNCHANGED <<running, io, closed, owner>>
    BY <1>2 DEF CallsBack, CallbackStop, CallbackSends, loop, clients
  <2>2. QED BY <1>2, <2>1, ShutStays, ExitedStays
<1>3. CASE OnClose
  <2>1. UNCHANGED <<running, io, owner>> /\ io = "running"
    BY <1>3 DEF OnClose, Step, clients
  <2>2. Shut'
    BY <1>3 DEF OnClose, Shut
  <2>3. QED BY <1>3, <2>1, <2>2 DEF OnClose
<1>4. CASE IoExit
  BY <1>4 DEF IoExit, Shut, port, clients, thread
<1>5. CASE Open
  <2>1. /\ owner = "fresh" /\ owner' \in {"fresh", "spawn"}
        /\ UNCHANGED <<running, io, closed, call>>
    BY <1>5 DEF Open, loop, thread
  <2>2. QED BY <2>1
<1>6. CASE SpawnThread \/ MarkRunning \/ StopCheck
  BY <1>6 DEF SpawnThread, MarkRunning, StopCheck, Shut, port, loop, thread
<1>7. CASE OwnerStops
  BY <1>7 DEF OwnerStops, StopPost, StopWait, StopJoin, Shut, port, loop, thread
<1>8. CASE OwnerLetsGo
  BY <1>8 DEF OwnerLetsGo, Shut, port, loop, thread
<1>9. CASE Destructor
  BY <1>9 DEF Destructor, Shut, loop, clients, thread
<1>10. CASE Ended \/ UNCHANGED vars
  BY <1>10 DEF Ended, vars, Shut, port, loop, clients, thread
<1>11. QED
  BY HandlerCases, <1>1, <1>2, <1>3, <1>4, <1>5, <1>6, <1>7, <1>8, <1>9, <1>10
     DEF Next, IoThread, Owner, WorkSteps

\* When stop() has returned, of a session started once whose callbacks do not
\* stop it, the port is closed, no operation is pending, no callback runs and
\* none will (the thread has been joined).
THEOREM StopLeavesQuiet == ~MayRestart /\ ~CallbackStops => (Spec => []Quiet)
<1> SUFFICES ASSUME ~MayRestart, ~CallbackStops PROVE Spec => []Quiet
  OBVIOUS
<1>1. Init => ShutByStop
  BY DEF Init, ShutByStop
<1>2. ShutByStop /\ [Next]_vars => ShutByStop'
  BY ShutNext
<1>3. ShutByStop => Quiet
  BY DEF ShutByStop, Quiet, Shut
<1>4. QED BY <1>1, <1>2, <1>3, PTL DEF Spec

-----------------------------------------------------------------------------
(* Messages begin in the order in which they were accepted.                *)

\* The messages lo..hi stand in q, once each and in their order.
Lined(q, lo, hi) ==
    /\ \A i \in 1..Len(q) : q[i].op = "send" => q[i].msg \in lo..hi
    /\ \A i \in 1..Len(q), j \in 1..Len(q) :
         i < j /\ q[i].op = "send" /\ q[j].op = "send" => q[i].msg < q[j].msg
    /\ \A m \in lo..hi : \E i \in 1..Len(q) : q[i].op = "send" /\ q[i].msg = m

\* Entries and calls as they really are: a message that is sent or written is
\* one that was accepted.
Messages == 1..MaxSends
Carrying == {"send", "write"}
Sound == {e \in Entries : e.op \in Carrying => e.msg \in Messages}
SoundCalls == {c \in Calls : c.op \in Carrying => c.msg \in Messages}

LEMMA EntryFields == ASSUME NEW e \in Sound PROVE e.op \in Kinds /\ e.msg \in Nat
  BY DEF Sound, Entries

LEMMA MessagesAreNumbers ==
    ASSUME NEW q \in Seq(Sound) PROVE \A i \in 1..Len(q) : q[i].msg \in Nat
  BY ElementOfSeq, EntryFields

LEMMA LinedAppend ==
    ASSUME NEW q \in Seq(Sound), NEW e \in Sound, NEW lo \in Nat, NEW hi \in Nat,
           lo <= hi + 1, Lined(q, lo, hi)
    PROVE  /\ e.op # "send" => Lined(Append(q, e), lo, hi)
           /\ e.op = "send" /\ e.msg = hi + 1 => Lined(Append(q, e), lo, hi + 1)
<1> DEFINE r == Append(q, e)
           n == Len(q)
<1>1. /\ n \in Nat /\ Len(r) = n + 1 /\ r[n + 1] = e
      /\ \A i \in 1..n : r[i] = q[i]
  BY AppendProperties, LenProperties
<1>5. \A i \in 1..n : q[i].msg \in Nat
  BY MessagesAreNumbers
<1> HIDE DEF r
<1>2. \A i \in 1..Len(r) : (i \in 1..n /\ r[i] = q[i]) \/ (i = n + 1 /\ r[i] = e)
  BY <1>1
<1>3. ASSUME e.op # "send" PROVE Lined(r, lo, hi)
  <2>1. \A m \in lo..hi : \E i \in 1..Len(r) : r[i].op = "send" /\ r[i].msg = m
    <3> TAKE m \in lo..hi
    <3>1. PICK i \in 1..n : q[i].op = "send" /\ q[i].msg = m
      BY DEF Lined
    <3>2. i \in 1..Len(r) /\ r[i] = q[i]
      BY <1>1
    <3>3. QED BY <3>1, <3>2
  <2>2. QED BY <1>1, <1>2, <1>3, <2>1 DEF Lined
<1>4. ASSUME e.op = "send", e.msg = hi + 1 PROVE Lined(r, lo, hi + 1)
  <2>1. ASSUME NEW m \in lo..hi + 1
        PROVE  \E i \in 1..Len(r) : r[i].op = "send" /\ r[i].msg = m
    <3>1. CASE m = hi + 1
      BY <1>1, <1>4, <3>1
    <3>2. CASE m # hi + 1
      <4>1. m \in lo..hi
        BY <3>2
      <4>2. PICK i \in 1..n : q[i].op = "send" /\ q[i].msg = m
        BY <4>1 DEF Lined
      <4>3. i \in 1..Len(r) /\ r[i] = q[i]
        BY <1>1
      <4>4. QED BY <4>2, <4>3
    <3>3. QED BY <3>1, <3>2
  <2>2. \A i \in 1..n : q[i].op = "send" => q[i].msg \in lo..hi
    BY DEF Lined
  <2>3. \A i \in 1..Len(r) : r[i].op = "send" => r[i].msg \in lo..hi + 1
    BY <1>2, <1>4, <2>2
  <2>4. ASSUME NEW i \in 1..Len(r), NEW j \in 1..Len(r), i < j,
               r[i].op = "send", r[j].op = "send"
        PROVE  r[i].msg < r[j].msg
    <3>1. i \in 1..n /\ r[i] = q[i]
      BY <1>1, <1>2, <2>4
    <3>2. CASE j \in 1..n
      BY <1>1, <2>4, <3>1, <3>2 DEF Lined
    <3>3. CASE j = n + 1
      BY <1>1, <1>5, <1>4, <2>2, <2>4, <3>1, <3>3
    <3>4. QED BY <1>2, <3>2, <3>3
  <2>5. QED BY <2>1, <2>3, <2>4 DEF Lined
<1>6. QED BY <1>3, <1>4 DEF r

LEMMA LinedTail ==
    ASSUME NEW q \in Seq(Sound), q # <<>>, NEW lo \in Nat, NEW hi \in Nat, Lined(q, lo, hi)
    PROVE  /\ Head(q).op # "send" => Lined(Tail(q), lo, hi)
           /\ Head(q).op = "send" => Head(q).msg = lo /\ lo <= hi /\ Lined(Tail(q), lo + 1, hi)
<1> DEFINE r == Tail(q)
           n == Len(r)
<1>1. /\ n \in Nat /\ Len(q) = n + 1 /\ Head(q) = q[1]
      /\ \A i \in 1..n : r[i] = q[i + 1] /\ i + 1 \in 1..Len(q)
  BY HeadTailProperties, LenProperties
<1>5. \A i \in 1..Len(q) : q[i].msg \in Nat
  BY MessagesAreNumbers
<1> HIDE DEF r
<1>2. \A i \in 1..Len(q) : i = 1 \/ (i - 1 \in 1..n /\ r[i - 1] = q[i])
  BY <1>1
<1>3. /\ \A i \in 1..n, j \in 1..n :
           i < j /\ r[i].op = "send" /\ r[j].op = "send" => r[i].msg < r[j].msg
      /\ \A i \in 1..n : r[i].op = "send" => r[i].msg \in lo..hi
  <2>1. ASSUME NEW i \in 1..n, NEW j \in 1..n, i < j, r[i].op = "send", r[j].op = "send"
        PROVE  r[i].msg < r[j].msg
    <3>1. i + 1 \in 1..Len(q) /\ j + 1 \in 1..Len(q) /\ i + 1 < j + 1
      BY <1>1, <2>1
    <3>2. q[i + 1].op = "send" /\ q[j + 1].op = "send"
      BY <1>1, <2>1
    <3>3. q[i + 1].msg < q[j + 1].msg
      BY <3>1, <3>2 DEF Lined
    <3>4. QED BY <1>1, <3>3
  <2>2. \A i \in 1..n : r[i].op = "send" => r[i].msg \in lo..hi
    BY <1>1 DEF Lined
  <2>3. QED BY <2>1, <2>2
<1>4. ASSUME Head(q).op # "send" PROVE Lined(r, lo, hi)
  <2>1. ASSUME NEW m \in lo..hi PROVE \E i \in 1..n : r[i].op = "send" /\ r[i].msg = m
    <3>1. PICK i \in 1..Len(q) : q[i].op = "send" /\ q[i].msg = m
      BY DEF Lined
    <3>2. i # 1
      BY <1>1, <1>4, <3>1
    <3>3. QED BY <1>2, <3>1, <3>2
  <2>2. QED BY <1>3, <2>1 DEF Lined
<1>6. ASSUME Head(q).op = "send"
      PROVE  Head(q).msg = lo /\ lo <= hi /\ Lined(r, lo + 1, hi)
  <2>1. 1 \in 1..Len(q) /\ q[1].op = "send" /\ q[1].msg \in lo..hi
    BY <1>1, <1>6 DEF Lined
  <2>2. \A i \in 1..Len(q) : i # 1 /\ q[i].op = "send" => q[1].msg < q[i].msg
    BY <1>1, <2>1 DEF Lined
  <2>3. q[1].msg = lo /\ lo <= hi
    <3>1. lo \in lo..hi
      BY <2>1
    <3>2. PICK i \in 1..Len(q) : q[i].op = "send" /\ q[i].msg = lo
      BY <3>1 DEF Lined
    <3>3. i = 1 \/ q[1].msg < q[i].msg
      BY <2>2, <3>2
    <3>4. QED BY <2>1, <3>2, <3>3
  <2>4. ASSUME NEW i \in 1..n, r[i].op = "send" PROVE r[i].msg \in lo + 1..hi
    BY <1>1, <1>5, <1>3, <2>2, <2>3, <2>4
  <2>5. ASSUME NEW m \in lo + 1..hi PROVE \E i \in 1..n : r[i].op = "send" /\ r[i].msg = m
    <3>1. m \in lo..hi /\ m # lo
      OBVIOUS
    <3>2. PICK i \in 1..Len(q) : q[i].op = "send" /\ q[i].msg = m
      BY <3>1 DEF Lined
    <3>3. i # 1
      BY <2>3, <3>1, <3>2
    <3>4. QED BY <1>2, <3>2, <3>3
  <2>6. QED BY <1>1, <1>3, <2>3, <2>4, <2>5 DEF Lined
<1>7. QED BY <1>4, <1>6 DEF r

\* What the proof needs of the types: the queues hold entries, and nothing
\* waits on a strand that is not locked.
QueueTypes ==
    /\ ready \in Seq(Sound) /\ strandReady \in Seq(Sound) /\ strandWaiting \in Seq(Sound)
    /\ writes \in Seq(Messages) /\ reads \in Nat
    /\ call \in SoundCalls /\ sends \in 0..MaxSends /\ begun \in Seq(Messages)
    /\ ~locked => strandReady = <<>> /\ strandWaiting = <<>>

\* The messages that have left the strand, and the functions that wait on it.
Taken == Len(begun) + (IF call.op = "send" THEN 1 ELSE 0)
Waiting == strandReady \o strandWaiting

\* Every message accepted has begun, is being sent, or waits in its turn.
InTurn ==
    /\ call.op = "send" => call.msg = Taken
    /\ Taken <= sends
    /\ Lined(Waiting, Taken + 1, sends)

\* BegunInOrder with what it takes; once stop() has closed the port, messages
\* that were accepted are dropped and no other begins.
OrderKept ==
    /\ QueueTypes /\ BegunInOrder
    /\ life = "alive" /\ (open \/ owner = "fresh") => InTurn

LEMMA EntryTypes ==
    ASSUME NEW op \in Kinds, NEW ec \in {"ok", "error", "aborted"}, NEW m \in Nat,
           op \in Carrying => m \in Messages
    PROVE  /\ Entry(op, ec, m) \in Sound
           /\ Entry(op, ec, m).op = op /\ Entry(op, ec, m).msg = m /\ Entry(op, ec, m).ec = ec
<1>1. Entry(op, ec, m) \in Entries
  BY DEF Entry, Entries
<1>2. Entry(op, ec, m).op = op /\ Entry(op, ec, m).msg = m /\ Entry(op, ec, m).ec = ec
  BY DEF Entry
<1>3. QED BY <1>1, <1>2 DEF Sound

LEMMA CallTypes == NoCall \in SoundCalls /\ NoCall.op = "none" /\ Sound \subseteq SoundCalls
<1>1. NoCall \in Calls /\ NoCall.op = "none" /\ Entries \subseteq Calls
  BY DEF NoCall, Entry, Calls, Entries
<1>2. QED BY <1>1 DEF Sound, SoundCalls, Carrying

LEMMA ReadyAppend ==
    ASSUME QueueTypes, NEW e \in Sound PROVE Append(ready, e) \in Seq(Sound)
  BY AppendProperties DEF QueueTypes

LEMMA TakenType == QueueTypes => Taken \in Nat
  BY LenProperties DEF QueueTypes, Taken

\* Posting to the strand appends to what waits on it, locked or not.
LEMMA PostAppends ==
    ASSUME QueueTypes, NEW f \in Sound, Post(f)
    PROVE  /\ ready' \in Seq(Sound) /\ strandReady' \in Seq(Sound)
           /\ strandWaiting' \in Seq(Sound) /\ locked'
           /\ Waiting \in Seq(Sound) /\ Waiting' = Append(Waiting, f)
<1> USE DEF QueueTypes, Waiting
<1>1. Invoker \in Sound
  BY EntryTypes DEF Invoker, Kinds, Carrying
<1>2. CASE locked
  <2>1. /\ strandWaiting' = Append(strandWaiting, f) /\ strandReady' = strandReady
        /\ ready' = ready /\ locked'
    BY <1>2 DEF Post
  <2>2. strandReady \o Append(strandWaiting, f) = Append(strandReady \o strandWaiting, f)
    OBVIOUS
  <2>3. QED BY <2>1, <2>2, AppendProperties, ConcatProperties
<1>3. CASE ~locked
  <2>1. /\ strandReady' = Append(strandReady, f) /\ strandWaiting' = strandWaiting
        /\ ready' = Append(ready, Invoker) /\ locked' /\ strandWaiting = <<>>
    BY <1>3 DEF Post
  <2>2. QED BY <1>1, <2>1, AppendProperties, ConcatEmptySeq
<1>4. QED BY <1>2, <1>3

\* So does a completion, whether it runs at once or not.
LEMMA DispatchAppends ==
    ASSUME QueueTypes, NEW f \in Sound, NEW q \in Seq(Sound), Dispatch(f, q)
    PROVE  /\ ready' \in Seq(Sound) /\ strandReady' \in Seq(Sound)
           /\ strandWaiting' \in Seq(Sound) /\ locked' /\ call' = call
           /\ Waiting \in Seq(Sound) /\ Waiting' = Append(Waiting, f)
<1> USE DEF QueueTypes, Waiting
<1>1. CASE locked
  <2>1. /\ strandWaiting' = Append(strandWaiting, f) /\ strandReady' = strandReady
        /\ ready' = q /\ locked' /\ call' = call
    BY <1>1 DEF Dispatch
  <2>2. strandReady \o Append(strandWaiting, f) = Append(strandReady \o strandWaiting, f)
    BY SMTT(30)
  <2>3. QED BY <2>1, <2>2, AppendProperties, ConcatProperties
<1>2. CASE ~locked
  <2>1. /\ strandReady' = Append(strandReady, f) /\ strandWaiting' = strandWaiting
        /\ ready' = q /\ locked' /\ call' = call /\ strandWaiting = <<>>
    BY <1>2 DEF Dispatch
  <2>2. QED BY <2>1, AppendProperties, ConcatEmptySeq
<1>3. QED BY <1>1, <1>2

\* A function at the end of the strand keeps the messages in their turn, if it
\* is not a message or is the next one.
LEMMA InTurnAppend ==
    ASSUME QueueTypes, InTurn, begun' = begun, NEW f \in Sound,
           Waiting \in Seq(Sound), Waiting' = Append(Waiting, f),
           call' = call \/ (call.op # "send" /\ call'.op # "send"),
           \/ f.op # "send" /\ sends' = sends
           \/ f.op = "send" /\ f.msg = sends + 1 /\ sends' = sends + 1
    PROVE  InTurn'
<1>1. Taken \in Nat /\ Taken' = Taken /\ sends \in Nat
  BY TakenType DEF Taken, QueueTypes
<1>2. /\ f.op # "send" => Lined(Waiting', Taken + 1, sends)
      /\ f.op = "send" /\ f.msg = sends + 1 => Lined(Waiting', Taken + 1, sends + 1)
  BY <1>1, LinedAppend DEF InTurn
<1>3. QED BY <1>1, <1>2 DEF InTurn

\* Nothing reopens the port of a session that is started once.
LEMMA PortOnce ==
    ASSUME ~MayRestart, Next, life' = "alive", open' \/ owner' = "fresh"
    PROVE  life = "alive" /\ (open \/ owner = "fresh")
<1>1. CASE WorkSteps \/ CallsBack \/ OnClose
  <2>1. CASE OnSend \/ WriteOn \/ StartRead \/ CallsBack \/ OnClose
    BY <2>1 DEF OnSend, WriteOn, StartRead, CallsBack, OnClose, clients, port
  <2>2. CASE RunInvoker \/ RunNext \/ InvokerExit \/ TakeCompletion \/ PerformIo
    BY <2>2 DEF RunInvoker, RunNext, InvokerExit, TakeCompletion, PerformIo, clients, port
  <2>3. CASE ReportError \/ ReportReady \/ LineFails \/ \E t \in Senders : Sender(t)
    BY <2>3 DEF ReportError, ReportReady, Report, LineFails, Sender, SendCheck, SendPost,
         SenderLetsGo, clients, port
  <2>4. QED BY <1>1, <2>1, <2>2, <2>3 DEF WorkSteps
<1>2. CASE Open
  <2>1. owner = "fresh" /\ life' = life
    BY <1>2 DEF Open
  <2>2. QED BY <2>1
<1>3. CASE IoExit \/ SpawnThread \/ MarkRunning \/ StopCheck \/ OwnerStops \/ OwnerLetsGo
  BY <1>3 DEF IoExit, SpawnThread, MarkRunning, StopCheck, OwnerStops, StopPost, StopWait,
       StopJoin, OwnerLetsGo, clients, port
<1>4. CASE Destructor
  BY <1>4 DEF Destructor
<1>5. CASE Ended
  BY <1>5 DEF Ended, vars, port, clients
<1>6. QED
  BY HandlerCases, <1>1, <1>2, <1>3, <1>4, <1>5 DEF Next, IoThread, Owner, WorkSteps

LEMMA InTurnSame ==
    ASSUME InTurn, UNCHANGED <<begun, sends, strandReady, strandWaiting>>,
           call' = call \/ (call.op # "send" /\ call'.op # "send")
    PROVE  InTurn'
  BY DEF InTurn, Taken, Waiting

\* Steps that neither use the strand nor call a function of it.
OtherSteps ==
    \/ RunInvoker \/ ReportError \/ ReportReady \/ LineFails \/ IoExit
    \/ Open \/ SpawnThread \/ MarkRunning \/ StopCheck \/ StopWait \/ StopJoin \/ OwnerLetsGo
    \/ (\E t \in Senders : SendCheck(t) \/ SenderLetsGo(t))
    \/ Destructor \/ Ended \/ UNCHANGED vars

LEMMA OtherStepsLemma ==
    ASSUME QueueTypes, OtherSteps
    PROVE  QueueTypes' /\ UNCHANGED <<call, begun, sends, strandReady, strandWaiting>>
<1> SUFFICES /\ ready' \in Seq(Sound) /\ reads' \in Nat
             /\ UNCHANGED <<call, begun, sends, strandReady, strandWaiting, locked, writes>>
  BY DEF QueueTypes
<1> USE DEF strand, thread, history, port, counts
<1>1. CASE RunInvoker
  <2>1. ready' = Tail(ready) /\ ready # <<>>
    BY <1>1 DEF RunInvoker
  <2>2. ready' \in Seq(Sound)
    BY <2>1, HeadTailProperties DEF QueueTypes
  <2>3. QED BY <1>1, <2>2 DEF RunInvoker, QueueTypes
<1>2. CASE ReportError \/ ReportReady
  <2>1. Entry("io", "ok", 0) \in Sound
    BY EntryTypes DEF Kinds, Carrying
  <2>2. ready' = Append(ready, Entry("io", "ok", 0))
    BY <1>2 DEF ReportError, ReportReady, Report
  <2>3. ready' \in Seq(Sound)
    BY <2>1, <2>2, AppendProperties DEF QueueTypes
  <2>4. QED BY <1>2, <2>3 DEF ReportError, ReportReady, Report, QueueTypes
<1>3. CASE Open
  <2>1. Entry("read", "ok", 0) \in Sound
    BY EntryTypes DEF Kinds, Carrying
  <2>2. ready' = ready \/ ready' = Append(ready, Entry("read", "ok", 0))
    BY <1>3 DEF Open
  <2>3. ready' \in Seq(Sound)
    BY <2>1, <2>2, ReadyAppend DEF QueueTypes
  <2>4. reads' \in {reads, reads + 1}
    BY <1>3 DEF Open
  <2>5. QED BY <1>3, <2>3, <2>4 DEF Open, QueueTypes
<1>4. CASE LineFails \/ IoExit
  BY <1>4 DEF LineFails, IoExit, QueueTypes
<1>5. CASE SpawnThread \/ MarkRunning \/ StopCheck \/ StopWait \/ StopJoin \/ OwnerLetsGo
  BY <1>5 DEF SpawnThread, MarkRunning, StopCheck, StopWait, StopJoin, OwnerLetsGo, QueueTypes
<1>6. CASE \E t \in Senders : SendCheck(t) \/ SenderLetsGo(t)
  BY <1>6 DEF SendCheck, SenderLetsGo, QueueTypes
<1>7. CASE Destructor \/ Ended \/ UNCHANGED vars
  BY <1>7 DEF Destructor, Ended, vars, QueueTypes
<1>8. QED BY <1>1, <1>2, <1>3, <1>4, <1>5, <1>6, <1>7 DEF OtherSteps

\* The io thread takes the next function of the strand.
LEMMA RunNextStep ==
    ASSUME QueueTypes, RunNext
    PROVE  QueueTypes' /\ begun' = begun /\ (InTurn => InTurn')
<1>1. /\ call = NoCall /\ strandReady # <<>> /\ call' = Head(strandReady)
      /\ strandReady' = Tail(strandReady)
      /\ UNCHANGED <<ready, strandWaiting, locked, writes, reads, sends, begun>>
  BY DEF RunNext, port, history, counts
<1>2. strandReady' \in Seq(Sound) /\ call' \in Sound
  BY <1>1, HeadTailProperties DEF QueueTypes
<1>3. QueueTypes'
  BY <1>1, <1>2, CallTypes DEF QueueTypes
<1>4. ASSUME InTurn PROVE InTurn'
  <2>1. /\ Waiting \in Seq(Sound) /\ Waiting # <<>> /\ Head(Waiting) = call'
        /\ Waiting' = Tail(Waiting)
    <3> USE DEF Waiting, QueueTypes
    <3>1. Head(strandReady \o strandWaiting) = Head(strandReady)
      BY <1>1
    <3>2. Tail(strandReady \o strandWaiting) = Tail(strandReady) \o strandWaiting
      BY <1>1
    <3>3. strandReady \o strandWaiting \in Seq(Sound)
      BY ConcatProperties
    <3>4. strandReady \o strandWaiting # <<>>
      BY <1>1, ConcatEqualIffEmpty
    <3>5. QED BY <1>1, <3>1, <3>2, <3>3, <3>4, Zenon
  <2>2. Taken = Len(begun) /\ Len(begun) \in Nat /\ sends \in Nat
    BY <1>1, CallTypes, LenProperties DEF Taken, QueueTypes
  <2>3. /\ call'.op # "send" => Lined(Waiting', Taken + 1, sends)
        /\ call'.op = "send" =>
             call'.msg = Taken + 1 /\ Taken + 1 <= sends /\ Lined(Waiting', Taken + 2, sends)
    <3>1. Lined(Waiting, Taken + 1, sends) /\ Taken + 1 \in Nat
      BY <1>4, <2>2 DEF InTurn
    <3>2. /\ call'.op # "send" => Lined(Tail(Waiting), Taken + 1, sends)
          /\ call'.op = "send" => /\ call'.msg = Taken + 1 /\ Taken + 1 <= sends
                                  /\ Lined(Tail(Waiting), (Taken + 1) + 1, sends)
      BY <2>1, <2>2, <3>1, LinedTail
    <3>3. (Taken + 1) + 1 = Taken + 2
      BY <2>2
    <3>4. QED BY <2>1, <3>2, <3>3
  <2>4. CASE call'.op = "send"
    <3>1. Taken' = Taken + 1
      BY <1>1, <2>2, <2>4 DEF Taken
    <3>2. Taken' + 1 = Taken + 2
      BY <2>2, <3>1
    <3>3. QED BY <1>1, <2>3, <2>4, <3>1, <3>2 DEF InTurn
  <2>5. CASE call'.op # "send"
    <3>1. Taken' = Taken
      BY <1>1, <2>2, <2>5 DEF Taken
    <3>2. QED BY <1>1, <1>4, <2>3, <2>5, <3>1 DEF InTurn
  <2>6. QED BY <2>4, <2>5
<1>5. QED BY <1>1, <1>3, <1>4

LEMMA InvokerExitStep ==
    ASSUME QueueTypes, InvokerExit
    PROVE  QueueTypes' /\ begun' = begun /\ (InTurn => InTurn')
<1>1. /\ strandReady = <<>> /\ strandReady' = strandWaiting /\ strandWaiting' = <<>>
      /\ ready' = ready \/ ready' = Append(ready, Invoker)
      /\ ~locked' => strandWaiting = <<>>
      /\ UNCHANGED <<call, writes, reads, sends, begun>>
  BY DEF InvokerExit, port, history, counts
<1>2. Invoker \in Sound
  BY EntryTypes DEF Invoker, Kinds, Carrying
<1>3. QueueTypes'
  <2>1. ready' \in Seq(Sound)
    BY <1>1, <1>2, ReadyAppend DEF QueueTypes
  <2>2. QED BY <1>1, <2>1 DEF QueueTypes
<1>4. Waiting' = Waiting
  BY <1>1, ConcatEmptySeq DEF Waiting, QueueTypes
<1>5. QED BY <1>1, <1>3, <1>4 DEF InTurn, Taken

LEMMA TakeCompletionStep ==
    ASSUME QueueTypes, TakeCompletion
    PROVE  QueueTypes' /\ begun' = begun /\ (InTurn => InTurn')
<1> DEFINE f == Head(ready)
<1>1. f \in Sound /\ Tail(ready) \in Seq(Sound) /\ f.op # "send"
  BY HeadTailProperties DEF TakeCompletion, QueueTypes
<1>2. Dispatch(f, Tail(ready)) /\ UNCHANGED <<writes, reads, sends, begun>>
  BY DEF TakeCompletion, port, history, counts
<1> HIDE DEF f
<1>3. /\ ready' \in Seq(Sound) /\ strandReady' \in Seq(Sound)
      /\ strandWaiting' \in Seq(Sound) /\ locked' /\ call' = call
      /\ Waiting \in Seq(Sound) /\ Waiting' = Append(Waiting, f)
  BY <1>1, <1>2, DispatchAppends
<1>4. QueueTypes'
  BY <1>2, <1>3 DEF QueueTypes
<1>5. QED BY <1>1, <1>2, <1>3, <1>4, InTurnAppend

LEMMA CompletionTypes ==
    ASSUME QueueTypes, NEW nw \in 0..Len(writes), NEW nr \in 0..reads,
           NEW ec \in {"ok", "error", "aborted"}
    PROVE  /\ Completions(nw, nr, ec) \in Seq(Sound)
           /\ \A i \in 1..Len(Completions(nw, nr, ec)) : Completions(nw, nr, ec)[i].op # "send"
<1> DEFINE w == [i \in 1..nw |-> Entry("write", ec, writes[i])]
           r == [i \in 1..nr |-> Entry("read", ec, 0)]
<1>1. nw \in Nat /\ nr \in Nat /\ \A i \in 1..nw : writes[i] \in Messages
  <2>1. Len(writes) \in Nat /\ reads \in Nat /\ \A i \in 1..Len(writes) : writes[i] \in Messages
    BY LenProperties, ElementOfSeq DEF QueueTypes
  <2>2. QED BY <2>1
<1>2. /\ \A i \in 1..nw : Entry("write", ec, writes[i]) \in Sound
      /\ \A i \in 1..nw : Entry("write", ec, writes[i]).op = "write"
      /\ \A i \in 1..nr : Entry("read", ec, 0) \in Sound
      /\ \A i \in 1..nr : Entry("read", ec, 0).op = "read"
  BY <1>1, EntryTypes DEF Kinds, Carrying, Messages
<1>3. w \in Seq(Sound) /\ Len(w) = nw /\ r \in Seq(Sound) /\ Len(r) = nr
  BY <1>1, <1>2, IsASeq
<1>4. /\ w \o r \in Seq(Sound) /\ Len(w \o r) = nw + nr
      /\ \A i \in 1..nw + nr : (w \o r)[i] = IF i <= nw THEN w[i] ELSE r[i - nw]
  BY <1>3, ConcatProperties
<1>5. ASSUME NEW i \in 1..nw + nr PROVE (w \o r)[i].op # "send"
  <2>1. CASE i <= nw
    <3>1. i \in 1..nw /\ (w \o r)[i] = w[i]
      BY <1>1, <1>4, <2>1
    <3>2. QED BY <1>2, <3>1
  <2>2. CASE ~(i <= nw)
    <3>1. i - nw \in 1..nr /\ (w \o r)[i] = r[i - nw]
      BY <1>1, <1>4, <2>2
    <3>2. QED BY <1>2, <3>1
  <2>3. QED BY <2>1, <2>2
<1>6. Completions(nw, nr, ec) = w \o r
  BY DEF Completions
<1> HIDE DEF w, r
<1>7. QED BY <1>4, <1>5, <1>6

LEMMA PerformIoStep ==
    ASSUME QueueTypes, PerformIo
    PROVE  QueueTypes' /\ begun' = begun /\ (InTurn => InTurn')
<1>1. PICK nw \in 0..Len(writes), nr \in 0..reads :
        LET Complete == Completions(nw, nr, IF lost THEN "error" ELSE "ok") IN
        /\ reads' = reads - nr
        /\ writes' = SubSeq(writes, nw + 1, Len(writes))
        /\ IF Complete = <<>>
           THEN ready' = Tail(ready) /\ UNCHANGED <<strand, thread>>
           ELSE Dispatch(Head(Complete), Tail(ready) \o Tail(Complete))
  BY DEF PerformIo
<1>2. UNCHANGED <<sends, begun>> /\ ready # <<>>
  BY DEF PerformIo
<1> DEFINE c == Completions(nw, nr, IF lost THEN "error" ELSE "ok")
<1>3. c \in Seq(Sound) /\ \A i \in 1..Len(c) : c[i].op # "send"
  BY CompletionTypes
<1>4. writes' \in Seq(Messages) /\ reads' \in Nat
  <2>1. /\ Len(writes) \in Nat /\ \A i \in 1..Len(writes) : writes[i] \in Messages
        /\ nw + 1 \in Int /\ nw + 1 >= 1
    BY LenProperties, ElementOfSeq DEF QueueTypes
  <2>2. \A i \in nw + 1..Len(writes) : writes[i] \in Messages
    BY <2>1
  <2>3. SubSeq(writes, nw + 1, Len(writes)) \in Seq(Messages)
    BY <2>1, <2>2, SubSeqProperties
  <2>4. QED BY <1>1, <2>3 DEF QueueTypes
<1>5. Tail(ready) \in Seq(Sound)
  BY <1>2, HeadTailProperties DEF QueueTypes
<1>6. CASE c = <<>>
  <2>1. ready' = Tail(ready) /\ UNCHANGED <<strandReady, strandWaiting, locked, call>>
    BY <1>1, <1>6 DEF strand, thread
  <2>2. QueueTypes'
    BY <1>2, <1>4, <1>5, <2>1 DEF QueueTypes
  <2>3. QED BY <1>2, <2>1, <2>2, InTurnSame
<1>7. CASE c # <<>>
  <2> DEFINE f == Head(c)
             q == Tail(ready) \o Tail(c)
  <2>1. Dispatch(f, q)
    BY <1>1, <1>7
  <2>2. f \in Sound /\ f.op # "send"
    <3>1. Head(c) = c[1] /\ 1 \in 1..Len(c)
      <4> HIDE DEF c
      <4>1. QED BY <1>3, <1>7
    <3>2. Head(c) \in Sound
      BY <1>3, <1>7, HeadTailProperties
    <3>3. QED BY <1>3, <3>1, <3>2
  <2>3. q \in Seq(Sound)
    BY <1>3, <1>5, <1>7, HeadTailProperties, ConcatProperties
  <2> HIDE DEF f, q
  <2>4. /\ ready' \in Seq(Sound) /\ strandReady' \in Seq(Sound)
        /\ strandWaiting' \in Seq(Sound) /\ locked' /\ call' = call
        /\ Waiting \in Seq(Sound) /\ Waiting' = Append(Waiting, f)
    BY <2>1, <2>2, <2>3, DispatchAppends
  <2>5. QueueTypes'
    BY <1>2, <1>4, <2>4 DEF QueueTypes
  <2>6. QED BY <1>2, <2>2, <2>4, <2>5, InTurnAppend
<1>8. QED BY <1>6, <1>7

\* What a piece of a write does to the port and the queue.
LEMMA BeginWriteTypes ==
    ASSUME QueueTypes, NEW m \in Messages, BeginWrite(m)
    PROVE  ready' \in Seq(Sound) /\ writes' \in Seq(Messages)
<1>1. /\ Entry("write", "error", m) \in Sound /\ Entry("write", "ok", m) \in Sound
  BY EntryTypes DEF Kinds, Carrying, Messages
<1>2. ready' \in {ready, Append(ready, Entry("write", "error", m)),
                  Append(ready, Entry("write", "ok", m))}
  BY DEF BeginWrite
<1>3. ready' \in Seq(Sound)
  BY <1>1, <1>2, ReadyAppend DEF QueueTypes
<1>4. writes' \in {writes, Append(writes, m)}
  BY DEF BeginWrite
<1>5. Append(writes, m) \in Seq(Messages)
  BY AppendProperties DEF QueueTypes
<1>6. QED BY <1>3, <1>4, <1>5 DEF QueueTypes

LEMMA CallMessage == QueueTypes /\ call.op \in Carrying => call.msg \in Messages
  BY DEF QueueTypes, SoundCalls

\* The call of a message whose turn it is, on a port that is open.
LEMMA OnSendStep ==
    ASSUME QueueTypes, OnSend
    PROVE  /\ QueueTypes' /\ (open /\ InTurn => InTurn')
           /\ BegunInOrder /\ (open => InTurn) => BegunInOrder'
<1>1. /\ call.op = "send" /\ call' = NoCall
      /\ UNCHANGED <<strandReady, strandWaiting, locked, reads, sends, open>>
  BY DEF OnSend, Step, strand, counts
<1>2. CASE ~open
  <2>1. UNCHANGED <<writes, ready, begun>>
    BY <1>2 DEF OnSend
  <2>2. QED BY <1>1, <1>2, <2>1, CallTypes DEF QueueTypes, BegunInOrder
<1>3. CASE open
  <2>1. BeginWrite(call.msg) /\ begun' = Append(begun, call.msg)
    BY <1>3 DEF OnSend
  <2>2. /\ begun' \in Seq(Messages) /\ Len(begun') = Len(begun) + 1
        /\ \A i \in 1..Len(begun) : begun'[i] = begun[i]
        /\ begun'[Len(begun) + 1] = call.msg /\ Len(begun) \in Nat
    BY <1>1, <2>1, CallMessage, AppendProperties, LenProperties DEF QueueTypes, Carrying
  <2>3. QueueTypes'
    BY <1>1, <2>1, <2>2, CallTypes, CallMessage, BeginWriteTypes DEF QueueTypes, Carrying
  <2>4. ASSUME InTurn PROVE InTurn' /\ (BegunInOrder => BegunInOrder')
    <3>1. Taken = Len(begun) + 1 /\ Taken' = Taken /\ call.msg = Len(begun) + 1
      BY <1>1, <2>2, <2>4, CallTypes DEF InTurn, Taken
    <3>2. InTurn'
      BY <1>1, <2>4, <3>1, CallTypes DEF InTurn, Waiting
    <3>3. \A i \in 1..Len(begun') : i \in 1..Len(begun) \/ i = Len(begun) + 1
      BY <2>2
    <3>4. BegunInOrder => BegunInOrder'
      BY <2>2, <3>1, <3>3 DEF BegunInOrder
    <3>5. QED BY <3>2, <3>4
  <2>5. QED BY <1>3, <2>3, <2>4
<1>4. QED BY <1>2, <1>3

\* The other functions of the strand: none of them begins a message.
LEMMA WriteOnStep ==
    ASSUME QueueTypes, WriteOn
    PROVE  QueueTypes' /\ begun' = begun /\ (InTurn => InTurn')
<1>1. /\ call.op = "write" /\ call' = NoCall
      /\ UNCHANGED <<strandReady, strandWaiting, locked, reads, sends, begun>>
  BY DEF WriteOn, Step, strand, counts
<1>2. BeginWrite(call.msg) \/ UNCHANGED <<writes, ready>>
  BY DEF WriteOn
<1>3. ready' \in Seq(Sound) /\ writes' \in Seq(Messages)
  BY <1>1, <1>2, CallMessage, BeginWriteTypes DEF QueueTypes, Carrying
<1>4. QueueTypes'
  BY <1>1, <1>3, CallTypes DEF QueueTypes
<1>5. QED BY <1>1, <1>4, CallTypes, InTurnSame

LEMMA StartReadStep ==
    ASSUME QueueTypes, StartRead
    PROVE  QueueTypes' /\ begun' = begun /\ (InTurn => InTurn')
<1>1. /\ call.op = "start_read" /\ call' = NoCall
      /\ UNCHANGED <<strandReady, strandWaiting, locked, writes, sends, begun>>
  BY DEF StartRead, Step, strand, history
<1>2. BeginRead(ready)
  BY DEF StartRead
<1>3. Entry("read", "error", 0) \in Sound /\ Entry("read", "ok", 0) \in Sound
  BY EntryTypes DEF Kinds, Carrying
<1>4. ready' \in {ready, Append(ready, Entry("read", "error", 0)),
                  Append(ready, Entry("read", "ok", 0))}
  BY <1>2 DEF BeginRead
<1>5. ready' \in Seq(Sound) /\ reads' \in Nat
  <2>1. reads' \in {reads, reads + 1}
    BY <1>2 DEF BeginRead
  <2>2. ready' \in Seq(Sound)
    BY <1>3, <1>4, ReadyAppend DEF QueueTypes
  <2>3. QED BY <2>1, <2>2 DEF QueueTypes
<1>6. QueueTypes'
  BY <1>1, <1>5, CallTypes DEF QueueTypes
<1>7. QED BY <1>1, <1>6, CallTypes, InTurnSame

LEMMA OnCloseStep ==
    ASSUME QueueTypes, OnClose
    PROVE  QueueTypes' /\ begun' = begun /\ (InTurn => InTurn')
<1> DEFINE r == [i \in 1..reads |-> Entry("read", "aborted", 0)]
           w == [i \in 1..Len(writes) |-> Entry("write", "aborted", writes[i])]
<1>1. /\ call.op = "close" /\ call' = NoCall
      /\ UNCHANGED <<strandReady, strandWaiting, locked, sends, begun>>
      /\ reads' = 0 /\ writes' = <<>> /\ ready' = ready \o r \o w
  BY DEF OnClose, Step, strand, history, counts
<1>2. r \in Seq(Sound) /\ w \in Seq(Sound)
  <2>1. /\ Len(writes) \in Nat /\ reads \in Nat
        /\ \A i \in 1..Len(writes) : writes[i] \in Messages
    BY LenProperties, ElementOfSeq DEF QueueTypes
  <2>2. /\ \A i \in 1..Len(writes) : Entry("write", "aborted", writes[i]) \in Sound
        /\ \A i \in 1..reads : Entry("read", "aborted", 0) \in Sound
    BY <2>1, EntryTypes DEF Kinds, Carrying, Messages
  <2>3. QED BY <2>1, <2>2, IsASeq
<1> HIDE DEF r, w
<1>3. ready' \in Seq(Sound)
  BY <1>1, <1>2, ConcatProperties DEF QueueTypes
<1>4. QueueTypes'
  BY <1>1, <1>3, CallTypes, EmptySeq DEF QueueTypes
<1>5. QED BY <1>1, <1>4, CallTypes, InTurnSame

\* A callback may send the next message, or stop the session.
LEMMA CallsBackStep ==
    ASSUME QueueTypes, CallsBack
    PROVE  QueueTypes' /\ begun' = begun /\ (InTurn => InTurn')
<1>1. call.op \in {"read", "write"} /\ UNCHANGED <<begun, reads, writes>>
  BY DEF CallsBack, Step, history, port
<1>2. call' \in SoundCalls /\ call'.op # "send"
  <2>1. call' \in Calls /\ call'.op \notin Carrying
    BY DEF CallsBack, CallbackStop, NoCall, Entry, Calls, Carrying
  <2>2. QED BY <2>1 DEF SoundCalls, Carrying
<1>3. CASE UNCHANGED <<sends, strand, ready>>
  <2>1. QueueTypes'
    BY <1>1, <1>2, <1>3 DEF QueueTypes, strand
  <2>2. QED BY <1>1, <1>2, <1>3, <2>1, InTurnSame DEF strand
<1>4. ASSUME NEW f \in Sound, Post(f),
             \/ f.op # "send" /\ sends' = sends
             \/ f.op = "send" /\ f.msg = sends + 1 /\ sends' = sends + 1 /\ sends < MaxSends
      PROVE  QueueTypes' /\ (InTurn => InTurn')
  <2>1. /\ ready' \in Seq(Sound) /\ strandReady' \in Seq(Sound)
        /\ strandWaiting' \in Seq(Sound) /\ locked'
        /\ Waiting \in Seq(Sound) /\ Waiting' = Append(Waiting, f)
    BY <1>4, PostAppends
  <2>2. QueueTypes'
    BY <1>1, <1>2, <1>4, <2>1, SerialBounds DEF QueueTypes
  <2>3. QED BY <1>1, <1>2, <1>4, <2>1, <2>2, InTurnAppend
<1>5. CASE CallbackStop
  <2>1. Post(Entry("close", "ok", 0)) /\ sends' = sends
    BY <1>5 DEF CallbackStop
  <2>2. Entry("close", "ok", 0) \in Sound /\ Entry("close", "ok", 0).op = "close"
    BY EntryTypes DEF Kinds, Carrying
  <2>3. QED BY <1>1, <1>4, <2>1, <2>2
<1>6. CASE CallbackSends
  <2>1. Post(Entry("send", "ok", sends + 1)) /\ sends' = sends + 1 /\ sends < MaxSends
    BY <1>6 DEF CallbackSends
  <2>2. /\ Entry("send", "ok", sends + 1) \in Sound
        /\ Entry("send", "ok", sends + 1).op = "send"
        /\ Entry("send", "ok", sends + 1).msg = sends + 1
    BY <2>1, SerialBounds, EntryTypes DEF Kinds, Carrying, Messages, QueueTypes
  <2>3. QED BY <1>1, <1>4, <2>1, <2>2
<1>7. QED BY <1>1, <1>3, <1>5, <1>6 DEF CallsBack

LEMMA StopPostStep ==
    ASSUME QueueTypes, StopPost
    PROVE  QueueTypes' /\ begun' = begun /\ (InTurn => InTurn')
<1> DEFINE f == Entry("close", "ok", 0)
<1>1. Post(f) /\ UNCHANGED <<call, writes, reads, sends, begun>>
  BY DEF StopPost, port, history, thread, counts
<1>2. f \in Sound /\ f.op # "send"
  BY EntryTypes DEF Kinds, Carrying
<1> HIDE DEF f
<1>3. /\ ready' \in Seq(Sound) /\ strandReady' \in Seq(Sound)
      /\ strandWaiting' \in Seq(Sound) /\ locked'
      /\ Waiting \in Seq(Sound) /\ Waiting' = Append(Waiting, f)
  BY <1>1, <1>2, PostAppends
<1>4. QueueTypes'
  BY <1>1, <1>3 DEF QueueTypes
<1>5. QED BY <1>1, <1>2, <1>3, <1>4, InTurnAppend

LEMMA SendPostStep ==
    ASSUME QueueTypes, NEW t \in Senders, SendPost(t)
    PROVE  QueueTypes' /\ begun' = begun /\ (InTurn => InTurn')
<1> DEFINE f == Entry("send", "ok", sends + 1)
<1>1. UNCHANGED <<call, writes, reads, begun>>
  BY DEF SendPost, port, history, thread
<1>2. sends < MaxSends => f \in Sound /\ f.op = "send" /\ f.msg = sends + 1
  BY SerialBounds, EntryTypes DEF Kinds, Carrying, Messages, QueueTypes
<1>3. CASE sends < MaxSends
  <2>1. Post(f) /\ sends' = sends + 1
    BY <1>3 DEF SendPost
  <2> HIDE DEF f
  <2>2. /\ ready' \in Seq(Sound) /\ strandReady' \in Seq(Sound)
        /\ strandWaiting' \in Seq(Sound) /\ locked'
        /\ Waiting \in Seq(Sound) /\ Waiting' = Append(Waiting, f)
    BY <1>2, <1>3, <2>1, PostAppends
  <2>3. QueueTypes'
    BY <1>1, <1>3, <2>1, <2>2, SerialBounds DEF QueueTypes
  <2>4. QED BY <1>1, <1>2, <1>3, <2>1, <2>2, <2>3, InTurnAppend
<1>4. CASE ~(sends < MaxSends)
  <2>1. UNCHANGED <<sends, ready, strandReady, strandWaiting, locked>>
    BY <1>4 DEF SendPost, strand
  <2>2. QED BY <1>1, <2>1, InTurnSame DEF QueueTypes
<1>5. QED BY <1>3, <1>4

LEMMA OrderNext ==
    ~MayRestart /\ ThreadOwned /\ OrderKept /\ [Next]_vars => OrderKept'
<1> SUFFICES ASSUME ~MayRestart, ThreadOwned, OrderKept, [Next]_vars PROVE OrderKept'
  OBVIOUS
<1>1. QueueTypes /\ BegunInOrder
  BY DEF OrderKept
<1>2. ASSUME life' = "alive", open' \/ owner' = "fresh" PROVE InTurn
  <2>1. life = "alive" /\ (open \/ owner = "fresh")
    BY <1>2, PortOnce DEF vars, port, clients
  <2>2. QED BY <2>1 DEF OrderKept
\* A step that begins nothing.
<1>3. ASSUME QueueTypes' /\ begun' = begun /\ (InTurn => InTurn') PROVE OrderKept'
  BY <1>1, <1>2, <1>3 DEF OrderKept, BegunInOrder
<1>4. CASE OtherSteps
  <2>1. QueueTypes' /\ UNCHANGED <<call, begun, sends, strandReady, strandWaiting>>
    BY <1>1, <1>4, OtherStepsLemma
  <2>2. InTurn => InTurn'
    BY <2>1, InTurnSame
  <2>3. QED BY <1>3, <2>1, <2>2
<1>5. CASE OnSend /\ life = "alive"
  <2>1. /\ QueueTypes' /\ (open /\ InTurn => InTurn')
        /\ BegunInOrder /\ (open => InTurn) => BegunInOrder'
    BY <1>1, <1>5, OnSendStep
  <2>2. owner # "fresh" /\ open' = open /\ owner' = owner
    BY <1>5 DEF ThreadOwned, OnSend, Step, clients
  <2>3. open => InTurn
    BY <1>5 DEF OrderKept
  <2>4. QED BY <1>1, <2>1, <2>2, <2>3 DEF OrderKept
<1>6. CASE RunNext \/ InvokerExit \/ TakeCompletion \/ PerformIo
  BY <1>1, <1>3, <1>6, RunNextStep, InvokerExitStep, TakeCompletionStep, PerformIoStep
<1>7. CASE WriteOn \/ StartRead \/ CallsBack \/ OnClose
  BY <1>1, <1>3, <1>7, WriteOnStep, StartReadStep, CallsBackStep, OnCloseStep
<1>8. CASE StopPost
  BY <1>1, <1>3, <1>8, StopPostStep
<1>9. CASE \E t \in Senders : SendPost(t)
  BY <1>1, <1>3, <1>9, SendPostStep
<1>10. QED
  BY HandlerCases, <1>4, <1>5, <1>6, <1>7, <1>8, <1>9
     DEF Next, IoThread, Owner, OwnerStops, Sender, OtherSteps

\* Of a session started once, whatever threads and callbacks send, the writes
\* begin in the order in which send() accepted their messages (each message is
\* posted to strand_, which keeps what is posted in order, and no message that
\* was dropped with the port closed is followed by one that is written).
THEOREM SendsBeginInOrder == ~MayRestart => (Spec => []BegunInOrder)
<1> SUFFICES ASSUME ~MayRestart PROVE Spec => []BegunInOrder
  OBVIOUS
<1>1. Init => ThreadOwned /\ OrderKept
  <2> SUFFICES ASSUME Init PROVE ThreadOwned /\ OrderKept
    OBVIOUS
  <2>1. ThreadOwned
    BY DEF Init, ThreadOwned, NoUseAfterFree
  <2>2. QueueTypes
    BY CallTypes, EmptySeq, SerialBounds DEF Init, QueueTypes
  <2>3. Waiting = <<>> /\ Len(<<>>) = 0 /\ Taken = 0
    BY CallTypes, ConcatEmptySeq, EmptySeq DEF Init, Waiting, Taken
  <2>4. BegunInOrder /\ InTurn
    BY <2>3, CallTypes DEF Init, BegunInOrder, InTurn, Lined
  <2>5. QED BY <2>1, <2>2, <2>4 DEF OrderKept
<1>2. ThreadOwned /\ OrderKept /\ [Next]_vars => (ThreadOwned /\ OrderKept)'
  BY ThreadOwnedNext, OrderNext
<1>3. OrderKept => BegunInOrder
  BY DEF OrderKept
<1>4. QED BY <1>1, <1>2, <1>3, PTL DEF Spec

-----------------------------------------------------------------------------
(* Where the functions and completions of one kind are.                    *)

LEMMA QueueTypesNext == QueueTypes /\ [Next]_vars => QueueTypes'
<1> SUFFICES ASSUME QueueTypes, [Next]_vars PROVE QueueTypes'
  OBVIOUS
<1>1. CASE OtherSteps
  BY <1>1, OtherStepsLemma
<1>2. CASE RunNext \/ InvokerExit \/ TakeCompletion \/ PerformIo
  BY <1>2, RunNextStep, InvokerExitStep, TakeCompletionStep, PerformIoStep
<1>3. CASE OnSend \/ WriteOn \/ StartRead \/ CallsBack \/ OnClose
  BY <1>3, OnSendStep, WriteOnStep, StartReadStep, CallsBackStep, OnCloseStep
<1>4. CASE StopPost
  BY <1>4, StopPostStep
<1>5. CASE \E t \in Senders : SendPost(t)
  BY <1>5, SendPostStep
<1>6. QED
  BY HandlerCases, <1>1, <1>2, <1>3, <1>4, <1>5
     DEF Next, IoThread, Owner, OwnerStops, Sender, OtherSteps

Has(q, S) == \E i \in 1..Len(q) : q[i] \in S
Few(q, S) == \A i, j \in 1..Len(q) : q[i] \in S /\ q[j] \in S => i = j

LEMMA HasNone == \A S : ~Has(<<>>, S) /\ Few(<<>>, S)
  BY DEF Has, Few

LEMMA HasConcatOf ==
    ASSUME NEW T, NEW S, NEW s \in Seq(T), NEW t \in Seq(T)
    PROVE  /\ s \o t \in Seq(T)
           /\ Has(s \o t, S) <=> Has(s, S) \/ Has(t, S)
           /\ Few(s, S) /\ Few(t, S) /\ ~(Has(s, S) /\ Has(t, S)) => Few(s \o t, S)
<1> DEFINE c == s \o t
<1>1. /\ Len(s) \in Nat /\ Len(t) \in Nat /\ Len(c) = Len(s) + Len(t) /\ c \in Seq(T)
      /\ \A i \in 1..Len(s) + Len(t) : c[i] = IF i <= Len(s) THEN s[i] ELSE t[i - Len(s)]
  BY ConcatProperties, LenProperties
<1> HIDE DEF c
<1>2. \A i \in 1..Len(c) : \/ i \in 1..Len(s) /\ c[i] = s[i]
                           \/ i - Len(s) \in 1..Len(t) /\ c[i] = t[i - Len(s)]
  BY <1>1
<1>3. \A i \in 1..Len(s) : i \in 1..Len(c) /\ c[i] = s[i]
  BY <1>1
<1>4. \A i \in 1..Len(t) : Len(s) + i \in 1..Len(c) /\ c[Len(s) + i] = t[i]
  BY <1>1
<1>5. Has(c, S) => Has(s, S) \/ Has(t, S)
  BY <1>2 DEF Has
<1>6. Has(s, S) \/ Has(t, S) => Has(c, S)
  BY <1>3, <1>4 DEF Has
<1>7. ASSUME Few(s, S), Few(t, S), ~(Has(s, S) /\ Has(t, S)) PROVE Few(c, S)
  <2>1. SUFFICES ASSUME NEW i \in 1..Len(c), NEW j \in 1..Len(c), c[i] \in S, c[j] \in S
                 PROVE  i = j
    BY DEF Few
  <2>2. CASE i \in 1..Len(s) /\ c[i] = s[i] /\ j \in 1..Len(s) /\ c[j] = s[j]
    BY <1>7, <2>1, <2>2 DEF Few
  <2>3. CASE /\ i - Len(s) \in 1..Len(t) /\ c[i] = t[i - Len(s)]
             /\ j - Len(s) \in 1..Len(t) /\ c[j] = t[j - Len(s)]
    <3>1. i - Len(s) = j - Len(s)
      BY <1>7, <2>1, <2>3 DEF Few
    <3>2. QED BY <1>1, <3>1
  <2>4. QED BY <1>2, <1>7, <2>1, <2>2, <2>3 DEF Has
<1>8. QED BY <1>1, <1>5, <1>6, <1>7 DEF c

LEMMA HasConcat ==
    ASSUME NEW S, NEW s \in Seq(Sound), NEW t \in Seq(Sound)
    PROVE  /\ s \o t \in Seq(Sound)
           /\ Has(s \o t, S) <=> Has(s, S) \/ Has(t, S)
           /\ Few(s, S) /\ Few(t, S) /\ ~(Has(s, S) /\ Has(t, S)) => Few(s \o t, S)
  BY HasConcatOf

LEMMA HasAppend ==
    ASSUME NEW S, NEW s \in Seq(Sound), NEW e \in Sound
    PROVE  /\ Has(Append(s, e), S) <=> Has(s, S) \/ e \in S
           /\ Few(s, S) /\ ~(Has(s, S) /\ e \in S) => Few(Append(s, e), S)
<1> DEFINE o == <<e>>
<1>1. o \in Seq(Sound) /\ Len(o) = 1 /\ o[1] = e /\ Append(s, e) = s \o o
  BY AppendIsConcat
<1> HIDE DEF o
<1>2. \A i : i \in 1..1 <=> i = 1
  OBVIOUS
<1>3. (Has(o, S) <=> e \in S) /\ Few(o, S)
  BY <1>1, <1>2 DEF Has, Few
<1>4. QED BY <1>1, <1>3, HasConcat

LEMMA HasTail ==
    ASSUME NEW S, NEW s \in Seq(Sound), s # <<>>
    PROVE  /\ Head(s) \in Sound /\ Tail(s) \in Seq(Sound)
           /\ Has(s, S) <=> Head(s) \in S \/ Has(Tail(s), S)
           /\ Few(s, S) => /\ Few(Tail(s), S)
                           /\ Head(s) \in S => ~Has(Tail(s), S)
<1> DEFINE r == Tail(s)
<1>1. /\ Len(s) \in Nat \ {0} /\ Len(r) = Len(s) - 1 /\ Head(s) = s[1]
      /\ r \in Seq(Sound) /\ Head(s) \in Sound
      /\ \A i \in 1..Len(r) : r[i] = s[i + 1]
  BY HeadTailProperties, EmptySeq
<1> HIDE DEF r
<1>2. \A i \in 1..Len(r) : i + 1 \in 1..Len(s) /\ r[i] = s[i + 1] /\ i + 1 # 1
  BY <1>1
<1>3. \A i \in 1..Len(s) : i = 1 \/ (i - 1 \in 1..Len(r) /\ r[i - 1] = s[i])
  BY <1>1
<1>4. 1 \in 1..Len(s) /\ Head(s) = s[1]
  BY <1>1
<1>5. Has(s, S) <=> Head(s) \in S \/ Has(r, S)
  BY <1>2, <1>3, <1>4 DEF Has
<1>6. ASSUME Few(s, S) PROVE Few(r, S)
  <2>1. \A i, j \in 1..Len(r) : i + 1 = j + 1 => i = j
    OBVIOUS
  <2>2. QED BY <1>2, <1>6, <2>1 DEF Few
<1>7. ASSUME Few(s, S), Head(s) \in S PROVE ~Has(r, S)
  BY <1>2, <1>4, <1>7 DEF Few, Has
<1>8. QED BY <1>1, <1>5, <1>6, <1>7 DEF r

\* Is one of S about, and is there at most one?
In(S) == call \in S \/ Has(ready, S) \/ Has(Waiting, S)
One(S) ==
    /\ Few(ready, S) /\ Few(Waiting, S)
    /\ call \in S => ~Has(ready, S) /\ ~Has(Waiting, S)
    /\ ~(Has(ready, S) /\ Has(Waiting, S))

\* S holds nothing of the io_context's or the strand's own.
Neutral(S) == \A e \in S : e.op \notin {"none", "invoker", "io"}

LEMMA OwnEntries ==
    ASSUME NEW S, Neutral(S)
    PROVE  /\ Invoker \in Sound /\ Invoker \notin S
           /\ Entry("io", "ok", 0) \in Sound /\ Entry("io", "ok", 0) \notin S
           /\ NoCall \notin S
<1>1. Invoker \in Sound /\ Invoker.op = "invoker"
  BY EntryTypes DEF Invoker, Kinds, Carrying
<1>2. Entry("io", "ok", 0) \in Sound /\ Entry("io", "ok", 0).op = "io"
  BY EntryTypes DEF Kinds, Carrying
<1>3. QED BY <1>1, <1>2, CallTypes DEF Neutral

LEMMA WaitingType == QueueTypes => Waiting \in Seq(Sound)
  BY ConcatProperties DEF QueueTypes, Waiting

\* The strand's own steps and the reports of the descriptor move things along
\* and lose none.
MoveSteps == RunInvoker \/ RunNext \/ InvokerExit \/ TakeCompletion \/ ReportError \/ ReportReady

LEMMA MoveStep ==
    ASSUME QueueTypes, NEW S, Neutral(S), MoveSteps
    PROVE  (In(S)' <=> In(S)) /\ (One(S) => One(S)')
<1>1. ready \in Seq(Sound) /\ strandReady \in Seq(Sound) /\ strandWaiting \in Seq(Sound)
      /\ Waiting \in Seq(Sound)
  BY WaitingType DEF QueueTypes
<1>2. CASE RunInvoker
  <2>1. /\ ready # <<>> /\ Head(ready).op = "invoker" /\ ready' = Tail(ready)
        /\ call' = call /\ UNCHANGED <<strandReady, strandWaiting>>
    BY <1>2 DEF RunInvoker, strand
  <2>2. Waiting' = Waiting
    BY <2>1 DEF Waiting
  <2>3. /\ Has(ready, S) <=> Head(ready) \in S \/ Has(ready', S)
        /\ Few(ready, S) => Few(ready', S)
    BY <1>1, <2>1, HasTail
  <2>4. Head(ready) \notin S
    BY <2>1 DEF Neutral
  <2>5. QED BY <2>1, <2>2, <2>3, <2>4 DEF In, One
<1>3. CASE RunNext
  <2>1. /\ call = NoCall /\ strandReady # <<>> /\ call' = Head(strandReady)
        /\ strandReady' = Tail(strandReady) /\ UNCHANGED <<ready, strandWaiting>>
    BY <1>3 DEF RunNext
  <2>2. /\ Has(strandReady, S) <=> call' \in S \/ Has(strandReady', S)
        /\ Tail(strandReady) \in Seq(Sound)
    BY <1>1, <2>1, HasTail
  <2>3. Waiting # <<>> /\ Head(Waiting) = call' /\ Waiting' = Tail(Waiting)
    <3> USE DEF Waiting
    <3>1. Head(strandReady \o strandWaiting) = Head(strandReady)
      BY <1>1, <2>1
    <3>2. Tail(strandReady \o strandWaiting) = Tail(strandReady) \o strandWaiting
      BY <1>1, <2>1
    <3>3. strandReady \o strandWaiting # <<>>
      BY <1>1, <2>1, ConcatEqualIffEmpty
    <3>4. QED BY <2>1, <3>1, <3>2, <3>3, Zenon
  <2>4. /\ Has(Waiting, S) <=> call' \in S \/ Has(Waiting', S)
        /\ Few(Waiting, S) => Few(Waiting', S) /\ (call' \in S => ~Has(Waiting', S))
    BY <1>1, <2>3, HasTail
  <2>5. call \notin S
    BY <2>1, OwnEntries
  <2>6. QED BY <2>1, <2>4, <2>5 DEF In, One
<1>4. CASE InvokerExit
  <2>1. /\ strandReady = <<>> /\ strandReady' = strandWaiting /\ strandWaiting' = <<>>
        /\ ready' = ready \/ ready' = Append(ready, Invoker)
        /\ call' = call
    BY <1>4 DEF InvokerExit
  <2>2. Waiting' = Waiting
    BY <1>1, <2>1, ConcatEmptySeq DEF Waiting
  <2>3. /\ Has(Append(ready, Invoker), S) <=> Has(ready, S)
        /\ Few(ready, S) => Few(Append(ready, Invoker), S)
    BY <1>1, OwnEntries, HasAppend
  <2>4. QED BY <2>1, <2>2, <2>3 DEF In, One
<1>5. CASE TakeCompletion
  <2>1. /\ ready # <<>> /\ call = NoCall /\ Dispatch(Head(ready), Tail(ready))
    BY <1>5 DEF TakeCompletion, Between
  <2>2. /\ Head(ready) \in Sound /\ Tail(ready) \in Seq(Sound)
        /\ Has(ready, S) <=> Head(ready) \in S \/ Has(Tail(ready), S)
        /\ Few(ready, S) => /\ Few(Tail(ready), S)
                            /\ Head(ready) \in S => ~Has(Tail(ready), S)
    BY <1>1, <2>1, HasTail
  <2>3. /\ ready' = Tail(ready) /\ call' = call /\ Waiting' = Append(Waiting, Head(ready))
    BY <2>1, <2>2, DispatchAppends DEF Dispatch
  <2>4. /\ Has(Waiting', S) <=> Has(Waiting, S) \/ Head(ready) \in S
        /\ Few(Waiting, S) /\ ~(Has(Waiting, S) /\ Head(ready) \in S) => Few(Waiting', S)
    BY <1>1, <2>2, <2>3, HasAppend
  <2>5. call \notin S
    BY <2>1, OwnEntries
  <2>6. QED BY <2>2, <2>3, <2>4, <2>5 DEF In, One
<1>6. CASE ReportError \/ ReportReady
  <2>1. /\ ready' = Append(ready, Entry("io", "ok", 0)) /\ call' = call
        /\ UNCHANGED <<strandReady, strandWaiting>>
    BY <1>6 DEF ReportError, ReportReady, Report, strand, thread
  <2>2. Waiting' = Waiting
    BY <2>1 DEF Waiting
  <2>3. /\ Has(ready', S) <=> Has(ready, S)
        /\ Few(ready, S) => Few(ready', S)
    BY <1>1, <2>1, OwnEntries, HasAppend
  <2>4. QED BY <2>1, <2>2, <2>3 DEF In, One
<1>7. QED BY <1>2, <1>3, <1>4, <1>5, <1>6 DEF MoveSteps

\* Posting f to the strand adds f and nothing else.
LEMMA PostStep ==
    ASSUME QueueTypes, NEW S, Neutral(S), NEW f \in Sound, Post(f)
    PROVE  /\ Has(ready', S) <=> Has(ready, S)
           /\ Few(ready, S) => Few(ready', S)
           /\ Has(Waiting', S) <=> Has(Waiting, S) \/ f \in S
           /\ Few(Waiting, S) /\ ~(Has(Waiting, S) /\ f \in S) => Few(Waiting', S)
<1>1. ready \in Seq(Sound) /\ Waiting \in Seq(Sound) /\ Waiting' = Append(Waiting, f)
  BY PostAppends DEF QueueTypes
<1>2. ready' = ready \/ ready' = Append(ready, Invoker)
  BY DEF Post
<1>3. /\ Has(Append(ready, Invoker), S) <=> Has(ready, S)
      /\ Few(ready, S) => Few(Append(ready, Invoker), S)
  BY <1>1, OwnEntries, HasAppend
<1>4. /\ Has(Waiting', S) <=> Has(Waiting, S) \/ f \in S
      /\ Few(Waiting, S) /\ ~(Has(Waiting, S) /\ f \in S) => Few(Waiting', S)
  BY <1>1, HasAppend
<1>5. QED BY <1>2, <1>3, <1>4

\* A completion in the queue adds itself.
LEMMA QueueStep ==
    ASSUME QueueTypes, NEW S, NEW e \in Sound, ready' \in {ready, Append(ready, e)},
           UNCHANGED <<strandReady, strandWaiting>>
    PROVE  /\ Has(ready, S) => Has(ready', S)
           /\ Has(ready', S) => Has(ready, S) \/ e \in S
           /\ Few(ready, S) /\ ~(Has(ready, S) /\ e \in S) => Few(ready', S)
           /\ Waiting' = Waiting
<1>1. ready \in Seq(Sound) /\ Waiting' = Waiting
  BY DEF QueueTypes, Waiting
<1>2. /\ Has(Append(ready, e), S) <=> Has(ready, S) \/ e \in S
      /\ Few(ready, S) /\ ~(Has(ready, S) /\ e \in S) => Few(Append(ready, e), S)
  BY <1>1, HasAppend
<1>3. QED BY <1>1, <1>2

\* The completions c that the descriptor's entry makes.
LEMMA PerformStep ==
    ASSUME QueueTypes, NEW S, Neutral(S), NEW c \in Seq(Sound),
           ready # <<>>, Head(ready).op = "io", call = NoCall,
           IF c = <<>>
           THEN ready' = Tail(ready) /\ UNCHANGED <<strand, thread>>
           ELSE Dispatch(Head(c), Tail(ready) \o Tail(c))
    PROVE  /\ In(S)' <=> In(S) \/ Has(c, S)
           /\ One(S) /\ Few(c, S) /\ ~(In(S) /\ Has(c, S)) => One(S)'
<1>1. ready \in Seq(Sound) /\ Waiting \in Seq(Sound) /\ call \notin S /\ Head(ready) \notin S
  BY WaitingType, OwnEntries DEF QueueTypes, Neutral
<1>2. /\ Tail(ready) \in Seq(Sound) /\ (Has(Tail(ready), S) <=> Has(ready, S))
      /\ (Few(ready, S) => Few(Tail(ready), S))
  BY <1>1, HasTail
<1>3. CASE c = <<>>
  <2>1. ready' = Tail(ready) /\ call' = call /\ Waiting' = Waiting
    BY <1>3 DEF strand, thread, Waiting
  <2>2. ~Has(c, S)
    BY <1>3, HasNone
  <2>3. QED BY <1>1, <1>2, <2>1, <2>2 DEF In, One
<1>4. CASE c # <<>>
  <2>1. /\ Head(c) \in Sound /\ Tail(c) \in Seq(Sound)
        /\ Has(c, S) <=> Head(c) \in S \/ Has(Tail(c), S)
        /\ Few(c, S) => Few(Tail(c), S) /\ (Head(c) \in S => ~Has(Tail(c), S))
    BY <1>4, HasTail
  <2> DEFINE q == Tail(ready) \o Tail(c)
  <2>2. /\ q \in Seq(Sound)
        /\ Has(q, S) <=> Has(Tail(ready), S) \/ Has(Tail(c), S)
        /\ Few(Tail(ready), S) /\ Few(Tail(c), S) /\ ~(Has(Tail(ready), S) /\ Has(Tail(c), S))
             => Few(q, S)
    BY <1>2, <2>1, HasConcat
  <2>3. Dispatch(Head(c), q)
    BY <1>4
  <2> HIDE DEF q
  <2>4. ready' = q /\ call' = call /\ Waiting' = Append(Waiting, Head(c))
    BY <2>1, <2>2, <2>3, DispatchAppends DEF Dispatch
  <2>5. /\ Has(Waiting', S) <=> Has(Waiting, S) \/ Head(c) \in S
        /\ Few(Waiting, S) /\ ~(Has(Waiting, S) /\ Head(c) \in S) => Few(Waiting', S)
    BY <1>1, <2>1, <2>4, HasAppend, ZenonT(30)
  <2>6. QED BY <1>1, <1>2, <2>1, <2>2, <2>4, <2>5 DEF In, One
<1>5. QED BY <1>3, <1>4

-----------------------------------------------------------------------------
(* TypeOK: that no second read starts is what is hard.  Of the session's      *)
(* chain of reads at most one link is about: a pending operation, its         *)
(* completion, or the call that starts the next.                              *)

Reading == {e \in SoundCalls : e.op = "start_read" \/ (e.op = "read" /\ e.ec = "ok")}
Closing == {e \in SoundCalls : e.op = "close"}

\* The io thread runs nothing any more, even if start() runs another.
Dead == ioStopped /\ call = NoCall /\ ~inStrand
Starting == owner \in {"fresh", "spawn", "mark"}

Chain ==
    /\ running \/ Starting => ~In(Closing)
    /\ running \/ owner \in {"spawn", "mark"} \/ Stuck => open
    /\ One(Reading)
    /\ reads > 0 => ~In(Reading)

LifeInv ==
    /\ running => owner \in {"up", "post", "gone"}
    /\ owner = "fresh" => ~In(Reading)
    /\ owner = "join" => ioStopped
    /\ io = "exited" => Dead
    /\ owner = "down" => Dead \/ Stuck
    /\ reads <= 1
    /\ ~open => reads = 0
    /\ life = "alive" => Dead \/ Chain

LEMMA Kept ==
    ASSUME NEW S \in {Reading, Closing}
    PROVE  /\ Neutral(S)
           /\ \A e : e.op \in {"send", "write", "io", "none", "stop_wait"} => e \notin S
           /\ \A e : e.op = "close" => e \notin Reading
           /\ \A e : e.op # "start_read" /\ e.ec \in {"error", "aborted"} => e \notin Reading
           /\ \A e : e.op \in {"read", "start_read"} => e \notin Closing
  BY DEF Reading, Closing, Neutral

\* What follows adds nothing to S.
Keeps(S) == (In(S)' => In(S)) /\ (One(S) => One(S)')

LEMMA PostKeeps ==
    ASSUME QueueTypes, NEW S, Neutral(S), NEW f \in Sound, f \notin S, Post(f),
           call' \in S => call \in S
    PROVE  Keeps(S)
<1>1. /\ Has(ready', S) <=> Has(ready, S)
      /\ Few(ready, S) => Few(ready', S)
      /\ Has(Waiting', S) <=> Has(Waiting, S)
      /\ Few(Waiting, S) => Few(Waiting', S)
  BY PostStep
<1>2. QED BY <1>1 DEF Keeps, In, One

LEMMA QueueKeeps ==
    ASSUME QueueTypes, NEW S, NEW e \in Sound, e \notin S, ready' \in {ready, Append(ready, e)},
           UNCHANGED <<strandReady, strandWaiting>>, call' \in S => call \in S
    PROVE  Keeps(S)
<1>1. /\ Has(ready', S) <=> Has(ready, S)
      /\ Few(ready, S) => Few(ready', S)
      /\ Waiting' = Waiting
  BY QueueStep
<1>2. QED BY <1>1 DEF Keeps, In, One

\* Steps that leave the queues and the call alone.
IdleSteps ==
    \/ LineFails \/ IoExit \/ SpawnThread \/ MarkRunning \/ StopCheck \/ StopWait \/ StopJoin
    \/ OwnerLetsGo \/ (\E t \in Senders : SendCheck(t) \/ SenderLetsGo(t))
    \/ Destructor \/ Ended \/ UNCHANGED vars

LEMMA IdleKeeps ==
    ASSUME IdleSteps
    PROVE  /\ UNCHANGED <<ready, strandReady, strandWaiting, locked, call, inStrand, reads, writes,
                          sends, data, starts, begun, done>>
           /\ \A S : Keeps(S)
<1>1. UNCHANGED <<ready, strandReady, strandWaiting, locked, call, inStrand, reads, writes,
                  sends, data, starts, begun, done>>
  BY DEF IdleSteps, LineFails, IoExit, SpawnThread, MarkRunning, StopCheck, StopWait, StopJoin,
         OwnerLetsGo, SendCheck, SenderLetsGo, Destructor, Ended, vars, port, strand, history,
         thread, counts
<1>2. QED BY <1>1 DEF Keeps, In, One, Waiting

LEMMA WritesKeep ==
    ASSUME QueueTypes, NEW S \in {Reading, Closing}, OnSend \/ WriteOn
    PROVE  Keeps(S)
<1>1. /\ call.op \in Carrying /\ call' = NoCall /\ UNCHANGED <<strandReady, strandWaiting>>
      /\ BeginWrite(call.msg) \/ ready' = ready
  BY DEF OnSend, WriteOn, Step, strand, Carrying
<1>2. call.msg \in Messages /\ call.msg \in Nat
  BY <1>1, CallMessage DEF Messages
<1>3. PICK e \in {Entry("write", "error", call.msg), Entry("write", "ok", call.msg)} :
          ready' \in {ready, Append(ready, e)}
  BY <1>1 DEF BeginWrite
<1>4. e \in Sound /\ e.op = "write"
  BY <1>2, <1>3, EntryTypes DEF Kinds, Carrying
<1>5. e \notin S /\ NoCall \notin S /\ Neutral(S)
  BY <1>4, Kept, CallTypes
<1>6. QED BY <1>1, <1>3, <1>4, <1>5, QueueKeeps, Zenon

LEMMA SendPostKeeps ==
    ASSUME QueueTypes, NEW S \in {Reading, Closing}, NEW t \in Senders, SendPost(t)
    PROVE  Keeps(S)
<1>1. UNCHANGED call
  BY DEF SendPost, thread
<1>2. CASE sends < MaxSends
  <2> DEFINE f == Entry("send", "ok", sends + 1)
  <2>1. Post(f)
    BY <1>2 DEF SendPost
  <2>2. f \in Sound /\ f.op = "send"
    BY <1>2, SerialBounds, EntryTypes DEF Kinds, Carrying, Messages, QueueTypes
  <2> HIDE DEF f
  <2>3. f \notin S /\ Neutral(S)
    BY <2>2, Kept
  <2>4. QED BY <1>1, <2>1, <2>2, <2>3, PostKeeps
<1>3. CASE ~(sends < MaxSends)
  BY <1>1, <1>3 DEF SendPost, strand, Keeps, In, One, Waiting
<1>4. QED BY <1>2, <1>3

LEMMA CloseType == Entry("close", "ok", 0) \in Sound /\ Entry("close", "ok", 0).op = "close"
  BY EntryTypes DEF Kinds, Carrying

LEMMA StopPostKeeps == ASSUME QueueTypes, StopPost PROVE Keeps(Reading)
<1>1. Post(Entry("close", "ok", 0)) /\ call' = call
  BY DEF StopPost, thread
<1>2. QED BY <1>1, CloseType, Kept, PostKeeps

\* The callback may post; the next read is called only if this one succeeded.
LEMMA CallsBackKeeps ==
    ASSUME QueueTypes, CallsBack
    PROVE  Keeps(Reading) /\ (CallbackStop \/ (Keeps(Closing) /\ running' = running /\ ~Stuck'))
<1>1. call.op \in {"read", "write"} /\ call \in SoundCalls
  BY DEF CallsBack, Step, QueueTypes
<1>2. CASE CallbackStop
  <2>1. Post(Entry("close", "ok", 0)) /\ call'.op = "stop_wait"
    BY <1>2 DEF CallbackStop, NoCall, Entry
  <2>2. call' \notin Reading
    BY <2>1, Kept
  <2>3. QED BY <1>2, <2>1, <2>2, CloseType, Kept, PostKeeps
<1>3. CASE ~CallbackStop
  <2>1. /\ \/ call' = NoCall
           \/ /\ call' = [NoCall EXCEPT !.op = "start_read"]
              /\ call.op = "read" /\ call.ec = "ok"
        /\ CallbackSends \/ UNCHANGED <<running, sends, strand, ready>>
        /\ running' = running
    BY <1>3 DEF CallsBack, CallbackSends
  <2>2. /\ call'.op \in {"none", "start_read"}
        /\ call'.op = "start_read" => call.op = "read" /\ call.ec = "ok"
    BY <2>1, CallTypes DEF NoCall, Entry
  <2>3. /\ call' \in Reading => call \in Reading
        /\ call' \in Closing => call \in Closing
    BY <1>1, <2>2 DEF Reading, Closing
  <2>4. CASE CallbackSends
    <3> DEFINE f == Entry("send", "ok", sends + 1)
    <3>1. Post(f) /\ sends < MaxSends
      BY <2>4 DEF CallbackSends
    <3>2. f \in Sound /\ f.op = "send"
      BY <3>1, SerialBounds, EntryTypes DEF Kinds, Carrying, Messages, QueueTypes
    <3> HIDE DEF f
    <3>3. f \notin Reading /\ f \notin Closing /\ Neutral(Reading) /\ Neutral(Closing)
      BY <3>2, Kept
    <3>4. Keeps(Reading) /\ Keeps(Closing)
      BY <2>3, <3>1, <3>2, <3>3, PostKeeps
    <3>5. QED BY <2>1, <2>2, <3>4 DEF Stuck
  <2>5. CASE UNCHANGED <<running, sends, strand, ready>>
    <3>1. Keeps(Reading) /\ Keeps(Closing)
      BY <2>3, <2>5 DEF Keeps, In, One, Waiting, strand
    <3>2. QED BY <2>1, <2>2, <3>1 DEF Stuck
  <2>6. QED BY <2>1, <2>4, <2>5
<1>4. QED BY <1>2, <1>3

\* What was pending on the port is aborted.
LEMMA OnCloseKeeps ==
    ASSUME QueueTypes, OnClose, NEW S, Neutral(S),
           \A e : e.op \in {"read", "write"} /\ e.ec = "aborted" => e \notin S
    PROVE  Keeps(S)
<1> DEFINE r == [i \in 1..reads |-> Entry("read", "aborted", 0)]
           w == [i \in 1..Len(writes) |-> Entry("write", "aborted", writes[i])]
<1>1. /\ call' = NoCall /\ UNCHANGED <<strandReady, strandWaiting>>
      /\ ready' = ready \o r \o w
  BY DEF OnClose, strand
<1>2. /\ Len(writes) \in Nat /\ reads \in Nat /\ ready \in Seq(Sound)
      /\ \A i \in 1..Len(writes) : writes[i] \in Messages
  BY LenProperties, ElementOfSeq DEF QueueTypes
<1>3. /\ \A i \in 1..Len(writes) : w[i] \in Sound /\ w[i].op = "write" /\ w[i].ec = "aborted"
      /\ \A i \in 1..reads : r[i] \in Sound /\ r[i].op = "read" /\ r[i].ec = "aborted"
  BY <1>2, EntryTypes DEF Kinds, Carrying, Messages
<1>4. r \in Seq(Sound) /\ w \in Seq(Sound) /\ Len(r) = reads /\ Len(w) = Len(writes)
  BY <1>2, <1>3, IsASeq
<1> HIDE DEF r, w
<1>5. (\A i \in 1..Len(w) : w[i] \notin S) /\ (\A i \in 1..Len(r) : r[i] \notin S)
  BY <1>3, <1>4
<1>6. ~Has(r, S) /\ ~Has(w, S) /\ Few(r, S) /\ Few(w, S)
  BY <1>5 DEF Has, Few
<1>7. /\ ready \o r \in Seq(Sound)
      /\ Has(ready \o r, S) <=> Has(ready, S)
      /\ Few(ready, S) => Few(ready \o r, S)
  BY <1>2, <1>4, <1>6, HasConcat
<1>8. /\ Has(ready \o r \o w, S) <=> Has(ready, S)
      /\ Few(ready, S) => Few(ready \o r \o w, S)
  BY <1>4, <1>6, <1>7, HasConcat
<1>9. Waiting' = Waiting /\ call' \notin S
  BY <1>1, OwnEntries DEF Waiting
<1>10. QED BY <1>1, <1>8, <1>9 DEF Keeps, In, One

\* The port is read again: one link follows the other.
LEMMA StartReadLinks ==
    ASSUME QueueTypes, StartRead, reads = 0, One(Reading)
    PROVE  /\ reads' \in {0, 1} /\ One(Reading)' /\ (reads' > 0 => open /\ ~In(Reading)')
           /\ open' = open /\ Keeps(Closing) /\ ~Stuck'
<1>1. /\ call.op = "start_read" /\ call' = NoCall /\ UNCHANGED <<strandReady, strandWaiting, open>>
      /\ BeginRead(ready)
  BY DEF StartRead, Step, strand
<1>2. call \in Reading
  BY <1>1 DEF Reading, QueueTypes
<1>3. ~Has(ready, Reading) /\ ~Has(Waiting, Reading) /\ Few(ready, Reading) /\ Few(Waiting, Reading)
  BY <1>2 DEF One
<1>4. call' \notin Reading /\ call' \notin Closing /\ ~Stuck'
  BY <1>1, Kept, CallTypes DEF Stuck
<1>5. PICK e \in {Entry("read", "error", 0), Entry("read", "ok", 0)} :
          /\ ready' \in {ready, Append(ready, e)}
          /\ reads' = reads \/ (reads' = reads + 1 /\ ready' = ready /\ open)
  BY <1>1 DEF BeginRead
<1>6. e \in Sound /\ e.op = "read"
  BY <1>5, EntryTypes DEF Kinds, Carrying
<1>7. Keeps(Closing)
  <2>1. e \notin Closing /\ Neutral(Closing)
    BY <1>6, Kept
  <2>2. QED BY <1>1, <1>4, <1>5, <1>6, <2>1, QueueKeeps, Zenon
<1>8. Few(ready', Reading) /\ Waiting' = Waiting
  BY <1>1, <1>3, <1>5, <1>6, QueueStep, Zenon
<1>9. One(Reading)'
  BY <1>3, <1>4, <1>8 DEF One
<1>10. reads' > 0 => open /\ ready' = ready
  BY <1>5
<1>11. reads' > 0 => ~In(Reading)'
  BY <1>3, <1>4, <1>8, <1>10 DEF In
<1>12. QED BY <1>1, <1>4, <1>5, <1>7, <1>9, <1>10, <1>11

\* start() reads the port that it has opened.
LEMMA OpenLinks ==
    ASSUME QueueTypes, Open, ~In(Reading), reads = 0, ~open
    PROVE  /\ reads' \in {0, 1} /\ (reads' > 0 => ~In(Reading)') /\ One(Reading)'
           /\ Keeps(Closing) /\ call' = call
<1>1. UNCHANGED <<strandReady, strandWaiting, call>>
  BY DEF Open, strand, thread
<1> DEFINE e == Entry("read", "ok", 0)
<1>2. /\ ready' \in {ready, Append(ready, e)}
      /\ reads' = reads \/ (reads' = reads + 1 /\ ready' = ready)
  BY DEF Open, port
<1>3. e \in Sound /\ e.op = "read"
  BY EntryTypes DEF Kinds, Carrying
<1> HIDE DEF e
<1>4. ~Has(ready, Reading) /\ ~Has(Waiting, Reading) /\ call \notin Reading
  BY DEF In
<1>5. Few(ready, Reading) /\ Few(Waiting, Reading)
  BY <1>4 DEF Has, Few
<1>6. Few(ready', Reading) /\ Waiting' = Waiting
  BY <1>1, <1>2, <1>3, <1>4, <1>5, QueueStep, Zenon
<1>7. Keeps(Closing)
  <2>1. e \notin Closing /\ Neutral(Closing)
    BY <1>3, Kept
  <2>2. QED BY <1>1, <1>2, <1>3, <2>1, QueueKeeps, Zenon
<1>8. One(Reading)'
  BY <1>1, <1>4, <1>5, <1>6 DEF One
<1>9. reads' > 0 => ~In(Reading)'
  <2>1. reads' > 0 => ready' = ready
    BY <1>2
  <2>2. QED BY <1>1, <1>4, <1>6, <2>1 DEF In
<1>10. QED BY <1>1, <1>2, <1>7, <1>8, <1>9

\* The descriptor's entry: one read at most is pending.
LEMMA CompletionsRead ==
    ASSUME QueueTypes, reads <= 1, NEW nw \in 0..Len(writes), NEW nr \in 0..reads,
           NEW ec \in {"ok", "error", "aborted"}
    PROVE  LET c == Completions(nw, nr, ec) IN
           /\ c \in Seq(Sound) /\ ~Has(c, Closing)
           /\ Few(c, Reading) /\ (Has(c, Reading) => nr = 1)
<1> DEFINE w == [i \in 1..nw |-> Entry("write", ec, writes[i])]
           r == [i \in 1..nr |-> Entry("read", ec, 0)]
<1>1. nw \in Nat /\ nr \in Nat /\ nr <= 1 /\ \A i \in 1..nw : writes[i] \in Messages
  <2>1. Len(writes) \in Nat /\ reads \in Nat /\ \A i \in 1..Len(writes) : writes[i] \in Messages
    BY LenProperties, ElementOfSeq DEF QueueTypes
  <2>2. QED BY <2>1
<1>2. /\ \A i \in 1..nw : w[i] \in Sound /\ w[i].op = "write"
      /\ \A i \in 1..nr : r[i] \in Sound /\ r[i].op = "read"
  BY <1>1, EntryTypes DEF Kinds, Carrying, Messages
<1>3. w \in Seq(Sound) /\ Len(w) = nw /\ r \in Seq(Sound) /\ Len(r) = nr
  BY <1>1, <1>2, IsASeq
<1>4. Completions(nw, nr, ec) = w \o r
  BY DEF Completions
<1> HIDE DEF w, r
<1>5. /\ \A i \in 1..Len(w) : w[i] \notin Reading /\ w[i] \notin Closing
      /\ \A i \in 1..Len(r) : r[i] \notin Closing
      /\ \A i, j \in 1..Len(r) : i = j
  BY <1>1, <1>2, <1>3, Kept
<1>6. /\ ~Has(w, Reading) /\ ~Has(w, Closing) /\ ~Has(r, Closing)
      /\ Few(w, Reading) /\ Few(r, Reading)
  BY <1>5 DEF Has, Few
<1>7. Has(r, Reading) => nr = 1
  BY <1>1, <1>3 DEF Has
<1>8. /\ w \o r \in Seq(Sound) /\ ~Has(w \o r, Closing) /\ Few(w \o r, Reading)
      /\ Has(w \o r, Reading) => Has(r, Reading)
  BY <1>3, <1>6, HasConcat
<1>9. QED BY <1>4, <1>7, <1>8

LEMMA PerformIoLinks ==
    ASSUME QueueTypes, PerformIo, reads <= 1
    PROVE  /\ reads' \in Nat /\ reads' <= reads /\ Keeps(Closing) /\ call' = call /\ open' = open
           /\ One(Reading) /\ (reads > 0 => ~In(Reading)) =>
                One(Reading)' /\ (reads' > 0 => ~In(Reading)')
<1>1. PICK nw \in 0..Len(writes), nr \in 0..reads :
        LET Complete == Completions(nw, nr, IF lost THEN "error" ELSE "ok") IN
        /\ reads' = reads - nr
        /\ IF Complete = <<>>
           THEN ready' = Tail(ready) /\ UNCHANGED <<strand, thread>>
           ELSE Dispatch(Head(Complete), Tail(ready) \o Tail(Complete))
  BY DEF PerformIo
<1> DEFINE c == Completions(nw, nr, IF lost THEN "error" ELSE "ok")
<1>2. ready # <<>> /\ Head(ready).op = "io" /\ call = NoCall /\ open' = open
  BY DEF PerformIo, Between
<1>3. c \in Seq(Sound) /\ ~Has(c, Closing) /\ Few(c, Reading) /\ (Has(c, Reading) => nr = 1)
  BY CompletionsRead
<1>4. call' = call
  BY <1>1 DEF Dispatch, thread
<1>5. reads \in Nat /\ nr \in Nat /\ reads' \in Nat /\ reads' <= reads
      /\ (nr = 1 => reads > 0 /\ reads' = 0) /\ (reads' > 0 => reads > 0)
  BY <1>1 DEF QueueTypes
<1>6. IF c = <<>>
      THEN ready' = Tail(ready) /\ UNCHANGED <<strand, thread>>
      ELSE Dispatch(Head(c), Tail(ready) \o Tail(c))
  BY <1>1
<1> HIDE DEF c
<1>7. /\ In(Closing)' <=> In(Closing) \/ Has(c, Closing)
      /\ One(Closing) /\ Few(c, Closing) /\ ~(In(Closing) /\ Has(c, Closing)) => One(Closing)'
  BY <1>2, <1>3, <1>6, Kept, PerformStep
<1>8. /\ In(Reading)' <=> In(Reading) \/ Has(c, Reading)
      /\ One(Reading) /\ Few(c, Reading) /\ ~(In(Reading) /\ Has(c, Reading)) => One(Reading)'
  BY <1>2, <1>3, <1>6, Kept, PerformStep
<1>9. Keeps(Closing)
  BY <1>3, <1>7 DEF Keeps, Has, Few
<1>10. QED BY <1>2, <1>3, <1>4, <1>5, <1>8, <1>9

\* A dead loop and a callback in stop() stay what they are.
LEMMA Stays ==
    ASSUME QueueTypes, [Next]_vars
    PROVE  (Dead => Dead') /\ (Stuck => Stuck') /\ (Stuck' => Stuck \/ CallbackStop)
<1>0. NoCall.op = "none"
  BY CallTypes
<1>1. CASE RunNext
  <2>1. call = NoCall /\ inStrand /\ call' \in Sound
    BY <1>1, HeadTailProperties DEF RunNext, QueueTypes
  <2>2. call'.op # "stop_wait"
    BY <2>1, EntryFields DEF Kinds
  <2>3. QED BY <1>0, <2>1, <2>2 DEF Dead, Stuck
<1>2. CASE RunInvoker \/ TakeCompletion \/ PerformIo \/ ReportError \/ ReportReady
  <2>1. ~ioStopped /\ call' = call
    BY <1>2 DEF RunInvoker, TakeCompletion, PerformIo, ReportError, ReportReady, Report, Between,
         Dispatch, thread
  <2>2. QED BY <2>1 DEF Dead, Stuck
<1>3. CASE InvokerExit
  BY <1>3 DEF InvokerExit, Dead, Stuck
<1>4. CASE OnSend \/ WriteOn \/ StartRead \/ OnClose
  <2>1. call.op \in {"send", "write", "start_read", "close"} /\ call' = NoCall
    BY <1>4 DEF OnSend, WriteOn, StartRead, OnClose, Step
  <2>2. QED BY <1>0, <2>1 DEF Dead, Stuck
<1>5. CASE CallsBack
  <2>1. call.op \in {"read", "write"}
    BY <1>5 DEF CallsBack, Step
  <2>2. CallbackStop \/ ~Stuck'
    BY <1>5, CallsBackKeeps
  <2>3. QED BY <1>0, <2>1, <2>2 DEF Dead, Stuck
<1>6. CASE IdleSteps
  <2>1. UNCHANGED <<call, inStrand>>
    BY <1>6, IdleKeeps
  <2>2. ioStopped => ioStopped'
    BY <1>6 DEF IdleSteps, LineFails, IoExit, SpawnThread, MarkRunning, StopCheck, StopWait,
         StopJoin, OwnerLetsGo, SendCheck, SenderLetsGo, Destructor, Ended, vars, loop
  <2>3. QED BY <2>1, <2>2 DEF Dead, Stuck
<1>7. CASE Open \/ StopPost \/ \E t \in Senders : SendPost(t)
  <2>1. UNCHANGED <<call, inStrand, ioStopped>>
    BY <1>7 DEF Open, StopPost, SendPost, thread, loop
  <2>2. QED BY <2>1 DEF Dead, Stuck
<1>8. QED
  BY HandlerCases, <1>1, <1>2, <1>3, <1>4, <1>5, <1>6, <1>7
     DEF Next, IoThread, Owner, OwnerStops, Sender, IdleSteps

\* A step that adds nothing and changes none of the state LifeInv is about.
LEMMA LifeFrame ==
    ASSUME LifeInv, UNCHANGED <<running, open, reads, owner, io, ioStopped, life>>,
           Keeps(Reading), Keeps(Closing), Dead => Dead', Stuck' <=> Stuck
    PROVE  LifeInv'
<1>1. Starting' = Starting
  BY DEF Starting
<1>2. Chain => Chain'
  BY <1>1 DEF Chain, Keeps
<1>3. QED BY <1>2 DEF LifeInv, Keeps

LEMMA LifeHandlers ==
    ASSUME QueueTypes, ThreadOwned, LifeInv, life = "alive", CallsBack \/ StartRead \/ OnClose,
           Dead => Dead', Stuck => Stuck', Stuck' => Stuck \/ CallbackStop
    PROVE  LifeInv'
<1>1. /\ call.op \in {"read", "write", "start_read", "close"} /\ io = "running" /\ NoCall.op = "none"
      /\ UNCHANGED <<owner, io, ioStopped, life>>
  BY CallTypes DEF CallsBack, StartRead, OnClose, Step, loop, clients
<1>2. ~Dead /\ ~Stuck /\ Chain /\ owner # "fresh" /\ (running => ~Starting)
  BY <1>1 DEF Dead, Stuck, LifeInv, ThreadOwned, Starting
<1>3. Starting' = Starting
  BY <1>1 DEF Starting
<1>4. io # "exited" /\ owner # "down"
  BY <1>1, <1>2 DEF LifeInv
<1>5. CASE CallsBack /\ ~CallbackStop
  <2>1. Keeps(Reading) /\ Keeps(Closing) /\ ~Stuck' /\ UNCHANGED <<running, open, reads>>
    BY <1>5, CallsBackKeeps DEF CallsBack, port
  <2>2. QED BY <1>1, <1>2, <2>1, LifeFrame
<1>6. CASE CallsBack /\ CallbackStop
  <2>1. Keeps(Reading) /\ running /\ running' = FALSE /\ UNCHANGED <<open, reads>>
    BY <1>6, CallsBackKeeps DEF CallsBack, CallbackStop, port
  <2>2. Chain'
    BY <1>2, <1>3, <2>1 DEF Chain, Keeps
  <2>3. QED BY <1>1, <1>2, <1>4, <2>1, <2>2 DEF LifeInv
<1>7. CASE StartRead
  <2>1. running' = running /\ ~CallbackStop
    BY <1>7, <1>1, CallTypes DEF StartRead, CallbackStop, NoCall, Entry
  <2>2. call \in Reading
    BY <1>7 DEF StartRead, Step, Reading, QueueTypes
  <2>3. reads = 0 /\ One(Reading)
    BY <1>2, <2>2 DEF Chain, In, QueueTypes
  <2>4. /\ reads' \in {0, 1} /\ One(Reading)' /\ (reads' > 0 => open /\ ~In(Reading)')
        /\ open' = open /\ Keeps(Closing) /\ ~Stuck'
    BY <1>7, <2>3, StartReadLinks
  <2>5. Chain'
    BY <1>2, <1>3, <1>1, <2>1, <2>4 DEF Chain, Keeps
  <2>6. QED BY <1>1, <1>2, <1>4, <2>1, <2>4, <2>5 DEF LifeInv
<1>8. CASE OnClose
  <2>1. /\ call.op = "close" /\ call' = NoCall /\ reads' = 0 /\ open' = FALSE /\ running' = running
    BY <1>8 DEF OnClose, Step
  <2>2. In(Closing)
    BY <2>1 DEF In, Closing, QueueTypes
  <2>3. ~running /\ ~Starting /\ ~Stuck'
    BY <1>1, <1>2, <2>1, <2>2 DEF Chain, Stuck
  <2>4. Keeps(Reading)
    BY <1>8, Kept, OnCloseKeeps
  <2>5. Chain'
    BY <1>1, <1>2, <1>3, <2>1, <2>3, <2>4 DEF Chain, Keeps, Starting
  <2>6. QED BY <1>1, <1>2, <1>4, <2>1, <2>3, <2>5 DEF LifeInv
<1>9. QED BY <1>5, <1>6, <1>7, <1>8

\* The steps of the owner, of the object, and the end of the thread.
LEMMA LifeOwner ==
    ASSUME QueueTypes, ThreadOwned, LifeInv, life = "alive",
           IoExit \/ SpawnThread \/ MarkRunning \/ StopCheck \/ StopWait \/ StopJoin \/ OwnerLetsGo
             \/ Destructor,
           Dead => Dead', Stuck => Stuck'
    PROVE  LifeInv'
<1>1. /\ UNCHANGED <<call, inStrand, reads>> /\ Keeps(Reading) /\ Keeps(Closing)
  BY IdleKeeps DEF IdleSteps
<1>2. Stuck' <=> Stuck
  BY <1>1 DEF Stuck
<1>3. CASE IoExit
  <2>1. Dead /\ UNCHANGED <<running, open, owner, ioStopped, life>>
    BY <1>3 DEF IoExit, Dead, port, clients
  <2>2. QED BY <1>1, <2>1 DEF LifeInv, Keeps
<1>4. CASE SpawnThread \/ MarkRunning
  <2>1. /\ UNCHANGED <<open, ioStopped, life>> /\ Starting /\ owner' \in {"mark", "up"}
        /\ io' \in {io, "running"} /\ running' \in {running, TRUE}
        /\ owner' = "mark" => owner = "spawn" /\ running' = running
        /\ owner \in {"spawn", "mark"}
    BY <1>4 DEF SpawnThread, MarkRunning, port, loop, Starting
  <2>2. ~running
    BY <2>1 DEF LifeInv
  <2>3. Chain => Chain'
    BY <1>1, <1>2, <2>1 DEF Chain, Keeps
  <2>4. running' => owner' \in {"up", "post", "gone"}
    BY <2>1, <2>2
  <2>5. QED BY <1>1, <2>1, <2>3, <2>4 DEF LifeInv
<1>5. CASE StopCheck \/ StopWait \/ StopJoin \/ OwnerLetsGo
  <2>1. /\ UNCHANGED <<running, open, io, life>>
        /\ owner' \in {"post", "down", "join", "gone"}
    BY <1>5 DEF StopCheck, StopWait, StopJoin, OwnerLetsGo, port, loop
  <2>2. Chain => Chain'
    BY <1>1, <1>2, <2>1 DEF Chain, Keeps, Starting
  <2>3. owner' = "down" => (Dead \/ Stuck) /\ ~running
    BY <1>5 DEF StopCheck, StopWait, StopJoin, OwnerLetsGo, LifeInv, ThreadOwned
  <2>4. owner' = "join" => ioStopped' /\ ~running
    BY <1>5 DEF StopCheck, StopWait, StopJoin, OwnerLetsGo, LifeInv
  <2>5. QED BY <1>1, <1>2, <2>1, <2>2, <2>3, <2>4 DEF LifeInv
<1>6. CASE Destructor
  <2>1. owner = "gone" /\ ~(reads > 0) /\ life' # "alive" /\ UNCHANGED <<running, owner, io, ioStopped>>
    BY <1>6 DEF Destructor, Held, loop, clients
  <2>2. QED BY <1>1, <1>2, <2>1 DEF LifeInv, QueueTypes
<1>7. QED BY <1>3, <1>4, <1>5, <1>6

LEMMA LifeNext == QueueTypes /\ ThreadOwned /\ LifeInv /\ [Next]_vars => LifeInv'
<1> SUFFICES ASSUME QueueTypes, ThreadOwned, LifeInv, [Next]_vars PROVE LifeInv'
  OBVIOUS
<1>1. (Dead => Dead') /\ (Stuck => Stuck') /\ (Stuck' => Stuck \/ CallbackStop)
  BY Stays
<1>2. Neutral(Reading) /\ Neutral(Closing)
  BY Kept
<1>3. ASSUME UNCHANGED <<running, open, reads, owner, io, ioStopped, life>>,
             Keeps(Reading), Keeps(Closing)
      PROVE  LifeInv'
  <2>1. CASE CallbackStop
    BY <1>3, <2>1 DEF CallbackStop, LifeInv, Chain
  <2>2. CASE ~CallbackStop
    BY <1>1, <1>3, <2>2, LifeFrame
  <2>3. QED BY <2>1, <2>2
<1>4. CASE MoveSteps
  <2>1. Keeps(Reading) /\ Keeps(Closing)
    BY <1>2, <1>4, MoveStep DEF Keeps
  <2>2. UNCHANGED <<running, open, reads, owner, io, ioStopped, life>>
    BY <1>4 DEF MoveSteps, RunInvoker, RunNext, InvokerExit, TakeCompletion, ReportError,
         ReportReady, Report, port, loop, clients
  <2>3. QED BY <1>3, <2>1, <2>2
<1>5. CASE OnSend \/ WriteOn
  <2>1. UNCHANGED <<running, open, reads, owner, io, ioStopped, life>>
    BY <1>5 DEF OnSend, WriteOn, loop, clients
  <2>2. QED BY <1>3, <1>5, <2>1, WritesKeep
<1>6. CASE life = "alive" /\ (CallsBack \/ StartRead \/ OnClose)
  BY <1>1, <1>6, LifeHandlers
<1>7. CASE life = "alive" /\ (IoExit \/ SpawnThread \/ MarkRunning \/ StopCheck \/ StopWait
             \/ StopJoin \/ OwnerLetsGo \/ Destructor)
  BY <1>1, <1>7, LifeOwner
<1>8. CASE life = "alive" /\ PerformIo
  <2>1. ~Dead /\ ~Stuck /\ io = "running" /\ UNCHANGED <<running, owner, io, ioStopped, life>>
    BY <1>8, CallTypes DEF PerformIo, Between, Dead, Stuck, loop, clients
  <2>2. Chain /\ owner # "fresh" /\ owner # "down" /\ reads <= 1
    BY <1>8, <2>1 DEF LifeInv, ThreadOwned
  <2>3. /\ reads' \in Nat /\ reads' <= reads /\ Keeps(Closing) /\ call' = call /\ open' = open
        /\ One(Reading)' /\ (reads' > 0 => ~In(Reading)')
    BY <1>8, <2>2, PerformIoLinks DEF Chain
  <2>4. Chain'
    BY <2>1, <2>2, <2>3 DEF Chain, Keeps, Starting, Stuck
  <2>5. QED BY <2>1, <2>2, <2>3, <2>4 DEF LifeInv, QueueTypes
<1>9. CASE StopPost
  <2>1. /\ running' = FALSE /\ owner' = "wait"
        /\ UNCHANGED <<open, reads, call, inStrand, io, ioStopped, life>>
    BY <1>9 DEF StopPost, port, thread
  <2>2. Chain => Chain'
    BY <1>9, <2>1, StopPostKeeps DEF Chain, Keeps, Starting, Stuck
  <2>3. QED BY <1>1, <2>1, <2>2 DEF LifeInv
<1>10. CASE life = "alive" /\ Open
  <2>1. /\ ~running /\ owner \in {"fresh", "down"}
        /\ UNCHANGED <<running, call, inStrand, io, ioStopped, life>>
    BY <1>10 DEF Open, loop, thread
  <2>2. CASE open
    <3>1. UNCHANGED <<open, reads, ready, owner, strandReady, strandWaiting>>
      BY <1>10, <2>2 DEF Open, port, strand
    <3>2. Keeps(Reading) /\ Keeps(Closing)
      BY <2>1, <3>1 DEF Keeps, In, One, Waiting
    <3>3. QED BY <1>3, <2>1, <3>1, <3>2
  <2>3. CASE ~open
    <3>1. reads = 0 /\ owner' \in {owner, "spawn"} /\ (open' \/ reads' = 0)
          /\ (owner' = "spawn" => open') /\ (owner' # "spawn" => UNCHANGED <<reads, ready>>)
      BY <1>10, <2>3 DEF Open, LifeInv, port
    <3>2. CASE owner = "fresh"
      <4>1. ~In(Reading)
        BY <3>2 DEF LifeInv
      <4>2. /\ reads' \in {0, 1} /\ (reads' > 0 => ~In(Reading)') /\ One(Reading)'
            /\ Keeps(Closing) /\ call' = call
        BY <1>10, <2>3, <3>1, <4>1, OpenLinks
      <4>3. owner' = "fresh" => ~In(Reading)'
        BY <1>10, <3>1, <4>1 DEF Open, strand, thread, In, Waiting
      <4>4. Chain => Chain'
        BY <2>1, <2>3, <3>1, <3>2, <4>2 DEF Chain, Keeps, Starting, Stuck
      <4>5. QED BY <1>1, <2>1, <3>1, <3>2, <4>2, <4>3, <4>4 DEF LifeInv
    <3>3. CASE owner = "down"
      <4>1. Dead
        BY <1>10, <2>3, <3>3 DEF LifeInv, Chain
      <4>2. reads' \in {0, 1}
        BY <1>10, <3>1 DEF Open, port
      <4>3. QED BY <1>1, <2>1, <3>1, <3>3, <4>1, <4>2 DEF LifeInv
    <3>4. QED BY <2>1, <3>2, <3>3
  <2>4. QED BY <2>2, <2>3
<1>11. CASE \E t \in Senders : SendPost(t)
  <2>1. UNCHANGED <<running, open, reads, owner, io, ioStopped, life>>
    BY <1>11 DEF SendPost, port, loop
  <2>2. QED BY <1>3, <1>11, <2>1, SendPostKeeps
<1>12. CASE LineFails \/ (\E t \in Senders : SendCheck(t) \/ SenderLetsGo(t)) \/ Ended
              \/ UNCHANGED vars
  <2>1. UNCHANGED <<running, open, reads, owner, io, ioStopped, life>>
    BY <1>12 DEF LineFails, SendCheck, SenderLetsGo, Ended, vars, port, loop, clients
  <2>2. Keeps(Reading) /\ Keeps(Closing)
    BY <1>12, IdleKeeps DEF IdleSteps
  <2>3. QED BY <1>3, <2>1, <2>2
<1>13. QED
  BY HandlerCases, <1>4, <1>5, <1>6, <1>7, <1>8, <1>9, <1>10, <1>11, <1>12
     DEF Next, IoThread, Owner, OwnerStops, Sender, MoveSteps

\* The parts of TypeOK that need nothing but themselves.
FlatTypes ==
    /\ running \in BOOLEAN /\ open \in BOOLEAN /\ lost \in BOOLEAN
    /\ done \in [Messages -> 0..Parts]
    /\ locked \in BOOLEAN /\ inStrand \in BOOLEAN
    /\ ioStopped \in BOOLEAN /\ io \in {"none", "running", "exited"} /\ closed \in BOOLEAN
    /\ owner \in {"fresh", "spawn", "mark", "up", "post", "wait", "join", "down", "gone"}
    /\ sender \in [Senders -> {"idle", "checked", "gone"}]
    /\ life \in {"alive", "destroyed", "crashed"}
    /\ data \in 0..MaxReads /\ starts \in 0..MaxStarts

LEMMA DoneTypes ==
    ASSUME FlatTypes, NEW m \in Messages, BeginWrite(m) PROVE done' \in [Messages -> 0..Parts]
<1>1. CASE done' = done
  BY <1>1 DEF FlatTypes
<1>2. ASSUME NEW d \in done[m] + 1 .. Parts, done' = [done EXCEPT ![m] = d]
      PROVE  done' \in [Messages -> 0..Parts]
  <2>1. done \in [Messages -> 0..Parts] /\ done[m] \in 0..Parts /\ Parts \in Nat
    BY SerialBounds DEF FlatTypes
  <2>2. d \in 0..Parts
    BY <2>1
  <2>3. QED BY <1>2, <2>1, <2>2
<1>3. QED BY <1>1, <1>2 DEF BeginWrite

LEMMA FlatTypesNext == QueueTypes /\ FlatTypes /\ [Next]_vars => FlatTypes'
<1> SUFFICES ASSUME QueueTypes, FlatTypes, [Next]_vars PROVE FlatTypes'
  OBVIOUS
<1> USE DEF port, strand, history, thread, loop, clients, counts
<1>1. CASE RunInvoker \/ RunNext \/ InvokerExit \/ ReportError \/ ReportReady
  <2>1. locked' \in BOOLEAN /\ inStrand' \in BOOLEAN
    BY <1>1 DEF RunInvoker, RunNext, InvokerExit, ReportError, ReportReady, Report, FlatTypes
  <2>2. UNCHANGED <<running, open, lost, done, ioStopped, io, closed, owner, sender, life, data,
                    starts>>
    BY <1>1 DEF RunInvoker, RunNext, InvokerExit, ReportError, ReportReady, Report
  <2>3. QED BY <2>1, <2>2 DEF FlatTypes
<1>2. CASE TakeCompletion
  <2>1. locked' \in BOOLEAN /\ inStrand' \in BOOLEAN
    BY <1>2 DEF TakeCompletion, Dispatch, FlatTypes
  <2>2. UNCHANGED <<running, open, lost, done, ioStopped, io, closed, owner, sender, life, data,
                    starts>>
    BY <1>2 DEF TakeCompletion
  <2>3. QED BY <2>1, <2>2 DEF FlatTypes
<1>3. CASE PerformIo
  <2>1. PICK nw \in 0..Len(writes), nr \in 0..reads :
          LET Complete == Completions(nw, nr, IF lost THEN "error" ELSE "ok") IN
          /\ data' = data + (IF lost THEN 0 ELSE nr) /\ data' <= MaxReads
          /\ IF Complete = <<>>
             THEN ready' = Tail(ready) /\ UNCHANGED <<strand, thread>>
             ELSE Dispatch(Head(Complete), Tail(ready) \o Tail(Complete))
    BY <1>3 DEF PerformIo
  <2>2. data' \in 0..MaxReads
    BY <2>1, SerialBounds DEF FlatTypes, QueueTypes
  <2>3. locked' \in BOOLEAN /\ inStrand' \in BOOLEAN
    BY <2>1 DEF Dispatch, FlatTypes
  <2>4. done' \in [Messages -> 0..Parts]
    BY <1>3 DEF PerformIo, Messages
  <2>5. UNCHANGED <<running, open, lost, ioStopped, io, closed, owner, sender, life, starts>>
    BY <1>3 DEF PerformIo
  <2>6. QED BY <2>2, <2>3, <2>4, <2>5 DEF FlatTypes
<1>4. CASE OnSend \/ WriteOn
  <2>1. call.op \in Carrying /\ (BeginWrite(call.msg) \/ done' = done)
    BY <1>4 DEF OnSend, WriteOn, Step, Carrying
  <2>2. done' \in [Messages -> 0..Parts]
    BY <2>1, CallMessage, DoneTypes DEF FlatTypes
  <2>3. UNCHANGED <<running, open, lost, locked, inStrand, ioStopped, io, closed, owner, sender,
                    life, data, starts>>
    BY <1>4 DEF OnSend, WriteOn
  <2>4. QED BY <2>2, <2>3 DEF FlatTypes
<1>5. CASE CallsBack
  <2>1. running' \in BOOLEAN /\ locked' \in BOOLEAN
    BY <1>5 DEF CallsBack, CallbackStop, CallbackSends, Post, FlatTypes
  <2>2. UNCHANGED <<open, lost, done, inStrand, ioStopped, io, closed, owner, sender, life, data,
                    starts>>
    BY <1>5 DEF CallsBack
  <2>3. QED BY <2>1, <2>2 DEF FlatTypes
<1>6. CASE StartRead
  <2>1. data' \in 0..MaxReads
    BY <1>6, SerialBounds DEF StartRead, BeginRead, FlatTypes
  <2>2. UNCHANGED <<running, open, lost, done, locked, inStrand, ioStopped, io, closed, owner,
                    sender, life, starts>>
    BY <1>6 DEF StartRead
  <2>3. QED BY <2>1, <2>2 DEF FlatTypes
<1>7. CASE OnClose
  BY <1>7, ZenonT(30) DEF OnClose, FlatTypes
<1>8. CASE Open
  <2>1. data' \in 0..MaxReads /\ starts' \in 0..MaxStarts
    BY <1>8, SerialBounds DEF Open, FlatTypes
  <2>2. open' \in BOOLEAN /\ lost' \in BOOLEAN /\ owner' \in {owner, "spawn"}
    BY <1>8 DEF Open, FlatTypes
  <2>3. UNCHANGED <<running, done, locked, inStrand, ioStopped, io, closed, sender, life>>
    BY <1>8 DEF Open
  <2>4. QED BY <2>1, <2>2, <2>3 DEF FlatTypes
<1>9. CASE LineFails \/ IoExit \/ SpawnThread \/ MarkRunning \/ StopCheck \/ StopWait \/ StopJoin
             \/ OwnerLetsGo \/ Destructor \/ Ended \/ UNCHANGED vars
  <2>1. CASE LineFails
    BY <2>1 DEF LineFails, FlatTypes
  <2>2. CASE Destructor
    <3>1. life' \in {"crashed", "destroyed"} /\ open' \in BOOLEAN
      BY <2>2 DEF Destructor
    <3>2. QED BY <2>2, <3>1 DEF Destructor, FlatTypes
  <2>3. CASE IoExit
    BY <2>3 DEF IoExit, FlatTypes
  <2>4. CASE SpawnThread
    BY <2>4 DEF SpawnThread, FlatTypes
  <2>5. CASE MarkRunning
    BY <2>5 DEF MarkRunning, FlatTypes
  <2>6. CASE StopCheck
    <3>1. owner' \in {"post", "down"}
      BY <2>6 DEF StopCheck
    <3>2. QED BY <2>6, <3>1 DEF StopCheck, FlatTypes
  <2>7. CASE StopWait
    BY <2>7 DEF StopWait, FlatTypes
  <2>8. CASE StopJoin \/ OwnerLetsGo
    BY <2>8 DEF StopJoin, OwnerLetsGo, FlatTypes
  <2>9. CASE Ended \/ UNCHANGED vars
    BY <2>9 DEF Ended, vars, FlatTypes
  <2>10. QED BY <1>9, <2>1, <2>2, <2>3, <2>4, <2>5, <2>6, <2>7, <2>8, <2>9
<1>10. CASE StopPost
  <2>1. locked' /\ ~running' /\ ~closed' /\ owner' = "wait"
    BY <1>10 DEF StopPost, Post
  <2>2. running' \in BOOLEAN /\ closed' \in BOOLEAN /\ locked' \in BOOLEAN
    BY <1>10 DEF StopPost, Post
  <2>3. QED BY <1>10, <2>1, <2>2 DEF StopPost, FlatTypes
<1>11. CASE \E t \in Senders : Sender(t)
  <2>1. PICK t \in Senders : Sender(t)
    BY <1>11
  <2>2. \E s \in {"idle", "checked", "gone"} : sender' = [sender EXCEPT ![t] = s]
    BY <2>1 DEF Sender, SendCheck, SendPost, SenderLetsGo
  <2>3. sender' \in [Senders -> {"idle", "checked", "gone"}]
    BY <2>2 DEF FlatTypes
  <2>4. locked' \in BOOLEAN
    BY <2>1 DEF Sender, SendCheck, SendPost, SenderLetsGo, Post, FlatTypes
  <2>5. UNCHANGED <<running, open, lost, done, inStrand, ioStopped, io, closed, owner, life, data,
                    starts>>
    BY <2>1 DEF Sender, SendCheck, SendPost, SenderLetsGo
  <2>6. QED BY <2>3, <2>4, <2>5 DEF FlatTypes
<1>12. QED
  BY HandlerCases, <1>1, <1>2, <1>3, <1>4, <1>5, <1>6, <1>7, <1>8, <1>9, <1>10, <1>11
     DEF Next, IoThread, Owner, OwnerStops

LEMMA LifeInit == Init => QueueTypes /\ ThreadOwned /\ LifeInv /\ FlatTypes
<1> SUFFICES ASSUME Init PROVE QueueTypes /\ ThreadOwned /\ LifeInv /\ FlatTypes
  OBVIOUS
<1>1. ThreadOwned
  BY DEF Init, ThreadOwned, NoUseAfterFree
<1>2. QueueTypes
  BY CallTypes, EmptySeq, SerialBounds DEF Init, QueueTypes
<1>3. Waiting = <<>> /\ call.op = "none" /\ ready = <<>>
  BY CallTypes, ConcatEmptySeq, EmptySeq DEF Init, Waiting
<1>4. \A S \in {Reading, Closing} : ~In(S) /\ One(S)
  BY <1>3, Kept, HasNone DEF In, One
<1>5. Chain
  BY <1>3, <1>4 DEF Init, Chain, Stuck
<1>6. LifeInv
  BY <1>4, <1>5 DEF Init, LifeInv
<1>7. FlatTypes
  <2>1. 0 \in 0..MaxReads /\ 0 \in 0..MaxStarts /\ 0 \in 0..Parts
    BY SerialBounds
  <2>2. done \in [Messages -> 0..Parts]
    BY <2>1 DEF Init, Messages
  <2>3. sender \in [Senders -> {"idle", "checked", "gone"}]
    BY DEF Init
  <2>4. QED BY <2>1, <2>2, <2>3 DEF Init, FlatTypes
<1>8. QED BY <1>1, <1>2, <1>6, <1>7

\* Every variable has its type, for every value of the constants and in every
\* interleaving: in particular never are two reads pending on the port
\* (OnRead and StartRead, start_async_read and its handler).
THEOREM TypeCorrect == Spec => []TypeOK
<1>1. Init => QueueTypes /\ ThreadOwned /\ LifeInv /\ FlatTypes
  BY LifeInit
<1>2. QueueTypes /\ ThreadOwned /\ LifeInv /\ FlatTypes /\ [Next]_vars
        => (QueueTypes /\ ThreadOwned /\ LifeInv /\ FlatTypes)'
  BY QueueTypesNext, ThreadOwnedNext, LifeNext, FlatTypesNext
<1>3. QueueTypes /\ LifeInv /\ FlatTypes => TypeOK
  <2> SUFFICES ASSUME QueueTypes, LifeInv, FlatTypes PROVE TypeOK
    OBVIOUS
  <2>1. Seq(Sound) \subseteq Seq(Entries) /\ SoundCalls \subseteq Calls
    <3>1. Sound \subseteq Entries
      BY DEF Sound
    <3>2. QED BY <3>1 DEF SoundCalls
  <2>2. reads \in 0..1
    BY DEF QueueTypes, LifeInv
  <2>3. QED BY <2>1, <2>2 DEF QueueTypes, FlatTypes, TypeOK, Messages
<1>4. QED BY <1>1, <1>2, <1>3, PTL DEF Spec

-----------------------------------------------------------------------------
(* A message is in one hand: somebody always still owes it, and only one.  *)

\* The functions and completions that will go on with message m.
Owing(m) == {e \in SoundCalls : Carries(e, m)}
AtPort(m) == \E i \in 1..Len(writes) : writes[i] = m

Pending(m) == done[m] = Parts \/ In(Owing(m)) \/ AtPort(m)

\* The first half of EachInOneHand: what owes message m is about once, and only
\* of messages that were sent.
Sole(m) ==
    /\ One(Owing(m))
    /\ AtPort(m) => ~In(Owing(m))
    /\ \A i, j \in 1..Len(writes) : writes[i] = m /\ writes[j] = m => i = j
    /\ m \notin 1..sends => ~In(Owing(m)) /\ ~AtPort(m)

\* The second half with what it takes: nothing is sent before start() is through,
\* and the destructor closes the port.
Owed ==
    /\ Starting => sends = 0 /\ \A t \in Senders : sender[t] # "checked"
    /\ life # "alive" => ~open
    /\ open /\ ~lost => \A m \in 1..sends : Pending(m)

LEMMA OwingFacts ==
    ASSUME NEW m
    PROVE  /\ Neutral(Owing(m))
           /\ \A e : e \in Owing(m) => e.msg = m /\ e.op \in Carrying /\ e.op # "read"
           /\ \A e \in Sound : e.msg = m /\ e.op = "send" => e \in Owing(m)
           /\ \A e \in Sound : e.msg = m /\ e.op = "write" /\ e.ec = "ok" => e \in Owing(m)
           /\ \A e \in Owing(m) : e.op = "write" => e.ec = "ok"
  BY CallTypes DEF Owing, Carries, Neutral, Carrying

\* Posting, or a completion in the queue, loses nothing.
LEMMA PostOwes ==
    ASSUME QueueTypes, NEW m, NEW f \in Sound, Post(f), In(Owing(m)) \/ f \in Owing(m),
           call \in Owing(m) => call' = call
    PROVE  In(Owing(m))'
<1>1. /\ Has(ready', Owing(m)) <=> Has(ready, Owing(m))
      /\ Has(Waiting', Owing(m)) <=> Has(Waiting, Owing(m)) \/ f \in Owing(m)
  BY OwingFacts, PostStep
<1>2. QED BY <1>1 DEF In

LEMMA QueueOwes ==
    ASSUME QueueTypes, NEW m, NEW e \in Sound, ready' \in {ready, Append(ready, e)},
           UNCHANGED <<strandReady, strandWaiting>>, In(Owing(m)),
           call \in Owing(m) => call' = call
    PROVE  In(Owing(m))'
<1>1. /\ Has(ready, Owing(m)) => Has(ready', Owing(m))
      /\ Waiting' = Waiting
  BY QueueStep
<1>2. QED BY <1>1 DEF In

\* A piece of m that is begun on a port that works.
LEMMA BeginWriteOwes ==
    ASSUME QueueTypes, FlatTypes, NEW m \in Messages, BeginWrite(m), open, ~lost,
           call' = NoCall, UNCHANGED <<strandReady, strandWaiting>>
    PROVE  /\ Pending(m)'
           /\ \A k \in Messages : k # m /\ Pending(k) /\ call \notin Owing(k) => Pending(k)'
<1> DEFINE e == Entry("write", "ok", m)
<1>1. m \in Nat /\ e \in Sound /\ e.op = "write" /\ e.ec = "ok" /\ e.msg = m
  BY EntryTypes DEF Kinds, Carrying, Messages
<1> HIDE DEF e
<1>2. \/ /\ ready' = Append(ready, e) /\ writes' = writes
         /\ \E d \in done[m] + 1 .. Parts : done' = [done EXCEPT ![m] = d]
      \/ writes' = Append(writes, m) /\ ready' = ready /\ done' = done
  BY DEF BeginWrite, e
<1>3. Pending(m)'
  <2>1. CASE ready' = Append(ready, e)
    <3>1. Has(ready', Owing(m))
      <4>1. e \in Owing(m)
        BY <1>1, OwingFacts
      <4>2. ready \in Seq(Sound) /\ (Has(Append(ready, e), Owing(m)) <=> Has(ready, Owing(m)) \/ e \in Owing(m))
        BY <1>1, HasAppend DEF QueueTypes
      <4>3. QED BY <2>1, <4>1, <4>2
    <3>2. QED BY <3>1 DEF Pending, In
  <2>2. CASE writes' = Append(writes, m)
    <3>1. Len(writes) \in Nat /\ Len(writes') = Len(writes) + 1 /\ writes'[Len(writes) + 1] = m
      BY <2>2, AppendProperties, LenProperties DEF QueueTypes
    <3>2. Len(writes) + 1 \in 1..Len(writes')
      BY <3>1
    <3>3. QED BY <3>1, <3>2 DEF Pending, AtPort
  <2>3. QED BY <1>2, <2>1, <2>2
<1>4. ASSUME NEW k \in Messages, k # m, Pending(k), call \notin Owing(k) PROVE Pending(k)'
  <2>1. In(Owing(k)) => In(Owing(k))'
    BY <1>1, <1>2, <1>4, QueueOwes
  <2>2. done'[k] = done[k]
    BY <1>2, <1>4 DEF FlatTypes
  <2>3. (\E i \in 1..Len(writes) : writes[i] = k) => \E i \in 1..Len(writes') : writes'[i] = k
    <3>1. CASE writes' = writes
      BY <3>1
    <3>2. CASE writes' = Append(writes, m)
      <4>1. Len(writes) \in Nat /\ Len(writes') = Len(writes) + 1
            /\ \A i \in 1..Len(writes) : writes'[i] = writes[i]
        BY <3>2, AppendProperties, LenProperties DEF QueueTypes
      <4>2. \A i \in 1..Len(writes) : i \in 1..Len(writes')
        BY <4>1
      <4>3. QED BY <4>1, <4>2
    <3>3. QED BY <1>2, <3>1, <3>2
  <2>4. QED BY <1>4, <2>1, <2>2, <2>3 DEF Pending, AtPort
<1>5. QED BY <1>3, <1>4

\* The functions of the strand that write.
LEMMA WritesOwe ==
    ASSUME QueueTypes, FlatTypes, OnSend \/ WriteOn, open, ~lost, NEW k \in Messages, Pending(k)
    PROVE  Pending(k)'
<1>1. /\ call.op \in {"send", "write"} /\ call' = NoCall /\ UNCHANGED <<strandReady, strandWaiting>>
      /\ call.op = "send" => OnSend
      /\ call.op = "write" => WriteOn
  BY DEF OnSend, WriteOn, Step, strand
<1>2. PICK m \in Messages : m = call.msg /\ (call \in Owing(k) => m = k)
  BY <1>1, CallMessage, OwingFacts DEF Carrying
<1>3. CASE BeginWrite(m)
  <2>1. /\ Pending(m)'
        /\ \A j \in Messages : j # m /\ Pending(j) /\ call \notin Owing(j) => Pending(j)'
    BY <1>1, <1>2, <1>3, BeginWriteOwes
  <2>2. CASE k = m
    BY <2>1, <2>2
  <2>3. CASE k # m
    BY <1>2, <2>1, <2>3
  <2>4. QED BY <2>2, <2>3
<1>4. CASE ~BeginWrite(m)
  <2>1. /\ call.op = "write" /\ UNCHANGED <<writes, done, ready>>
        /\ ~(call.ec = "ok" /\ done[m] < Parts)
    BY <1>1, <1>2, <1>4 DEF OnSend, WriteOn
  <2>2. call \in Owing(k) => done[k] = Parts
    <3>1. done[k] \in 0..Parts /\ Parts \in Nat
      BY SerialBounds DEF FlatTypes
    <3>2. call \in Owing(k) => call.ec = "ok" /\ m = k
      BY <1>2, <2>1 DEF Owing, Carries
    <3>3. QED BY <2>1, <3>1, <3>2
  <2>3. call \notin Owing(k) => (In(Owing(k)) => In(Owing(k))')
    BY <1>1, <2>1 DEF In, Waiting
  <2>4. QED BY <2>1, <2>2, <2>3 DEF Pending, AtPort
<1>5. QED BY <1>3, <1>4

\* The descriptor's entry: a piece that is written is owed by its completion.
LEMMA PerformOwes ==
    ASSUME QueueTypes, FlatTypes, PerformIo, ~lost, NEW m \in Messages, Pending(m)
    PROVE  Pending(m)'
<1>1. PICK nw \in 0..Len(writes), nr \in 0..reads :
        LET Complete == Completions(nw, nr, IF lost THEN "error" ELSE "ok") IN
        /\ writes' = SubSeq(writes, nw + 1, Len(writes))
        /\ done' \in [1..MaxSends -> 0..Parts]
        /\ \A k \in 1..MaxSends :
             IF ~lost /\ \E i \in 1..nw : writes[i] = k
             THEN done'[k] > done[k] ELSE done'[k] = done[k]
        /\ IF Complete = <<>>
           THEN ready' = Tail(ready) /\ UNCHANGED <<strand, thread>>
           ELSE Dispatch(Head(Complete), Tail(ready) \o Tail(Complete))
  BY DEF PerformIo
<1> DEFINE w == [i \in 1..nw |-> Entry("write", "ok", writes[i])]
           r == [i \in 1..nr |-> Entry("read", "ok", 0)]
           c == Completions(nw, nr, IF lost THEN "error" ELSE "ok")
<1>2. ready # <<>> /\ Head(ready).op = "io" /\ call = NoCall
  BY DEF PerformIo, Between
<1>3. /\ Len(writes) \in Nat /\ nw \in Nat /\ nw <= Len(writes) /\ nr \in Nat
      /\ \A i \in 1..Len(writes) : writes[i] \in Messages
  BY LenProperties, ElementOfSeq DEF QueueTypes
<1>4. /\ \A i \in 1..nw : Entry("write", "ok", writes[i]) \in Sound
      /\ \A i \in 1..nw : /\ Entry("write", "ok", writes[i]).op = "write"
                          /\ Entry("write", "ok", writes[i]).ec = "ok"
                          /\ Entry("write", "ok", writes[i]).msg = writes[i]
      /\ Entry("read", "ok", 0) \in Sound
  <2>1. \A i \in 1..nw : writes[i] \in Messages /\ writes[i] \in Nat
    BY <1>3 DEF Messages
  <2>2. \A i \in 1..nw : Entry("write", "ok", writes[i]) \in Sound
    BY <2>1, EntryTypes DEF Kinds
  <2>3. Entry("read", "ok", 0) \in Sound
    BY EntryTypes DEF Kinds, Carrying
  <2>4. QED BY <2>2, <2>3 DEF Entry
<1>5. w \in Seq(Sound) /\ Len(w) = nw /\ r \in Seq(Sound) /\ c = w \o r
  <2>1. w \in Seq(Sound) /\ Len(w) = nw /\ r \in Seq(Sound)
    BY <1>3, <1>4, IsASeq
  <2>2. QED BY <2>1 DEF Completions
<1>6. /\ \A i \in 1..nw : w[i].op = "write" /\ w[i].ec = "ok" /\ w[i].msg = writes[i] /\ w[i] \in Sound
  BY <1>4
<1>7. IF c = <<>>
      THEN ready' = Tail(ready) /\ UNCHANGED <<strand, thread>>
      ELSE Dispatch(Head(c), Tail(ready) \o Tail(c))
  BY <1>1
<1> HIDE DEF w, r, c
<1>8. In(Owing(m))' <=> In(Owing(m)) \/ Has(c, Owing(m))
  <2>1. c \in Seq(Sound)
    BY <1>5, HasConcat
  <2>2. QED BY <1>2, <1>7, <2>1, OwingFacts, PerformStep
<1>9. CASE \E i \in 1..nw : writes[i] = m
  <2>1. PICK i \in 1..nw : writes[i] = m
    BY <1>9
  <2>2. w[i] \in Owing(m) /\ i \in 1..Len(w)
    BY <1>5, <1>6, <2>1, OwingFacts
  <2>3. Has(w, Owing(m))
    BY <2>2 DEF Has
  <2>4. Has(c, Owing(m))
    BY <1>5, <2>3, HasConcat
  <2>5. QED BY <1>8, <2>4 DEF Pending, AtPort
<1>10. CASE ~ \E i \in 1..nw : writes[i] = m
  <2>1. done'[m] = done[m]
    BY <1>1, <1>10 DEF Messages
  <2>2. CASE \E i \in 1..Len(writes) : writes[i] = m
    <3>1. PICK i \in 1..Len(writes) : writes[i] = m
      BY <2>2
    <3>2. i \in nw + 1..Len(writes) /\ nw + 1 \in Int
      BY <1>3, <1>10, <3>1
    <3> DEFINE s == SubSeq(writes, nw + 1, Len(writes))
    <3>3. /\ Len(s) = Len(writes) - nw
          /\ \A j \in 1..Len(writes) - nw : s[j] = writes[nw + j]
      <4>1. \A j \in nw + 1..Len(writes) : writes[j] \in Messages
        BY <1>3
      <4>2. /\ Len(s) = IF nw + 1 <= Len(writes) THEN Len(writes) - (nw + 1) + 1 ELSE 0
            /\ \A j \in 1..Len(writes) - (nw + 1) + 1 : s[j] = writes[nw + 1 + j - 1]
        BY <1>3, <4>1, SubSeqProperties
      <4>3. \A j \in 1..Len(writes) - nw : nw + 1 + j - 1 = nw + j
        BY <1>3
      <4>4. Len(writes) - (nw + 1) + 1 = Len(writes) - nw /\ nw + 1 <= Len(writes)
        BY <1>3, <3>2
      <4>5. QED BY <4>2, <4>3, <4>4
    <3> HIDE DEF s
    <3>4. i - nw \in 1..Len(writes) - nw /\ nw + (i - nw) = i
      BY <1>3, <3>2
    <3>5. s[i - nw] = m /\ i - nw \in 1..Len(s)
      BY <3>1, <3>3, <3>4
    <3>6. writes' = s
      BY <1>1 DEF s
    <3>7. QED BY <3>5, <3>6 DEF Pending, AtPort
  <2>3. CASE ~ \E i \in 1..Len(writes) : writes[i] = m
    BY <1>8, <2>1, <2>3 DEF Pending, AtPort
  <2>4. QED BY <2>2, <2>3
<1>11. QED BY <1>9, <1>10

\* The functions that post: the message just accepted is owed too.
LEMMA PostsOwe ==
    ASSUME QueueTypes, NEW f \in Sound, Post(f), UNCHANGED <<done, writes>>,
           \/ f.op = "close" /\ sends' = sends
           \/ f.op = "send" /\ f.msg = sends + 1 /\ sends' = sends + 1,
           call' = call \/ \A m : call \notin Owing(m),
           \A m \in 1..sends : Pending(m)
    PROVE  \A m \in 1..sends' : Pending(m)'
<1>1. SUFFICES ASSUME NEW m \in 1..sends' PROVE Pending(m)'
  OBVIOUS
<1>2. sends \in Nat
  BY DEF QueueTypes
<1>3. call \in Owing(m) => call' = call
  OBVIOUS
<1>4. CASE m \in 1..sends
  <2>1. In(Owing(m)) => In(Owing(m))'
    BY <1>3, PostOwes
  <2>2. QED BY <1>4, <2>1 DEF Pending, AtPort
<1>5. CASE m \notin 1..sends
  <2>1. m = sends + 1 /\ f.op = "send" /\ f.msg = m
    BY <1>2, <1>5
  <2>2. f \in Owing(m)
    BY <2>1, OwingFacts
  <2>3. In(Owing(m))'
    BY <1>3, <2>2, PostOwes
  <2>4. QED BY <2>3 DEF Pending, AtPort
<1>6. QED BY <1>4, <1>5

LEMMA OwedNext ==
    ~MayRestart /\ QueueTypes /\ FlatTypes /\ LifeInv /\ Owed /\ [Next]_vars => Owed'
<1> SUFFICES ASSUME ~MayRestart, QueueTypes, FlatTypes, LifeInv, Owed, [Next]_vars PROVE Owed'
  OBVIOUS
<1>1. 1..sends \subseteq Messages /\ (Starting => ~running) /\ sends \in Nat
  BY SerialBounds DEF QueueTypes, Messages, LifeInv, Starting
\* A step that sends nothing and after which no new port is open.
<1>2. ASSUME UNCHANGED <<sends, life>>, Starting' => Starting,
             \A t \in Senders : Starting' /\ sender'[t] = "checked" => sender[t] = "checked",
             open' => open, ~lost' => ~lost,
             open /\ ~lost => \A m \in Messages : Pending(m) => Pending(m)'
      PROVE  Owed'
  BY <1>1, <1>2 DEF Owed
<1>3. CASE MoveSteps
  <2>1. UNCHANGED <<sends, life, owner, sender, open, lost, done, writes>>
    BY <1>3 DEF MoveSteps, RunInvoker, RunNext, InvokerExit, TakeCompletion, ReportError,
         ReportReady, Report, port, history, clients, counts
  <2>2. ASSUME NEW m \in Messages, Pending(m) PROVE Pending(m)'
    <3>1. In(Owing(m))' <=> In(Owing(m))
      BY <1>3, OwingFacts, MoveStep
    <3>2. QED BY <2>1, <2>2, <3>1 DEF Pending, AtPort
  <2>3. Starting' = Starting
    BY <2>1 DEF Starting
  <2>4. QED BY <1>2, <2>1, <2>2, <2>3
<1>4. CASE OnSend \/ WriteOn
  <2>1. UNCHANGED <<sends, life, owner, sender, open, lost>>
    BY <1>4 DEF OnSend, WriteOn, clients, counts
  <2>2. open /\ ~lost => \A m \in Messages : Pending(m) => Pending(m)'
    BY <1>4, WritesOwe
  <2>3. QED BY <1>2, <2>1, <2>2 DEF Starting
<1>5. CASE PerformIo
  <2>1. UNCHANGED <<sends, life, owner, sender, open, lost>>
    BY <1>5 DEF PerformIo, clients
  <2>2. ~lost => \A m \in Messages : Pending(m) => Pending(m)'
    BY <1>5, PerformOwes
  <2>3. QED BY <1>2, <2>1, <2>2 DEF Starting
<1>6. CASE StartRead
  <2>1. /\ UNCHANGED <<sends, life, owner, sender, open, lost, done, writes, strandReady,
                       strandWaiting>>
        /\ call.op = "start_read" /\ BeginRead(ready)
    BY <1>6 DEF StartRead, Step, strand, history, clients
  <2>2. PICK e \in {Entry("read", "error", 0), Entry("read", "ok", 0)} :
            ready' \in {ready, Append(ready, e)}
    BY <2>1 DEF BeginRead
  <2>3. e \in Sound
    BY <2>2, EntryTypes DEF Kinds, Carrying
  <2>4. ASSUME NEW m \in Messages, Pending(m) PROVE Pending(m)'
    <3>1. call \notin Owing(m)
      BY <2>1, OwingFacts DEF Carrying
    <3>2. In(Owing(m)) => In(Owing(m))'
      BY <2>1, <2>2, <2>3, <3>1, QueueOwes
    <3>3. QED BY <2>1, <2>4, <3>2 DEF Pending, AtPort
  <2>5. QED BY <1>2, <2>1, <2>4 DEF Starting
\* What posts to the strand.
<1>7. ASSUME NEW f \in Sound, Post(f), UNCHANGED <<done, writes, life, open, lost>>,
             \/ f.op = "close" /\ sends' = sends
             \/ f.op = "send" /\ f.msg = sends + 1 /\ sends' = sends + 1,
             call' = call \/ (\A m : call \notin Owing(m)), ~Starting'
      PROVE  Owed'
  <2>1. (\A m \in 1..sends : Pending(m)) => \A m \in 1..sends' : Pending(m)'
    BY <1>7, PostsOwe
  <2>2. QED BY <1>7, <2>1 DEF Owed
<1>8. Entry("close", "ok", 0) \in Sound /\ Entry("close", "ok", 0).op = "close"
  BY CloseType
<1>9. sends < MaxSends => /\ Entry("send", "ok", sends + 1) \in Sound
                          /\ Entry("send", "ok", sends + 1).op = "send"
                          /\ Entry("send", "ok", sends + 1).msg = sends + 1
  BY SerialBounds, EntryTypes DEF Kinds, Carrying, Messages, QueueTypes
<1>10. CASE CallsBack
  <2>1. /\ UNCHANGED <<done, writes, life, open, lost, owner, sender>>
        /\ \A m : call \notin Owing(m)
    <3>1. call.op = "read" \/ (call.op = "write" /\ call.ec = "error")
      BY <1>10 DEF CallsBack, Step
    <3>2. \A m : call \notin Owing(m)
      BY <3>1 DEF Owing, Carries
    <3>3. QED BY <1>10, <3>2 DEF CallsBack, port, history, clients
  <2>2. CASE CallbackStop
    <3>1. Post(Entry("close", "ok", 0)) /\ sends' = sends /\ running
      BY <2>2 DEF CallbackStop
    <3>2. ~Starting'
      BY <1>1, <2>1, <3>1 DEF Starting
    <3>3. QED BY <1>7, <1>8, <2>1, <3>1, <3>2
  <2>3. CASE CallbackSends
    <3>1. /\ Post(Entry("send", "ok", sends + 1)) /\ sends' = sends + 1 /\ running
          /\ sends < MaxSends
      BY <2>3 DEF CallbackSends
    <3>2. ~Starting'
      BY <1>1, <2>1, <3>1 DEF Starting
    <3>3. QED BY <1>7, <1>9, <2>1, <3>1, <3>2
  <2>4. CASE UNCHANGED <<running, sends, strand, ready>>
    <3>1. ASSUME NEW m \in Messages, Pending(m) PROVE Pending(m)'
      <4>1. call \notin Owing(m)
        BY <2>1
      <4>2. In(Owing(m)) => In(Owing(m))'
        BY <2>4, <4>1 DEF In, Waiting, strand
      <4>3. QED BY <2>1, <3>1, <4>2 DEF Pending, AtPort
    <3>2. QED BY <1>2, <2>1, <2>4, <3>1 DEF Starting
  <2>5. QED BY <1>10, <2>2, <2>3, <2>4 DEF CallsBack
<1>11. CASE StopPost
  <2>1. /\ Post(Entry("close", "ok", 0)) /\ owner' = "wait"
        /\ UNCHANGED <<done, writes, life, open, lost, call, sends>>
    BY <1>11 DEF StopPost, port, history, thread, counts
  <2>2. ~Starting'
    BY <2>1 DEF Starting
  <2>3. QED BY <1>7, <1>8, <2>1, <2>2
<1>12. CASE \E t \in Senders : SendPost(t)
  <2>1. PICK t \in Senders : SendPost(t)
    BY <1>12
  <2>2. /\ UNCHANGED <<done, writes, life, open, lost, call, owner>>
        /\ sender[t] = "checked" /\ sender' = [sender EXCEPT ![t] = "idle"]
    BY <2>1 DEF SendPost, port, history, thread
  <2>3. ~Starting /\ ~Starting'
    BY <2>2 DEF Owed, Starting
  <2>4. CASE sends < MaxSends
    <3>1. Post(Entry("send", "ok", sends + 1)) /\ sends' = sends + 1
      BY <2>1, <2>4 DEF SendPost
    <3>2. QED BY <1>7, <1>9, <2>2, <2>3, <2>4, <3>1
  <2>5. CASE ~(sends < MaxSends)
    <3>1. UNCHANGED <<sends, ready, strandReady, strandWaiting>>
      BY <2>1, <2>5 DEF SendPost, strand
    <3>2. \A m \in Messages : Pending(m) => Pending(m)'
      BY <2>2, <3>1 DEF Pending, AtPort, In, Waiting
    <3>3. QED BY <1>2, <2>2, <2>3, <3>1, <3>2
  <2>6. QED BY <2>4, <2>5
<1>13. CASE OnClose \/ Destructor
  <2>1. open' = FALSE /\ UNCHANGED <<sends, owner, sender>>
    BY <1>13 DEF OnClose, Destructor, clients, counts
  <2>2. QED BY <2>1 DEF Owed, Starting
<1>14. CASE life = "alive" /\ Open
  <2>1. owner = "fresh" /\ UNCHANGED <<sends, sender, life>>
    BY <1>14 DEF Open
  <2>2. sends = 0 /\ \A t \in Senders : sender[t] # "checked"
    BY <2>1 DEF Owed, Starting
  <2>3. 1..sends' = {}
    BY <2>1, <2>2
  <2>4. QED BY <1>14, <2>1, <2>2, <2>3 DEF Owed
<1>15. CASE LineFails \/ IoExit \/ SpawnThread \/ MarkRunning \/ StopCheck \/ StopWait \/ StopJoin
              \/ OwnerLetsGo \/ (\E t \in Senders : SendCheck(t) \/ SenderLetsGo(t)) \/ Ended
              \/ UNCHANGED vars
  <2>1. /\ UNCHANGED <<ready, strandReady, strandWaiting, call, writes, sends, done>>
    BY <1>15, IdleKeeps DEF IdleSteps
  <2>2. \A m \in Messages : Pending(m) => Pending(m)'
    BY <2>1 DEF Pending, AtPort, In, Waiting
  <2>3. /\ UNCHANGED <<life, open>> /\ (~lost' => ~lost)
        /\ Starting' => Starting
    BY <1>15 DEF LineFails, IoExit, SpawnThread, MarkRunning, StopCheck, StopWait, StopJoin,
         OwnerLetsGo, SendCheck, SenderLetsGo, Ended, vars, port, clients, Starting
  <2>4. \A t \in Senders : Starting' /\ sender'[t] = "checked" => sender[t] = "checked"
    <3>1. CASE \E t \in Senders : SendCheck(t)
      BY <1>1, <2>3, <3>1 DEF SendCheck
    <3>2. CASE \E t \in Senders : SenderLetsGo(t)
      BY <3>2 DEF SenderLetsGo, FlatTypes
    <3>3. CASE LineFails \/ IoExit \/ SpawnThread \/ MarkRunning \/ StopCheck \/ StopWait
                 \/ StopJoin \/ OwnerLetsGo \/ Ended \/ UNCHANGED vars
      BY <3>3 DEF LineFails, IoExit, SpawnThread, MarkRunning, StopCheck, StopWait, StopJoin,
           OwnerLetsGo, Ended, vars, clients
    <3>4. QED BY <1>15, <3>1, <3>2, <3>3
  <2>5. QED BY <1>2, <2>1, <2>2, <2>3, <2>4
<1>16. QED
  BY HandlerCases, <1>3, <1>4, <1>5, <1>6, <1>10, <1>11, <1>12, <1>13, <1>14, <1>15
     DEF Next, IoThread, Owner, OwnerStops, Sender, MoveSteps


\* A step that adds nothing that owes m.
LEMMA SoleFrame ==
    ASSUME NEW m, Sole(m), Keeps(Owing(m)), writes' = writes, m \in 1..sends => m \in 1..sends'
    PROVE  Sole(m)'
  BY DEF Sole, Keeps, AtPort

LEMMA CloseAndReadsOweNothing ==
    ASSUME NEW m
    PROVE  \A e : e.op \in {"close", "read", "start_read", "stop_wait", "none"} => e \notin Owing(m)
  BY DEF Owing, Carries

\* A function that is posted: what was sent already owes what it did, and the
\* message just accepted is owed once.
LEMMA PostSole ==
    ASSUME QueueTypes, NEW f \in Sound, Post(f), writes' = writes,
           \/ f.op = "close" /\ sends' = sends
           \/ f.op = "send" /\ f.msg = sends + 1 /\ sends' = sends + 1,
           NEW m \in Messages, Sole(m), call' \in Owing(m) => call \in Owing(m)
    PROVE  Sole(m)'
<1>1. sends \in Nat /\ m \in Nat
  BY DEF QueueTypes, Messages
<1>2. m \in 1..sends => m \in 1..sends'
  BY <1>1
<1>3. CASE f \notin Owing(m)
  <2>1. Keeps(Owing(m))
    BY <1>3, OwingFacts, PostKeeps
  <2>2. QED BY <1>2, <2>1, SoleFrame
<1>4. CASE f \in Owing(m)
  <2>1. f.op = "send" /\ m = sends + 1 /\ m \notin 1..sends /\ m \in 1..sends'
    BY <1>1, <1>4, OwingFacts DEF Carrying
  <2>2. ~In(Owing(m)) /\ ~AtPort(m) /\ One(Owing(m))
    BY <2>1 DEF Sole
  <2>3. /\ Has(ready', Owing(m)) <=> Has(ready, Owing(m))
        /\ Few(ready, Owing(m)) => Few(ready', Owing(m))
        /\ Few(Waiting, Owing(m)) /\ ~(Has(Waiting, Owing(m)) /\ f \in Owing(m))
             => Few(Waiting', Owing(m))
    BY OwingFacts, PostStep
  <2>4. call' \notin Owing(m)
    BY <2>2 DEF In
  <2>5. One(Owing(m))'
    BY <2>2, <2>3, <2>4 DEF One, In
  <2>6. AtPort(m)' <=> AtPort(m)
    BY DEF AtPort
  <2>7. QED BY <2>1, <2>2, <2>5, <2>6 DEF Sole
<1>5. QED BY <1>3, <1>4

\* A completion in the queue that owes nothing, or a function that ends.
LEMMA QueueSole ==
    ASSUME QueueTypes, NEW e \in Sound, ready' \in {ready, Append(ready, e)},
           NEW m, Sole(m), e \notin Owing(m), call' = NoCall \/ call' = call, sends' = sends,
           UNCHANGED <<strandReady, strandWaiting, writes>>
    PROVE  Sole(m)'
<1>1. NoCall \notin Owing(m)
  BY OwingFacts, OwnEntries
<1>2. Keeps(Owing(m))
  BY <1>1, OwingFacts, QueueKeeps, Zenon
<1>3. QED BY <1>2, SoleFrame

\* A piece of k that is begun: the function that began it owes k no more.
LEMMA BeginWriteSole ==
    ASSUME QueueTypes, NEW k \in Messages, BeginWrite(k), call \in Owing(k), call' = NoCall,
           UNCHANGED <<strandReady, strandWaiting, sends>>,
           NEW m \in Messages, Sole(m)
    PROVE  Sole(m)'
<1>1. k \in Nat /\ (m # k => call \notin Owing(m))
  BY OwingFacts DEF Messages
<1>2. PICK e \in {Entry("write", "error", k), Entry("write", "ok", k)} :
          \/ ready' = Append(ready, e) /\ writes' = writes
          \/ ready' = ready /\ writes' = Append(writes, k)
  BY DEF BeginWrite
<1>3. e \in Sound /\ e.op = "write" /\ e.msg = k
  BY <1>1, <1>2, EntryTypes DEF Kinds, Carrying
<1>4. NoCall \notin Owing(m) /\ (m # k => e \notin Owing(m))
  BY <1>3, OwingFacts, OwnEntries
<1>5. CASE ready' = Append(ready, e) /\ writes' = writes
  <2>1. CASE m # k
    BY <1>3, <1>4, <1>5, <2>1, QueueSole
  <2>2. CASE m = k
    <3>1. /\ ~Has(ready, Owing(m)) /\ ~Has(Waiting, Owing(m)) /\ ~AtPort(m) /\ m \in 1..sends
          /\ Few(ready, Owing(m)) /\ Few(Waiting, Owing(m))
      BY <2>2 DEF Sole, One, In
    <3>2. Few(ready', Owing(m)) /\ Waiting' = Waiting
      BY <1>3, <1>5, <3>1, QueueStep, Zenon
    <3>3. One(Owing(m))'
      BY <1>4, <3>1, <3>2 DEF One
    <3>4. ~AtPort(m)'
      BY <1>5, <3>1 DEF AtPort
    <3>5. m \in 1..sends'
      BY <3>1
    <3>6. QED BY <1>5, <3>3, <3>4, <3>5 DEF Sole
  <2>3. QED BY <2>1, <2>2
<1>6. CASE ready' = ready /\ writes' = Append(writes, k)
  <2>1. /\ Len(writes) \in Nat /\ Len(writes') = Len(writes) + 1 /\ writes'[Len(writes) + 1] = k
        /\ \A i \in 1..Len(writes) : writes'[i] = writes[i]
    BY <1>6, AppendProperties, LenProperties DEF QueueTypes
  <2>2. \A i \in 1..Len(writes') : i \in 1..Len(writes) \/ i = Len(writes) + 1
    BY <2>1
  <2>3. Waiting' = Waiting
    BY DEF Waiting
  <2>4. CASE m # k
    <3>1. Keeps(Owing(m))
      BY <1>1, <1>4, <1>6, <2>3 DEF Keeps, In, One
    <3>2. AtPort(m)' <=> AtPort(m)
      <4>1. \A i \in 1..Len(writes) : i \in 1..Len(writes')
        BY <2>1
      <4>2. QED BY <2>1, <2>2, <2>4, <4>1 DEF AtPort
    <3>3. \A i, j \in 1..Len(writes') : writes'[i] = m /\ writes'[j] = m => i = j
      BY <2>1, <2>2, <2>4 DEF Sole
    <3>4. QED BY <3>1, <3>2, <3>3 DEF Sole, Keeps
  <2>5. CASE m = k
    <3>1. /\ ~Has(ready, Owing(m)) /\ ~Has(Waiting, Owing(m)) /\ ~AtPort(m) /\ m \in 1..sends
          /\ Few(ready, Owing(m)) /\ Few(Waiting, Owing(m))
      BY <2>5 DEF Sole, One, In
    <3>2. One(Owing(m))' /\ ~In(Owing(m))'
      BY <1>4, <1>6, <2>3, <3>1 DEF One, In
    <3>3. \A i, j \in 1..Len(writes') : writes'[i] = m /\ writes'[j] = m => i = j
      BY <2>1, <2>2, <3>1 DEF AtPort
    <3>4. m \in 1..sends'
      BY <3>1
    <3>5. QED BY <3>2, <3>3, <3>4 DEF Sole
  <2>6. QED BY <2>4, <2>5
<1>7. QED BY <1>2, <1>5, <1>6

\* The descriptor's entry: what was pending at the port is owed by its completion.
LEMMA PerformSole ==
    ASSUME QueueTypes, PerformIo, NEW m \in Messages, Sole(m)
    PROVE  Sole(m)'
<1> DEFINE ec == IF lost THEN "error" ELSE "ok"
<1>1. PICK nw \in 0..Len(writes), nr \in 0..reads :
        LET Complete == Completions(nw, nr, ec) IN
        /\ writes' = SubSeq(writes, nw + 1, Len(writes))
        /\ IF Complete = <<>>
           THEN ready' = Tail(ready) /\ UNCHANGED <<strand, thread>>
           ELSE Dispatch(Head(Complete), Tail(ready) \o Tail(Complete))
  BY DEF PerformIo
<1> DEFINE w == [i \in 1..nw |-> Entry("write", ec, writes[i])]
           r == [i \in 1..nr |-> Entry("read", ec, 0)]
           c == Completions(nw, nr, ec)
<1>2. /\ ready # <<>> /\ Head(ready).op = "io" /\ call = NoCall /\ sends' = sends
      /\ ec \in {"ok", "error", "aborted"}
  BY DEF PerformIo, Between
<1>3. /\ Len(writes) \in Nat /\ nw \in Nat /\ nw <= Len(writes) /\ nr \in Nat
      /\ \A i \in 1..Len(writes) : writes[i] \in Messages
  BY LenProperties, ElementOfSeq DEF QueueTypes
<1> HIDE DEF ec
<1>4. /\ \A i \in 1..nw : w[i] \in Sound /\ w[i].msg = writes[i] /\ i \in 1..Len(writes)
      /\ \A i \in 1..nr : r[i] \in Sound /\ r[i].op = "read"
  <2>1. \A i \in 1..nw : writes[i] \in Messages /\ writes[i] \in Nat /\ i \in 1..Len(writes)
    BY <1>3 DEF Messages
  <2>2. \A i \in 1..nw : w[i] \in Sound /\ w[i].msg = writes[i]
    BY <1>2, <2>1, EntryTypes DEF Kinds
  <2>3. \A i \in 1..nr : r[i] \in Sound /\ r[i].op = "read"
    BY <1>2, EntryTypes DEF Kinds, Carrying
  <2>4. QED BY <2>1, <2>2, <2>3
<1>5. w \in Seq(Sound) /\ Len(w) = nw /\ r \in Seq(Sound) /\ Len(r) = nr /\ c = w \o r
  <2>1. w \in Seq(Sound) /\ Len(w) = nw /\ r \in Seq(Sound) /\ Len(r) = nr
    BY <1>3, <1>4, IsASeq
  <2>2. QED BY <2>1 DEF Completions
<1>6. IF c = <<>>
      THEN ready' = Tail(ready) /\ UNCHANGED <<strand, thread>>
      ELSE Dispatch(Head(c), Tail(ready) \o Tail(c))
  BY <1>1
<1> HIDE DEF w, r, c
<1>7. ~Has(r, Owing(m)) /\ Few(r, Owing(m))
  <2>1. \A i \in 1..Len(r) : r[i].op = "read"
    BY <1>4, <1>5
  <2>2. \A i \in 1..Len(r) : r[i] \notin Owing(m)
    BY <2>1, CloseAndReadsOweNothing
  <2>3. QED BY <2>2 DEF Has, Few
<1>8. \A i \in 1..Len(w) : w[i] \in Owing(m) => i \in 1..Len(writes) /\ i <= nw /\ writes[i] = m
  BY <1>3, <1>4, <1>5, OwingFacts
<1>9. Few(w, Owing(m)) /\ (Has(w, Owing(m)) => \E i \in 1..Len(writes) : i <= nw /\ writes[i] = m)
  BY <1>8 DEF Has, Few, Sole
<1>10. /\ c \in Seq(Sound) /\ Few(c, Owing(m))
       /\ Has(c, Owing(m)) => \E i \in 1..Len(writes) : i <= nw /\ writes[i] = m
  BY <1>5, <1>7, <1>9, HasConcat
<1>11. Has(c, Owing(m)) => AtPort(m) /\ ~In(Owing(m))
  BY <1>10 DEF AtPort, Sole
<1>12. /\ In(Owing(m))' <=> In(Owing(m)) \/ Has(c, Owing(m))
       /\ One(Owing(m)) /\ Few(c, Owing(m)) /\ ~(In(Owing(m)) /\ Has(c, Owing(m)))
            => One(Owing(m))'
  BY <1>2, <1>6, <1>10, OwingFacts, PerformStep
<1>13. One(Owing(m))'
  BY <1>10, <1>11, <1>12 DEF Sole
<1>14. /\ Len(writes') = Len(writes) - nw
       /\ \A j \in 1..Len(writes) - nw : writes'[j] = writes[nw + j]
  <2> DEFINE s == SubSeq(writes, nw + 1, Len(writes))
  <2>1. \A j \in nw + 1..Len(writes) : writes[j] \in Messages
    BY <1>3
  <2>2. /\ Len(s) = IF nw + 1 <= Len(writes) THEN Len(writes) - (nw + 1) + 1 ELSE 0
        /\ \A j \in 1..Len(writes) - (nw + 1) + 1 : s[j] = writes[nw + 1 + j - 1]
    BY <1>3, <2>1, SubSeqProperties
  <2>3. /\ \A j \in 1..Len(writes) - nw : nw + 1 + j - 1 = nw + j
        /\ Len(writes) - (nw + 1) + 1 = Len(writes) - nw
        /\ ~(nw + 1 <= Len(writes)) => Len(writes) - nw = 0
    BY <1>3
  <2>4. QED BY <1>1, <2>2, <2>3
<1>15. \A j \in 1..Len(writes') : nw + j \in 1..Len(writes) /\ nw + j > nw /\ writes'[j] = writes[nw + j]
  BY <1>3, <1>14
<1>16. \A i, j \in 1..Len(writes') : writes'[i] = m /\ writes'[j] = m => i = j
  <2>1. SUFFICES ASSUME NEW i \in 1..Len(writes'), NEW j \in 1..Len(writes'),
                        writes'[i] = m, writes'[j] = m
                 PROVE  i = j
    OBVIOUS
  <2>2. nw + i = nw + j
    BY <1>15, <2>1 DEF Sole
  <2>3. QED BY <1>3, <1>14, <2>2
<1>17. AtPort(m)' => AtPort(m) /\ ~Has(c, Owing(m))
  <2>1. SUFFICES ASSUME NEW j \in 1..Len(writes'), writes'[j] = m
                 PROVE  AtPort(m) /\ ~Has(c, Owing(m))
    BY DEF AtPort
  <2>2. nw + j \in 1..Len(writes) /\ nw + j > nw /\ writes[nw + j] = m
    BY <1>15, <2>1
  <2>3. \A i \in 1..Len(writes) : writes[i] = m => i = nw + j
    BY <2>2 DEF Sole
  <2>4. ~ \E i \in 1..Len(writes) : i <= nw /\ writes[i] = m
    BY <1>3, <2>2, <2>3
  <2>5. QED BY <1>10, <2>2, <2>4 DEF AtPort
<1>18. AtPort(m)' => ~In(Owing(m))'
  BY <1>12, <1>17 DEF Sole
<1>19. m \notin 1..sends' => ~In(Owing(m))' /\ ~AtPort(m)'
  BY <1>2, <1>11, <1>12, <1>17 DEF Sole
<1>20. QED BY <1>13, <1>16, <1>18, <1>19 DEF Sole

LEMMA SoleNext ==
    ASSUME QueueTypes, [Next]_vars, NEW m \in Messages, Sole(m)
    PROVE  Sole(m)'
<1>1. Neutral(Owing(m)) /\ NoCall \notin Owing(m)
  BY OwingFacts, OwnEntries
<1>2. CASE MoveSteps
  <2>1. Keeps(Owing(m))
    BY <1>1, <1>2, MoveStep DEF Keeps
  <2>2. UNCHANGED <<writes, sends>>
    BY <1>2 DEF MoveSteps, RunInvoker, RunNext, InvokerExit, TakeCompletion, ReportError,
         ReportReady, Report, port, counts
  <2>3. QED BY <2>1, <2>2, SoleFrame
<1>3. CASE IdleSteps
  <2>1. Keeps(Owing(m)) /\ UNCHANGED <<writes, sends>>
    BY <1>3, IdleKeeps
  <2>2. QED BY <2>1, SoleFrame
<1>4. CASE OnSend \/ WriteOn
  <2>1. /\ call.op \in Carrying /\ call' = NoCall
        /\ UNCHANGED <<strandReady, strandWaiting, sends>>
        /\ \/ BeginWrite(call.msg) /\ (call.op = "write" => call.ec = "ok")
           \/ ready' = ready /\ writes' = writes
    BY <1>4 DEF OnSend, WriteOn, Step, Carrying, strand, counts
  <2>2. PICK k \in Messages : k = call.msg
    BY <2>1, CallMessage
  <2>3. CASE BeginWrite(call.msg) /\ (call.op = "write" => call.ec = "ok")
    <3>1. call \in Owing(k)
      BY <2>1, <2>2, <2>3 DEF Owing, Carries, Carrying, QueueTypes
    <3>2. QED BY <2>1, <2>2, <2>3, <3>1, BeginWriteSole
  <2>4. CASE ready' = ready /\ writes' = writes
    <3>1. Keeps(Owing(m))
      BY <1>1, <2>1, <2>4 DEF Keeps, In, One, Waiting
    <3>2. QED BY <2>1, <2>4, <3>1, SoleFrame
  <2>5. QED BY <2>1, <2>3, <2>4
<1>5. CASE PerformIo
  BY <1>5, PerformSole
<1>6. CASE StartRead \/ Open
  <2>1. /\ UNCHANGED <<writes, sends, strandReady, strandWaiting>>
        /\ call' = NoCall \/ call' = call
        /\ ready' \in {ready, Append(ready, Entry("read", "error", 0)),
                       Append(ready, Entry("read", "ok", 0))}
    BY <1>6 DEF StartRead, Open, BeginRead, strand, thread, port
  <2>2. PICK e \in {Entry("read", "error", 0), Entry("read", "ok", 0)} :
            ready' \in {ready, Append(ready, e)}
    BY <2>1
  <2>3. e \in Sound /\ e.op = "read"
    BY <2>2, EntryTypes DEF Kinds, Carrying
  <2>4. e \notin Owing(m)
    BY <2>3, CloseAndReadsOweNothing
  <2>5. QED BY <2>1, <2>2, <2>3, <2>4, QueueSole
<1>7. Entry("close", "ok", 0) \in Sound /\ Entry("close", "ok", 0).op = "close"
  BY CloseType
<1>8. sends < MaxSends => /\ Entry("send", "ok", sends + 1) \in Sound
                          /\ Entry("send", "ok", sends + 1).op = "send"
                          /\ Entry("send", "ok", sends + 1).msg = sends + 1
  BY SerialBounds, EntryTypes DEF Kinds, Carrying, Messages, QueueTypes
<1>9. CASE CallsBack
  <2>1. writes' = writes
    BY <1>9 DEF CallsBack, port
  <2>2. call'.op \in {"stop_wait", "none", "start_read"}
    BY <1>9 DEF CallsBack, CallbackStop, NoCall, Entry
  <2>3. call' \notin Owing(m)
    BY <2>2, CloseAndReadsOweNothing
  <2>4. CASE CallbackStop
    <3>1. Post(Entry("close", "ok", 0)) /\ sends' = sends
      BY <2>4 DEF CallbackStop
    <3>2. QED BY <1>7, <2>1, <2>3, <3>1, PostSole
  <2>5. CASE CallbackSends
    <3>1. Post(Entry("send", "ok", sends + 1)) /\ sends' = sends + 1 /\ sends < MaxSends
      BY <2>5 DEF CallbackSends
    <3>2. QED BY <1>8, <2>1, <2>3, <3>1, PostSole
  <2>6. CASE UNCHANGED <<running, sends, strand, ready>>
    <3>1. Keeps(Owing(m))
      BY <2>3, <2>6 DEF Keeps, In, One, Waiting, strand
    <3>2. QED BY <2>1, <2>6, <3>1, SoleFrame
  <2>7. QED BY <1>9, <2>4, <2>5, <2>6 DEF CallsBack
<1>10. CASE StopPost
  <2>1. Post(Entry("close", "ok", 0)) /\ UNCHANGED <<writes, sends, call>>
    BY <1>10 DEF StopPost, port, thread, counts
  <2>2. QED BY <1>7, <2>1, PostSole
<1>11. CASE \E t \in Senders : SendPost(t)
  <2>1. PICK t \in Senders : SendPost(t)
    BY <1>11
  <2>2. UNCHANGED <<writes, call>>
    BY <2>1 DEF SendPost, port, thread
  <2>3. CASE sends < MaxSends
    <3>1. Post(Entry("send", "ok", sends + 1)) /\ sends' = sends + 1
      BY <2>1, <2>3 DEF SendPost
    <3>2. QED BY <1>8, <2>2, <2>3, <3>1, PostSole
  <2>4. CASE ~(sends < MaxSends)
    <3>1. UNCHANGED <<sends, ready, strandReady, strandWaiting>>
      BY <2>1, <2>4 DEF SendPost, strand
    <3>2. Keeps(Owing(m))
      BY <2>2, <3>1 DEF Keeps, In, One, Waiting
    <3>3. QED BY <2>2, <3>1, <3>2, SoleFrame
  <2>5. QED BY <2>3, <2>4
<1>12. CASE OnClose
  <2>1. writes' = <<>> /\ sends' = sends
    BY <1>12 DEF OnClose, counts
  <2>2. \A e : e.op \in {"read", "write"} /\ e.ec = "aborted" => e \notin Owing(m)
    BY DEF Owing, Carries
  <2>3. Keeps(Owing(m))
    BY <1>1, <1>12, <2>2, OnCloseKeeps
  <2>4. ~AtPort(m)' /\ Len(writes') = 0
    BY <2>1, EmptySeq DEF AtPort
  <2>5. QED BY <2>1, <2>3, <2>4 DEF Sole, Keeps
<1>13. QED
  BY HandlerCases, <1>2, <1>3, <1>4, <1>5, <1>6, <1>9, <1>10, <1>11, <1>12
     DEF Next, IoThread, Owner, OwnerStops, Sender, MoveSteps, IdleSteps

LEMMA FewParts ==
    ASSUME NEW S, NEW s \in Seq(Sound), NEW t \in Seq(Sound)
    PROVE  /\ Has(s \o t, S) <=> Has(s, S) \/ Has(t, S)
           /\ Few(s \o t, S) => Few(s, S) /\ Few(t, S) /\ ~(Has(s, S) /\ Has(t, S))
<1> DEFINE c == s \o t
<1>1. /\ Len(s) \in Nat /\ Len(t) \in Nat /\ Len(c) = Len(s) + Len(t)
      /\ \A i \in 1..Len(s) + Len(t) : c[i] = IF i <= Len(s) THEN s[i] ELSE t[i - Len(s)]
  BY ConcatProperties, LenProperties
<1> HIDE DEF c
<1>2. \A i \in 1..Len(s) : i \in 1..Len(c) /\ c[i] = s[i]
  BY <1>1
<1>3. \A i \in 1..Len(t) : Len(s) + i \in 1..Len(c) /\ c[Len(s) + i] = t[i]
  <2>1. \A i \in 1..Len(t) : /\ Len(s) + i \in 1..Len(s) + Len(t) /\ ~(Len(s) + i <= Len(s))
                            /\ Len(s) + i - Len(s) = i
    BY <1>1
  <2>2. QED BY <1>1, <2>1
<1>4. \A i, j \in 1..Len(t) : Len(s) + i = Len(s) + j => i = j
  BY <1>1
<1>5. \A i \in 1..Len(s), j \in 1..Len(t) : i # Len(s) + j
  BY <1>1
<1>6. ASSUME Few(c, S) PROVE Few(s, S) /\ Few(t, S) /\ ~(Has(s, S) /\ Has(t, S))
  BY <1>2, <1>3, <1>4, <1>5, <1>6 DEF Few, Has
<1>7. QED BY <1>6, HasConcat DEF c

\* What is in hand, and what of it carries message m.
LEMMA HandsOfOne ==
    ASSUME QueueTypes, NEW m \in Messages, Sole(m)
    PROVE  /\ \A i, j \in Hands(m) : i = j
           /\ In(Owing(m)) \/ AtPort(m) => Hands(m) # {}
<1> DEFINE S == Owing(m)
           a == <<call>>
           w == [i \in 1..Len(writes) |-> Entry("write", "ok", writes[i])]
<1>1. /\ ready \in Seq(Sound) /\ strandReady \in Seq(Sound) /\ strandWaiting \in Seq(Sound)
      /\ Len(writes) \in Nat /\ \A i \in 1..Len(writes) : writes[i] \in Messages
      /\ call \in SoundCalls
  BY LenProperties, ElementOfSeq DEF QueueTypes
<1>2. \A i \in 1..Len(writes) : w[i] \in Sound /\ (w[i] \in S <=> writes[i] = m)
  <2>1. SUFFICES ASSUME NEW i \in 1..Len(writes) PROVE w[i] \in Sound /\ (w[i] \in S <=> writes[i] = m)
    OBVIOUS
  <2>2. writes[i] \in Messages /\ writes[i] \in Nat
    BY <1>1 DEF Messages
  <2>3. /\ w[i] \in Sound /\ w[i].op = "write" /\ w[i].ec = "ok" /\ w[i].msg = writes[i]
    BY <2>2, EntryTypes DEF Kinds
  <2>4. QED BY <2>3, OwingFacts
<1>3. w \in Seq(Sound) /\ Len(w) = Len(writes)
  BY <1>1, <1>2, IsASeq
<1>4. Completions(Len(writes), 0, "ok") = w
  <2> DEFINE r == [i \in 1..0 |-> Entry("read", "ok", 0)]
  <2>1. r = <<>>
    OBVIOUS
  <2>2. w \o <<>> = w
    BY <1>3, ConcatEmptySeq
  <2>3. QED BY <2>1, <2>2 DEF Completions
<1> HIDE DEF w
<1>5. (Has(w, S) <=> AtPort(m)) /\ Few(w, S)
  BY <1>2, <1>3 DEF Has, Few, AtPort, Sole
<1>6. /\ a \in Seq(SoundCalls) /\ (Has(a, S) <=> call \in S) /\ Few(a, S)
  <2>1. a \in Seq(SoundCalls) /\ Len(a) = 1 /\ a[1] = call /\ \A i \in 1..1 : i = 1
    BY <1>1
  <2>2. QED BY <2>1 DEF Has, Few
<1>7. \A q \in Seq(Sound) : q \in Seq(SoundCalls)
  BY CallTypes, ElementOfSeq, SeqDef
<1> DEFINE u == a \o ready
           v == u \o strandReady
           x == v \o strandWaiting
           y == x \o w
<1>8. One(S) /\ (AtPort(m) => ~In(S))
  BY DEF Sole
<1>9. /\ Has(Waiting, S) <=> Has(strandReady, S) \/ Has(strandWaiting, S)
      /\ Few(Waiting, S) => /\ Few(strandReady, S) /\ Few(strandWaiting, S)
                            /\ ~(Has(strandReady, S) /\ Has(strandWaiting, S))
  BY <1>1, FewParts DEF Waiting
<1>10. /\ u \in Seq(SoundCalls) /\ (Has(u, S) <=> Has(a, S) \/ Has(ready, S))
       /\ Few(a, S) /\ Few(ready, S) /\ ~(Has(a, S) /\ Has(ready, S)) => Few(u, S)
  BY <1>1, <1>6, <1>7, HasConcatOf
<1> HIDE DEF u
<1>11. /\ v \in Seq(SoundCalls) /\ (Has(v, S) <=> Has(u, S) \/ Has(strandReady, S))
       /\ Few(u, S) /\ Few(strandReady, S) /\ ~(Has(u, S) /\ Has(strandReady, S)) => Few(v, S)
  BY <1>1, <1>7, <1>10, HasConcatOf
<1> HIDE DEF v
<1>12. /\ x \in Seq(SoundCalls) /\ (Has(x, S) <=> Has(v, S) \/ Has(strandWaiting, S))
       /\ Few(v, S) /\ Few(strandWaiting, S) /\ ~(Has(v, S) /\ Has(strandWaiting, S)) => Few(x, S)
  BY <1>1, <1>7, <1>11, HasConcatOf
<1> HIDE DEF x
<1>13. /\ y \in Seq(SoundCalls) /\ (Has(y, S) <=> Has(x, S) \/ Has(w, S))
       /\ Few(x, S) /\ Few(w, S) /\ ~(Has(x, S) /\ Has(w, S)) => Few(y, S)
  BY <1>3, <1>7, <1>12, HasConcatOf
<1> HIDE DEF y, a
<1>14. InHand = y
  BY <1>4 DEF InHand, y, x, v, u, a
<1>15. (Has(y, S) <=> In(S) \/ AtPort(m)) /\ Few(y, S)
  BY <1>5, <1>6, <1>8, <1>9, <1>10, <1>11, <1>12, <1>13 DEF One, In
<1>16. \A i \in 1..Len(y) : y[i] \in S <=> Carries(y[i], m)
  BY <1>13, ElementOfSeq DEF Owing
<1>17. QED BY <1>14, <1>15, <1>16 DEF Hands, Has, Few

\* Of a session started once: every message that send() accepted is in one hand
\* at most, and on a port that works in one until it has been written whole (a
\* partial write goes on, the strand drops nothing, and nothing goes on twice).
THEOREM EveryMessageInOneHand == ~MayRestart => (Spec => []EachInOneHand)
<1> SUFFICES ASSUME ~MayRestart PROVE Spec => []EachInOneHand
  OBVIOUS
<1> DEFINE I == QueueTypes /\ ThreadOwned /\ LifeInv /\ FlatTypes
           AllSole == \A m \in Messages : Sole(m)
<1>1. Init => I /\ Owed /\ AllSole
  <2> SUFFICES ASSUME Init PROVE I /\ Owed /\ AllSole
    OBVIOUS
  <2>1. I
    BY LifeInit
  <2>2. Owed
    BY DEF Init, Owed
  <2>3. /\ ready = <<>> /\ Waiting = <<>> /\ call = NoCall /\ Len(writes) = 0
    BY ConcatEmptySeq, EmptySeq DEF Init, Waiting
  <2>4. ASSUME NEW m \in Messages PROVE Sole(m)
    <3>1. ~In(Owing(m)) /\ One(Owing(m)) /\ ~AtPort(m)
      BY <2>3, OwingFacts, OwnEntries, HasNone DEF In, One, AtPort
    <3>2. QED BY <2>3, <3>1 DEF Sole
  <2>5. QED BY <2>1, <2>2, <2>4
<1>2. I /\ Owed /\ [Next]_vars => (I /\ Owed)'
  BY QueueTypesNext, ThreadOwnedNext, LifeNext, FlatTypesNext, OwedNext
<1>3. I /\ AllSole /\ [Next]_vars => AllSole'
  BY SoleNext DEF Messages
<1>4. I /\ Owed /\ AllSole => EachInOneHand
  <2> SUFFICES ASSUME QueueTypes, Owed, AllSole, NEW m \in 1..sends
               PROVE  /\ \A i, j \in Hands(m) : i = j
                      /\ open /\ ~lost => done[m] = Parts \/ Hands(m) # {}
    BY DEF EachInOneHand
  <2>1. m \in Messages
    BY SerialBounds DEF QueueTypes, Messages
  <2>2. /\ \A i, j \in Hands(m) : i = j
        /\ In(Owing(m)) \/ AtPort(m) => Hands(m) # {}
    BY <2>1, HandsOfOne
  <2>3. open /\ ~lost => Pending(m)
    BY DEF Owed
  <2>4. QED BY <2>2, <2>3 DEF Pending
<1> HIDE DEF I, AllSole
<1>5. QED BY <1>1, <1>2, <1>3, <1>4, PTL DEF Spec
=============================================================================
