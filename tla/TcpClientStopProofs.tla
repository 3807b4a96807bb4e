------------------------ MODULE TcpClientStopProofs ------------------------
(***************************************************************************)
(* stop() of TcpClient is final: the proof of StopIsFinal.                 *)
(***************************************************************************)
EXTENDS TcpClientProofs

\* A start() that was posted has run before main calls stop() again, so at most
\* one is queued, and none once main is past stop().
Without(q, op) == \A i \in 1..Len(q) : q[i].op # op
AtMostOneStart(q) ==
    \A i, j \in 1..Len(q) : q[i].op = "start" /\ q[j].op = "start" => i = j
StartsInOrder ==
    /\ main \in {"stopping", "stopped", "joining", "done"} => stopped
    /\ AtMostOneStart(ready)
    /\ call.op = "start" => Without(ready, "start")
    /\ call.op = "start" \/ ~Without(ready, "start") => main = "loop" /\ stopped

\* StopIsFinal with what it takes: no handler that is past its test of stopped_
\* can start an operation, the one of async_connect because it looks at the
\* socket again.
NothingPending == connEp = 0 /\ nReads = 0 /\ writes = <<>>
CloseHasRun ==
    main \in {"stopped", "joining", "done"} /\ ~Queued("close") /\ call.op # "close"
ClosedForGood ==
    /\ sock = "closed" => NothingPending
    /\ CloseHasRun => sock = "closed" /\ (call.checked => call.op = "connect_op")

StopInv ==
    /\ call.op \in Unguarded => call.checked
    /\ StartsInOrder
    /\ ClosedForGood

-----------------------------------------------------------------------------
(* What the steps do to the queue.                                         *)

\* ready' is the queue, or what follows the descriptor's entry at its front,
\* with entries t added that neither start nor close.
Work == Handlers \ {"start", "close"}
Adds(q, t) ==
    /\ q \in Seq(Entries) /\ t \in Seq(Entries) /\ Only(t, Work) /\ ready' = q \o t
    /\ q = ready \/ (ready # <<>> /\ Head(ready).op = "io" /\ q = Tail(ready))
QueueKept ==
    /\ Without(ready, "start") => Without(ready', "start")
    /\ AtMostOneStart(ready) => AtMostOneStart(ready')
    /\ Queued("close") => Queued("close")'

LEMMA ConcatStarts ==
    ASSUME NEW q \in Seq(Entries), NEW t \in Seq(Entries)
    PROVE  /\ Only(t, Work) /\ Without(q, "start") => Without(q \o t, "start")
           /\ Only(t, Work) /\ AtMostOneStart(q) => AtMostOneStart(q \o t)
           /\ ~Without(q, "close") \/ ~Without(t, "close") => ~Without(q \o t, "close")
<1>1. /\ Len(q) \in Nat /\ Len(t) \in Nat /\ Len(q \o t) = Len(q) + Len(t)
      /\ \A i \in 1..Len(q) + Len(t) :
           (q \o t)[i] = IF i <= Len(q) THEN q[i] ELSE t[i - Len(q)]
  BY ConcatProperties, LenProperties
<1>2. ASSUME Only(t, Work), NEW i \in 1..Len(q \o t), (q \o t)[i].op = "start"
      PROVE  i \in 1..Len(q) /\ q[i].op = "start"
  <2>1. CASE i <= Len(q)
    BY <1>1, <1>2, <2>1
  <2>2. CASE i > Len(q)
    <3>1. i - Len(q) \in 1..Len(t) /\ (q \o t)[i] = t[i - Len(q)]
      BY <1>1, <1>2, <2>2
    <3>2. t[i - Len(q)].op \in Work
      BY <1>2, <3>1 DEF Only
    <3>3. QED BY <1>2, <3>1, <3>2 DEF Work
  <2>3. QED BY <1>1, <2>1, <2>2
<1>3. ASSUME NEW i \in 1..Len(q), q[i].op = "close" PROVE ~Without(q \o t, "close")
  <2>1. i \in 1..Len(q \o t) /\ (q \o t)[i] = q[i]
    BY <1>1
  <2>2. QED BY <1>3, <2>1 DEF Without
<1>4. ASSUME NEW i \in 1..Len(t), t[i].op = "close" PROVE ~Without(q \o t, "close")
  <2>1. /\ i + Len(q) \in 1..Len(q \o t) /\ ~(i + Len(q) <= Len(q))
        /\ (i + Len(q)) - Len(q) = i
    BY <1>1
  <2>2. (q \o t)[i + Len(q)] = t[i]
    BY <1>1, <2>1
  <2>3. QED BY <1>4, <2>1, <2>2 DEF Without
<1>5. QED BY <1>2, <1>3, <1>4 DEF Without, AtMostOneStart

LEMMA TailStarts ==
    ASSUME NEW q \in Seq(Entries), q # <<>>
    PROVE  /\ Without(q, "start") => Without(Tail(q), "start") /\ Head(q).op # "start"
           /\ AtMostOneStart(q) => AtMostOneStart(Tail(q))
           /\ AtMostOneStart(q) /\ Head(q).op = "start" => Without(Tail(q), "start")
           /\ ~Without(q, "close") => Head(q).op = "close" \/ ~Without(Tail(q), "close")
<1>1. /\ Len(q) \in Nat /\ Len(q) > 0 /\ Head(q) = q[1] /\ Len(Tail(q)) = Len(q) - 1
      /\ \A i \in 1..Len(Tail(q)) : Tail(q)[i] = q[i + 1]
  BY HeadTailProperties, EmptySeq
<1>2. ASSUME NEW i \in 1..Len(Tail(q)) PROVE i + 1 \in 1..Len(q) /\ Tail(q)[i] = q[i + 1]
  BY <1>1
<1>3. ASSUME Without(q, "start") PROVE Without(Tail(q), "start") /\ Head(q).op # "start"
  BY <1>1, <1>2, <1>3 DEF Without
<1>4. ASSUME AtMostOneStart(q) PROVE AtMostOneStart(Tail(q))
  <2>1. ASSUME NEW i \in 1..Len(Tail(q)), NEW j \in 1..Len(Tail(q)),
               Tail(q)[i].op = "start", Tail(q)[j].op = "start"
        PROVE  i = j
    <3>1. i + 1 = j + 1
      BY <1>2, <1>4, <2>1 DEF AtMostOneStart
    <3>2. QED BY <3>1, <1>1
  <2>2. QED BY <2>1 DEF AtMostOneStart
<1>5. ASSUME AtMostOneStart(q), Head(q).op = "start" PROVE Without(Tail(q), "start")
  <2>1. ASSUME NEW i \in 1..Len(Tail(q)), Tail(q)[i].op = "start" PROVE FALSE
    <3>1. 1 \in 1..Len(q) /\ q[1].op = "start"
      BY <1>1, <1>5
    <3>2. i + 1 = 1
      BY <1>2, <1>5, <2>1, <3>1 DEF AtMostOneStart
    <3>3. QED BY <3>2
  <2>2. QED BY <2>1 DEF Without
<1>6. ASSUME NEW k \in 1..Len(q), q[k].op = "close", Head(q).op # "close"
      PROVE  ~Without(Tail(q), "close")
  <2>1. k # 1
    BY <1>1, <1>6
  <2>2. k - 1 \in 1..Len(Tail(q)) /\ (k - 1) + 1 = k
    BY <1>1, <2>1
  <2>3. Tail(q)[k - 1].op = "close"
    BY <1>1, <1>6, <2>2
  <2>4. QED BY <2>2, <2>3 DEF Without
<1>7. QED BY <1>3, <1>4, <1>5, <1>6 DEF Without

LEMMA QueuedWithout == Queued("close") <=> ~Without(ready, "close")
  BY DEF Queued, Without

LEMMA QueuedWithoutNext == Queued("close")' <=> ~Without(ready', "close")
  BY DEF Queued, Without

LEMMA AddsLemma ==
    ASSUME NEW q, NEW t, Adds(q, t), ready \in Seq(Entries)
    PROVE  QueueKept
<1>1. CASE q = ready
  BY <1>1, ConcatStarts, QueuedWithout, QueuedWithoutNext DEF Adds, QueueKept
<1>2. CASE ready # <<>> /\ Head(ready).op = "io" /\ q = Tail(ready)
  BY <1>2, ConcatStarts, TailStarts, QueuedWithout, QueuedWithoutNext DEF Adds, QueueKept
<1>3. QED BY <1>1, <1>2 DEF Adds

LEMMA SameQueue == ready' = ready => QueueKept
  BY QueuedWithout, QueuedWithoutNext DEF QueueKept

LEMMA AppendKeeps ==
    ASSUME TypeInv, NEW op \in Work, NEW ec \in Errors, NEW n \in Nat,
           ready' = Append(ready, Entry(op, ec, n))
    PROVE  QueueKept
<1> DEFINE e == Entry(op, ec, n)
<1>1. e \in Entries /\ e.op \in Work
  BY EntryLemma DEF Work
<1> HIDE DEF e
<1>2. ready \in Seq(Entries) /\ <<e>> \in Seq(Entries) /\ Only(<<e>>, Work)
  BY <1>1, OneElement DEF TypeInv, TypeOK, Only
<1>3. ready' = ready \o <<e>>
  BY <1>1, <1>2, AppendIsConcat DEF e
<1>4. QED BY <1>2, <1>3, AddsLemma DEF Adds

LEMMA AbortedKinds ==
    ASSUME TypeInv
    PROVE  AbortedOps \in Seq(Entries) /\ Only(AbortedOps, Work)
<1> DEFINE R == Times(nReads, Entry("read", "aborted", 0))
           C == IF connEp = 0 THEN <<>> ELSE <<Entry("connect_op", "aborted", connEp)>>
           W == [i \in 1..Len(writes) |-> Entry("write", "aborted", writes[i])]
<1>1. R \in Seq(Entries) /\ Only(R, Work)
  <2>1. R \in Seq(Entries) /\ Only(R, {"read"})
    BY ReadEntries DEF TypeInv, TypeOK, Errors
  <2>2. QED BY <2>1 DEF Only, Work, Handlers
<1>2. C \in Seq(Entries) /\ Only(C, Work)
  <2>1. CASE connEp = 0
    BY <2>1, NoElement
  <2>2. CASE connEp # 0
    <3>1. "connect_op" \in Handlers /\ "aborted" \in Errors /\ connEp \in Nat
      BY EndpointsAssumption DEF Errors, Handlers, TypeInv, TypeOK
    <3>2. /\ Entry("connect_op", "aborted", connEp) \in Entries
          /\ Entry("connect_op", "aborted", connEp).op = "connect_op"
      BY <3>1, EntryLemma
    <3>3. QED BY <2>2, <3>2, OneElement DEF Only, Work, Handlers
  <2>3. QED BY <2>1, <2>2
<1>3. W \in Seq(Entries) /\ Only(W, Work)
  <2>1. Len(writes) \in 0..Len(writes) /\ "aborted" \in Errors
    BY LenProperties DEF Errors, TypeInv, TypeOK
  <2> HIDE DEF W
  <2>2. W \in Seq(Entries) /\ Only(W, {"write"})
    BY <2>1, WriteEntries DEF W, TypeInv, TypeOK, OneWrite
  <2>3. QED BY <2>2 DEF Only, Work, Handlers
<1>4. AbortedOps = R \o C \o W
  BY DEF AbortedOps
<1> HIDE DEF R, C, W
<1>5. R \o C \in Seq(Entries) /\ Only(R \o C, Work)
  BY <1>1, <1>2, ConcatOnly, ConcatWrites
<1>6. QED BY <1>3, <1>4, <1>5, ConcatOnly, ConcatWrites

LEMMA CloseKeeps == TypeInv /\ CloseSocket => QueueKept
  BY AbortedKinds, AddsLemma DEF CloseSocket, Adds, TypeInv, TypeOK

LEMMA ConnectKeeps ==
    ASSUME TypeInv, NEW ep \in 1..NEndpoints, ConnectTo(ep)
    PROVE  QueueKept
<1>1. ready \in Seq(Entries) /\ AbortedOps \in Seq(Entries) /\ Only(AbortedOps, Work)
  BY AbortedKinds DEF TypeInv, TypeOK
<1>2. CASE ready' = ready \o AbortedOps
  BY <1>1, <1>2, AddsLemma DEF Adds
<1>3. ASSUME NEW ec \in Errors, ready' = ready \o AbortedOps \o <<Entry("connect_op", ec, ep)>>
      PROVE  QueueKept
  <2> DEFINE c == <<Entry("connect_op", ec, ep)>>
  <2>1. c \in Seq(Entries) /\ Only(c, Work)
    <3>1. ep \in Nat /\ "connect_op" \in Handlers
      BY EndpointsAssumption DEF Handlers
    <3>2. /\ Entry("connect_op", ec, ep) \in Entries
          /\ Entry("connect_op", ec, ep).op = "connect_op"
      BY <3>1, EntryLemma
    <3>3. QED BY <3>2, OneElement DEF Only, Work, Handlers
  <2> HIDE DEF c
  <2>2. AbortedOps \o c \in Seq(Entries) /\ Only(AbortedOps \o c, Work)
    BY <1>1, <2>1, ConcatOnly, ConcatWrites
  <2>3. ready' = ready \o (AbortedOps \o c)
    BY <1>1, <1>3, <2>1, ConcatAssociative, SMTT(30) DEF c
  <2>4. QED BY <1>1, <2>2, <2>3, AddsLemma DEF Adds
<1>4. \/ ready' = ready \o AbortedOps
      \/ \E ec \in {"ok", "error"} : ready' = ready \o AbortedOps \o <<Entry("connect_op", ec, ep)>>
  BY DEF ConnectTo
<1>5. QED BY <1>2, <1>3, <1>4 DEF Errors

LEMMA BeginChecked ==
    ASSUME NEW e \in Entries, e.op # "io"
    PROVE  Begin(e).op = e.op /\ (Begin(e).checked <=> e.op \in Unguarded)
<1>1. (e.op \in Unguarded) \in BOOLEAN
  OBVIOUS
<1>2. Begin(e).checked = (e.op \in Unguarded)
  BY Zenon DEF Begin
<1>3. QED BY <1>1, <1>2, BeginLemma

\* The reactor's step, and what the handler it enters may be.
LEMMA PerformKeeps ==
    ASSUME TypeInv, PerformIo
    PROVE  /\ QueueKept
           /\ call' = NoCall \/ call'.op \in {"connect_op", "write", "read"}
           /\ call'.checked <=> call'.op = "connect_op"
<1>1. PICK nw \in 0..Len(writes), nr \in 0..nReads :
        /\ nw > 0 => WriteResult # "none"
        /\ nr > 0 => ReadResult # "none"
        /\ IF Done(nw, nr) = <<>>
           THEN call' = NoCall /\ ready' = Tail(ready)
           ELSE /\ call' = Begin(Head(Done(nw, nr)))
                /\ ready' = Tail(ready) \o Tail(Done(nw, nr))
  BY DEF PerformIo
<1>2. ready \in Seq(Entries) /\ ready # <<>> /\ Head(ready).op = "io" /\ Tail(ready) \in Seq(Entries)
  BY TailWrites DEF PerformIo, TypeInv, TypeOK
<1> DEFINE D == Done(nw, nr)
<1>3. D \in Seq(Entries) /\ Only(D, {"connect_op", "write", "read"})
  BY <1>1, DoneLemma
<1> HIDE DEF D
<1>4. CASE D = <<>>
  <2>1. ready' = Tail(ready) \o <<>> /\ call' = NoCall
    BY <1>1, <1>2, <1>4, ConcatEmptySeq DEF D
  <2>2. Adds(Tail(ready), <<>>)
    BY <1>2, <2>1, NoElement DEF Adds
  <2>3. QED BY <1>2, <2>1, <2>2, AddsLemma, NoCallLemma
<1>5. CASE D # <<>>
  <2>1. /\ Head(D) \in Entries /\ Tail(D) \in Seq(Entries)
        /\ Head(D).op \in {"connect_op", "write", "read"}
    BY <1>3, <1>5, TailWrites, HeadOnly
  <2>2. Only(Tail(D), Work)
    <3>1. /\ Len(D) \in Nat /\ Len(Tail(D)) = Len(D) - 1
          /\ \A i \in 1..Len(Tail(D)) : Tail(D)[i] = D[i + 1]
      BY <1>3, <1>5, HeadTailProperties, EmptySeq
    <3>2. ASSUME NEW i \in 1..Len(Tail(D)) PROVE Tail(D)[i].op \in Work
      BY <1>3, <3>1, <3>2 DEF Only, Work, Handlers
    <3>3. QED BY <3>2 DEF Only
  <2>3. Adds(Tail(ready), Tail(D))
    BY <1>1, <1>2, <1>5, <2>1, <2>2 DEF Adds, D
  <2>4. call'.op = Head(D).op /\ (call'.checked <=> Head(D).op \in Unguarded)
    BY <1>1, <1>5, <2>1, BeginChecked DEF D
  <2>5. QED BY <1>2, <2>1, <2>3, <2>4, AddsLemma DEF Unguarded
<1>6. QED BY <1>4, <1>5

-----------------------------------------------------------------------------
(* The steps.                                                              *)

\* No handler that is past its test of stopped_ runs once the close has run,
\* but that of async_connect.
LEMMA CloseStillToRun ==
    ASSUME StopInv, QueueKept, main' = main, call.checked, call.op \notin {"connect_op", "close"}
    PROVE  ~CloseHasRun'
  BY DEF StopInv, ClosedForGood, CloseHasRun, QueueKept

LEMMA CloseHadRun ==
    ASSUME QueueKept, main' = main, call.op # "close", CloseHasRun'
    PROVE  CloseHasRun
  BY DEF CloseHasRun, QueueKept

LEMMA StartsKept ==
    ASSUME StartsInOrder, QueueKept, UNCHANGED <<main, stopped>>,
           call'.op = "start" => call.op = "start"
    PROVE  StartsInOrder'
  BY DEF StartsInOrder, QueueKept

\* A step of a handler past its test that starts no operation on a closed socket.
LEMMA HandlerKeeps ==
    ASSUME StopInv, QueueKept, UNCHANGED <<main, stopped>>,
           call.checked, call.op \notin {"connect_op", "close"},
           call'.op \notin Unguarded,
           sock' = "closed" => NothingPending'
    PROVE  StopInv'
<1>1. StartsInOrder'
  BY StartsKept DEF StopInv, Unguarded
<1>2. QED BY <1>1, CloseStillToRun DEF StopInv, ClosedForGood

\* A step that neither leaves a handler nor touches a closed socket.
LEMMA OutsideKeeps ==
    ASSUME StopInv, QueueKept, UNCHANGED <<main, stopped, call>>,
           sock' = "closed" <=> sock = "closed",
           sock = "closed" => UNCHANGED <<connEp, nReads, writes>>
    PROVE  StopInv'
<1>1. StartsInOrder'
  BY StartsKept DEF StopInv
<1>2. CloseHasRun' => CloseHasRun
  BY DEF CloseHasRun, QueueKept
<1>3. QED BY <1>1, <1>2 DEF StopInv, ClosedForGood, NothingPending

\* A step of main that posts nothing, or nothing but a message.
LEMMA MainKeeps ==
    ASSUME StopInv, QueueKept, UNCHANGED <<ops, call>>,
           main' \in {"stopped", "joining", "done"} => main \in {"stopped", "joining", "done"},
           \/ main' = main /\ stopped' = stopped
           \/ main \in {"init", "starting"} /\ main' \in {"starting", "loop"}
           \/ stopped' /\ main' = "stopping" /\ ~stopped
           \/ main' \in {"joining", "done"} /\ main # "loop" /\ stopped' = stopped
    PROVE  StopInv'
<1>1. CloseHasRun' => CloseHasRun
  BY DEF CloseHasRun, QueueKept
<1>2. StartsInOrder'
  BY DEF StopInv, StartsInOrder, QueueKept
<1>3. QED BY <1>1, <1>2 DEF StopInv, ClosedForGood, NothingPending, ops

LEMMA GotoUnguarded ==
    ASSUME NEW op \in Segments
    PROVE  Goto(op).op = op /\ Goto(op).op \notin Unguarded /\ ~Goto(op).checked
  BY GotoLemma DEF Segments, Unguarded

LEMMA NoCallUnguarded == NoCall.op = "none" /\ NoCall.op \notin Unguarded /\ ~NoCall.checked
  BY NoCallLemma DEF Unguarded

LEMMA StopNext == TypeInv /\ StopInv /\ [Next]_vars => StopInv'
<1> SUFFICES ASSUME TypeInv, StopInv, [Next]_vars PROVE StopInv'
  OBVIOUS
<1>0. ready \in Seq(Entries) /\ nReads \in Nat /\ writes \in Seq(Nat)
  BY DEF TypeInv, TypeOK
<1>1. CASE CheckStopped
  <2>1. /\ call # NoCall /\ ~call.checked /\ call.op \notin Unguarded
        /\ IF stopped THEN call' = NoCall ELSE call' = [call EXCEPT !.checked = TRUE]
        /\ UNCHANGED <<main, stopped, ready, sock, connEp, nReads, writes>>
    BY <1>1 DEF CheckStopped, StopInv, config, ops, threads
  <2>2. call \in Calls
    BY DEF TypeInv, TypeOK
  <2>3. ~stopped => call'.op = call.op /\ call'.checked
    BY <2>1, <2>2 DEF Calls
  <2>4. QueueKept
    BY <2>1, SameQueue
  <2>5. StartsInOrder'
    BY <2>1, <2>3, <2>4, NoCallUnguarded, StartsKept DEF StopInv
  <2>6. CloseHasRun' => CloseHasRun /\ stopped
    BY <2>1, <2>4, CloseHadRun DEF StopInv, StartsInOrder, CloseHasRun, Unguarded
  <2>7. ClosedForGood'
    BY <2>1, <2>6, NoCallUnguarded DEF StopInv, ClosedForGood, NothingPending
  <2>8. QED BY <2>1, <2>3, <2>5, <2>7, NoCallUnguarded DEF StopInv
<1>2. CASE DoConnect
  <2>1. Running("do_connect") /\ call' = NoCall /\ UNCHANGED <<main, stopped>>
    BY <1>2 DEF DoConnect, config, threads
  <2>2. CASE ConnectTo(1)
    <3>1. QueueKept /\ sock' # "closed"
      BY <2>2, EndpointsAssumption, ConnectKeeps DEF ConnectTo
    <3>2. QED BY <2>1, <3>1, HandlerKeeps, NoCallUnguarded DEF Running
  <2>3. CASE UNCHANGED <<ops, ready>>
    <3>1. QueueKept /\ (sock' = "closed" => NothingPending')
      BY <2>3, SameQueue DEF StopInv, ClosedForGood, NothingPending, ops
    <3>2. QED BY <2>1, <3>1, HandlerKeeps, NoCallUnguarded DEF Running
  <2>4. QED BY <1>2, <2>2, <2>3 DEF DoConnect
<1>3. CASE ConnectOp
  <2>1. call.op = "connect_op" /\ UNCHANGED <<main, stopped>>
    BY <1>3 DEF ConnectOp, Running, config, threads
  <2>2. CASE sock # "closed" /\ call.ec # "ok" /\ call.arg < NEndpoints
    <3>1. call' = NoCall /\ ConnectTo(call.arg + 1)
      BY <1>3, <2>2 DEF ConnectOp
    <3>2. call.arg + 1 \in 1..NEndpoints
      BY <2>2, EndpointsAssumption DEF TypeInv, TypeOK, Calls
    <3>3. QueueKept /\ sock' # "closed"
      BY <3>1, <3>2, ConnectKeeps DEF ConnectTo
    <3>4. ~CloseHasRun'
      BY <2>1, <2>2, <3>3, CloseHadRun DEF StopInv, ClosedForGood
    <3>5. QED BY <2>1, <3>1, <3>3, <3>4, StartsKept, NoCallUnguarded DEF StopInv, ClosedForGood
  <2>3. CASE ~(sock # "closed" /\ call.ec # "ok" /\ call.arg < NEndpoints)
    <3>1. call'.op = "connect" /\ ~call'.checked
      <4>1. Goto("connect") \in Calls /\ Goto("connect").op = "connect" /\ ~Goto("connect").checked
        BY GotoLemma DEF Segments
      <4>2. QED BY <1>3, <2>3, <4>1 DEF ConnectOp, Calls
    <3>2. QueueKept /\ UNCHANGED ops
      BY <1>3, <2>3, SameQueue DEF ConnectOp
    <3>3. CloseHasRun' => CloseHasRun
      BY <2>1, <3>2, CloseHadRun
    <3>4. QED
      BY <2>1, <3>1, <3>2, <3>3, StartsKept
         DEF StopInv, ClosedForGood, NothingPending, ops, Unguarded
  <2>4. QED BY <2>2, <2>3
<1>4. CASE OnConnect \/ OnRead \/ OnSend \/ OnWrite
  <2>1. /\ call.checked /\ call.op \in {"connect", "read", "send", "write"}
        /\ call' = NoCall \/ \E op \in {"do_read", "do_write", "schedule_reconnect"} : call' = Goto(op)
        /\ UNCHANGED <<main, stopped, ready, ops>>
    BY <1>4 DEF OnConnect, OnRead, OnSend, OnWrite, Running, config, threads
  <2>2. call'.op \notin Unguarded
    BY <2>1, GotoUnguarded, NoCallUnguarded DEF Segments
  <2>3. QueueKept /\ (sock' = "closed" => NothingPending')
    BY <2>1, SameQueue DEF StopInv, ClosedForGood, NothingPending, ops
  <2>4. QED BY <2>1, <2>2, <2>3, HandlerKeeps
<1>5. CASE ScheduleReconnect
  <2>1. /\ call.checked /\ call.op = "schedule_reconnect" /\ call' = NoCall
        /\ ready' = ready \/ ready' = Append(ready, Entry("timer", "aborted", 0))
        /\ UNCHANGED <<main, stopped, ops>>
    BY <1>5 DEF ScheduleReconnect, Running, threads
  <2>2. QueueKept
    BY <2>1, SameQueue, AppendKeeps DEF Work, Handlers, Errors
  <2>3. QED
    BY <2>1, <2>2, HandlerKeeps, NoCallUnguarded DEF StopInv, ClosedForGood, NothingPending, ops
<1>6. CASE OnTimer
  <2>1. /\ call.checked /\ call.op = "timer" /\ UNCHANGED <<main, stopped>>
        /\ \/ CloseSocket /\ call' = Goto("do_connect")
           \/ UNCHANGED <<ops, ready>> /\ call' = NoCall
    BY <1>6 DEF OnTimer, Running, threads
  <2>2. QueueKept /\ (sock' = "closed" => NothingPending')
    BY <2>1, SameQueue, CloseKeeps DEF CloseSocket, StopInv, ClosedForGood, NothingPending, ops
  <2>3. QED BY <2>1, <2>2, HandlerKeeps, NoCallUnguarded, GotoUnguarded DEF Segments
<1>7. CASE DoRead
  <2>1. /\ call.checked /\ call.op = "do_read" /\ call' = NoCall
        /\ UNCHANGED <<main, stopped, sock, connEp, writes>>
        /\ \/ sock # "closed" /\ ready' = ready
           \/ /\ ReadResult # "none" /\ UNCHANGED nReads
              /\ ready' = Append(ready, Entry("read", ReadResult, 0))
    BY <1>7 DEF DoRead, ReadMayWait, Running, config, threads
  <2>2. ReadResult # "none" => ReadResult \in Errors
    BY DEF ReadResult, Errors
  <2>3. QueueKept
    BY <2>1, <2>2, SameQueue, AppendKeeps DEF Work, Handlers
  <2>4. QED BY <2>1, <2>3, HandlerKeeps, NoCallUnguarded DEF StopInv, ClosedForGood, NothingPending
<1>8. CASE DoWrite
  <2>1. /\ call.checked /\ call.op = "do_write" /\ call' = NoCall
        /\ UNCHANGED <<main, stopped, sock, connEp, nReads>>
        /\ \/ sock # "closed" /\ ready' = ready
           \/ /\ WriteResult # "none" /\ UNCHANGED writes
              /\ ready' = Append(ready, Entry("write", WriteResult, Head(writeMsgs)))
    BY <1>8 DEF DoWrite, WriteMayWait, Running, config, threads
  <2>2. WriteResult # "none" => WriteResult \in Errors
    BY DEF WriteResult, Errors
  <2>3. Head(writeMsgs) \in Nat
    BY <2>1, HeadTailProperties DEF TypeInv, TypeOK, InProgress, InWrite
  <2>4. QueueKept
    BY <2>1, <2>2, <2>3, SameQueue, AppendKeeps DEF Work, Handlers
  <2>5. QED BY <2>1, <2>4, HandlerKeeps, NoCallUnguarded DEF StopInv, ClosedForGood, NothingPending
<1>9. CASE OnClose
  <2>1. /\ call.op = "close" /\ call' = NoCall /\ UNCHANGED <<main, stopped>>
        /\ CloseSocket \/ (sock = "closed" /\ UNCHANGED <<ops, ready>>)
    BY <1>9 DEF OnClose, Running, threads
  <2>2. QueueKept /\ sock' = "closed" /\ NothingPending'
    BY <2>1, SameQueue, CloseKeeps DEF CloseSocket, StopInv, ClosedForGood, NothingPending, ops
  <2>3. QED BY <2>1, <2>2, StartsKept, NoCallUnguarded DEF StopInv, ClosedForGood
<1>10. CASE OnStart
  <2>1. /\ call.op = "start" /\ call' = Goto("do_connect")
        /\ UNCHANGED <<main, ready, ops>>
    BY <1>10 DEF OnStart, Running, threads
  <2>2. main = "loop" /\ Without(ready, "start") /\ AtMostOneStart(ready)
    BY <2>1 DEF StopInv, StartsInOrder
  <2>3. call'.op = "do_connect" /\ ~call'.checked
    BY <2>1, GotoLemma DEF Segments
  <2>4. StartsInOrder'
    BY <2>1, <2>2, <2>3 DEF StartsInOrder
  <2>5. QED
    BY <2>1, <2>2, <2>3, <2>4
       DEF StopInv, ClosedForGood, CloseHasRun, NothingPending, ops, Unguarded
<1>11. CASE Dequeue
  <2>1. /\ ready # <<>> /\ Head(ready).op # "io" /\ call = NoCall
        /\ call' = Begin(Head(ready)) /\ ready' = Tail(ready)
        /\ UNCHANGED <<main, stopped, sock, connEp, nReads, writes>>
    BY <1>11 DEF Dequeue, Between, config, ops, threads
  <2>2. call'.op = Head(ready).op /\ (call'.checked <=> call'.op \in Unguarded)
    BY <1>0, <2>1, TailWrites, BeginChecked
  <2>3. StartsInOrder'
    BY <1>0, <2>1, <2>2, TailStarts DEF StopInv, StartsInOrder
  <2>4. CloseHasRun' => CloseHasRun /\ Head(ready).op # "close"
    <3>1. call.op # "close"
      BY <2>1, NoCallLemma
    <3>2. Queued("close") => Head(ready).op = "close" \/ Queued("close")'
      BY <1>0, <2>1, TailStarts, QueuedWithout, QueuedWithoutNext
    <3>3. QED BY <2>1, <2>2, <3>1, <3>2 DEF CloseHasRun
  <2>5. CloseHasRun' => call'.op # "start"
    BY <1>0, <2>1, <2>2, <2>4, TailStarts DEF StopInv, StartsInOrder, CloseHasRun
  <2>6. QED
    BY <2>1, <2>2, <2>3, <2>4, <2>5 DEF StopInv, ClosedForGood, NothingPending, Unguarded
<1>12. CASE PerformIo
  <2>1. /\ QueueKept /\ call = NoCall
        /\ call' = NoCall \/ call'.op \in {"connect_op", "write", "read"}
        /\ call'.checked <=> call'.op = "connect_op"
        /\ UNCHANGED <<main, stopped, sock>>
    BY <1>12, PerformKeeps DEF PerformIo, Between, config, threads
  <2>2. PICK nw \in 0..Len(writes), nr \in 0..nReads :
          /\ connEp' = IF ConnectDone = <<>> THEN connEp ELSE 0
          /\ writes' = SubSeq(writes, nw + 1, Len(writes)) /\ nReads' = nReads - nr
    BY <1>12 DEF PerformIo
  <2>3. NothingPending => NothingPending'
    <3>1. ASSUME NothingPending PROVE NothingPending'
      <4>1. connEp = 0 /\ nReads = 0 /\ writes = <<>>
        BY <3>1 DEF NothingPending
      <4>2. nr = 0 /\ nw = 0 /\ Len(writes) = 0
        BY <4>1
      <4>3. connEp' = 0 /\ nReads' = 0 /\ writes' = <<>>
        BY <2>2, <4>1, <4>2
      <4>4. QED BY <4>3 DEF NothingPending
    <3>2. QED BY <3>1
  <2>4. StartsInOrder'
    BY <2>1, StartsKept, NoCallLemma DEF StopInv
  <2>5. CloseHasRun' => CloseHasRun
    BY <2>1, CloseHadRun, NoCallLemma
  <2>6. QED
    BY <2>1, <2>3, <2>4, <2>5, NoCallUnguarded DEF StopInv, ClosedForGood, Unguarded
<1>13. CASE ReportDue \/ ReportPossible \/ TimerExpires
  <2>1. /\ \/ ready' = Append(ready, Entry("io", "ok", 0))
           \/ ready' = Append(ready, Entry("timer", "ok", 0))
        /\ UNCHANGED <<main, stopped, call, ops>>
    BY <1>13 DEF ReportDue, ReportPossible, Report, TimerExpires, config, threads
  <2>2. QueueKept
    BY <2>1, AppendKeeps DEF Work, Handlers, Errors
  <2>3. QED BY <2>1, <2>2, OutsideKeeps DEF ops
<1>14. CASE IoExit \/ ConnectionSettles \/ PeerClosesOrResets
  <2>1. /\ UNCHANGED <<main, stopped, call, ready, connEp, nReads, writes>>
        /\ sock' = "closed" <=> sock = "closed"
    BY <1>14 DEF IoExit, ConnectionSettles, PeerClosesOrResets, config, ops, threads
  <2>2. QED BY <2>1, SameQueue, OutsideKeeps
<1>15. CASE MainStart
  <2>1. /\ main = "init" /\ main' = "starting" /\ call' = Goto("do_connect")
        /\ UNCHANGED <<ready, ops>>
    BY <1>15 DEF MainStart
  <2>2. call'.op = "do_connect" /\ ~call'.checked
    BY <2>1, GotoLemma DEF Segments
  <2>3. StartsInOrder'
    BY <2>1, <2>2 DEF StopInv, StartsInOrder
  <2>4. QED
    BY <2>1, <2>2, <2>3 DEF StopInv, ClosedForGood, CloseHasRun, NothingPending, ops, Unguarded
<1>16. CASE MainRun \/ MainStopStore \/ MainIoStop \/ MainJoin
  <2>1. UNCHANGED <<ready, ops, call>>
    BY <1>16 DEF MainRun, MainStopStore, MainIoStop, MainJoin
  <2>2. \/ main = "starting" /\ main' = "loop"
        \/ main = "loop" /\ main' = "stopping" /\ ~stopped /\ stopped'
        \/ main = "stopped" /\ main' = "joining" /\ stopped' = stopped
        \/ main = "joining" /\ main' = "done" /\ stopped' = stopped
    BY <1>16 DEF MainRun, MainStopStore, MainIoStop, MainJoin, config
  <2>3. QED BY <2>1, <2>2, SameQueue, MainKeeps
<1>17. CASE MainSend
  <2>1. /\ ready' = Append(ready, Entry("send", "ok", sends + 1)) /\ sends + 1 \in Nat
        /\ UNCHANGED <<main, stopped, call, ops>>
    BY <1>17, BoundsAssumption DEF MainSend, config, threads, TypeInv, TypeOK
  <2>2. QueueKept
    BY <2>1, AppendKeeps DEF Work, Handlers, Errors
  <2>3. QED BY <2>1, <2>2, OutsideKeeps DEF ops
<1>18. ASSUME NEW op \in {"start", "close"}, ready' = Append(ready, Entry(op, "ok", 0))
       PROVE  /\ op = "close" => (Without(ready, "start") => Without(ready', "start"))
              /\ op = "close" => (AtMostOneStart(ready) => AtMostOneStart(ready'))
              /\ Without(ready, "start") => AtMostOneStart(ready')
              /\ op = "close" => Queued("close")'
              /\ Queued("close") => Queued("close")'
  <2> DEFINE e == Entry(op, "ok", 0)
  <2>1. e \in Entries /\ e.op = op
    BY EntryLemma DEF Handlers, Errors
  <2> HIDE DEF e
  <2>2. /\ Len(ready') = Len(ready) + 1 /\ Len(ready) \in Nat
        /\ ready'[Len(ready) + 1] = e
        /\ \A i \in 1..Len(ready) : ready'[i] = ready[i]
    BY <1>0, <1>18, <2>1, AppendProperties, LenProperties DEF e
  <2>3. QED
    BY <2>1, <2>2, QueuedWithout, QueuedWithoutNext DEF Without, AtMostOneStart
<1>19. CASE MainStopPost
  <2>1. /\ main = "stopping" /\ main' = "stopped"
        /\ ready' = Append(ready, Entry("close", "ok", 0))
        /\ UNCHANGED <<stopped, call, ops>>
    BY <1>19 DEF MainStopPost, config
  <2>2. QED
    BY <1>18, <2>1 DEF StopInv, StartsInOrder, ClosedForGood, CloseHasRun, NothingPending, ops
<1>20. CASE MainRestart
  <2>1. /\ main = "stopped" /\ main' = "loop"
        /\ ready' = Append(ready, Entry("start", "ok", 0))
        /\ UNCHANGED <<stopped, call, ops>>
    BY <1>20 DEF MainRestart, config
  <2>2. QED
    BY <1>18, <2>1 DEF StopInv, StartsInOrder, ClosedForGood, CloseHasRun, NothingPending, ops
<1>21. CASE Ended \/ UNCHANGED vars
  <2>1. UNCHANGED vars
    BY <1>21 DEF Ended
  <2>2. QED BY <2>1, SameQueue, OutsideKeeps DEF vars, config, ops, threads
<1>22. QED
  BY <1>1, <1>2, <1>3, <1>4, <1>5, <1>6, <1>7, <1>8, <1>9, <1>10, <1>11, <1>12, <1>13, <1>14,
     <1>15, <1>16, <1>17, <1>19, <1>20, <1>21
     DEF Next, IoThread, Client, Main

\* Once the function that close() posted has run the socket stays closed, with
\* nothing pending on it, until start() is called again: whatever handler was
\* running or queued while main executed stop(), and however often it is called.
THEOREM StopIsFinalAlways == Spec => []StopIsFinal
<1>1. Init => StopInv
  <2>1. ASSUME Init PROVE StopInv
    <3>1. /\ ready = <<>> /\ call = NoCall /\ main = "init"
          /\ connEp = 0 /\ nReads = 0 /\ writes = <<>>
      BY <2>1 DEF Init
    <3>2. Without(ready, "start") /\ AtMostOneStart(ready)
      BY <3>1 DEF Without, AtMostOneStart
    <3>3. QED
      BY <3>1, <3>2, NoCallUnguarded
         DEF StopInv, StartsInOrder, ClosedForGood, CloseHasRun, NothingPending
  <2>2. QED BY <2>1
<1>2. StopInv => StopIsFinal
  BY DEF StopInv, ClosedForGood, CloseHasRun, NothingPending, StopIsFinal
<1>3. QED BY <1>1, <1>2, TypeInit, TypeNext, StopNext, PTL DEF Spec
=============================================================================
