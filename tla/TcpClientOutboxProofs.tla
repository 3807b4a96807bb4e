----------------------- MODULE TcpClientOutboxProofs -----------------------
(***************************************************************************)
(* TcpClient implements Outbox: messages reach the connection in the order *)
(* send() accepted them, each at most once.                                *)
(***************************************************************************)
EXTENDS TcpClientProofs

\* The messages accepted and popped since, and how far the connection is ahead
\* of them: by one between the success of a write and its handler's pop.
Popped == Len(accepted) - Len(writeMsgs)
Ahead  == Len(wire) - Popped

\* A queued send() carries a message; a write that succeeded and whose handler
\* has not run yet is the one that is ahead.
Good(e, ahead) ==
    /\ e.op = "send" => e.arg \in Messages
    /\ e.op = "write" /\ e.ec = "ok" => ahead = 1
AllGood(q, ahead) == \A i \in 1..Len(q) : Good(q[i], ahead)

\* write_msgs_ is what has been accepted and not popped; its front message is
\* the next one to reach the connection unless the connection is ahead, and
\* then no write of it is started again: either the handler pops it, or the
\* handler returns because stopped_ is set, and nothing is written any more.
FrontIsNext ==
    /\ Popped >= 0
    /\ \A i \in 1..Len(writeMsgs) : writeMsgs[i] = accepted[Popped + i]
    /\ Ahead \in {0, 1} /\ (Ahead = 1 => writeMsgs # <<>>)
    /\ writes # <<>> => Ahead = 0 /\ writes[1] = Head(writeMsgs)
    /\ call.op = "do_write" => Ahead = 0
    /\ AllGood(ready, Ahead) /\ Good(call, Ahead)

-----------------------------------------------------------------------------
(* The queue.                                                              *)

LEMMA GoodEntry ==
    ASSUME NEW k, NEW op \in Handlers, NEW ec \in Errors, NEW n \in Nat,
           op # "send", op = "write" /\ ec = "ok" => k = 1
    PROVE  Good(Entry(op, ec, n), k) /\ Entry(op, ec, n) \in Entries
  BY EntryLemma DEF Good, Entry

LEMMA GoodConcat ==
    ASSUME NEW k, NEW s \in Seq(Entries), NEW t \in Seq(Entries), AllGood(s, k), AllGood(t, k)
    PROVE  AllGood(s \o t, k) /\ s \o t \in Seq(Entries)
<1>1. /\ s \o t \in Seq(Entries)
      /\ Len(s) \in Nat /\ Len(t) \in Nat /\ Len(s \o t) = Len(s) + Len(t)
      /\ \A i \in 1..Len(s) + Len(t) :
           (s \o t)[i] = IF i <= Len(s) THEN s[i] ELSE t[i - Len(s)]
  BY ConcatProperties, LenProperties
<1>2. ASSUME NEW i \in 1..Len(s \o t) PROVE Good((s \o t)[i], k)
  <2>1. CASE i <= Len(s)
    <3>1. i \in 1..Len(s) /\ (s \o t)[i] = s[i]
      BY <1>1, <2>1
    <3>2. QED BY <3>1 DEF AllGood
  <2>2. CASE i > Len(s)
    <3>1. i - Len(s) \in 1..Len(t) /\ (s \o t)[i] = t[i - Len(s)]
      BY <1>1, <2>2
    <3>2. QED BY <3>1 DEF AllGood
  <2>3. QED BY <1>1, <2>1, <2>2
<1>3. QED BY <1>1, <1>2 DEF AllGood

LEMMA GoodOne ==
    ASSUME NEW k, NEW e \in Entries, Good(e, k)
    PROVE  AllGood(<<e>>, k) /\ <<e>> \in Seq(Entries)
  BY DEF AllGood

LEMMA GoodAppend ==
    ASSUME NEW k, NEW q \in Seq(Entries), NEW e \in Entries, AllGood(q, k), Good(e, k)
    PROVE  AllGood(Append(q, e), k)
<1>1. Append(q, e) = q \o <<e>>
  BY AppendIsConcat
<1>2. QED BY <1>1, GoodOne, GoodConcat

LEMMA GoodTail ==
    ASSUME NEW k, NEW q \in Seq(Entries), q # <<>>, AllGood(q, k)
    PROVE  Good(Head(q), k) /\ AllGood(Tail(q), k) /\ Tail(q) \in Seq(Entries)
<1>1. /\ Tail(q) \in Seq(Entries) /\ Len(q) \in Nat \ {0}
      /\ Len(Tail(q)) = Len(q) - 1 /\ Head(q) = q[1]
      /\ \A i \in 1..Len(Tail(q)) : Tail(q)[i] = q[i + 1]
  BY HeadTailProperties, EmptySeq
<1>2. /\ 1 \in 1..Len(q)
      /\ \A i \in 1..Len(Tail(q)) : i + 1 \in 1..Len(q)
  BY <1>1
<1>3. QED BY <1>1, <1>2 DEF AllGood

LEMMA GoodFromKind ==
    ASSUME NEW k, NEW S, NEW q \in Seq(Entries), Only(q, S), "send" \notin S,
           k = 1 \/ NoWrite(q)
    PROVE  AllGood(q, k)
  BY DEF AllGood, Good, Only, NoWrite

LEMMA GoodNoWrite ==
    ASSUME NEW k, NEW j, NEW q, AllGood(q, k), k # 1 => NoWrite(q) \/ j = 1, NoWrite(q) \/ j = 1
    PROVE  AllGood(q, j)
  BY DEF AllGood, Good, NoWrite

LEMMA GoodEmpty == \A k : AllGood(<<>>, k)
  BY DEF AllGood

\* What closing or replacing the socket queues has not succeeded.
LEMMA GoodAborted ==
    ASSUME TypeInv, NEW k
    PROVE  AllGood(AbortedOps, k) /\ AbortedOps \in Seq(Entries)
<1> DEFINE R == Times(nReads, Entry("read", "aborted", 0))
           C == IF connEp = 0 THEN <<>> ELSE <<Entry("connect_op", "aborted", connEp)>>
           W == [i \in 1..Len(writes) |-> Entry("write", "aborted", writes[i])]
<1>1. /\ nReads \in Nat /\ connEp \in Nat /\ writes \in Seq(Nat) /\ Len(writes) \in Nat
      /\ \A i \in 1..Len(writes) : writes[i] \in Nat
  BY EndpointsAssumption, LenProperties, ElementOfSeq, SMTT(30) DEF TypeInv, TypeOK
<1>2. R \in Seq(Entries) /\ AllGood(R, k)
  <2>1. R \in Seq(Entries) /\ NoWrite(R) /\ Only(R, {"read"})
    BY <1>1, ReadEntries DEF Errors
  <2> HIDE DEF R
  <2>2. QED BY <2>1, GoodFromKind
<1>3. C \in Seq(Entries) /\ AllGood(C, k)
  <2>1. /\ Good(Entry("connect_op", "aborted", connEp), k)
        /\ Entry("connect_op", "aborted", connEp) \in Entries
    BY <1>1, GoodEntry DEF Handlers, Errors
  <2>2. QED BY <2>1, GoodOne, GoodEmpty, EmptySeq
<1>4. W \in Seq(Entries) /\ AllGood(W, k)
  <2>1. \A i \in 1..Len(writes) : /\ Good(Entry("write", "aborted", writes[i]), k)
                                  /\ Entry("write", "aborted", writes[i]) \in Entries
    BY <1>1, GoodEntry DEF Handlers, Errors
  <2>2. W \in Seq(Entries) /\ Len(W) = Len(writes)
    BY <1>1, <2>1, IsASeq
  <2>3. QED BY <2>1, <2>2 DEF AllGood
<1>5. AbortedOps = R \o C \o W
  BY DEF AbortedOps
<1> HIDE DEF R, C, W
<1>6. R \o C \in Seq(Entries) /\ AllGood(R \o C, k)
  BY <1>2, <1>3, GoodConcat
<1>7. QED BY <1>4, <1>5, <1>6, GoodConcat

LEMMA GoodConnect ==
    ASSUME TypeInv, NEW k, AllGood(ready, k), NEW ep \in Nat, ConnectTo(ep)
    PROVE  AllGood(ready', k) /\ writes' = <<>>
<1>1. ready \o AbortedOps \in Seq(Entries) /\ AllGood(ready \o AbortedOps, k)
  BY GoodAborted, GoodConcat DEF TypeInv, TypeOK
<1>2. ASSUME NEW ec \in Errors
      PROVE  AllGood(ready \o AbortedOps \o <<Entry("connect_op", ec, ep)>>, k)
  <2>1. Good(Entry("connect_op", ec, ep), k) /\ Entry("connect_op", ec, ep) \in Entries
    BY GoodEntry DEF Handlers
  <2>2. QED BY <1>1, <2>1, GoodOne, GoodConcat
<1>3. QED BY <1>1, <1>2 DEF ConnectTo, Errors

LEMMA GoodClose ==
    ASSUME TypeInv, NEW k, AllGood(ready, k), CloseSocket
    PROVE  AllGood(ready', k) /\ writes' = <<>>
  BY GoodAborted, GoodConcat DEF CloseSocket, TypeInv, TypeOK

LEMMA GoodPost ==
    ASSUME TypeInv, NEW k, AllGood(ready, k), NEW op \in Handlers \ {"write", "send"},
           NEW ec \in Errors, NEW n \in Nat, ready' = Append(ready, Entry(op, ec, n))
    PROVE  AllGood(ready', k)
<1>1. Good(Entry(op, ec, n), k) /\ Entry(op, ec, n) \in Entries
  BY GoodEntry
<1>2. QED BY <1>1, GoodAppend DEF TypeInv, TypeOK

-----------------------------------------------------------------------------
(* Steps that leave the messages alone.                                    *)

LEMMA LeavesMessages ==
    ASSUME FrontIsNext, UNCHANGED <<outbox, wire>>, writes' = writes \/ writes' = <<>>,
           AllGood(ready', Ahead), Good(call', Ahead),
           call'.op = "do_write" => call.op = "do_write"
    PROVE  FrontIsNext'
  BY DEF FrontIsNext, outbox, Ahead, Popped

LEMMA GoodGoto ==
    ASSUME NEW k
    PROVE  /\ Good(NoCall, k) /\ NoCall.op # "do_write"
           /\ \A op \in Segments : Good(Goto(op), k)
  BY NoCallLemma, GotoLemma DEF Good, Segments

OtherHandlers ==
    \/ CheckStopped \/ DoConnect \/ ConnectOp \/ OnConnect \/ ScheduleReconnect \/ OnTimer
    \/ DoRead \/ OnRead \/ OnClose \/ OnStart

LEMMA OtherHandlersStep ==
    ASSUME TypeInv, FrontIsNext, OtherHandlers
    PROVE  UNCHANGED <<outbox, wire>> /\ FrontIsNext'
<1>1. AllGood(ready, Ahead) /\ Good(call, Ahead)
  BY DEF FrontIsNext
<1>2. UNCHANGED <<outbox, wire>>
  BY DEF OtherHandlers, CheckStopped, DoConnect, ConnectOp, OnConnect, ScheduleReconnect,
         OnTimer, DoRead, OnRead, OnClose, OnStart
<1> SUFFICES /\ writes' = writes \/ writes' = <<>>
             /\ AllGood(ready', Ahead) /\ Good(call', Ahead)
             /\ call'.op = "do_write" => call.op = "do_write"
  BY <1>2, LeavesMessages
<1> USE DEF ops
<1>3. CASE CheckStopped
  <2>1. call' = NoCall \/ (call'.op = call.op /\ call'.arg = call.arg /\ call'.ec = call.ec)
    BY <1>3 DEF CheckStopped, Calls, TypeInv, TypeOK
  <2>2. Good(call', Ahead)
    BY <1>1, <2>1, GoodGoto DEF Good
  <2>3. QED BY <1>1, <1>3, <2>1, <2>2, GoodGoto DEF CheckStopped
<1>4. CASE DoConnect
  <2>1. ConnectTo(1) \/ UNCHANGED <<writes, ready>>
    BY <1>4 DEF DoConnect
  <2>2. AllGood(ready', Ahead) /\ (writes' = writes \/ writes' = <<>>)
    BY <1>1, <2>1, GoodConnect
  <2>3. QED BY <1>4, <2>2, GoodGoto DEF DoConnect
<1>5. CASE ConnectOp
  <2>1. CASE sock # "closed" /\ call.ec # "ok" /\ call.arg < NEndpoints
    <3>1. ConnectTo(call.arg + 1) /\ call' = NoCall /\ call.arg + 1 \in Nat
      BY <1>5, <2>1, SMTT(30) DEF ConnectOp, TypeInv, TypeOK, Calls
    <3>2. QED BY <1>1, <3>1, GoodConnect, GoodGoto
  <2>2. CASE ~(sock # "closed" /\ call.ec # "ok" /\ call.arg < NEndpoints)
    <3>1. UNCHANGED <<writes, ready>> /\ call'.op = "connect"
      BY <1>5, <2>2 DEF ConnectOp, Goto, NoCall
    <3>2. QED BY <1>1, <3>1 DEF Good
  <2>3. QED BY <2>1, <2>2
<1>6. CASE OnConnect \/ OnRead \/ OnStart
  <2>1. call' \in {Goto("do_read"), Goto("schedule_reconnect"), Goto("do_connect")}
        /\ UNCHANGED <<writes, ready>>
    BY <1>6 DEF OnConnect, OnRead, OnStart
  <2>2. Good(call', Ahead) /\ call'.op # "do_write"
    BY <2>1, GoodGoto, GotoLemma DEF Segments
  <2>3. QED BY <1>1, <2>1, <2>2
<1>7. CASE ScheduleReconnect
  <2>1. ready' = ready \/ ready' = Append(ready, Entry("timer", "aborted", 0))
    BY <1>7 DEF ScheduleReconnect
  <2>2. AllGood(ready', Ahead)
    BY <1>1, <2>1, GoodPost DEF Handlers, Errors
  <2>3. QED BY <1>7, <2>2, GoodGoto DEF ScheduleReconnect
<1>8. CASE OnTimer
  <2>1. CloseSocket \/ UNCHANGED <<writes, ready>>
    BY <1>8 DEF OnTimer
  <2>2. AllGood(ready', Ahead) /\ (writes' = writes \/ writes' = <<>>)
    BY <1>1, <2>1, GoodClose
  <2>3. call' \in {NoCall, Goto("do_connect")}
    BY <1>8 DEF OnTimer
  <2>4. Good(call', Ahead) /\ call'.op # "do_write"
    BY <2>3, GoodGoto, GotoLemma DEF Segments
  <2>5. QED BY <2>2, <2>4
<1>9. CASE DoRead
  <2>1. /\ call' = NoCall /\ writes' = writes
        /\ \/ ready' = ready
           \/ ReadResult # "none" /\ ready' = Append(ready, Entry("read", ReadResult, 0))
    BY <1>9 DEF DoRead
  <2>2. ReadResult # "none" => ReadResult \in Errors
    BY DEF ReadResult, Errors
  <2>3. AllGood(ready', Ahead)
    BY <1>1, <2>1, <2>2, GoodPost DEF Handlers
  <2>4. QED BY <2>1, <2>3, GoodGoto
<1>10. CASE OnClose
  <2>1. CloseSocket \/ UNCHANGED <<writes, ready>>
    BY <1>10 DEF OnClose
  <2>2. AllGood(ready', Ahead) /\ (writes' = writes \/ writes' = <<>>)
    BY <1>1, <2>1, GoodClose
  <2>3. QED BY <1>10, <2>2, GoodGoto DEF OnClose
<1>11. QED
  BY <1>3, <1>4, <1>5, <1>6, <1>7, <1>8, <1>9, <1>10 DEF OtherHandlers

Surroundings ==
    \/ Dequeue \/ ReportDue \/ ReportPossible \/ TimerExpires \/ IoExit
    \/ ConnectionSettles \/ PeerClosesOrResets \/ Main \/ Ended \/ UNCHANGED vars

LEMMA SurroundingsStep ==
    ASSUME TypeInv, FrontIsNext, Surroundings
    PROVE  UNCHANGED <<outbox, wire>> /\ FrontIsNext'
<1>1. AllGood(ready, Ahead) /\ Good(call, Ahead)
  BY DEF FrontIsNext
<1>2. UNCHANGED <<outbox, wire, writes>>
  BY DEF Surroundings, Dequeue, ReportDue, ReportPossible, Report, TimerExpires, IoExit,
         ConnectionSettles, PeerClosesOrResets, Main, MainStart, MainRun, MainSend, MainStopStore,
         MainStopPost, MainRestart, MainIoStop, MainJoin, Ended, vars, ops
<1> SUFFICES /\ AllGood(ready', Ahead) /\ Good(call', Ahead)
             /\ call'.op = "do_write" => call.op = "do_write"
  BY <1>2, LeavesMessages
<1>3. CASE Dequeue
  <2>1. /\ ready # <<>> /\ Head(ready).op # "io" /\ ready' = Tail(ready)
        /\ call' = Begin(Head(ready))
    BY <1>3 DEF Dequeue
  <2>2. Good(Head(ready), Ahead) /\ AllGood(Tail(ready), Ahead) /\ Head(ready) \in Entries
    BY <1>1, <2>1, GoodTail, HeadTailProperties DEF TypeInv, TypeOK
  <2>3. call'.op = Head(ready).op /\ call'.ec = Head(ready).ec /\ call'.arg = Head(ready).arg
    BY <2>1 DEF Begin
  <2>4. call'.op # "do_write"
    BY <2>2, <2>3 DEF Entries, Handlers
  <2>5. QED BY <2>1, <2>2, <2>3, <2>4 DEF Good
<1>4. CASE ReportDue \/ ReportPossible
  <2>1. ready' = Append(ready, Entry("io", "ok", 0)) /\ call' = call
    BY <1>4 DEF ReportDue, ReportPossible, Report
  <2>2. AllGood(ready', Ahead)
    BY <1>1, <2>1, GoodPost DEF Handlers, Errors
  <2>3. QED BY <1>1, <2>1, <2>2
<1>5. CASE TimerExpires
  <2>1. ready' = Append(ready, Entry("timer", "ok", 0)) /\ call' = call
    BY <1>5 DEF TimerExpires
  <2>2. AllGood(ready', Ahead)
    BY <1>1, <2>1, GoodPost DEF Handlers, Errors
  <2>3. QED BY <1>1, <2>1, <2>2
<1>6. CASE IoExit \/ ConnectionSettles \/ PeerClosesOrResets \/ MainRun \/ MainStopStore
           \/ MainIoStop \/ MainJoin \/ Ended \/ UNCHANGED vars
  BY <1>1, <1>6 DEF IoExit, ConnectionSettles, PeerClosesOrResets, MainRun, MainStopStore,
       MainIoStop, MainJoin, Ended, vars
<1>7. CASE MainStart
  <2>1. call' = Goto("do_connect") /\ ready' = ready
    BY <1>7 DEF MainStart
  <2>2. QED BY <1>1, <2>1, GoodGoto, GotoLemma DEF Segments
<1>8. CASE MainSend
  <2>1. sends + 1 \in Messages /\ sends + 1 \in Nat
    BY <1>8, BoundsAssumption DEF MainSend, Messages, TypeInv, TypeOK
  <2>2. /\ Good(Entry("send", "ok", sends + 1), Ahead)
        /\ Entry("send", "ok", sends + 1) \in Entries
    BY <2>1, EntryLemma DEF Good, Entry, Handlers, Errors
  <2>3. ready' = Append(ready, Entry("send", "ok", sends + 1)) /\ call' = call
    BY <1>8 DEF MainSend
  <2>4. AllGood(ready', Ahead)
    BY <1>1, <2>2, <2>3, GoodAppend DEF TypeInv, TypeOK
  <2>5. QED BY <1>1, <2>3, <2>4
<1>9. CASE MainStopPost
  <2>1. ready' = Append(ready, Entry("close", "ok", 0)) /\ call' = call
    BY <1>9 DEF MainStopPost
  <2>2. AllGood(ready', Ahead)
    BY <1>1, <2>1, GoodPost DEF Handlers, Errors
  <2>3. QED BY <1>1, <2>1, <2>2
<1>10. CASE MainRestart
  <2>1. ready' = Append(ready, Entry("start", "ok", 0)) /\ call' = call
    BY <1>10 DEF MainRestart
  <2>2. AllGood(ready', Ahead)
    BY <1>1, <2>1, GoodPost DEF Handlers, Errors
  <2>3. QED BY <1>1, <2>1, <2>2
<1>11. QED
  BY <1>3, <1>4, <1>5, <1>6, <1>7, <1>8, <1>9, <1>10 DEF Surroundings, Main

-----------------------------------------------------------------------------
(* Steps on the messages.                                                  *)

LEMMA Lengths ==
    ASSUME TypeInv
    PROVE  /\ writeMsgs \in Seq(Nat) /\ accepted \in Seq(Nat) /\ wire \in Seq(Nat)
           /\ Len(writeMsgs) \in Nat /\ Len(accepted) \in Nat /\ Len(wire) \in Nat
           /\ ready \in Seq(Entries) /\ writes \in Seq(Nat)
  BY LenProperties DEF TypeInv, TypeOK

LEMMA FrontIsNextAccepted ==
    ASSUME TypeInv, FrontIsNext, writeMsgs # <<>>, Ahead = 0
    PROVE  /\ Len(wire) < Len(accepted) /\ Head(writeMsgs) = accepted[Len(wire) + 1]
           /\ Head(writeMsgs) \in Nat
<1>1. /\ Len(writeMsgs) > 0 /\ Head(writeMsgs) = writeMsgs[1] /\ Head(writeMsgs) \in Nat
  BY Lengths, HeadTailProperties, EmptySeq
<1>2. writeMsgs[1] = accepted[Popped + 1]
  BY <1>1, Lengths DEF FrontIsNext
<1>3. Len(wire) = Popped
  BY Lengths DEF Ahead, Popped
<1>4. QED BY <1>1, <1>2, <1>3, Lengths DEF Popped

LEMMA OnSendStep ==
    ASSUME TypeInv, FrontIsNext, OnSend
    PROVE  (\E m \in Messages : Delivery!Accept(m)) /\ FrontIsNext'
<1>1. /\ call.op = "send" /\ call.arg \in Messages
      /\ writeMsgs' = Append(writeMsgs, call.arg) /\ accepted' = Append(accepted, call.arg)
      /\ call' = IF writeMsgs = <<>> THEN Goto("do_write") ELSE NoCall
      /\ UNCHANGED <<writes, wire, ready>>
  BY DEF OnSend, Running, FrontIsNext, Good, ops
<1>2. Delivery!Accept(call.arg)
  BY <1>1 DEF Delivery!Accept
<1>3. call.arg \in Nat
  BY <1>1 DEF Messages
<1>4. /\ Len(writeMsgs') = Len(writeMsgs) + 1 /\ Len(accepted') = Len(accepted) + 1
      /\ \A i \in 1..Len(writeMsgs) : writeMsgs'[i] = writeMsgs[i]
      /\ \A i \in 1..Len(accepted) : accepted'[i] = accepted[i]
      /\ writeMsgs'[Len(writeMsgs) + 1] = call.arg
      /\ accepted'[Len(accepted) + 1] = call.arg
  BY <1>1, <1>3, Lengths, AppendProperties
<1>5. Popped' = Popped /\ Ahead' = Ahead /\ Popped \in Nat
  BY <1>1, <1>4, Lengths DEF Popped, Ahead, FrontIsNext
<1>6. ASSUME NEW i \in 1..Len(writeMsgs') PROVE writeMsgs'[i] = accepted'[Popped' + i]
  <2>1. CASE i = Len(writeMsgs) + 1
    <3>1. Popped + Len(writeMsgs) = Len(accepted)
      BY Lengths DEF Popped
    <3>2. Popped' + i = Len(accepted) + 1
      <4>1. Popped \in Nat /\ Len(writeMsgs) \in Nat /\ Len(accepted) \in Nat
        BY <1>5, Lengths
      <4>2. Popped + (Len(writeMsgs) + 1) = Len(accepted) + 1
        BY <3>1, <4>1
      <4>3. QED BY <1>5, <2>1, <4>2
    <3>3. QED BY <1>4, <2>1, <3>2
  <2>2. CASE i \in 1..Len(writeMsgs)
    <3>1. Popped + i \in 1..Len(accepted) /\ writeMsgs[i] = accepted[Popped + i]
      BY <1>5, <2>2, Lengths DEF Popped, FrontIsNext
    <3>2. QED BY <1>4, <1>5, <2>2, <3>1
  <2>3. QED BY <1>4, <2>1, <2>2, Lengths
<1>7. writeMsgs' # <<>>
  BY <1>4, Lengths, EmptySeq
<1>8. writes # <<>> => writeMsgs # <<>>
  BY DEF TypeInv, InProgress
<1>9. writeMsgs # <<>> => Head(writeMsgs') = Head(writeMsgs)
  BY <1>1, <1>3, Lengths
<1>10. writes' # <<>> => Ahead' = 0 /\ writes'[1] = Head(writeMsgs')
  BY <1>1, <1>5, <1>8, <1>9 DEF FrontIsNext
<1>11. Good(call', Ahead') /\ (call'.op = "do_write" => Ahead' = 0)
  <2>1. Good(call', Ahead') /\ (call'.op = "do_write" => writeMsgs = <<>>)
    BY <1>1, GoodGoto DEF Segments
  <2>2. writeMsgs = <<>> => Ahead = 0
    BY DEF FrontIsNext
  <2>3. QED BY <1>5, <2>1, <2>2
<1>12. AllGood(ready', Ahead') /\ Ahead' \in {0, 1} /\ Popped' >= 0
  BY <1>1, <1>5 DEF FrontIsNext
<1>13. QED
  BY <1>1, <1>2, <1>6, <1>7, <1>10, <1>11, <1>12 DEF FrontIsNext

\* A write that succeeds transmits the front message: then the connection is
\* ahead.
LEMMA TransmitStep ==
    ASSUME TypeInv, FrontIsNext, writeMsgs # <<>>, Ahead = 0,
           wire' = Append(wire, Head(writeMsgs)), outbox' = outbox
    PROVE  /\ Delivery!Transmit /\ Ahead' = 1 /\ Popped' = Popped
<1>1. /\ Len(wire) < Len(accepted) /\ Head(writeMsgs) = accepted[Len(wire) + 1]
      /\ Head(writeMsgs) \in Nat
  BY FrontIsNextAccepted
<1>2. Delivery!Transmit
  BY <1>1 DEF Delivery!Transmit, outbox
<1>3. Len(wire') = Len(wire) + 1
  BY <1>1, Lengths, AppendProperties
<1>4. Popped' = Popped /\ Popped \in Int
  BY Lengths DEF Popped, outbox
<1>5. Ahead' = Ahead + 1
  BY <1>3, <1>4, Lengths DEF Ahead
<1>6. QED BY <1>2, <1>4, <1>5

LEMMA DoWriteStep ==
    ASSUME TypeInv, FrontIsNext, DoWrite
    PROVE  (Delivery!Transmit \/ UNCHANGED <<accepted, wire>>) /\ FrontIsNext'
<1>1. /\ call.op = "do_write" /\ call' = NoCall /\ UNCHANGED outbox
      /\ writes = <<>> /\ NoWrite(ready) /\ writeMsgs # <<>> /\ Ahead = 0
  BY DEF DoWrite, Running, TypeInv, OneWrite, InProgress, InWrite, FrontIsNext
<1>2. Head(writeMsgs) \in Nat
  BY <1>1, FrontIsNextAccepted
<1>3. CASE writes' = Append(writes, Head(writeMsgs)) /\ UNCHANGED <<ready, wire>>
  <2>1. writes'[1] = Head(writeMsgs)
    BY <1>1, <1>3
  <2>2. Ahead' = Ahead /\ Popped' = Popped
    BY <1>1, <1>3 DEF Ahead, Popped, outbox
  <2>3. QED BY <1>1, <1>3, <2>1, <2>2, GoodGoto DEF FrontIsNext, outbox
<1>4. CASE WriteResult = "ok" /\ UNCHANGED writes
  <2>1. /\ ready' = Append(ready, Entry("write", "ok", Head(writeMsgs)))
        /\ wire' = Append(wire, Head(writeMsgs))
    BY <1>1, <1>4 DEF DoWrite
  <2>2. Delivery!Transmit /\ Ahead' = 1 /\ Popped' = Popped
    BY <1>1, <2>1, TransmitStep
  <2>3. /\ Good(Entry("write", "ok", Head(writeMsgs)), 1)
        /\ Entry("write", "ok", Head(writeMsgs)) \in Entries
    BY <1>2, GoodEntry DEF Handlers, Errors
  <2>4. AllGood(ready, 1)
    BY <1>1, GoodNoWrite DEF FrontIsNext
  <2>5. AllGood(ready', 1)
    BY <2>1, <2>3, <2>4, Lengths, GoodAppend
  <2>6. QED BY <1>1, <1>4, <2>2, <2>5, GoodGoto DEF FrontIsNext, outbox
<1>5. CASE WriteResult \notin {"ok", "none"} /\ UNCHANGED writes
  <2>1. /\ ready' = Append(ready, Entry("write", WriteResult, Head(writeMsgs)))
        /\ wire' = wire
    BY <1>1, <1>5 DEF DoWrite
  <2>2. /\ Good(Entry("write", WriteResult, Head(writeMsgs)), Ahead)
        /\ Entry("write", WriteResult, Head(writeMsgs)) \in Entries
    BY <1>2, <1>5, GoodEntry DEF Handlers, Errors, WriteResult
  <2>3. AllGood(ready', Ahead)
    BY <2>1, <2>2, Lengths, GoodAppend DEF FrontIsNext
  <2>4. Ahead' = Ahead /\ Popped' = Popped
    BY <1>1, <2>1 DEF Ahead, Popped, outbox
  <2>5. QED BY <1>1, <1>5, <2>1, <2>3, <2>4, GoodGoto DEF FrontIsNext, outbox
<1>6. QED BY <1>1, <1>3, <1>4, <1>5 DEF DoWrite

LEMMA OnWriteStep ==
    ASSUME TypeInv, FrontIsNext, OnWrite
    PROVE  UNCHANGED <<accepted, wire>> /\ FrontIsNext'
<1>1. /\ call.op = "write" /\ UNCHANGED <<accepted, wire, ready, writes>>
      /\ writes = <<>> /\ NoWrite(ready) /\ writeMsgs # <<>>
  BY DEF OnWrite, Running, TypeInv, OneWrite, InProgress, InWrite, ops
<1>2. CASE call.ec # "ok"
  <2>1. writeMsgs' = writeMsgs /\ call' = Goto("schedule_reconnect")
    BY <1>2 DEF OnWrite
  <2>2. Good(call', Ahead) /\ call'.op # "do_write"
    BY <2>1, GoodGoto, GotoLemma DEF Segments
  <2>3. AllGood(ready', Ahead)
    BY <1>1 DEF FrontIsNext
  <2>4. QED BY <1>1, <2>1, <2>2, <2>3, LeavesMessages DEF outbox
<1>3. CASE call.ec = "ok"
  <2>1. /\ writeMsgs' = Tail(writeMsgs) /\ Ahead = 1
        /\ call' = IF Tail(writeMsgs) = <<>> THEN NoCall ELSE Goto("do_write")
    BY <1>1, <1>3 DEF OnWrite, FrontIsNext, Good
  <2>2. /\ Len(writeMsgs') = Len(writeMsgs) - 1 /\ Len(writeMsgs) > 0
        /\ \A i \in 1..Len(writeMsgs') : writeMsgs'[i] = writeMsgs[i + 1]
    BY <1>1, <2>1, Lengths, HeadTailProperties, EmptySeq
  <2>3. Popped' = Popped + 1 /\ Ahead' = 0 /\ Popped \in Nat
    <3>1. Popped \in Nat
      BY Lengths DEF Popped, FrontIsNext
    <3>2. Popped' = Popped + 1
      BY <1>1, <2>2, Lengths DEF Popped
    <3>3. Ahead' = Ahead - 1
      BY <1>1, <3>1, <3>2, Lengths DEF Ahead
    <3>4. QED BY <2>1, <3>1, <3>2, <3>3
  <2>4. ASSUME NEW i \in 1..Len(writeMsgs') PROVE writeMsgs'[i] = accepted'[Popped' + i]
    <3>1. i + 1 \in 1..Len(writeMsgs) /\ Popped' + i = Popped + (i + 1)
      BY <2>2, <2>3, Lengths
    <3>2. QED BY <1>1, <2>2, <3>1 DEF FrontIsNext
  <2>5. AllGood(ready', 0)
    BY <1>1, GoodNoWrite DEF FrontIsNext
  <2>6. Good(call', 0)
    BY <2>1, GoodGoto DEF Segments
  <2>7. QED BY <1>1, <2>3, <2>4, <2>5, <2>6 DEF FrontIsNext
<1>4. QED BY <1>2, <1>3

\* The completions of operations that failed.
LEMMA GoodFailed ==
    ASSUME TypeInv, NEW k, NEW nw \in 0..Len(writes), NEW nr \in 0..nReads,
           nw > 0 => WriteResult # "none", nr > 0 => ReadResult # "none",
           WriteResult # "ok"
    PROVE  AllGood(Done(nw, nr), k)
<1> DEFINE W == [i \in 1..nw |-> Entry("write", WriteResult, writes[i])]
           R == Times(nr, Entry("read", ReadResult, 0))
<1>1. ConnectDone \in Seq(Entries) /\ AllGood(ConnectDone, k)
  <2>1. CASE connEp # 0 /\ ConnectResult # "none"
    <3>1. ConnectResult \in Errors /\ connEp \in Nat
      BY <2>1, EndpointsAssumption DEF ConnectResult, Errors, TypeInv, TypeOK
    <3>2. /\ Good(Entry("connect_op", ConnectResult, connEp), k)
          /\ Entry("connect_op", ConnectResult, connEp) \in Entries
      BY <3>1, GoodEntry DEF Handlers
    <3>3. ConnectDone = <<Entry("connect_op", ConnectResult, connEp)>>
      BY <2>1 DEF ConnectDone
    <3>4. QED BY <3>2, <3>3, GoodOne
  <2>2. CASE ~(connEp # 0 /\ ConnectResult # "none")
    BY <2>2, GoodEmpty, EmptySeq DEF ConnectDone
  <2>3. QED BY <2>1, <2>2
<1>2. W \in Seq(Entries) /\ AllGood(W, k)
  <2>1. nw \in Nat /\ \A i \in 1..nw : writes[i] \in Nat
    <3>1. Len(writes) \in Nat /\ \A i \in 1..Len(writes) : writes[i] \in Nat
      BY Lengths, LenProperties, ElementOfSeq
    <3>2. QED BY <3>1
  <2>2. nw > 0 => WriteResult \in Errors
    BY DEF WriteResult, Errors
  <2>3. ASSUME NEW i \in 1..nw
        PROVE  /\ Good(Entry("write", WriteResult, writes[i]), k)
               /\ Entry("write", WriteResult, writes[i]) \in Entries
    <3>1. WriteResult \in Errors /\ writes[i] \in Nat
      BY <2>1, <2>2
    <3>2. QED BY <3>1, GoodEntry DEF Handlers
  <2>4. W \in Seq(Entries) /\ Len(W) = nw
    BY <2>1, <2>3, IsASeq
  <2>5. QED BY <2>3, <2>4 DEF AllGood
<1>3. R \in Seq(Entries) /\ AllGood(R, k)
  <2>1. nr \in Nat
    BY DEF TypeInv, TypeOK
  <2>2. CASE nr = 0
    <3>1. R = <<>>
      BY <2>2 DEF Times
    <3>2. QED BY <3>1, GoodEmpty, EmptySeq
  <2>3. CASE nr > 0
    <3>1. ReadResult \in Errors
      BY <2>3 DEF ReadResult, Errors
    <3>2. R \in Seq(Entries) /\ NoWrite(R) /\ Only(R, {"read"})
      BY <2>1, <3>1, ReadEntries
    <3> HIDE DEF R
    <3>3. QED BY <3>2, GoodFromKind
  <2>4. QED BY <2>1, <2>2, <2>3
<1>4. Done(nw, nr) = ConnectDone \o W \o R
  BY DEF Done
<1> HIDE DEF W, R
<1>5. ConnectDone \o W \in Seq(Entries) /\ AllGood(ConnectDone \o W, k)
  BY <1>1, <1>2, GoodConcat
<1>6. QED BY <1>3, <1>4, <1>5, GoodConcat

LEMMA PerformIoStep ==
    ASSUME TypeInv, FrontIsNext, PerformIo
    PROVE  (Delivery!Transmit \/ UNCHANGED <<accepted, wire>>) /\ FrontIsNext'
<1>1. PICK nw \in 0..Len(writes), nr \in 0..nReads :
        /\ nw > 0 => WriteResult # "none"
        /\ nr > 0 => ReadResult # "none"
        /\ writes' = SubSeq(writes, nw + 1, Len(writes))
        /\ wire' = IF WriteResult = "ok" THEN wire \o SubSeq(writes, 1, nw) ELSE wire
        /\ IF Done(nw, nr) = <<>>
           THEN call' = NoCall /\ ready' = Tail(ready)
           ELSE /\ call' = Begin(Head(Done(nw, nr)))
                /\ ready' = Tail(ready) \o Tail(Done(nw, nr))
  BY DEF PerformIo
<1>2. UNCHANGED outbox /\ ready # <<>> /\ Len(writes) <= 1
  BY DEF PerformIo, TypeInv, OneWrite
<1>3. /\ Done(nw, nr) \in Seq(Entries)
      /\ Only(Done(nw, nr), {"connect_op", "write", "read"})
      /\ nw = 0 => NoWrite(Done(nw, nr))
  BY <1>1, DoneLemma
<1>4. /\ nw = 0 => writes' = writes /\ SubSeq(writes, 1, nw) = <<>>
      /\ nw # 0 => writes # <<>> /\ Len(writes) = 1 /\ writes' = <<>>
                   /\ SubSeq(writes, 1, nw) = writes
  BY <1>1, <1>2, Lengths, SplitLemma
<1>5. ASSUME NEW k, AllGood(ready, k), AllGood(Done(nw, nr), k)
      PROVE  AllGood(ready', k) /\ Good(call', k) /\ call'.op # "do_write"
  <2>1. AllGood(Tail(ready), k) /\ Tail(ready) \in Seq(Entries)
    BY <1>2, <1>5, Lengths, GoodTail
  <2>2. CASE Done(nw, nr) = <<>>
    BY <1>1, <2>1, <2>2, GoodGoto
  <2>3. CASE Done(nw, nr) # <<>>
    <3>1. /\ Good(Head(Done(nw, nr)), k) /\ AllGood(Tail(Done(nw, nr)), k)
          /\ Tail(Done(nw, nr)) \in Seq(Entries)
          /\ Head(Done(nw, nr)).op \in {"connect_op", "write", "read"}
      BY <1>3, <1>5, <2>3, GoodTail, HeadOnly
    <3>2. /\ call'.op = Head(Done(nw, nr)).op /\ call'.ec = Head(Done(nw, nr)).ec
          /\ call'.arg = Head(Done(nw, nr)).arg
      BY <1>1, <2>3 DEF Begin
    <3>3. AllGood(ready', k)
      BY <1>1, <2>1, <2>3, <3>1, GoodConcat
    <3>4. QED BY <3>1, <3>2, <3>3 DEF Good
  <2>4. QED BY <2>2, <2>3
<1>6. CASE nw = 0
  <2>1. wire' = wire
    BY <1>1, <1>4, <1>6, Lengths, ConcatEmptySeq
  <2>2. AllGood(Done(nw, nr), Ahead)
    BY <1>3, <1>6, GoodFromKind
  <2>3. AllGood(ready', Ahead) /\ Good(call', Ahead) /\ call'.op # "do_write"
    BY <1>5, <2>2 DEF FrontIsNext
  <2>4. QED BY <1>2, <1>4, <1>6, <2>1, <2>3, LeavesMessages DEF outbox
<1>7. CASE nw # 0
  <2>1. /\ writes # <<>> /\ Len(writes) = 1 /\ writes' = <<>> /\ NoWrite(ready)
        /\ writeMsgs # <<>> /\ Ahead = 0 /\ writes[1] = Head(writeMsgs)
    BY <1>4, <1>7 DEF TypeInv, OneWrite, InProgress, FrontIsNext
  <2>2. CASE WriteResult = "ok"
    <3>1. wire' = wire \o writes
      BY <1>1, <1>4, <1>7, <2>2
    <3>2. writes = <<Head(writeMsgs)>>
      BY <2>1, Lengths
    <3>3. wire' = Append(wire, Head(writeMsgs))
      BY <3>1, <3>2, Lengths, FrontIsNextAccepted, <2>1, AppendIsConcat
    <3>4. Delivery!Transmit /\ Ahead' = 1 /\ Popped' = Popped
      BY <1>2, <2>1, <3>3, TransmitStep
    <3>5. AllGood(ready, 1) /\ AllGood(Done(nw, nr), 1)
      BY <1>3, <2>1, GoodNoWrite, GoodFromKind DEF FrontIsNext
    <3>6. AllGood(ready', 1) /\ Good(call', 1) /\ call'.op # "do_write"
      BY <1>5, <3>5
    <3>7. QED BY <1>2, <2>1, <3>4, <3>6 DEF FrontIsNext, outbox
  <2>3. CASE WriteResult # "ok"
    <3>1. wire' = wire
      BY <1>1, <2>3
    <3>2. AllGood(Done(nw, nr), Ahead)
      BY <1>1, <1>3, <1>7, <2>3, GoodFailed
    <3>3. AllGood(ready', Ahead) /\ Good(call', Ahead) /\ call'.op # "do_write"
      BY <1>5, <3>2 DEF FrontIsNext
    <3>4. QED BY <1>2, <2>1, <3>1, <3>3, LeavesMessages DEF outbox
  <2>4. QED BY <2>2, <2>3
<1>8. QED BY <1>6, <1>7

LEMMA FrontIsNextInit == Init => FrontIsNext
<1> SUFFICES ASSUME Init PROVE FrontIsNext
  OBVIOUS
<1>1. Popped = 0 /\ Ahead = 0
  BY EmptySeq DEF Init, Popped, Ahead
<1>2. AllGood(ready, Ahead) /\ Good(call, Ahead) /\ call.op # "do_write"
  BY GoodEmpty, GoodGoto DEF Init
<1>3. QED BY <1>1, <1>2 DEF Init, FrontIsNext

LEMMA Refines ==
    TypeInv /\ FrontIsNext /\ [Next]_vars =>
      FrontIsNext' /\ [Delivery!Next]_<<accepted, wire>>
<1> SUFFICES ASSUME TypeInv, FrontIsNext, [Next]_vars
             PROVE  FrontIsNext' /\ [Delivery!Next]_<<accepted, wire>>
  OBVIOUS
<1>1. CASE OtherHandlers
  BY <1>1, OtherHandlersStep DEF outbox
<1>2. CASE Surroundings
  BY <1>2, SurroundingsStep DEF outbox
<1>3. CASE OnSend
  BY <1>3, OnSendStep DEF Delivery!Next
<1>4. CASE DoWrite \/ PerformIo
  BY <1>4, DoWriteStep, PerformIoStep DEF Delivery!Next
<1>5. CASE OnWrite
  BY <1>5, OnWriteStep
<1>6. QED
  BY <1>1, <1>2, <1>3, <1>4, <1>5 DEF Next, IoThread, Client, OtherHandlers, Surroundings

\* TcpClient implements Outbox: whatever the network does and however start(),
\* stop() and the reconnects interleave with send(), messages reach the
\* connection in the order in which they were accepted, each at most once.
THEOREM MessagesInOrder == Spec => OutboxSpec
<1>1. Init => Delivery!Init
  BY DEF Init, Delivery!Init
<1>2. QED
  BY <1>1, TypeInit, TypeNext, FrontIsNextInit, Refines, PTL DEF Spec, OutboxSpec, Delivery!Spec
=============================================================================
