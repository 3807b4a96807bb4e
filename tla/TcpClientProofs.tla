-------------------------- MODULE TcpClientProofs --------------------------
(***************************************************************************)
(* Theorems about TcpClient, for every value of its constants.             *)
(***************************************************************************)
EXTENDS TcpClient, SequenceTheorems, TLAPS

-----------------------------------------------------------------------------
(* Queue entries and sequences of them.                                    *)

LEMMA EntryLemma ==
    ASSUME NEW op \in Handlers, NEW ec \in Errors, NEW n \in Nat
    PROVE  Entry(op, ec, n) \in Entries /\ Entry(op, ec, n).op = op
  BY DEF Entry, Entries

LEMMA TimesLemma ==
    ASSUME NEW S, NEW e \in S, NEW n \in Nat
    PROVE  /\ Times(n, e) \in Seq(S) /\ Len(Times(n, e)) = n
           /\ \A i \in 1..n : Times(n, e)[i] = e
  BY DEF Times

LEMMA ConcatWrites ==
    ASSUME NEW s \in Seq(Entries), NEW t \in Seq(Entries)
    PROVE  /\ s \o t \in Seq(Entries)
           /\ NoWrite(s) /\ NoWrite(t) => NoWrite(s \o t)
           /\ NoWrite(s) /\ AtMostOneWrite(t) => AtMostOneWrite(s \o t)
           /\ AtMostOneWrite(s) /\ NoWrite(t) => AtMostOneWrite(s \o t)
<1>1. /\ s \o t \in Seq(Entries)
      /\ Len(s) \in Nat /\ Len(t) \in Nat /\ Len(s \o t) = Len(s) + Len(t)
      /\ \A i \in 1..Len(s) + Len(t) :
           (s \o t)[i] = IF i <= Len(s) THEN s[i] ELSE t[i - Len(s)]
  BY ConcatProperties, LenProperties
<1>2. ASSUME NEW i \in 1..Len(s \o t), (s \o t)[i].op = "write"
      PROVE  \/ i \in 1..Len(s) /\ s[i].op = "write"
             \/ i - Len(s) \in 1..Len(t) /\ t[i - Len(s)].op = "write"
  BY <1>1, <1>2
<1>3. CASE NoWrite(s) /\ NoWrite(t)
  BY <1>1, <1>2, <1>3 DEF NoWrite, AtMostOneWrite
<1>4. CASE NoWrite(s)
  <2>1. ASSUME AtMostOneWrite(t), NEW i \in 1..Len(s \o t), NEW j \in 1..Len(s \o t),
               (s \o t)[i].op = "write", (s \o t)[j].op = "write"
        PROVE  i = j
    <3>1. i - Len(s) \in 1..Len(t) /\ t[i - Len(s)].op = "write"
      BY <1>2, <1>4, <2>1 DEF NoWrite
    <3>2. j - Len(s) \in 1..Len(t) /\ t[j - Len(s)].op = "write"
      BY <1>2, <1>4, <2>1 DEF NoWrite
    <3>3. i - Len(s) = j - Len(s)
      BY <2>1, <3>1, <3>2 DEF AtMostOneWrite
    <3> QED BY <1>1, <3>3
  <2> QED BY <1>1, <1>3, <1>4, <2>1 DEF AtMostOneWrite
<1>5. CASE NoWrite(t)
  <2>1. ASSUME AtMostOneWrite(s), NEW i \in 1..Len(s \o t), NEW j \in 1..Len(s \o t),
               (s \o t)[i].op = "write", (s \o t)[j].op = "write"
        PROVE  i = j
    <3>1. i \in 1..Len(s) /\ s[i].op = "write"
      BY <1>2, <1>5, <2>1 DEF NoWrite
    <3>2. j \in 1..Len(s) /\ s[j].op = "write"
      BY <1>2, <1>5, <2>1 DEF NoWrite
    <3> QED BY <2>1, <3>1, <3>2 DEF AtMostOneWrite
  <2> QED BY <1>1, <1>3, <1>5, <2>1 DEF AtMostOneWrite
<1> QED BY <1>1, <1>3, <1>4, <1>5

LEMMA AppendWrites ==
    ASSUME NEW s \in Seq(Entries), NEW e \in Entries
    PROVE  /\ Append(s, e) \in Seq(Entries)
           /\ NoWrite(s) /\ e.op # "write" => NoWrite(Append(s, e))
           /\ AtMostOneWrite(s) /\ e.op # "write" => AtMostOneWrite(Append(s, e))
           /\ NoWrite(s) => AtMostOneWrite(Append(s, e))
  BY AppendProperties, LenProperties DEF NoWrite, AtMostOneWrite

LEMMA TailWrites ==
    ASSUME NEW s \in Seq(Entries), s # <<>>
    PROVE  /\ Head(s) \in Entries /\ Tail(s) \in Seq(Entries)
           /\ NoWrite(s) => NoWrite(Tail(s)) /\ Head(s).op # "write"
           /\ AtMostOneWrite(s) => AtMostOneWrite(Tail(s))
           /\ AtMostOneWrite(s) /\ Head(s).op = "write" => NoWrite(Tail(s))
<1>1. /\ Head(s) \in Entries /\ Tail(s) \in Seq(Entries) /\ Len(s) \in Nat \ {0}
      /\ Len(Tail(s)) = Len(s) - 1 /\ Head(s) = s[1]
      /\ \A i \in 1..Len(Tail(s)) : Tail(s)[i] = s[i + 1]
  BY HeadTailProperties, EmptySeq
<1> QED BY <1>1 DEF NoWrite, AtMostOneWrite

\* Every entry of q is of one of the kinds in S.
Only(q, S) == \A i \in 1..Len(q) : q[i].op \in S

LEMMA NoElement ==
    /\ <<>> \in Seq(Entries) /\ NoWrite(<<>>) /\ AtMostOneWrite(<<>>)
    /\ \A S : Only(<<>>, S)
  BY DEF NoWrite, AtMostOneWrite, Only

LEMMA ConcatOnly ==
    ASSUME NEW S, NEW s \in Seq(Entries), NEW t \in Seq(Entries), Only(s, S), Only(t, S)
    PROVE  Only(s \o t, S)
<1>1. /\ Len(s) \in Nat /\ Len(t) \in Nat /\ Len(s \o t) = Len(s) + Len(t)
      /\ \A i \in 1..Len(s) + Len(t) :
           (s \o t)[i] = IF i <= Len(s) THEN s[i] ELSE t[i - Len(s)]
  BY ConcatProperties, LenProperties
<1>2. ASSUME NEW i \in 1..Len(s \o t) PROVE (s \o t)[i].op \in S
  <2>1. CASE i <= Len(s)
    BY <1>1, <2>1 DEF Only
  <2>2. CASE i > Len(s)
    <3>1. i - Len(s) \in 1..Len(t) /\ (s \o t)[i] = t[i - Len(s)]
      BY <1>1, <2>2
    <3>2. QED BY <3>1 DEF Only
  <2>3. QED BY <1>1, <2>1, <2>2
<1>3. QED BY <1>2 DEF Only

LEMMA OneElement ==
    ASSUME NEW e \in Entries
    PROVE  /\ <<e>> \in Seq(Entries) /\ AtMostOneWrite(<<e>>)
           /\ e.op # "write" => NoWrite(<<e>>)
  BY DEF NoWrite, AtMostOneWrite


\* The completions of the first n pending writes, of which there is at most one.
LEMMA WriteEntries ==
    ASSUME writes \in Seq(Nat), Len(writes) <= 1, NEW n \in 0..Len(writes),
           NEW ec \in Errors
    PROVE  LET W == [i \in 1..n |-> Entry("write", ec, writes[i])] IN
           /\ W \in Seq(Entries) /\ AtMostOneWrite(W) /\ Only(W, {"write"})
           /\ n = 0 => W = <<>> /\ NoWrite(W)
<1> DEFINE W == [i \in 1..n |-> Entry("write", ec, writes[i])]
<1>1. \A i \in 1..n : Entry("write", ec, writes[i]) \in Entries
  BY EntryLemma DEF Handlers
<1>4. \A i \in 1..n : Entry("write", ec, writes[i]).op = "write"
  BY DEF Entry
<1>2. n \in Nat /\ n <= 1
  OBVIOUS
<1>3. W \in Seq(Entries) /\ Len(W) = n
  BY <1>1, <1>2
<1>5. Only(W, {"write"})
  BY <1>2, <1>3, <1>4 DEF Only
<1> QED BY <1>2, <1>3, <1>5 DEF NoWrite, AtMostOneWrite

LEMMA ReadEntries ==
    ASSUME NEW n \in Nat, NEW ec \in Errors
    PROVE  LET R == Times(n, Entry("read", ec, 0)) IN
           R \in Seq(Entries) /\ NoWrite(R) /\ Only(R, {"read"})
<1>1. Entry("read", ec, 0) \in Entries /\ Entry("read", ec, 0).op = "read"
  BY EntryLemma DEF Handlers
<1> DEFINE R == Times(n, Entry("read", ec, 0))
<1>2. R \in Seq(Entries) /\ Len(R) = n /\ \A i \in 1..n : R[i].op = "read"
  BY <1>1, TimesLemma, ZenonT(40)
<1> QED BY <1>2 DEF NoWrite, Only

LEMMA HeadOnly ==
    ASSUME NEW S, NEW q \in Seq(Entries), q # <<>>, Only(q, S)
    PROVE  Head(q).op \in S
<1>1. Len(q) \in Nat \ {0} /\ Head(q) = q[1]
  BY EmptySeq
<1>2. QED BY <1>1 DEF Only

\* What closing or replacing the socket queues.
LEMMA AbortedOpsLemma ==
    ASSUME nReads \in Nat, connEp \in Nat, writes \in Seq(Nat), Len(writes) <= 1
    PROVE  /\ AbortedOps \in Seq(Entries) /\ AtMostOneWrite(AbortedOps)
           /\ writes = <<>> => NoWrite(AbortedOps)
<1> DEFINE R == Times(nReads, Entry("read", "aborted", 0))
           C == IF connEp = 0 THEN <<>> ELSE <<Entry("connect_op", "aborted", connEp)>>
           W == [i \in 1..Len(writes) |-> Entry("write", "aborted", writes[i])]
<1>1. R \in Seq(Entries) /\ NoWrite(R)
  BY ReadEntries DEF Errors
<1>2. C \in Seq(Entries) /\ NoWrite(C)
  <2>1. CASE connEp = 0
    BY <2>1, NoElement
  <2>2. CASE connEp # 0
    <3>1. /\ Entry("connect_op", "aborted", connEp) \in Entries
          /\ Entry("connect_op", "aborted", connEp).op = "connect_op"
      BY EntryLemma DEF Errors, Handlers
    <3> QED BY <2>2, <3>1, OneElement
  <2> QED BY <2>1, <2>2
<1>3. W \in Seq(Entries) /\ AtMostOneWrite(W) /\ (writes = <<>> => NoWrite(W))
  <2>1. Len(writes) \in 0..Len(writes) /\ "aborted" \in Errors
    BY LenProperties DEF Errors
  <2>2. writes = <<>> => Len(writes) = 0
    BY EmptySeq
  <2> HIDE DEF W
  <2>3. /\ W \in Seq(Entries) /\ AtMostOneWrite(W)
        /\ Len(writes) = 0 => W = <<>> /\ NoWrite(W)
    BY <2>1, WriteEntries DEF W
  <2> QED BY <2>2, <2>3
<1>4. AbortedOps = R \o C \o W
  BY DEF AbortedOps
<1> HIDE DEF R, C, W
<1>5. R \o C \in Seq(Entries) /\ NoWrite(R \o C)
  BY <1>1, <1>2, ConcatWrites
<1>6. QED BY <1>3, <1>4, <1>5, ConcatWrites

-----------------------------------------------------------------------------
(* Type correctness, which needs that a write in progress has its message  *)
(* at the front of write_msgs_, which needs that no two are in progress.   *)

LEMMA NoCallLemma == NoCall \in Calls /\ NoCall.op = "none" /\ ~NoCall.checked
  BY DEF NoCall, Calls, Segments, Errors

LEMMA GotoLemma ==
    ASSUME NEW op \in Segments
    PROVE  Goto(op) \in Calls /\ Goto(op).op = op /\ ~Goto(op).checked
  BY DEF NoCall, Goto, Calls, Segments, Errors

LEMMA BeginLemma ==
    ASSUME NEW e \in Entries, e.op # "io"
    PROVE  /\ Begin(e) \in Calls /\ Begin(e).op = e.op /\ Begin(e).ec = e.ec
           /\ Begin(e).checked => e.op \in Unguarded
<1>1. e.op \in (Handlers \ {"io"}) \cup Segments /\ e.ec \in Errors /\ e.arg \in Nat
  BY DEF Entries
<1>2. (e.op \in Unguarded) \in BOOLEAN
  OBVIOUS
<1>3. Begin(e) \in Calls
  BY <1>1, <1>2, Zenon DEF Begin, Calls
<1>4. QED
  BY <1>3, Zenon DEF Begin

InProgress == writes # <<>> \/ ~NoWrite(ready) \/ InWrite
TypeInv ==
    /\ TypeOK /\ OneWrite
    /\ InProgress => writeMsgs # <<>>
    /\ main = "init" => starts = 0

LEMMA TypeInit == Init => TypeInv
<1> SUFFICES ASSUME Init PROVE TypeInv
  OBVIOUS
<1>1. stopped \in BOOLEAN /\ timer \in BOOLEAN
  BY Zenon DEF Init
<1>2. TypeOK
  BY <1>1, BoundsAssumption, DelayAssumption, EndpointsAssumption, NoCallLemma, NoElement
     DEF Init, TypeOK, Status
<1>3. OneWrite /\ ~InProgress
  BY NoCallLemma, NoElement DEF Init, OneWrite, InProgress, InWrite
<1>4. QED
  BY <1>2, <1>3 DEF TypeInv, Init

\* What an entry added at the end of the queue preserves, unless it is a write.
LEMMA PostLemma ==
    ASSUME TypeInv, NEW op \in Handlers \ {"write"}, NEW ec \in Errors, NEW n \in Nat,
           ready' = Append(ready, Entry(op, ec, n))
    PROVE  /\ ready' \in Seq(Entries) /\ AtMostOneWrite(ready')
           /\ NoWrite(ready) => NoWrite(ready')
<1>1. Entry(op, ec, n) \in Entries /\ Entry(op, ec, n).op # "write"
  BY EntryLemma
<1>2. QED BY <1>1, AppendWrites DEF TypeInv, TypeOK, OneWrite

\* Closing the socket turns the pending write into a queued one.
LEMMA CloseLemma ==
    ASSUME TypeInv, CloseSocket
    PROVE  /\ connEp' \in 0..NEndpoints /\ nReads' \in Nat /\ writes' = <<>>
           /\ sock' \in {"closed", "connecting", "established", "eof", "broken"}
           /\ ready' \in Seq(Entries) /\ AtMostOneWrite(ready')
           /\ writes = <<>> /\ NoWrite(ready) => NoWrite(ready')
<1>1. AbortedOps \in Seq(Entries) /\ AtMostOneWrite(AbortedOps)
      /\ (writes = <<>> => NoWrite(AbortedOps))
  BY EndpointsAssumption, AbortedOpsLemma DEF TypeInv, TypeOK, OneWrite
<1>2. ready \in Seq(Entries) /\ AtMostOneWrite(ready) /\ (writes # <<>> => NoWrite(ready))
  BY DEF TypeInv, TypeOK, OneWrite
<1>3. QED
  BY EndpointsAssumption, <1>1, <1>2, ConcatWrites DEF CloseSocket

LEMMA ConnectLemma ==
    ASSUME TypeInv, NEW ep \in 1..NEndpoints, ConnectTo(ep)
    PROVE  /\ connEp' \in 0..NEndpoints /\ nReads' \in Nat /\ writes' = <<>>
           /\ sock' \in {"closed", "connecting", "established", "eof", "broken"}
           /\ faults' \in 0..MaxFaults
           /\ ready' \in Seq(Entries) /\ AtMostOneWrite(ready')
           /\ writes = <<>> /\ NoWrite(ready) => NoWrite(ready')
<1> DEFINE q == ready \o AbortedOps
<1>1. AbortedOps \in Seq(Entries) /\ AtMostOneWrite(AbortedOps)
      /\ (writes = <<>> => NoWrite(AbortedOps))
  BY EndpointsAssumption, AbortedOpsLemma DEF TypeInv, TypeOK, OneWrite
<1>2. ready \in Seq(Entries) /\ AtMostOneWrite(ready) /\ (writes # <<>> => NoWrite(ready))
  BY DEF TypeInv, TypeOK, OneWrite
<1>3. q \in Seq(Entries) /\ AtMostOneWrite(q) /\ (writes = <<>> /\ NoWrite(ready) => NoWrite(q))
  BY <1>1, <1>2, ConcatWrites
<1>4. ASSUME NEW ec \in Errors
      PROVE  LET c == <<Entry("connect_op", ec, ep)>> IN c \in Seq(Entries) /\ NoWrite(c)
  <2>1. ep \in Nat /\ "connect_op" \in Handlers
    BY EndpointsAssumption DEF Handlers
  <2> QED BY <2>1, EntryLemma, OneElement
<1> HIDE DEF q
<1>5. ASSUME NEW ec \in Errors, ready' = q \o <<Entry("connect_op", ec, ep)>>
      PROVE  /\ ready' \in Seq(Entries) /\ AtMostOneWrite(ready')
             /\ writes = <<>> /\ NoWrite(ready) => NoWrite(ready')
  BY <1>3, <1>4, <1>5, ConcatWrites
<1>6. \/ ready' = q /\ connEp' = ep /\ sock' = "connecting" /\ faults' = faults
      \/ /\ ready' = q \o <<Entry("connect_op", "ok", ep)>>
         /\ connEp' = 0 /\ sock' = "established" /\ faults' = faults
      \/ /\ ready' = q \o <<Entry("connect_op", "error", ep)>>
         /\ connEp' = 0 /\ sock' = "broken" /\ faults < MaxFaults /\ faults' = faults + 1
  BY DEF ConnectTo, q
<1>7. nReads' = 0 /\ writes' = <<>> /\ faults \in 0..MaxFaults /\ MaxFaults \in Nat
  BY BoundsAssumption DEF ConnectTo, TypeInv, TypeOK
<1>8. "ok" \in Errors /\ "error" \in Errors
  BY DEF Errors
<1>9. QED
  BY EndpointsAssumption, <1>3, <1>5, <1>6, <1>7, <1>8

\* The first n of at most one pending write, and the others.
LEMMA SplitLemma ==
    ASSUME NEW w \in Seq(Nat), Len(w) <= 1, NEW n \in 0..Len(w)
    PROVE  /\ SubSeq(w, 1, n) \in Seq(Nat) /\ SubSeq(w, n + 1, Len(w)) \in Seq(Nat)
           /\ n = 0 => SubSeq(w, n + 1, Len(w)) = w /\ SubSeq(w, 1, n) = <<>>
           /\ n # 0 => /\ w # <<>> /\ Len(w) = 1
                       /\ SubSeq(w, n + 1, Len(w)) = <<>> /\ SubSeq(w, 1, n) = w
<1>1. Len(w) \in Nat
  BY LenProperties
<1>2. CASE n = 0
  BY <1>1, <1>2, SubSeqFull, SubSeqEmpty, EmptySeq
<1>3. CASE n # 0
  <2>1. n = 1 /\ Len(w) = 1
    BY <1>1, <1>3, SMTT(30)
  <2>2. SubSeq(w, 1, n) = w
    BY <2>1, SubSeqFull
  <2>3. SubSeq(w, 2, 1) = <<>>
    BY SubSeqEmpty
  <2>4. w # <<>>
    <3>1. Len(<<>>) = 0
      BY EmptySeq
    <3>2. SUFFICES ASSUME w = <<>> PROVE FALSE
      OBVIOUS
    <3>3. Len(w) = 0
      BY <3>1, <3>2, Zenon
    <3>4. QED BY <2>1, <3>3
  <2>5. QED BY <1>3, <2>1, <2>2, <2>3, <2>4, EmptySeq
<1>4. QED BY <1>2, <1>3

\* What PerformIo completes.
LEMMA DoneLemma ==
    ASSUME TypeInv, NEW nw \in 0..Len(writes), NEW nr \in 0..nReads,
           nw > 0 => WriteResult # "none", nr > 0 => ReadResult # "none"
    PROVE  /\ Done(nw, nr) \in Seq(Entries) /\ AtMostOneWrite(Done(nw, nr))
           /\ Only(Done(nw, nr), {"connect_op", "write", "read"})
           /\ nw = 0 => NoWrite(Done(nw, nr))
<1> DEFINE K == {"connect_op", "write", "read"}
           W == [i \in 1..nw |-> Entry("write", WriteResult, writes[i])]
           R == Times(nr, Entry("read", ReadResult, 0))
<1>1. ConnectDone \in Seq(Entries) /\ NoWrite(ConnectDone) /\ Only(ConnectDone, K)
  <2>1. CASE connEp # 0 /\ ConnectResult # "none"
    <3>1. ConnectResult \in Errors /\ connEp \in Nat
      BY <2>1, EndpointsAssumption DEF ConnectResult, Errors, TypeInv, TypeOK
    <3>2. /\ Entry("connect_op", ConnectResult, connEp) \in Entries
          /\ Entry("connect_op", ConnectResult, connEp).op = "connect_op"
      BY <3>1, EntryLemma DEF Handlers
    <3>3. ConnectDone = <<Entry("connect_op", ConnectResult, connEp)>>
      BY <2>1 DEF ConnectDone
    <3>4. QED BY <3>2, <3>3, OneElement DEF Only
  <2>2. CASE ~(connEp # 0 /\ ConnectResult # "none")
    BY <2>2, NoElement DEF ConnectDone
  <2>3. QED BY <2>1, <2>2
<1>2. /\ W \in Seq(Entries) /\ AtMostOneWrite(W) /\ Only(W, K)
      /\ nw = 0 => NoWrite(W)
  <2>1. CASE nw = 0
    <3>1. W = <<>>
      BY <2>1
    <3>2. QED BY <3>1, NoElement
  <2>2. CASE nw > 0
    <3>1. WriteResult \in Errors
      BY <2>2 DEF WriteResult, Errors
    <3>2. W \in Seq(Entries) /\ AtMostOneWrite(W) /\ Only(W, {"write"})
      BY <3>1, WriteEntries DEF TypeInv, TypeOK, OneWrite
    <3>3. QED BY <2>2, <3>2 DEF Only
  <2>3. QED BY <2>1, <2>2
<1>3. R \in Seq(Entries) /\ NoWrite(R) /\ Only(R, K)
  <2>1. CASE nr = 0
    <3>1. R = <<>>
      BY <2>1 DEF Times
    <3>2. QED BY <3>1, NoElement
  <2>2. CASE nr > 0
    <3>1. ReadResult \in Errors
      BY <2>2 DEF ReadResult, Errors
    <3>2. nr \in Nat
      BY DEF TypeInv, TypeOK
    <3>3. R \in Seq(Entries) /\ NoWrite(R) /\ Only(R, {"read"})
      BY <3>1, <3>2, ReadEntries
    <3>4. QED BY <3>3 DEF Only
  <2>3. QED
    <3>1. nr \in Nat
      BY DEF TypeInv, TypeOK
    <3>2. QED BY <2>1, <2>2, <3>1
<1>4. Done(nw, nr) = ConnectDone \o W \o R
  BY DEF Done
<1> HIDE DEF K, W, R
<1>5. /\ ConnectDone \o W \in Seq(Entries) /\ AtMostOneWrite(ConnectDone \o W)
      /\ Only(ConnectDone \o W, K)
      /\ nw = 0 => NoWrite(ConnectDone \o W)
  BY <1>1, <1>2, ConcatWrites, ConcatOnly
<1>6. QED BY <1>3, <1>4, <1>5, ConcatWrites, ConcatOnly DEF K

LEMMA TypeNext == TypeInv /\ [Next]_vars => TypeInv'
<1> SUFFICES ASSUME TypeInv, [Next]_vars PROVE TypeInv'
  OBVIOUS
<1> USE DEF TypeInv, TypeOK, OneWrite, InProgress, InWrite, vars, config, ops, outbox, counts, threads
<1>1. CASE CheckStopped
  <2>1. call' \in Calls /\ call'.op \in {"none", call.op}
    BY <1>1, NoCallLemma DEF CheckStopped, Calls
  <2>2. QED BY <1>1, <2>1, SMTT(30) DEF CheckStopped
<1>2. CASE DoConnect
  <2>1. CASE ConnectTo(1)
    <3>1. 1 \in 1..NEndpoints
      BY EndpointsAssumption
    <3>2. /\ connEp' \in 0..NEndpoints /\ nReads' \in Nat /\ writes' = <<>>
          /\ sock' \in {"closed", "connecting", "established", "eof", "broken"}
          /\ faults' \in 0..MaxFaults
          /\ ready' \in Seq(Entries) /\ AtMostOneWrite(ready')
          /\ writes = <<>> /\ NoWrite(ready) => NoWrite(ready')
      BY <2>1, <3>1, ConnectLemma
    <3>3. QED BY <1>2, <2>1, <3>2, NoCallLemma DEF DoConnect, Running
  <2>2. CASE io' = "crashed" /\ UNCHANGED <<ops, ready, faults, main>>
    BY <1>2, <2>2, NoCallLemma DEF DoConnect, Running
  <2>3. QED BY <1>2, <2>1, <2>2 DEF DoConnect
<1>3. CASE ConnectOp
  <2>1. CASE sock # "closed" /\ call.ec # "ok" /\ call.arg < NEndpoints
    <3>1. call.arg + 1 \in 1..NEndpoints /\ ConnectTo(call.arg + 1) /\ call' = NoCall
      <4>1. call.arg \in Nat
        BY DEF Calls
      <4>2. call.arg + 1 \in 1..NEndpoints
        BY <2>1, <4>1, EndpointsAssumption, SMTT(30)
      <4>3. ConnectTo(call.arg + 1) /\ call' = NoCall
        BY <1>3, <2>1 DEF ConnectOp
      <4>4. QED BY <4>2, <4>3
    <3>2. /\ connEp' \in 0..NEndpoints /\ nReads' \in Nat /\ writes' = <<>>
          /\ sock' \in {"closed", "connecting", "established", "eof", "broken"}
          /\ faults' \in 0..MaxFaults
          /\ ready' \in Seq(Entries) /\ AtMostOneWrite(ready')
          /\ writes = <<>> /\ NoWrite(ready) => NoWrite(ready')
      BY <3>1, ConnectLemma
    <3>3. UNCHANGED <<config, outbox, wire, timer, threads, counts>>
      BY <1>3 DEF ConnectOp
    <3>4. QED BY <3>1, <3>2, <3>3, NoCallLemma
  <2>2. CASE ~(sock # "closed" /\ call.ec # "ok" /\ call.arg < NEndpoints)
    <3>1. call' \in Calls /\ call'.op = "connect"
      <4>1. PICK ec \in Errors : call' = [Goto("connect") EXCEPT !.ec = ec]
        BY <1>3, <2>2 DEF ConnectOp, Calls, Errors
      <4>2. QED BY <4>1 DEF Goto, NoCall, Calls, Segments, Errors
    <3>2. UNCHANGED <<config, ops, outbox, wire, timer, ready, threads, counts, faults>>
      BY <1>3, <2>2 DEF ConnectOp
    <3>3. QED BY <3>1, <3>2
  <2>3. QED BY <2>1, <2>2
<1>4. CASE OnConnect
  <2>1. call' \in Calls /\ call'.op \in {"do_read", "schedule_reconnect"}
    BY <1>4, GotoLemma DEF OnConnect, Segments
  <2>2. reconnectDelay' \in 1..MaxDelay /\ status' \in Status
    BY <1>4, DelayAssumption, SMTT(30) DEF OnConnect, Status
  <2>3. UNCHANGED <<stopped, ops, outbox, wire, timer, ready, threads, counts, faults>>
    BY <1>4 DEF OnConnect
  <2>4. QED BY <2>1, <2>2, <2>3
<1>5. CASE ScheduleReconnect
  <2>1. /\ ready' \in Seq(Entries) /\ AtMostOneWrite(ready')
        /\ NoWrite(ready) => NoWrite(ready')
    BY <1>5, PostLemma DEF ScheduleReconnect, Handlers, Errors
  <2>2. QED BY <1>5, <2>1, NoCallLemma DEF ScheduleReconnect, Status, Running
<1>6. CASE OnTimer
  <2>1. CASE call.ec = "ok"
    <3>1. call' \in Calls /\ call'.op = "do_connect" /\ reconnectDelay' \in 1..MaxDelay
      <4>1. SmallerOf(2 * reconnectDelay, MaxDelay) \in 1..MaxDelay
        BY DelayAssumption DEF SmallerOf
      <4>2. QED BY <1>6, <2>1, <4>1, GotoLemma DEF OnTimer, Segments
    <3>2. /\ connEp' \in 0..NEndpoints /\ nReads' \in Nat /\ writes' = <<>>
          /\ sock' \in {"closed", "connecting", "established", "eof", "broken"}
          /\ ready' \in Seq(Entries) /\ AtMostOneWrite(ready')
          /\ writes = <<>> /\ NoWrite(ready) => NoWrite(ready')
      BY <1>6, <2>1, CloseLemma DEF OnTimer
    <3>3. UNCHANGED <<stopped, status, outbox, wire, timer, threads, counts, faults>>
      BY <1>6 DEF OnTimer
    <3>4. QED BY <3>1, <3>2, <3>3
  <2>2. CASE call.ec # "ok"
    <3>1. UNCHANGED <<config, ops, outbox, wire, timer, ready, threads, counts, faults>>
      BY <1>6, <2>2 DEF OnTimer
    <3>2. call' = NoCall
      BY <1>6, <2>2 DEF OnTimer
    <3>3. QED BY <3>1, <3>2, NoCallLemma
  <2>3. QED BY <2>1, <2>2
<1>7. CASE DoRead
  <2>1. CASE UNCHANGED nReads
    <3>1. ready' = Append(ready, Entry("read", ReadResult, 0)) \/ UNCHANGED ready
      BY <1>7 DEF DoRead
    <3>2. ReadResult \in Errors \/ UNCHANGED ready
      BY <1>7, <2>1 DEF DoRead, ReadResult, Errors, ReadMayWait
    <3>3. /\ ready' \in Seq(Entries) /\ AtMostOneWrite(ready')
          /\ NoWrite(ready) => NoWrite(ready')
      BY <3>1, <3>2, PostLemma DEF Handlers
    <3>4. QED BY <1>7, <2>1, <3>3, NoCallLemma DEF DoRead, Running
  <2>2. CASE nReads' = nReads + 1 /\ UNCHANGED ready
    BY <1>7, <2>2, NoCallLemma DEF DoRead, Running
  <2>3. QED BY <1>7, <2>1, <2>2 DEF DoRead
<1>8. CASE OnRead
  <2>1. call' \in Calls /\ call'.op \in {"do_read", "schedule_reconnect"}
    BY <1>8, GotoLemma DEF OnRead, Segments
  <2>2. status' \in Status
    BY <1>8 DEF OnRead, ReadStatus, Status
  <2>3. UNCHANGED <<stopped, reconnectDelay, ops, outbox, wire, timer, ready, threads, counts, faults>>
    BY <1>8 DEF OnRead
  <2>4. QED BY <2>1, <2>2, <2>3
<1>9. CASE OnSend
  <2>1. call' \in Calls /\ call'.op \in {"do_write", "none"}
    BY <1>9, GotoLemma, NoCallLemma DEF OnSend, Segments
  <2>2. writeMsgs' \in Seq(Nat) /\ writeMsgs' # <<>> /\ accepted' \in Seq(Nat)
    <3>1. call.arg \in Nat
      BY DEF Calls
    <3>2. QED BY <1>9, <3>1, AppendProperties, SMTT(30) DEF OnSend
  <2>3. /\ UNCHANGED <<config, ops, wire, timer, ready, threads, counts, faults>>
        /\ writes = <<>> \/ writeMsgs # <<>>
        /\ NoWrite(ready) \/ writeMsgs # <<>>
        /\ writeMsgs # <<>> => call' = NoCall
    BY <1>9 DEF OnSend
  <2>4. QED BY <2>1, <2>2, <2>3, NoCallLemma, SMTT(30)
<1>10. CASE DoWrite
  <2>1. Head(writeMsgs) \in Nat /\ NoWrite(ready) /\ writes = <<>>
    BY <1>10, SMTT(30) DEF DoWrite, Running
  <2>2. CASE WriteMayWait /\ writes' = Append(writes, Head(writeMsgs)) /\ UNCHANGED <<ready, wire>>
    <3>1. writes' \in Seq(Nat) /\ Len(writes') = 1 /\ call' = NoCall
      BY <1>10, <2>1, <2>2 DEF DoWrite
    <3>2. UNCHANGED <<config, sock, connEp, nReads, outbox, timer, threads, counts, faults>>
      BY <1>10 DEF DoWrite
    <3>3. writeMsgs # <<>>
      BY <1>10 DEF DoWrite, Running
    <3>4. QED BY <2>1, <2>2, <3>1, <3>2, <3>3, NoCallLemma
  <2>3. CASE UNCHANGED writes
    <3>1. WriteResult \in Errors /\ ready' = Append(ready, Entry("write", WriteResult, Head(writeMsgs)))
      BY <1>10, <2>1, <2>3 DEF DoWrite, WriteResult, Errors
    <3>2. ready' \in Seq(Entries) /\ AtMostOneWrite(ready')
      BY <2>1, <3>1, EntryLemma, AppendWrites DEF Handlers
    <3>3. wire' \in Seq(Nat)
      <4>1. Append(wire, Head(writeMsgs)) \in Seq(Nat)
        BY <2>1, AppendProperties
      <4>2. QED BY <1>10, <4>1 DEF DoWrite
    <3>4. QED BY <1>10, <2>1, <2>3, <3>2, <3>3, NoCallLemma DEF DoWrite, Running
  <2>4. QED BY <1>10, <2>2, <2>3 DEF DoWrite
<1>11. CASE OnWrite
  <2>1. writeMsgs # <<>> /\ NoWrite(ready) /\ writes = <<>>
    BY <1>11 DEF OnWrite, Running
  <2>2. /\ call' \in Calls /\ call'.op \in {"do_write", "none", "schedule_reconnect"}
        /\ call'.op = "do_write" => writeMsgs' # <<>>
    BY <1>11, GotoLemma, NoCallLemma DEF OnWrite, Segments
  <2>3. writeMsgs' \in Seq(Nat) /\ status' \in Status
    <3>1. Tail(writeMsgs) \in Seq(Nat)
      BY <2>1, HeadTailProperties
    <3>2. QED BY <1>11, <3>1 DEF OnWrite, Status
  <2>4. QED BY <1>11, <2>1, <2>2, <2>3 DEF OnWrite
<1>12. CASE OnClose
  <2>1. CASE sock # "closed"
    <3>1. /\ connEp' \in 0..NEndpoints /\ nReads' \in Nat /\ writes' = <<>>
          /\ sock' \in {"closed", "connecting", "established", "eof", "broken"}
          /\ ready' \in Seq(Entries) /\ AtMostOneWrite(ready')
          /\ writes = <<>> /\ NoWrite(ready) => NoWrite(ready')
      BY <1>12, <2>1, CloseLemma DEF OnClose
    <3>2. status' \in Status /\ call' = NoCall
      BY <1>12, <2>1 DEF OnClose, Status
    <3>3. UNCHANGED <<stopped, reconnectDelay, outbox, wire, timer, threads, counts, faults>>
      BY <1>12 DEF OnClose
    <3>4. QED BY <3>1, <3>2, <3>3, NoCallLemma
  <2>2. CASE sock = "closed"
    BY <1>12, <2>2, NoCallLemma DEF OnClose, Running
  <2>3. QED BY <2>1, <2>2
<1>13. CASE OnStart
  <2>1. /\ call.op = "start" /\ stopped' = FALSE /\ call' = Goto("do_connect")
        /\ UNCHANGED <<status, reconnectDelay, ops, outbox, wire, timer, ready, threads, counts, faults>>
    BY <1>13 DEF OnStart, Running
  <2>2. call' \in Calls /\ call'.op = "do_connect"
    BY <2>1, GotoLemma DEF Segments
  <2>3. TypeOK'
    BY <2>1, <2>2
  <2>4. OneWrite' /\ (InProgress => writeMsgs # <<>>)'
    BY <2>1, <2>2
  <2>5. main' = "init" => starts' = 0
    BY <2>1
  <2>6. QED BY <2>3, <2>4, <2>5
<1>14. CASE Dequeue
  <2>1. /\ Head(ready) \in Entries /\ Tail(ready) \in Seq(Entries)
        /\ AtMostOneWrite(Tail(ready))
        /\ NoWrite(ready) => NoWrite(Tail(ready)) /\ Head(ready).op # "write"
        /\ Head(ready).op = "write" => NoWrite(Tail(ready))
    BY <1>14, TailWrites DEF Dequeue
  <2>2. call' \in Calls /\ call'.op = Head(ready).op /\ Head(ready).op \in Handlers
    BY <1>14, <2>1, BeginLemma DEF Dequeue, Entries
  <2>3. /\ UNCHANGED <<config, ops, outbox, wire, timer, threads, counts, faults>>
        /\ ready' = Tail(ready)
        /\ Head(ready).op # "do_write"
    BY <1>14, <2>2 DEF Dequeue, Handlers
  <2>4. QED BY <2>1, <2>2, <2>3
<1>15. CASE PerformIo
  <2>1. PICK nw \in 0..Len(writes), nr \in 0..nReads :
          /\ nw > 0 => WriteResult # "none"
          /\ nr > 0 => ReadResult # "none"
          /\ connEp' = IF ConnectDone = <<>> THEN connEp ELSE 0
          /\ writes' = SubSeq(writes, nw + 1, Len(writes))
          /\ nReads' = nReads - nr
          /\ wire' = IF WriteResult = "ok" THEN wire \o SubSeq(writes, 1, nw) ELSE wire
          /\ IF Done(nw, nr) = <<>>
             THEN call' = NoCall /\ ready' = Tail(ready)
             ELSE /\ call' = Begin(Head(Done(nw, nr)))
                  /\ ready' = Tail(ready) \o Tail(Done(nw, nr))
    BY <1>15 DEF PerformIo
  <2>2. /\ Done(nw, nr) \in Seq(Entries) /\ AtMostOneWrite(Done(nw, nr))
        /\ Only(Done(nw, nr), {"connect_op", "write", "read"})
        /\ nw = 0 => NoWrite(Done(nw, nr))
    BY <2>1, DoneLemma
  <2>3. /\ ready # <<>> /\ Tail(ready) \in Seq(Entries) /\ AtMostOneWrite(Tail(ready))
        /\ NoWrite(ready) => NoWrite(Tail(ready))
    BY <1>15, TailWrites DEF PerformIo
  <2>4. connEp' \in 0..NEndpoints /\ nReads' \in Nat
    BY <2>1, EndpointsAssumption
  <2>5. /\ writes' \in Seq(Nat) /\ SubSeq(writes, 1, nw) \in Seq(Nat)
        /\ nw = 0 => writes' = writes
        /\ nw # 0 => writes' = <<>> /\ writes # <<>>
    BY <2>1, SplitLemma
  <2>6. wire' \in Seq(Nat)
    BY <2>1, <2>5
  <2>7. UNCHANGED <<config, sock, outbox, timer, threads, counts, faults>> /\ call = NoCall
    BY <1>15 DEF PerformIo, Between
  <2>8. CASE Done(nw, nr) = <<>>
    <3>1. call' = NoCall /\ ready' = Tail(ready)
      BY <2>1, <2>8
    <3>2. TypeOK'
      BY <2>3, <2>4, <2>5, <2>6, <2>7, <3>1, NoCallLemma
    <3>3. OneWrite'
      BY <2>3, <2>5, <3>1, NoCallLemma
    <3>4. QED BY <2>3, <2>5, <2>7, <3>1, <3>2, <3>3, NoCallLemma
  <2>9. CASE Done(nw, nr) # <<>>
    <3>1. /\ Head(Done(nw, nr)) \in Entries /\ Tail(Done(nw, nr)) \in Seq(Entries)
          /\ Head(Done(nw, nr)).op \in {"connect_op", "write", "read"}
          /\ AtMostOneWrite(Tail(Done(nw, nr)))
          /\ Head(Done(nw, nr)).op = "write" => NoWrite(Tail(Done(nw, nr)))
          /\ nw = 0 => NoWrite(Tail(Done(nw, nr))) /\ Head(Done(nw, nr)).op # "write"
      BY <2>2, <2>9, TailWrites, HeadOnly
    <3>2. call' \in Calls /\ call'.op = Head(Done(nw, nr)).op
      BY <2>1, <2>9, <3>1, BeginLemma
    <3>3. /\ ready' \in Seq(Entries) /\ AtMostOneWrite(ready')
          /\ nw # 0 /\ Head(Done(nw, nr)).op = "write" => NoWrite(ready')
          /\ nw = 0 /\ NoWrite(ready) => NoWrite(ready')
      BY <2>1, <2>3, <2>5, <2>9, <3>1, ConcatWrites
    <3>4. TypeOK'
      BY <2>4, <2>5, <2>6, <2>7, <3>2, <3>3
    <3>5. OneWrite'
      <4>1. writes' # <<>> => NoWrite(ready') /\ call'.op \in {"connect_op", "read"}
        BY <2>5, <3>1, <3>2, <3>3
      <4>2. call'.op \in {"write", "do_write"} => NoWrite(ready')
        BY <3>1, <3>2, <3>3
      <4>3. Len(writes') <= 1
        BY <2>5
      <4>4. QED BY <3>3, <4>1, <4>2, <4>3
    <3>6. QED BY <2>5, <2>7, <3>1, <3>2, <3>3, <3>4, <3>5
  <2>10. QED BY <2>8, <2>9
<1>16. CASE ReportDue \/ ReportPossible
  <2>1. Report
    BY <1>16 DEF ReportDue, ReportPossible
  <2>2. /\ ready' \in Seq(Entries) /\ AtMostOneWrite(ready')
        /\ NoWrite(ready) => NoWrite(ready')
    BY <2>1, PostLemma DEF Report, Handlers, Errors
  <2>3. QED BY <2>1, <2>2 DEF Report
<1>17. CASE TimerExpires
  <2>1. /\ ready' \in Seq(Entries) /\ AtMostOneWrite(ready')
        /\ NoWrite(ready) => NoWrite(ready')
    BY <1>17, PostLemma DEF TimerExpires, Handlers, Errors
  <2>2. timer' \in BOOLEAN
    BY <1>17 DEF TimerExpires
  <2>3. UNCHANGED <<config, ops, outbox, wire, call, threads, counts, faults>>
    BY <1>17 DEF TimerExpires
  <2>4. QED BY <2>1, <2>2, <2>3
<1>18. CASE IoExit
  BY <1>18 DEF IoExit
<1>19. CASE ConnectionSettles
  <2>1. sock' \in {"established", "broken"} /\ faults' \in 0..MaxFaults
    BY <1>19, BoundsAssumption DEF ConnectionSettles
  <2>2. QED BY <1>19, <2>1 DEF ConnectionSettles
<1>30. CASE PeerClosesOrResets
  <2>1. sock' \in {"eof", "broken"} /\ faults' \in 0..MaxFaults
    BY <1>30, BoundsAssumption DEF PeerClosesOrResets
  <2>2. QED BY <1>30, <2>1 DEF PeerClosesOrResets
<1>20. CASE MainStart
  <2>1. call' \in Calls /\ call'.op = "do_connect" /\ starts' \in 0..MaxStarts
    BY <1>20, GotoLemma, BoundsAssumption DEF MainStart, Segments
  <2>2. stopped' \in BOOLEAN /\ main' = "starting"
    BY <1>20 DEF MainStart
  <2>3. UNCHANGED <<status, reconnectDelay, ops, outbox, wire, timer, ready, io, sends, faults>>
    BY <1>20 DEF MainStart
  <2>4. QED BY <2>1, <2>2, <2>3
<1>21. CASE MainRun
  BY <1>21 DEF MainRun
<1>22. CASE MainSend
  <2>1. /\ ready' \in Seq(Entries) /\ AtMostOneWrite(ready')
        /\ NoWrite(ready) => NoWrite(ready')
    BY <1>22, PostLemma DEF MainSend, Handlers, Errors
  <2>2. QED BY <1>22, <2>1, BoundsAssumption DEF MainSend
<1>23. CASE MainStopStore
  BY <1>23 DEF MainStopStore
<1>24. CASE MainStopPost
  <2>1. /\ ready' \in Seq(Entries) /\ AtMostOneWrite(ready')
        /\ NoWrite(ready) => NoWrite(ready')
    BY <1>24, PostLemma DEF MainStopPost, Handlers, Errors
  <2>2. QED BY <1>24, <2>1 DEF MainStopPost
<1>25. CASE MainRestart
  <2>1. /\ ready' \in Seq(Entries) /\ AtMostOneWrite(ready')
        /\ NoWrite(ready) => NoWrite(ready')
    BY <1>25, PostLemma DEF MainRestart, Handlers, Errors
  <2>2. QED BY <1>25, <2>1, BoundsAssumption DEF MainRestart
<1>26. CASE MainIoStop
  BY <1>26 DEF MainIoStop
<1>27. CASE MainJoin
  BY <1>27 DEF MainJoin
<1>28. CASE UNCHANGED vars
  BY <1>28
<1>29. CASE Ended
  BY <1>28, <1>29 DEF Ended
<1> QED
  BY <1>1, <1>2, <1>3, <1>4, <1>5, <1>6, <1>7, <1>8, <1>9, <1>10, <1>11, <1>12, <1>13, <1>14,
     <1>15, <1>16, <1>17, <1>18, <1>19, <1>20, <1>21, <1>22, <1>23, <1>24, <1>25, <1>26, <1>27,
     <1>28, <1>29, <1>30
     DEF Next, IoThread, Client, Main

\* The types of the variables hold in every reachable state.
THEOREM TypeCorrect == Spec => []TypeOK
<1>1. TypeInv => TypeOK
  BY DEF TypeInv
<1>2. QED
  BY <1>1, TypeInit, TypeNext, PTL DEF Spec

\* A write is never started while another one is in progress.
THEOREM OneWriteAtATime == Spec => []OneWrite
<1>1. TypeInv => OneWrite
  BY DEF TypeInv
<1>2. QED
  BY <1>1, TypeInit, TypeNext, PTL DEF Spec

-----------------------------------------------------------------------------
(* The reconnect loop never runs dry: every step that consumes what keeps  *)
(* it going puts something in its place, unless it finds stopped_ set.     *)

LEMMA CarriedConcat ==
    ASSUME NEW s \in Seq(Entries), NEW t \in Seq(Entries)
    PROVE  Carried(s) \/ Carried(t) => Carried(s \o t)
<1>1. /\ Len(s) \in Nat /\ Len(t) \in Nat /\ Len(s \o t) = Len(s) + Len(t)
      /\ \A i \in 1..Len(s) + Len(t) :
           (s \o t)[i] = IF i <= Len(s) THEN s[i] ELSE t[i - Len(s)]
  BY ConcatProperties, LenProperties
<1>2. ASSUME NEW i \in 1..Len(s), CarriesOn(s[i]) PROVE Carried(s \o t)
  <2>1. i \in 1..Len(s \o t) /\ (s \o t)[i] = s[i]
    BY <1>1
  <2>2. QED BY <1>2, <2>1 DEF Carried
<1>3. ASSUME NEW i \in 1..Len(t), CarriesOn(t[i]) PROVE Carried(s \o t)
  <2>1. Len(s) + i \in 1..Len(s \o t) /\ (s \o t)[Len(s) + i] = t[i]
    BY <1>1
  <2>2. QED BY <1>3, <2>1 DEF Carried
<1>4. QED BY <1>2, <1>3 DEF Carried

LEMMA CarriedOne == ASSUME NEW e \in Entries PROVE CarriesOn(e) => Carried(<<e>>)
<1>1. Len(<<e>>) = 1 /\ <<e>>[1] = e
  OBVIOUS
<1>2. QED BY <1>1 DEF Carried

LEMMA CarriedAppend ==
    ASSUME NEW s \in Seq(Entries), NEW e \in Entries
    PROVE  Carried(s) \/ CarriesOn(e) => Carried(Append(s, e))
  BY CarriedConcat, CarriedOne, AppendIsConcat, OneElement

LEMMA CarriedTail ==
    ASSUME NEW s \in Seq(Entries), s # <<>>, Carried(s)
    PROVE  CarriesOn(Head(s)) \/ Carried(Tail(s))
<1>1. /\ Len(s) \in Nat \ {0} /\ Len(Tail(s)) = Len(s) - 1 /\ Head(s) = s[1]
      /\ \A i \in 1..Len(Tail(s)) : Tail(s)[i] = s[i + 1]
  BY HeadTailProperties, EmptySeq
<1>2. PICK i \in 1..Len(s) : CarriesOn(s[i])
  BY DEF Carried
<1>3. CASE i = 1
  BY <1>1, <1>2, <1>3
<1>4. CASE i # 1
  <2>1. i - 1 \in 1..Len(Tail(s)) /\ Tail(s)[i - 1] = s[i]
    BY <1>1, <1>4
  <2>2. QED BY <1>2, <2>1 DEF Carried
<1>5. QED BY <1>3, <1>4

LEMMA CarriedReads ==
    ASSUME NEW n \in Nat, n > 0, NEW ec \in Errors
    PROVE  Carried(Times(n, Entry("read", ec, 0)))
<1>1. Entry("read", ec, 0) \in Entries /\ Entry("read", ec, 0).op = "read"
  BY EntryLemma DEF Handlers
<1> DEFINE R == Times(n, Entry("read", ec, 0))
<1> HIDE DEF R
<1>2. Len(R) = n /\ R[1] = Entry("read", ec, 0) /\ 1 \in 1..n
  <2>1. Len(R) = n /\ \A i \in 1..n : R[i] = Entry("read", ec, 0)
    BY <1>1, TimesLemma DEF R
  <2>2. QED BY <2>1
<1>3. 1 \in 1..Len(R) /\ CarriesOn(R[1])
  BY <1>1, <1>2 DEF CarriesOn
<1>4. Carried(R)
  BY <1>3 DEF Carried
<1> QED BY <1>4 DEF R

\* A pending read or connect that is aborted keeps the loop going.
LEMMA CarriedAborted ==
    ASSUME TypeInv, nReads > 0 \/ connEp # 0
    PROVE  Carried(AbortedOps)
<1> DEFINE R == Times(nReads, Entry("read", "aborted", 0))
           C == IF connEp = 0 THEN <<>> ELSE <<Entry("connect_op", "aborted", connEp)>>
           W == [i \in 1..Len(writes) |-> Entry("write", "aborted", writes[i])]
<1>1. R \in Seq(Entries)
  BY ReadEntries DEF Errors, TypeInv, TypeOK
<1>2. C \in Seq(Entries) /\ (connEp # 0 => Carried(C))
  <2>1. CASE connEp = 0
    BY <2>1, NoElement
  <2>2. CASE connEp # 0
    <3>0. connEp \in Nat
      BY EndpointsAssumption DEF TypeInv, TypeOK
    <3>1. /\ Entry("connect_op", "aborted", connEp) \in Entries
          /\ CarriesOn(Entry("connect_op", "aborted", connEp))
      BY <3>0, EntryLemma DEF Errors, Handlers, CarriesOn
    <3> QED BY <2>2, <3>1, OneElement, CarriedOne
  <2> QED BY <2>1, <2>2
<1>3. W \in Seq(Entries)
  <2>1. Len(writes) \in 0..Len(writes) /\ "aborted" \in Errors
    BY LenProperties DEF Errors, TypeInv, TypeOK
  <2> QED BY <2>1, WriteEntries DEF TypeInv, TypeOK, OneWrite
<1>4. nReads > 0 => Carried(R)
  BY CarriedReads DEF TypeInv, TypeOK, Errors
<1>5. AbortedOps = R \o C \o W
  BY DEF AbortedOps
<1> HIDE DEF R, C, W
<1>6. R \o C \in Seq(Entries) /\ Carried(R \o C)
  BY <1>1, <1>2, <1>4, CarriedConcat, ConcatWrites
<1>7. QED BY <1>3, <1>5, <1>6, CarriedConcat

LEMMA CarriedDone ==
    ASSUME TypeInv, NEW nw \in 0..Len(writes), NEW nr \in 0..nReads,
           nw > 0 => WriteResult # "none", nr > 0 => ReadResult # "none",
           ConnectDone # <<>> \/ nr > 0
    PROVE  Carried(Done(nw, nr))
<1> DEFINE W == [i \in 1..nw |-> Entry("write", WriteResult, writes[i])]
           R == Times(nr, Entry("read", ReadResult, 0))
<1>1. ConnectDone \in Seq(Entries) /\ (ConnectDone # <<>> => Carried(ConnectDone))
  <2>1. CASE connEp # 0 /\ ConnectResult # "none"
    <3>1. ConnectResult \in Errors /\ connEp \in Nat
      BY <2>1, EndpointsAssumption DEF ConnectResult, Errors, TypeInv, TypeOK
    <3>2. /\ Entry("connect_op", ConnectResult, connEp) \in Entries
          /\ CarriesOn(Entry("connect_op", ConnectResult, connEp))
      BY <3>1, EntryLemma DEF Handlers, CarriesOn
    <3>3. ConnectDone = <<Entry("connect_op", ConnectResult, connEp)>>
      BY <2>1 DEF ConnectDone
    <3>4. QED BY <3>2, <3>3, OneElement, CarriedOne
  <2>2. CASE ~(connEp # 0 /\ ConnectResult # "none")
    BY <2>2, NoElement DEF ConnectDone
  <2>3. QED BY <2>1, <2>2
<1>2. W \in Seq(Entries)
  <2>1. CASE nw = 0
    <3>1. W = <<>>
      BY <2>1
    <3>2. QED BY <3>1, NoElement
  <2>2. CASE nw # 0
    <3>1. WriteResult \in Errors
      BY <2>2 DEF WriteResult, Errors
    <3>2. QED BY <3>1, WriteEntries DEF TypeInv, TypeOK, OneWrite
  <2>3. QED BY <2>1, <2>2
<1>3. R \in Seq(Entries) /\ (nr > 0 => Carried(R))
  <2>1. nr \in Nat
    BY DEF TypeInv, TypeOK
  <2>2. CASE nr = 0
    <3>1. R = <<>>
      BY <2>2 DEF Times
    <3>2. ~(nr > 0)
      BY <2>2
    <3>3. QED BY <3>1, <3>2, NoElement, Zenon
  <2>3. CASE nr # 0
    <3>1. ReadResult \in Errors /\ nr > 0
      BY <2>1, <2>3 DEF ReadResult, Errors
    <3>2. QED BY <2>1, <3>1, ReadEntries, CarriedReads
  <2>4. QED BY <2>2, <2>3
<1>4. Done(nw, nr) = ConnectDone \o W \o R
  BY DEF Done
<1> HIDE DEF W, R
<1>5. /\ ConnectDone \o W \in Seq(Entries)
      /\ ConnectDone # <<>> => Carried(ConnectDone \o W)
  BY <1>1, <1>2, CarriedConcat, ConcatWrites
<1>6. QED BY <1>3, <1>4, <1>5, CarriedConcat

LEMMA CarriedGoto ==
    ASSUME NEW op \in {"connect", "do_connect", "do_read", "schedule_reconnect"}
    PROVE  CarriesOn(Goto(op))
  BY GotoLemma DEF Segments, CarriesOn

\* A step of ConnectTo leaves a connect pending or queued.
LEMMA CarriedConnect ==
    ASSUME TypeInv, NEW ep \in 1..NEndpoints, ConnectTo(ep)
    PROVE  connEp' # 0 \/ Carried(ready')
<1> DEFINE q == ready \o AbortedOps
<1>1. q \in Seq(Entries)
  BY EndpointsAssumption, AbortedOpsLemma, ConcatWrites DEF TypeInv, TypeOK, OneWrite
<1>2. ASSUME NEW ec \in Errors
      PROVE  /\ Entry("connect_op", ec, ep) \in Entries
             /\ CarriesOn(Entry("connect_op", ec, ep))
  BY EntryLemma, EndpointsAssumption DEF Handlers, CarriesOn
<1> HIDE DEF q
<1>3. ASSUME NEW ec \in Errors, ready' = q \o <<Entry("connect_op", ec, ep)>>
      PROVE  Carried(ready')
  BY <1>1, <1>2, <1>3, OneElement, CarriedOne, CarriedConcat
<1>4. \/ connEp' = ep
      \/ ready' = q \o <<Entry("connect_op", "ok", ep)>>
      \/ ready' = q \o <<Entry("connect_op", "error", ep)>>
  BY DEF ConnectTo, q
<1>5. "ok" \in Errors /\ "error" \in Errors
  BY DEF Errors
<1>6. QED BY EndpointsAssumption, <1>3, <1>4, <1>5

\* Closing the socket queues the aborted completions of what was pending.
LEMMA CarriedClose ==
    ASSUME TypeInv, CloseSocket, nReads > 0 \/ connEp # 0 \/ Carried(ready)
    PROVE  Carried(ready')
<1>1. AbortedOps \in Seq(Entries) /\ ready \in Seq(Entries)
  BY EndpointsAssumption, AbortedOpsLemma DEF TypeInv, TypeOK, OneWrite
<1>2. nReads > 0 \/ connEp # 0 => Carried(AbortedOps)
  BY CarriedAborted
<1>3. QED BY <1>1, <1>2, CarriedConcat DEF CloseSocket

LEMMA CarriedPost ==
    ASSUME TypeInv, NEW op \in Handlers, NEW ec \in Errors, NEW n \in Nat,
           ready' = Append(ready, Entry(op, ec, n))
    PROVE  Carried(ready) \/ CarriesOn(Entry(op, ec, n)) => Carried(ready')
<1>1. Entry(op, ec, n) \in Entries /\ ready \in Seq(Entries)
  BY EntryLemma DEF TypeInv, TypeOK
<1>2. QED BY <1>1, CarriedAppend

LEMMA KeepsNext == TypeInv /\ KeepsTrying /\ [Next]_vars => KeepsTrying'
<1> SUFFICES ASSUME TypeInv, KeepsTrying, [Next]_vars,
                    io' \in {"unstarted", "running"}, ~stopped'
             PROVE  LoopAlive'
  BY DEF KeepsTrying
<1> USE DEF vars, config, ops, outbox, counts, threads
<1> DEFINE Alive == io \in {"unstarted", "running"} /\ ~stopped
<1>1. Alive => LoopAlive
  BY DEF KeepsTrying
<1> USE DEF LoopAlive
<1>2. CASE CheckStopped
  <2>1. CASE stopped
    BY <1>2, <2>1 DEF CheckStopped
  <2>2. CASE ~stopped
    <3>1. call' = [call EXCEPT !.checked = TRUE] /\ call \in Calls
      BY <1>2, <2>2 DEF CheckStopped, TypeInv, TypeOK
    <3>2. call'.op = call.op /\ call'.ec = call.ec
      BY <3>1 DEF Calls
    <3>3. UNCHANGED <<config, ops, outbox, wire, timer, ready, threads, counts, faults>>
      BY <1>2 DEF CheckStopped
    <3>4. CarriesOn(call) => CarriesOn(call')
      BY <3>2 DEF CarriesOn
    <3>5. QED BY <1>1, <3>3, <3>4
  <2>3. QED BY <2>1, <2>2
<1>3. CASE DoConnect
  <2>1. ConnectTo(1) /\ 1 \in 1..NEndpoints
    BY <1>3, EndpointsAssumption DEF DoConnect
  <2>2. QED BY <2>1, CarriedConnect
<1>4. CASE ConnectOp
  <2>1. CASE sock # "closed" /\ call.ec # "ok" /\ call.arg < NEndpoints
    <3>1. call.arg \in Nat
      BY DEF Calls, TypeInv, TypeOK
    <3>2. call.arg + 1 \in 1..NEndpoints /\ ConnectTo(call.arg + 1)
      BY <1>4, <2>1, <3>1, EndpointsAssumption DEF ConnectOp
    <3>3. QED BY <3>2, CarriedConnect
  <2>2. CASE ~(sock # "closed" /\ call.ec # "ok" /\ call.arg < NEndpoints)
    <3>1. call'.op = "connect"
      BY <1>4, <2>2 DEF ConnectOp, Goto, NoCall
    <3>2. QED BY <3>1 DEF CarriesOn
  <2>3. QED BY <2>1, <2>2
<1>5. CASE OnConnect
  BY <1>5, CarriedGoto DEF OnConnect
<1>6. CASE ScheduleReconnect
  BY <1>6 DEF ScheduleReconnect
<1>7. CASE OnTimer
  <2>1. CASE call.ec = "ok"
    BY <1>7, <2>1, CarriedGoto DEF OnTimer
  <2>2. CASE call.ec # "ok"
    <3>1. UNCHANGED <<config, ops, outbox, wire, timer, ready, threads, counts, faults>>
      BY <1>7, <2>2 DEF OnTimer
    <3>2. ~CarriesOn(call)
      BY <1>7, <2>2 DEF OnTimer, Running, CarriesOn
    <3>3. QED BY <1>1, <3>1, <3>2
  <2>3. QED BY <2>1, <2>2
<1>8. CASE DoRead
  <2>1. CASE nReads' = nReads + 1
    BY <2>1 DEF TypeInv, TypeOK
  <2>2. CASE ReadResult # "none" /\ ready' = Append(ready, Entry("read", ReadResult, 0))
    <3>1. ReadResult \in Errors
      BY <2>2 DEF ReadResult, Errors
    <3>2. CarriesOn(Entry("read", ReadResult, 0))
      BY DEF CarriesOn, Entry
    <3>3. QED BY <2>2, <3>1, <3>2, CarriedPost DEF Handlers
  <2>3. QED BY <1>8, <2>1, <2>2 DEF DoRead
<1>9. CASE OnRead
  BY <1>9, CarriedGoto DEF OnRead
<1>10. CASE OnSend
  <2>1. ~CarriesOn(call)
    BY <1>10 DEF OnSend, Running, CarriesOn
  <2>2. UNCHANGED <<config, ops, wire, timer, ready, threads, counts, faults>>
    BY <1>10 DEF OnSend
  <2>3. QED BY <1>1, <2>1, <2>2
<1>11. CASE DoWrite
  <2>1. ~CarriesOn(call)
    BY <1>11 DEF DoWrite, Running, CarriesOn
  <2>2. UNCHANGED <<config, sock, connEp, nReads, outbox, timer, threads, counts, faults>>
    BY <1>11 DEF DoWrite
  <2>3. CASE UNCHANGED ready
    BY <1>1, <2>1, <2>2, <2>3
  <2>4. CASE /\ WriteResult # "none"
             /\ ready' = Append(ready, Entry("write", WriteResult, Head(writeMsgs)))
    <3>1. Head(writeMsgs) \in Nat
      BY <1>11, HeadTailProperties DEF DoWrite, Running, TypeInv, TypeOK, InProgress, InWrite
    <3>2. Carried(ready) => Carried(ready')
      BY <2>4, <3>1, CarriedPost DEF Handlers, Errors, WriteResult
    <3>3. QED BY <1>1, <2>1, <2>2, <3>2
  <2>5. QED BY <1>11, <2>3, <2>4 DEF DoWrite
<1>12. CASE OnWrite
  <2>1. ~CarriesOn(call)
    BY <1>12 DEF OnWrite, Running, CarriesOn
  <2>2. UNCHANGED <<stopped, reconnectDelay, ops, accepted, wire, timer, ready, threads, counts, faults>>
    BY <1>12 DEF OnWrite
  <2>3. QED BY <1>1, <2>1, <2>2
<1>13. CASE OnClose
  <2>1. ~CarriesOn(call)
    BY <1>13 DEF OnClose, Running, CarriesOn
  <2>2. UNCHANGED <<stopped, reconnectDelay, outbox, wire, timer, threads, counts, faults>>
    BY <1>13 DEF OnClose
  <2>3. CASE CloseSocket
    <3>1. nReads \in Nat /\ connEp \in Nat
      BY EndpointsAssumption DEF TypeInv, TypeOK
    <3>2. QED BY <1>1, <2>1, <2>2, <2>3, <3>1, CarriedClose
  <2>4. CASE UNCHANGED <<ops, ready, status>>
    BY <1>1, <2>1, <2>2, <2>4
  <2>5. QED BY <1>13, <2>3, <2>4 DEF OnClose
<1>14. CASE OnStart
  BY <1>14, CarriedGoto DEF OnStart
<1>15. CASE Dequeue
  <2>1. ready \in Seq(Entries) /\ ready # <<>>
    BY <1>15 DEF Dequeue, TypeInv, TypeOK
  <2>2. Head(ready) \in Entries /\ Head(ready).op # "io"
    BY <1>15, <2>1, TailWrites DEF Dequeue
  <2>3. CarriesOn(Head(ready)) => CarriesOn(call')
    BY <1>15, <2>2, BeginLemma DEF Dequeue, CarriesOn
  <2>4. ~CarriesOn(call)
    BY <1>15 DEF Dequeue, Between, NoCall, CarriesOn
  <2>5. /\ UNCHANGED <<config, ops, outbox, wire, timer, threads, counts, faults>>
        /\ ready' = Tail(ready)
    BY <1>15 DEF Dequeue
  <2>6. Carried(ready) => CarriesOn(call') \/ Carried(ready')
    BY <2>1, <2>3, <2>5, CarriedTail
  <2>7. QED BY <1>1, <2>4, <2>5, <2>6
<1>16. CASE PerformIo
  <2>1. PICK nw \in 0..Len(writes), nr \in 0..nReads :
          /\ nw > 0 => WriteResult # "none"
          /\ nr > 0 => ReadResult # "none"
          /\ connEp' = IF ConnectDone = <<>> THEN connEp ELSE 0
          /\ nReads' = nReads - nr
          /\ IF Done(nw, nr) = <<>>
             THEN call' = NoCall /\ ready' = Tail(ready)
             ELSE /\ call' = Begin(Head(Done(nw, nr)))
                  /\ ready' = Tail(ready) \o Tail(Done(nw, nr))
    BY <1>16 DEF PerformIo
  <2>2. /\ Done(nw, nr) \in Seq(Entries)
        /\ Only(Done(nw, nr), {"connect_op", "write", "read"})
    BY <2>1, DoneLemma
  <2>3. /\ ready \in Seq(Entries) /\ ready # <<>> /\ Tail(ready) \in Seq(Entries)
        /\ ~CarriesOn(Head(ready)) /\ ~CarriesOn(call)
    BY <1>16, TailWrites DEF PerformIo, Between, NoCall, CarriesOn, TypeInv, TypeOK
  <2>4. UNCHANGED <<config, timer, io>>
    BY <1>16 DEF PerformIo
  <2>5. Carried(Done(nw, nr)) => CarriesOn(call') \/ Carried(ready')
    <3>1. CASE Done(nw, nr) = <<>>
      BY <3>1, EmptySeq DEF Carried
    <3>2. CASE Done(nw, nr) # <<>>
      <4>1. /\ Head(Done(nw, nr)) \in Entries /\ Tail(Done(nw, nr)) \in Seq(Entries)
            /\ Head(Done(nw, nr)).op # "io"
        BY <2>2, <3>2, TailWrites, HeadOnly
      <4>2. CarriesOn(Head(Done(nw, nr))) => CarriesOn(call')
        BY <2>1, <3>2, <4>1, BeginLemma DEF CarriesOn
      <4>3. Carried(Tail(Done(nw, nr))) => Carried(ready')
        BY <2>1, <2>3, <3>2, <4>1, CarriedConcat
      <4>4. QED BY <2>2, <3>2, <4>2, <4>3, CarriedTail
    <3>3. QED BY <3>1, <3>2
  <2>6. Carried(ready) => Carried(ready')
    <3>1. Carried(ready) => Carried(Tail(ready))
      BY <2>3, CarriedTail
    <3>2. CASE Done(nw, nr) = <<>>
      BY <2>1, <3>1, <3>2
    <3>3. CASE Done(nw, nr) # <<>>
      <4>1. Tail(Done(nw, nr)) \in Seq(Entries)
        BY <2>2, <3>3, TailWrites
      <4>2. QED BY <2>1, <2>3, <3>1, <3>3, <4>1, CarriedConcat
    <3>4. QED BY <3>2, <3>3
  <2>7. CASE ConnectDone # <<>> \/ nr > 0
    <3>1. Carried(Done(nw, nr))
      BY <2>1, <2>7, CarriedDone
    <3>2. QED BY <2>5, <3>1
  <2>8. CASE ConnectDone = <<>> /\ ~(nr > 0)
    <3>1. nReads' = nReads /\ connEp' = connEp
      BY <2>1, <2>8 DEF TypeInv, TypeOK
    <3>2. QED BY <1>1, <2>3, <2>4, <2>6, <3>1
  <2>9. QED BY <2>7, <2>8
<1>17. CASE ReportDue \/ ReportPossible
  <2>1. /\ ready' = Append(ready, Entry("io", "ok", 0))
        /\ UNCHANGED <<config, ops, outbox, wire, timer, call, threads, counts, faults>>
    BY <1>17 DEF ReportDue, ReportPossible, Report
  <2>2. Carried(ready) => Carried(ready')
    BY <2>1, CarriedPost DEF Handlers, Errors
  <2>3. QED BY <1>1, <2>1, <2>2
<1>18. CASE TimerExpires
  <2>1. ready' = Append(ready, Entry("timer", "ok", 0))
    BY <1>18 DEF TimerExpires
  <2>2. CarriesOn(Entry("timer", "ok", 0))
    BY DEF CarriesOn, Entry
  <2>3. QED BY <2>1, <2>2, CarriedPost DEF Handlers, Errors
<1>19. CASE IoExit
  BY <1>19 DEF IoExit
<1>20. CASE ConnectionSettles
  BY <1>1, <1>20 DEF ConnectionSettles
<1>21. CASE PeerClosesOrResets
  BY <1>1, <1>21 DEF PeerClosesOrResets
<1>22. CASE MainStart
  BY <1>22, CarriedGoto DEF MainStart
<1>23. CASE MainRun
  BY <1>1, <1>23 DEF MainRun
<1>24. CASE MainSend
  <2>1. /\ ready' = Append(ready, Entry("send", "ok", sends + 1)) /\ sends + 1 \in Nat
        /\ UNCHANGED <<config, ops, outbox, wire, timer, call, threads, starts, faults>>
    BY <1>24, BoundsAssumption DEF MainSend, TypeInv, TypeOK
  <2>2. Carried(ready) => Carried(ready')
    BY <2>1, CarriedPost DEF Handlers, Errors
  <2>3. QED BY <1>1, <2>1, <2>2
<1>25. CASE MainStopStore
  BY <1>25 DEF MainStopStore
<1>26. CASE MainStopPost
  <2>1. /\ ready' = Append(ready, Entry("close", "ok", 0))
        /\ UNCHANGED <<config, ops, outbox, wire, timer, call, io, counts, faults>>
    BY <1>26 DEF MainStopPost
  <2>2. Carried(ready) => Carried(ready')
    BY <2>1, CarriedPost DEF Handlers, Errors
  <2>3. QED BY <1>1, <2>1, <2>2
<1>27. CASE MainRestart
  <2>1. ready' = Append(ready, Entry("start", "ok", 0))
    BY <1>27 DEF MainRestart
  <2>2. CarriesOn(Entry("start", "ok", 0))
    BY DEF CarriesOn, Entry
  <2>3. QED BY <2>1, <2>2, CarriedPost DEF Handlers, Errors
<1>28. CASE MainIoStop
  <2>1. io \in {"unstarted", "running"}
    BY <1>28 DEF MainIoStop
  <2>2. UNCHANGED <<config, ops, outbox, wire, timer, ready, call, counts, faults>>
    BY <1>28 DEF MainIoStop
  <2>3. QED BY <1>1, <2>1, <2>2
<1>29. CASE MainJoin
  BY <1>29 DEF MainJoin
<1>30. CASE UNCHANGED vars
  BY <1>1, <1>30
<1>31. CASE Ended
  BY <1>30, <1>31 DEF Ended
<1>32. QED
  BY <1>2, <1>3, <1>4, <1>5, <1>6, <1>7, <1>8, <1>9, <1>10, <1>11, <1>12, <1>13, <1>14, <1>15,
     <1>16, <1>17, <1>18, <1>19, <1>20, <1>21, <1>22, <1>23, <1>24, <1>25, <1>26, <1>27, <1>28,
     <1>29, <1>30, <1>31
     DEF Next, IoThread, Client, Main

\* Until it is stopped, the client never runs out of work that reconnects it:
\* a connect, a read or the back-off wait is always pending, queued or running.
THEOREM LoopNeverDies == Spec => []KeepsTrying
<1>1. Init => KeepsTrying
  BY DEF Init, KeepsTrying
<1>2. QED
  BY <1>1, TypeInit, TypeNext, KeepsNext, PTL DEF Spec

-----------------------------------------------------------------------------
(* The loop never forks, as long as nobody sends and start() is called     *)
(* once: every step that consumes what carries the loop on puts one thing  *)
(* in its place.                                                           *)

Elems(q) == {q[i] : i \in 1..Len(q)}

LEMMA ElemsFacts ==
    ASSUME NEW s \in Seq(Entries), NEW t \in Seq(Entries)
    PROVE  /\ Elems(s \o t) = Elems(s) \cup Elems(t)
           /\ Carried(s) <=> \E e \in Elems(s) : CarriesOn(e)
           /\ OneCarried(s) /\ OneCarried(t) /\ ~(Carried(s) /\ Carried(t)) => OneCarried(s \o t)
           /\ Len(s) <= 1 => OneCarried(s)
<1>1. /\ Len(s) \in Nat /\ Len(t) \in Nat /\ Len(s \o t) = Len(s) + Len(t)
      /\ \A i \in 1..Len(s) + Len(t) :
           (s \o t)[i] = IF i <= Len(s) THEN s[i] ELSE t[i - Len(s)]
  BY ConcatProperties, LenProperties
<1> DEFINE c == s \o t
<1>2. \A i \in 1..Len(c) : \/ i \in 1..Len(s) /\ c[i] = s[i]
                           \/ i - Len(s) \in 1..Len(t) /\ c[i] = t[i - Len(s)]
  BY <1>1
<1>3. \A i \in 1..Len(s) : i \in 1..Len(c) /\ c[i] = s[i]
  BY <1>1
<1>4. \A i \in 1..Len(t) : Len(s) + i \in 1..Len(c) /\ c[Len(s) + i] = t[i]
  BY <1>1
<1> HIDE DEF c
<1>5. Elems(c) = Elems(s) \cup Elems(t)
  <2>1. Elems(c) \subseteq Elems(s) \cup Elems(t)
    BY <1>2 DEF Elems
  <2>2. Elems(s) \subseteq Elems(c)
    BY <1>3 DEF Elems
  <2>3. Elems(t) \subseteq Elems(c)
    BY <1>4 DEF Elems
  <2>4. QED BY <2>1, <2>2, <2>3
<1>6. ASSUME OneCarried(s), OneCarried(t), ~(Carried(s) /\ Carried(t)) PROVE OneCarried(c)
  <2>1. SUFFICES ASSUME NEW i \in 1..Len(c), NEW j \in 1..Len(c), CarriesOn(c[i]), CarriesOn(c[j])
                 PROVE  i = j
    BY DEF OneCarried
  <2>2. CASE i \in 1..Len(s) /\ c[i] = s[i] /\ j \in 1..Len(s) /\ c[j] = s[j]
    BY <1>6, <2>1, <2>2 DEF OneCarried
  <2>3. CASE /\ i - Len(s) \in 1..Len(t) /\ c[i] = t[i - Len(s)]
             /\ j - Len(s) \in 1..Len(t) /\ c[j] = t[j - Len(s)]
    <3>1. i - Len(s) = j - Len(s)
      BY <1>6, <2>1, <2>3 DEF OneCarried
    <3>2. QED BY <1>1, <3>1
  <2>4. QED BY <1>2, <1>6, <2>1, <2>2, <2>3 DEF Carried
<1>7. Len(s) <= 1 => OneCarried(s)
  BY <1>1 DEF OneCarried
<1>8. QED BY <1>5, <1>6, <1>7 DEF Carried, Elems, c

LEMMA ElemsTail ==
    ASSUME NEW s \in Seq(Entries), s # <<>>
    PROVE  /\ Tail(s) \in Seq(Entries) /\ Head(s) \in Entries /\ Head(s) \in Elems(s)
           /\ Elems(Tail(s)) \subseteq Elems(s)
           /\ OneCarried(s) => /\ OneCarried(Tail(s))
                               /\ CarriesOn(Head(s)) => ~Carried(Tail(s))
<1>1. /\ Len(s) \in Nat \ {0} /\ Len(Tail(s)) = Len(s) - 1 /\ Head(s) = s[1]
      /\ Tail(s) \in Seq(Entries) /\ Head(s) \in Entries
      /\ \A i \in 1..Len(Tail(s)) : Tail(s)[i] = s[i + 1]
  BY HeadTailProperties, EmptySeq
<1>2. \A i \in 1..Len(Tail(s)) : i + 1 \in 1..Len(s) /\ Tail(s)[i] = s[i + 1] /\ i + 1 # 1
  BY <1>1
<1>3. 1 \in 1..Len(s) /\ Head(s) = s[1]
  BY <1>1
<1>4. Elems(Tail(s)) \subseteq Elems(s) /\ Head(s) \in Elems(s)
  BY <1>2, <1>3 DEF Elems
<1>5. ASSUME OneCarried(s) PROVE OneCarried(Tail(s))
  <2>1. \A i, j \in 1..Len(Tail(s)) : i + 1 = j + 1 => i = j
    OBVIOUS
  <2>2. QED BY <1>2, <1>5, <2>1 DEF OneCarried
<1>6. ASSUME OneCarried(s), CarriesOn(Head(s)) PROVE ~Carried(Tail(s))
  BY <1>2, <1>3, <1>6 DEF OneCarried, Carried
<1>7. QED BY <1>1, <1>4, <1>5, <1>6

LEMMA ElemsOne ==
    ASSUME NEW e \in Entries
    PROVE  /\ <<e>> \in Seq(Entries) /\ Elems(<<e>>) = {e} /\ OneCarried(<<e>>)
           /\ Carried(<<e>>) <=> CarriesOn(e)
<1>1. <<e>> \in Seq(Entries) /\ Len(<<e>>) = 1 /\ <<e>>[1] = e
  OBVIOUS
<1>2. \A i : i \in 1..1 <=> i = 1
  OBVIOUS
<1>3. QED BY <1>1, <1>2 DEF Elems, OneCarried, Carried

LEMMA ElemsNone == Elems(<<>>) = {} /\ OneCarried(<<>>) /\ ~Carried(<<>>)
  BY DEF Elems, OneCarried, Carried

LEMMA TimesNone == \A e : Times(0, e) = <<>>
  BY DEF Times

LEMMA TimesOne == ASSUME NEW e \in Entries PROVE Times(1, e) = <<e>>
<1>1. Times(1, e) \in Seq(Entries) /\ Len(Times(1, e)) = 1 /\ Times(1, e)[1] = e
  BY DEF Times
<1>2. <<e>> \in Seq(Entries) /\ Len(<<e>>) = 1 /\ <<e>>[1] = e
  OBVIOUS
<1>3. \A i \in 1..1 : i = 1
  OBVIOUS
<1>4. QED BY <1>1, <1>2, <1>3, SeqEqual

\* A client that does not send and is started once.
Undisturbed == MaxSends = 0 /\ MaxStarts = 1

LoopInv ==
    /\ Undisturbed /\ OneLoop
    /\ writes = <<>> /\ call.op \notin {"write", "send", "start", "do_write"}
    /\ \A e \in Elems(ready) : e.op \in {"connect_op", "read", "timer", "close", "io"}
    /\ main = "init" => connEp = 0 /\ nReads = 0 /\ ~timer /\ ready = <<>> /\ call = NoCall
    /\ main # "init" => starts = 1

LEMMA LoopInit == Undisturbed /\ Init => LoopInv
<1> SUFFICES ASSUME Undisturbed, Init PROVE LoopInv
  OBVIOUS
<1>1. ~CarriesOn(call)
  BY DEF Init, NoCall, CarriesOn
<1>2. QED BY <1>1, ElemsNone, NoCallLemma DEF Init, LoopInv, OneLoop

\* What closing or replacing the socket queues for the loop.
LEMMA LoopAborted ==
    ASSUME TypeInv, LoopInv
    PROVE  /\ AbortedOps \in Seq(Entries) /\ OneCarried(AbortedOps)
           /\ Carried(AbortedOps) => nReads > 0 \/ connEp # 0
           /\ \A e \in Elems(AbortedOps) : e.op \in {"read", "connect_op"} /\ e.ec = "aborted"
<1> DEFINE r == Entry("read", "aborted", 0)
           R == Times(nReads, r)
           k == Entry("connect_op", "aborted", connEp)
           C == IF connEp = 0 THEN <<>> ELSE <<k>>
           W == [i \in 1..Len(writes) |-> Entry("write", "aborted", writes[i])]
<1>1. nReads \in {0, 1} /\ connEp \in Nat /\ (nReads = 0 \/ connEp = 0)
  BY EndpointsAssumption DEF TypeInv, TypeOK, LoopInv, OneLoop
<1>2. /\ r \in Entries /\ r.op = "read" /\ r.ec = "aborted"
      /\ k \in Entries /\ k.op = "connect_op" /\ k.ec = "aborted"
  BY <1>1, EntryLemma DEF Entry, Errors, Handlers
<1>3. W = <<>>
  BY EmptySeq DEF LoopInv
<1>4. AbortedOps = R \o C \o W
  BY DEF AbortedOps
<1> HIDE DEF r, k, W
<1>5. CASE nReads = 0
  <2>1. R = <<>>
    BY <1>5 DEF Times
  <2>2. C \in Seq(Entries) /\ OneCarried(C) /\ (Carried(C) => connEp # 0) /\ Elems(C) \subseteq {k}
    <3>1. CASE connEp = 0
      BY <3>1, ElemsNone, NoElement
    <3>2. CASE connEp # 0
      BY <1>2, <3>2, ElemsOne
    <3>3. QED BY <3>1, <3>2
  <2> HIDE DEF C, R
  <2>3. AbortedOps = C
    BY <1>3, <1>4, <2>1, <2>2, ConcatEmptySeq
  <2>4. QED BY <1>2, <2>2, <2>3
<1>6. CASE nReads = 1
  <2>1. C = <<>>
    BY <1>1, <1>6
  <2>2. R = <<r>>
    BY <1>2, <1>6, TimesOne
  <2> HIDE DEF C, R
  <2>3. <<r>> \in Seq(Entries) /\ OneCarried(<<r>>) /\ Elems(<<r>>) = {r}
    BY <1>2, ElemsOne
  <2>4. AbortedOps = <<r>>
    BY <1>3, <1>4, <2>1, <2>2, <2>3, ConcatEmptySeq
  <2>5. QED BY <1>2, <1>6, <2>3, <2>4
<1>7. QED BY <1>1, <1>5, <1>6

LEMMA LoopDone ==
    ASSUME TypeInv, LoopInv, NEW nr \in 0..nReads, nr > 0 => ReadResult # "none"
    PROVE  /\ Done(0, nr) \in Seq(Entries) /\ OneCarried(Done(0, nr))
           /\ Carried(Done(0, nr)) => nr = 1 \/ (connEp # 0 /\ ConnectDone # <<>>)
           /\ \A e \in Elems(Done(0, nr)) :
                \/ e.op = "read"
                \/ /\ e.op = "connect_op" /\ connEp # 0 /\ ConnectDone # <<>>
                   /\ e.ec = "ok" => sock \in {"established", "eof"}
<1> DEFINE r == Entry("read", ReadResult, 0)
           R == Times(nr, r)
           k == Entry("connect_op", ConnectResult, connEp)
           W == [i \in 1..0 |-> Entry("write", WriteResult, writes[i])]
<1>1. /\ nReads \in {0, 1} /\ connEp \in Nat /\ (nReads = 0 \/ connEp = 0)
      /\ nr \in {0, 1} /\ (nr = 1 => connEp = 0)
  BY EndpointsAssumption DEF TypeInv, TypeOK, LoopInv, OneLoop
<1>2. W = <<>>
  OBVIOUS
<1>3. Done(0, nr) = ConnectDone \o W \o R
  BY DEF Done
<1> HIDE DEF W
<1>4. CASE nr = 0
  <2>1. R = <<>>
    BY <1>4 DEF Times
  <2> HIDE DEF R
  <2>2. CASE connEp # 0 /\ ConnectResult # "none"
    <3>1. ConnectResult \in Errors /\ (ConnectResult = "ok" => sock \in {"established", "eof"})
      BY <2>2 DEF ConnectResult, Errors
    <3>2. k \in Entries /\ k.op = "connect_op" /\ k.ec = ConnectResult
      BY <1>1, <3>1, EntryLemma DEF Entry, Handlers
    <3>3. ConnectDone = <<k>>
      BY <2>2 DEF ConnectDone
    <3> HIDE DEF k
    <3>4. <<k>> \in Seq(Entries) /\ Elems(<<k>>) = {k} /\ OneCarried(<<k>>) /\ <<k>> # <<>>
      BY <3>2, ElemsOne
    <3>5. Done(0, nr) = <<k>>
      BY <1>2, <1>3, <2>1, <3>3, <3>4, ConcatEmptySeq
    <3>6. QED BY <2>2, <3>1, <3>2, <3>3, <3>4, <3>5, Zenon
  <2>3. CASE ~(connEp # 0 /\ ConnectResult # "none")
    <3>1. ConnectDone = <<>>
      BY <2>3 DEF ConnectDone
    <3>2. Done(0, nr) = <<>>
      BY <1>2, <1>3, <2>1, <3>1, ConcatEmptySeq
    <3>3. QED BY <3>2, ElemsNone, EmptySeq, Zenon
  <2>4. QED BY <2>2, <2>3
<1>5. CASE nr = 1
  <2>1. ConnectDone = <<>>
    BY <1>1, <1>5 DEF ConnectDone
  <2>2. r \in Entries /\ r.op = "read"
    <3>1. ReadResult \in Errors
      BY <1>5 DEF ReadResult, Errors
    <3>2. QED BY <3>1, EntryLemma DEF Handlers
  <2> HIDE DEF r
  <2>3. R = <<r>>
    BY <1>5, <2>2, TimesOne
  <2> HIDE DEF R
  <2>4. <<r>> \in Seq(Entries) /\ Elems(<<r>>) = {r} /\ OneCarried(<<r>>)
    BY <2>2, ElemsOne
  <2>5. Done(0, nr) = <<r>>
    BY <1>2, <1>3, <2>1, <2>3, <2>4, ConcatEmptySeq
  <2>6. QED BY <1>5, <2>2, <2>4, <2>5, Zenon
<1>6. QED BY <1>1, <1>4, <1>5

\* Adding at the end of the queue what is due to the loop at most once.
LEMMA LoopQueue ==
    ASSUME TypeInv, LoopInv, NEW q \in Seq(Entries), ready' = ready \o q, OneCarried(q),
           ~(Carried(ready) /\ Carried(q)),
           \A e \in Elems(q) : e.op \in {"connect_op", "read", "timer", "close", "io"}
    PROVE  /\ ready' \in Seq(Entries) /\ OneCarried(ready')
           /\ Carried(ready') => Carried(ready) \/ Carried(q)
           /\ \A e \in Elems(ready') : e.op \in {"connect_op", "read", "timer", "close", "io"}
<1>1. ready \in Seq(Entries) /\ OneCarried(ready)
      /\ \A e \in Elems(ready) : e.op \in {"connect_op", "read", "timer", "close", "io"}
  BY DEF TypeInv, TypeOK, LoopInv, OneLoop
<1>2. ready' \in Seq(Entries)
  BY <1>1, ConcatProperties
<1>3. Elems(ready') = Elems(ready) \cup Elems(q) /\ OneCarried(ready')
  BY <1>1, ElemsFacts
<1>4. /\ Carried(ready) <=> \E e \in Elems(ready) : CarriesOn(e)
      /\ Carried(q) <=> \E e \in Elems(q) : CarriesOn(e)
      /\ Carried(ready') <=> \E e \in Elems(ready') : CarriesOn(e)
  BY <1>1, <1>2, ElemsFacts
<1>5. QED BY <1>1, <1>2, <1>3, <1>4, Zenon

LEMMA LoopPost ==
    ASSUME TypeInv, LoopInv, NEW op \in {"connect_op", "read", "timer", "close", "io"},
           NEW ec \in Errors, NEW n \in Nat, ready' = Append(ready, Entry(op, ec, n)),
           ~(Carried(ready) /\ CarriesOn(Entry(op, ec, n)))
    PROVE  /\ ready' \in Seq(Entries) /\ OneCarried(ready')
           /\ Carried(ready') => Carried(ready) \/ CarriesOn(Entry(op, ec, n))
           /\ \A e \in Elems(ready') : e.op \in {"connect_op", "read", "timer", "close", "io"}
<1>1. Entry(op, ec, n) \in Entries /\ Entry(op, ec, n).op = op
  BY EntryLemma DEF Handlers
<1> DEFINE e == Entry(op, ec, n)
<1> HIDE DEF e
<1>2. <<e>> \in Seq(Entries) /\ Elems(<<e>>) = {e} /\ OneCarried(<<e>>)
      /\ (Carried(<<e>>) <=> CarriesOn(e))
  BY <1>1, ElemsOne DEF e
<1>3. ready' = ready \o <<e>>
  BY <1>1, AppendIsConcat DEF e, TypeInv, TypeOK
<1>4. /\ e.op = op /\ ~(Carried(ready) /\ CarriesOn(e))
  BY <1>1 DEF e
<1>5. /\ ready' \in Seq(Entries) /\ OneCarried(ready')
      /\ Carried(ready') => Carried(ready) \/ CarriesOn(e)
      /\ \A x \in Elems(ready') : x.op \in {"connect_op", "read", "timer", "close", "io"}
  BY <1>2, <1>3, <1>4, LoopQueue
<1>6. QED BY <1>5 DEF e

LEMMA LoopClose ==
    ASSUME TypeInv, LoopInv, CloseSocket
    PROVE  /\ nReads' = 0 /\ connEp' = 0 /\ writes' = <<>> /\ OneCarried(ready')
           /\ Carried(ready') => Carried(ready) \/ nReads > 0 \/ connEp # 0
           /\ \A e \in Elems(ready') : e.op \in {"connect_op", "read", "timer", "close", "io"}
<1>1. /\ AbortedOps \in Seq(Entries) /\ OneCarried(AbortedOps)
      /\ Carried(AbortedOps) => nReads > 0 \/ connEp # 0
      /\ \A e \in Elems(AbortedOps) : e.op \in {"read", "connect_op"}
  BY LoopAborted
<1>2. ready' = ready \o AbortedOps /\ nReads' = 0 /\ connEp' = 0 /\ writes' = <<>>
  BY DEF CloseSocket
<1>3. ~(Carried(ready) /\ Carried(AbortedOps))
  BY <1>1 DEF LoopInv, OneLoop, TypeInv, TypeOK
<1>4. /\ OneCarried(ready')
      /\ Carried(ready') => Carried(ready) \/ Carried(AbortedOps)
      /\ \A e \in Elems(ready') : e.op \in {"connect_op", "read", "timer", "close", "io"}
  BY <1>1, <1>2, <1>3, LoopQueue
<1>5. QED BY <1>1, <1>2, <1>4

\* A connect that starts when nothing else carries the loop on is the only one.
LEMMA LoopConnect ==
    ASSUME TypeInv, LoopInv, CarriesOn(call), NEW ep \in 1..NEndpoints, ConnectTo(ep)
    PROVE  /\ nReads' = 0 /\ connEp' \in Nat /\ writes' = <<>> /\ OneCarried(ready')
           /\ connEp' # 0 => ~Carried(ready')
           /\ \A e \in Elems(ready') : e.op \in {"connect_op", "read", "timer", "close", "io"}
<1>1. ~Carried(ready) /\ nReads = 0 /\ connEp = 0 /\ writes = <<>>
  BY DEF LoopInv, OneLoop
<1>2. AbortedOps = <<>>
  BY <1>1, TimesNone DEF AbortedOps
<1>3. ready \o AbortedOps = ready /\ ready \in Seq(Entries)
  BY <1>2, ConcatEmptySeq DEF TypeInv, TypeOK
<1>4. ASSUME NEW ec \in {"ok", "error"}, ready' = ready \o <<Entry("connect_op", ec, ep)>>
      PROVE  /\ OneCarried(ready')
             /\ \A e \in Elems(ready') : e.op \in {"connect_op", "read", "timer", "close", "io"}
  <2>1. ready' = Append(ready, Entry("connect_op", ec, ep)) /\ ep \in Nat /\ ec \in Errors
    BY <1>3, <1>4, EntryLemma, AppendIsConcat, EndpointsAssumption DEF Handlers, Errors
  <2>2. QED BY <1>1, <2>1, LoopPost
<1>5. nReads' = 0 /\ writes' = <<>>
  BY DEF ConnectTo
<1>6. CASE connEp' = ep /\ ready' = ready \o AbortedOps
  BY <1>1, <1>3, <1>5, <1>6, EndpointsAssumption DEF LoopInv, OneLoop
<1>7. CASE connEp' = 0 /\ ready' = ready \o AbortedOps \o <<Entry("connect_op", "ok", ep)>>
  BY <1>3, <1>4, <1>5, <1>7
<1>8. CASE connEp' = 0 /\ ready' = ready \o AbortedOps \o <<Entry("connect_op", "error", ep)>>
  BY <1>3, <1>4, <1>5, <1>8
<1>9. QED BY <1>6, <1>7, <1>8 DEF ConnectTo

LEMMA CarriesNone == ~CarriesOn(NoCall) /\ \A q : ~Carried(q) => OneCarried(q)
  BY NoCallLemma DEF CarriesOn, Carried, OneCarried

LEMMA LoopNext == TypeInv /\ LoopInv /\ [Next]_vars => LoopInv'
<1> SUFFICES ASSUME TypeInv, LoopInv, [Next]_vars PROVE LoopInv'
  OBVIOUS
<1> USE DEF vars, config, ops, outbox, counts, threads
<1> DEFINE Ops == {"connect_op", "read", "timer", "close", "io"}
           Writing == {"write", "send", "start", "do_write"}
<1>1. /\ Undisturbed /\ nReads \in Nat /\ nReads <= 1 /\ connEp \in Nat /\ writes = <<>>
      /\ ready \in Seq(Entries) /\ OneCarried(ready) /\ call \in Calls /\ call.op \notin Writing
      /\ Carried(ready) => connEp = 0 /\ nReads = 0 /\ ~timer /\ ~CarriesOn(call)
      /\ CarriesOn(call) => connEp = 0 /\ nReads = 0 /\ ~timer
      /\ timer => connEp = 0 /\ nReads = 0
      /\ nReads > 0 => connEp = 0
      /\ \A e \in Elems(ready) : e.op \in Ops
      /\ main = "init" => connEp = 0 /\ nReads = 0 /\ ~timer /\ ready = <<>> /\ call = NoCall
      /\ main # "init" => starts = 1
      /\ main = "init" => starts = 0
  BY EndpointsAssumption DEF TypeInv, TypeOK, LoopInv, OneLoop
<1>2. SUFFICES
        /\ nReads' <= 1 /\ OneCarried(ready') /\ writes' = <<>> /\ call'.op \notin Writing
        /\ Carried(ready') => connEp' = 0 /\ nReads' = 0 /\ ~timer' /\ ~CarriesOn(call')
        /\ CarriesOn(call') => connEp' = 0 /\ nReads' = 0 /\ ~timer'
        /\ timer' => connEp' = 0 /\ nReads' = 0
        /\ nReads' > 0 => connEp' = 0
        /\ \A e \in Elems(ready') : e.op \in Ops
        /\ main' = "init" => connEp' = 0 /\ nReads' = 0 /\ ~timer' /\ ready' = <<>> /\ call' = NoCall
        /\ main' # "init" => starts' = 1
  BY <1>1 DEF LoopInv, OneLoop, Undisturbed
<1> HIDE DEF Ops, Writing
<1>3. ASSUME NEW op \in {"connect", "do_connect", "do_read", "schedule_reconnect"}
      PROVE  Goto(op).op \notin Writing /\ CarriesOn(Goto(op))
  BY <1>3, GotoLemma, CarriedGoto DEF Writing, Segments
<1>4. NoCall.op \notin Writing /\ ~CarriesOn(NoCall)
  BY NoCallLemma, CarriesNone DEF Writing
<1>5. call # NoCall => main # "init" /\ starts = 1
  BY <1>1
<1>6. \A op \in Handlers \cup Segments : Running(op) /\ op # "none" => call # NoCall
  BY NoCallLemma DEF Running
<1>7. \A op \in {"connect", "connect_op", "read", "do_connect", "do_read", "schedule_reconnect"} :
        Running(op) => CarriesOn(call)
  BY DEF Running, CarriesOn
<1>10. CASE CheckStopped
  <2>1. CASE stopped
    BY <1>1, <1>4, <1>10, <2>1 DEF CheckStopped
  <2>2. CASE ~stopped
    <3>1. call' = [call EXCEPT !.checked = TRUE] /\ call # NoCall
      BY <1>10, <2>2 DEF CheckStopped
    <3>2. call'.op = call.op /\ call'.ec = call.ec
      BY <1>1, <3>1 DEF Calls
    <3>3. UNCHANGED <<config, ops, outbox, wire, timer, ready, threads, counts, faults>>
      BY <1>10 DEF CheckStopped
    <3>4. CarriesOn(call') <=> CarriesOn(call)
      BY <3>2 DEF CarriesOn
    <3>5. QED BY <1>1, <1>5, <3>1, <3>2, <3>3, <3>4
  <2>3. QED BY <2>1, <2>2
<1>11. CASE DoConnect
  <2>1. call # NoCall /\ CarriesOn(call) /\ call' = NoCall /\ timer' = timer
        /\ starts' = starts /\ main' = main
    BY <1>6, <1>7, <1>11 DEF DoConnect, Segments
  <2>2. CASE ConnectTo(1)
    <3>1. /\ nReads' = 0 /\ connEp' \in Nat /\ writes' = <<>> /\ OneCarried(ready')
          /\ connEp' # 0 => ~Carried(ready')
          /\ \A e \in Elems(ready') : e.op \in Ops
      BY <2>1, <2>2, LoopConnect, EndpointsAssumption DEF Ops
    <3>2. QED BY <1>1, <1>4, <1>5, <2>1, <3>1
  <2>3. CASE UNCHANGED <<ops, ready, faults, main>>
    BY <1>1, <1>4, <1>5, <2>1, <2>3
  <2>4. QED BY <1>11, <2>2, <2>3 DEF DoConnect
<1>12. CASE ConnectOp
  <2>1. call # NoCall /\ CarriesOn(call) /\ timer' = timer /\ starts' = starts /\ main' = main
    BY <1>6, <1>7, <1>12 DEF ConnectOp, Handlers
  <2>2. CASE sock # "closed" /\ call.ec # "ok" /\ call.arg < NEndpoints
    <3>1. call.arg \in Nat
      BY <1>1 DEF Calls
    <3>2. call.arg + 1 \in 1..NEndpoints /\ ConnectTo(call.arg + 1) /\ call' = NoCall
      BY <1>12, <2>2, <3>1, EndpointsAssumption DEF ConnectOp
    <3>3. /\ nReads' = 0 /\ connEp' \in Nat /\ writes' = <<>> /\ OneCarried(ready')
          /\ connEp' # 0 => ~Carried(ready')
          /\ \A e \in Elems(ready') : e.op \in Ops
      BY <2>1, <3>2, LoopConnect DEF Ops
    <3>4. QED BY <1>1, <1>4, <1>5, <2>1, <3>2, <3>3
  <2>3. CASE ~(sock # "closed" /\ call.ec # "ok" /\ call.arg < NEndpoints)
    <3>1. UNCHANGED <<ops, ready, faults>> /\ call'.op = "connect"
      BY <1>12, <2>3 DEF ConnectOp, Goto, NoCall
    <3>2. call'.op \notin Writing
      BY <3>1 DEF Writing
    <3>3. QED BY <1>1, <1>5, <2>1, <3>1, <3>2
  <2>4. QED BY <2>2, <2>3
<1>13. CASE OnConnect \/ OnRead
  <2>1. call # NoCall /\ CarriesOn(call)
    BY <1>6, <1>7, <1>13 DEF OnConnect, OnRead, Handlers, Segments
  <2>2. call' = Goto("do_read") \/ call' = Goto("schedule_reconnect")
    BY <1>13 DEF OnConnect, OnRead
  <2>3. UNCHANGED <<stopped, ops, outbox, wire, timer, ready, threads, counts, faults>>
    BY <1>13 DEF OnConnect, OnRead
  <2>4. call'.op \notin Writing
    BY <1>3, <2>2
  <2>5. QED BY <1>1, <1>5, <2>1, <2>3, <2>4
<1>14. CASE ScheduleReconnect
  <2>1. call # NoCall /\ CarriesOn(call)
    BY <1>6, <1>7, <1>14 DEF ScheduleReconnect, Segments
  <2>2. call' = NoCall /\ ready' = ready /\ UNCHANGED <<ops, threads, counts>>
    BY <1>1, <1>14, <2>1 DEF ScheduleReconnect
  <2>3. QED BY <1>1, <1>4, <1>5, <2>1, <2>2
<1>15. CASE OnTimer
  <2>1. call # NoCall /\ UNCHANGED <<timer, threads, counts>>
    BY <1>6, <1>15 DEF OnTimer, Handlers
  <2>2. CASE call.ec = "ok"
    <3>1. CarriesOn(call)
      BY <1>15, <2>2 DEF OnTimer, Running, CarriesOn
    <3>2. CloseSocket /\ call' = Goto("do_connect")
      BY <1>15, <2>2 DEF OnTimer
    <3>3. /\ nReads' = 0 /\ connEp' = 0 /\ writes' = <<>> /\ OneCarried(ready')
          /\ Carried(ready') => Carried(ready) \/ nReads > 0 \/ connEp # 0
          /\ \A e \in Elems(ready') : e.op \in Ops
      BY <3>2, LoopClose DEF Ops
    <3>4. call'.op \notin Writing
      BY <1>3, <3>2
    <3>5. QED BY <1>1, <1>5, <2>1, <3>1, <3>3, <3>4
  <2>3. CASE call.ec # "ok"
    <3>1. call' = NoCall /\ UNCHANGED <<ops, ready>>
      BY <1>15, <2>3 DEF OnTimer
    <3>2. QED BY <1>1, <1>4, <1>5, <2>1, <3>1
  <2>4. QED BY <2>2, <2>3
<1>16. CASE DoRead
  <2>1. call # NoCall /\ CarriesOn(call) /\ call' = NoCall
        /\ UNCHANGED <<connEp, writes, timer, threads, counts>>
    BY <1>6, <1>7, <1>16 DEF DoRead, Segments
  <2>2. CASE nReads' = nReads + 1 /\ UNCHANGED ready
    BY <1>1, <1>4, <1>5, <2>1, <2>2
  <2>3. CASE /\ ReadResult # "none" /\ UNCHANGED nReads
             /\ ready' = Append(ready, Entry("read", ReadResult, 0))
    <3>1. ReadResult \in Errors
      BY <2>3 DEF ReadResult, Errors
    <3>2. OneCarried(ready') /\ \A e \in Elems(ready') : e.op \in Ops
      BY <1>1, <2>1, <2>3, <3>1, LoopPost DEF Ops
    <3>3. QED BY <1>1, <1>4, <1>5, <2>1, <2>3, <3>2
  <2>4. QED BY <1>16, <2>2, <2>3 DEF DoRead
<1>17. CASE OnSend \/ DoWrite \/ OnWrite \/ OnStart
  BY <1>1, <1>17 DEF OnSend, DoWrite, OnWrite, OnStart, Running, Writing
<1>18. CASE OnClose
  <2>1. call # NoCall /\ call' = NoCall /\ UNCHANGED <<timer, threads, counts>>
    BY <1>6, <1>18 DEF OnClose, Handlers
  <2>2. CASE CloseSocket
    <3>1. /\ nReads' = 0 /\ connEp' = 0 /\ writes' = <<>> /\ OneCarried(ready')
          /\ Carried(ready') => Carried(ready) \/ nReads > 0 \/ connEp # 0
          /\ \A e \in Elems(ready') : e.op \in Ops
      BY <2>2, LoopClose DEF Ops
    <3>2. QED BY <1>1, <1>4, <1>5, <2>1, <3>1
  <2>3. CASE UNCHANGED <<ops, ready, status>>
    BY <1>1, <1>4, <1>5, <2>1, <2>3
  <2>4. QED BY <1>18, <2>2, <2>3 DEF OnClose
<1>19. CASE Dequeue
  <2>1. ready # <<>> /\ call = NoCall /\ Head(ready).op # "io" /\ call' = Begin(Head(ready))
        /\ ready' = Tail(ready) /\ UNCHANGED <<ops, timer, threads, counts>>
    BY <1>19 DEF Dequeue, Between
  <2>2. /\ Head(ready) \in Entries /\ Head(ready) \in Elems(ready)
        /\ Elems(ready') \subseteq Elems(ready) /\ OneCarried(ready')
        /\ CarriesOn(Head(ready)) => ~Carried(ready')
    BY <1>1, <2>1, ElemsTail
  <2>3. call'.op = Head(ready).op /\ call'.ec = Head(ready).ec
    BY <2>1, <2>2, BeginLemma
  <2>4. call'.op \notin Writing
    BY <1>1, <2>2, <2>3 DEF Ops, Writing
  <2>5. CarriesOn(call') <=> CarriesOn(Head(ready))
    BY <2>3 DEF CarriesOn
  <2>6. Carried(ready') => Carried(ready)
    BY <1>1, <2>1, <2>2, ElemsTail, ElemsFacts
  <2>7. CarriesOn(Head(ready)) => Carried(ready)
    BY <1>1, <2>2, ElemsFacts
  <2>8. QED BY <1>1, <2>1, <2>2, <2>4, <2>5, <2>6, <2>7
<1>20. CASE PerformIo
  <2>1. PICK nr \in 0..nReads :
          /\ nr > 0 => ReadResult # "none"
          /\ writes' = <<>>
          /\ connEp' = IF ConnectDone = <<>> THEN connEp ELSE 0
          /\ nReads' = nReads - nr
          /\ IF Done(0, nr) = <<>>
             THEN call' = NoCall /\ ready' = Tail(ready)
             ELSE /\ call' = Begin(Head(Done(0, nr)))
                  /\ ready' = Tail(ready) \o Tail(Done(0, nr))
    <3>1. PICK nw \in 0..Len(writes), nr \in 0..nReads :
            /\ nr > 0 => ReadResult # "none"
            /\ writes' = SubSeq(writes, nw + 1, Len(writes))
            /\ connEp' = IF ConnectDone = <<>> THEN connEp ELSE 0
            /\ nReads' = nReads - nr
            /\ IF Done(nw, nr) = <<>>
               THEN call' = NoCall /\ ready' = Tail(ready)
               ELSE /\ call' = Begin(Head(Done(nw, nr)))
                    /\ ready' = Tail(ready) \o Tail(Done(nw, nr))
      BY <1>20 DEF PerformIo
    <3>2. nw = 0 /\ writes' = <<>>
      BY <1>1, <3>1
    <3>3. QED BY <3>1, <3>2
  <2> DEFINE D == Done(0, nr)
  <2>2. /\ D \in Seq(Entries) /\ OneCarried(D)
        /\ Carried(D) => nr = 1 \/ (connEp # 0 /\ ConnectDone # <<>>)
        /\ \A e \in Elems(D) : e.op \in {"read", "connect_op"}
    BY <2>1, LoopDone
  <2>3. /\ ready # <<>> /\ call = NoCall /\ UNCHANGED <<timer, threads, counts>>
    BY <1>20 DEF PerformIo, Between
  <2>4. /\ Tail(ready) \in Seq(Entries) /\ OneCarried(Tail(ready))
        /\ Elems(Tail(ready)) \subseteq Elems(ready)
        /\ Carried(Tail(ready)) => Carried(ready)
    BY <1>1, <2>3, ElemsTail, ElemsFacts
  <2>5. /\ D = <<>> => call' = NoCall /\ ready' = Tail(ready)
        /\ D # <<>> => call' = Begin(Head(D)) /\ ready' = Tail(ready) \o Tail(D)
    BY <2>1
  <2>6. nReads' \in Nat /\ nReads' <= nReads /\ connEp' \in {0, connEp} /\ main # "init"
    BY <1>1, <2>1, <2>3
  <2> HIDE DEF D
  <2>7. CASE D = <<>>
    <3>1. \A e \in Elems(ready') : e.op \in Ops
      BY <1>1, <2>4, <2>5, <2>7
    <3>2. call' = NoCall /\ ready' = Tail(ready) /\ writes' = <<>>
      BY <2>1, <2>5, <2>7
    <3>3. timer' = timer /\ main' = main /\ starts' = starts
      BY <2>3
    <3>4. QED BY <1>1, <1>4, <2>4, <2>6, <3>1, <3>2, <3>3
  <2>8. CASE D # <<>>
    <3>1. /\ Tail(D) \in Seq(Entries) /\ Head(D) \in Entries /\ Head(D) \in Elems(D)
          /\ Elems(Tail(D)) \subseteq Elems(D)
          /\ CarriesOn(Head(D)) => ~Carried(Tail(D))
      BY <2>2, <2>8, ElemsTail
    <3>2. Head(D).op \in {"read", "connect_op"} /\ CarriesOn(Head(D))
      BY <2>2, <3>1 DEF CarriesOn
    <3>3. Carried(D)
      BY <2>2, <3>1, <3>2, ElemsFacts
    <3>4. nReads' = 0 /\ connEp' = 0 /\ ~timer /\ ~Carried(ready)
      BY <1>1, <2>1, <2>2, <3>3
    <3>5. call'.op \in {"read", "connect_op"}
      BY <2>5, <2>8, <3>1, <3>2, BeginLemma
    <3>6. call'.op \notin Writing
      BY <3>5 DEF Writing
    <3>7. Elems(ready') = Elems(Tail(ready)) \cup Elems(Tail(D)) /\ ready' \in Seq(Entries)
      <4>1. ready' = Tail(ready) \o Tail(D)
        BY <2>5, <2>8
      <4>2. QED BY <2>4, <3>1, <4>1, ElemsFacts, ConcatProperties, Zenon
    <3>8. \A e \in Elems(ready') : e.op \in Ops
      BY <1>1, <2>2, <2>4, <3>1, <3>7 DEF Ops
    <3>9. ~Carried(ready')
      <4>1. /\ Carried(ready') <=> \E e \in Elems(ready') : CarriesOn(e)
            /\ Carried(Tail(ready)) <=> \E e \in Elems(Tail(ready)) : CarriesOn(e)
            /\ Carried(Tail(D)) <=> \E e \in Elems(Tail(D)) : CarriesOn(e)
        BY <2>4, <3>1, <3>7, ElemsFacts
      <4>2. QED BY <2>4, <3>1, <3>2, <3>4, <3>7, <4>1
    <3>10. QED BY <1>1, <2>1, <2>3, <2>6, <3>4, <3>6, <3>8, <3>9, CarriesNone
  <2>9. QED BY <2>7, <2>8
<1>21. CASE ReportDue \/ ReportPossible
  <2>1. /\ ready' = Append(ready, Entry("io", "ok", 0))
        /\ UNCHANGED <<config, ops, outbox, wire, timer, call, threads, counts, faults>>
    BY <1>21 DEF ReportDue, ReportPossible, Report
  <2>2. ~CarriesOn(Entry("io", "ok", 0))
    BY DEF CarriesOn, Entry
  <2>3. /\ OneCarried(ready')
        /\ Carried(ready') => Carried(ready)
        /\ \A e \in Elems(ready') : e.op \in Ops
    BY <2>1, <2>2, LoopPost DEF Ops, Errors
  <2>4. main # "init"
    BY <1>1, <1>21 DEF ReportDue, ReportPossible, EventDue, EventPossible
  <2>5. /\ connEp' = connEp /\ nReads' = nReads /\ timer' = timer /\ call' = call
        /\ writes' = writes /\ main' = main /\ starts' = starts
    BY <2>1
  <2>6. QED BY <1>1, <2>3, <2>4, <2>5
<1>22. CASE TimerExpires
  <2>1. /\ ready' = Append(ready, Entry("timer", "ok", 0)) /\ timer /\ ~timer'
        /\ UNCHANGED <<config, ops, outbox, wire, call, threads, counts, faults>>
    BY <1>22 DEF TimerExpires
  <2>2. ~Carried(ready) /\ ~CarriesOn(call) /\ connEp = 0 /\ nReads = 0 /\ main # "init"
    BY <1>1, <2>1
  <2>3. OneCarried(ready') /\ \A e \in Elems(ready') : e.op \in Ops
    BY <2>1, <2>2, LoopPost DEF Ops, Errors
  <2>4. QED BY <1>1, <2>1, <2>2, <2>3
<1>23. CASE IoExit \/ ConnectionSettles \/ PeerClosesOrResets
  BY <1>1, <1>23 DEF IoExit, ConnectionSettles, PeerClosesOrResets
<1>24. CASE MainStart
  <2>1. main = "init" /\ main' = "starting" /\ starts' = starts + 1 /\ call' = Goto("do_connect")
        /\ UNCHANGED <<ops, timer, ready>>
    BY <1>24 DEF MainStart
  <2>2. connEp = 0 /\ nReads = 0 /\ ~timer /\ ready = <<>> /\ starts = 0
    BY <1>1, <2>1
  <2>3. QED BY <1>1, <1>3, <2>1, <2>2, ElemsNone
<1>25. CASE MainRun \/ MainStopStore \/ MainIoStop \/ MainJoin
  BY <1>1, <1>25 DEF MainRun, MainStopStore, MainIoStop, MainJoin
<1>26. CASE MainSend
  BY <1>1, <1>26 DEF MainSend, Undisturbed, TypeInv, TypeOK
<1>27. CASE MainStopPost
  <2>1. /\ ready' = Append(ready, Entry("close", "ok", 0)) /\ main = "stopping" /\ main' = "stopped"
        /\ UNCHANGED <<config, ops, outbox, wire, timer, call, io, counts, faults>>
    BY <1>27 DEF MainStopPost
  <2>2. ~CarriesOn(Entry("close", "ok", 0))
    BY DEF CarriesOn, Entry
  <2>3. /\ OneCarried(ready')
        /\ Carried(ready') => Carried(ready)
        /\ \A e \in Elems(ready') : e.op \in Ops
    BY <2>1, <2>2, LoopPost DEF Ops, Errors
  <2>4. /\ connEp' = connEp /\ nReads' = nReads /\ timer' = timer /\ call' = call
        /\ writes' = writes /\ starts' = starts /\ main # "init" /\ main' # "init"
    BY <2>1
  <2>5. QED BY <1>1, <2>3, <2>4
<1>28. CASE MainRestart
  BY <1>1, <1>28 DEF MainRestart, Undisturbed
<1>29. CASE UNCHANGED vars
  BY <1>1, <1>29
<1>30. CASE Ended
  BY <1>29, <1>30 DEF Ended
<1>31. QED
  BY <1>10, <1>11, <1>12, <1>13, <1>14, <1>15, <1>16, <1>17, <1>18, <1>19, <1>20, <1>21, <1>22,
     <1>23, <1>24, <1>25, <1>26, <1>27, <1>28, <1>29, <1>30
     DEF Next, IoThread, Client, Main

\* A client that is left alone is reconnected by one loop at a time: the code
\* that carries it on is in one place, so no connection is torn down by another.
THEOREM LoopNeverForks == Undisturbed /\ Spec => []OneLoop
<1>1. LoopInv => OneLoop
  BY DEF LoopInv
<1>2. QED
  BY <1>1, LoopInit, LoopNext, TypeInit, TypeNext, PTL DEF Spec

-----------------------------------------------------------------------------
(* Connected is the truth.  Nothing that leads to a new connect is pending,*)
(* queued or running while the status says so, and the handler of a        *)
(* connect that succeeded finds the connection still there.                *)

Live == {"established", "eof", "broken"}
Reconnects(x) ==
    \/ x.op \in {"connect_op", "connect", "do_connect", "schedule_reconnect"}
    \/ x.op = "timer" /\ x.ec = "ok"
Settled(x) == x.op = "connect_op" /\ x.ec = "ok"

StatusInv ==
    /\ status = "Connected" =>
         /\ sock \in Live /\ reconnectDelay = 1 /\ connEp = 0 /\ ~timer /\ ~Reconnects(call)
         /\ \A e \in Elems(ready) : ~Reconnects(e)
    /\ call.op = "connect" /\ call.ec = "ok" => sock \in Live
    /\ sock = "connecting" => ~Settled(call) /\ \A e \in Elems(ready) : ~Settled(e)
    /\ main = "init" => status = "Disconnected"

LEMMA StatusInit == Init => StatusInv
  BY ElemsNone, NoCallLemma DEF Init, StatusInv, Settled

LEMMA StatusConnect ==
    ASSUME TypeInv, LoopInv, CarriesOn(call), NEW ep \in 1..NEndpoints, ConnectTo(ep)
    PROVE  sock' = "connecting" => \A e \in Elems(ready') : ~Settled(e)
<1>1. ~Carried(ready) /\ nReads = 0 /\ connEp = 0 /\ writes = <<>>
  BY DEF LoopInv, OneLoop
<1>2. AbortedOps = <<>>
  BY <1>1, TimesNone DEF AbortedOps
<1>3. ready \o AbortedOps = ready /\ ready \in Seq(Entries)
  BY <1>2, ConcatEmptySeq DEF TypeInv, TypeOK
<1>4. sock' = "connecting" => ready' = ready
  BY <1>3 DEF ConnectTo
<1>5. \A e \in Elems(ready) : ~CarriesOn(e)
  BY <1>1, <1>3, ElemsFacts
<1>6. QED BY <1>4, <1>5 DEF Settled, CarriesOn

LEMMA StatusNext == TypeInv /\ LoopInv /\ StatusInv /\ [Next]_vars => StatusInv'
<1> SUFFICES ASSUME TypeInv, LoopInv, StatusInv, [Next]_vars PROVE StatusInv'
  OBVIOUS
<1> USE DEF vars, config, ops, outbox, counts, threads
<1>1. /\ nReads \in Nat /\ connEp \in Nat /\ ready \in Seq(Entries) /\ call \in Calls
      /\ call.op \notin {"write", "send", "start", "do_write"}
      /\ Carried(ready) => connEp = 0 /\ nReads = 0 /\ ~timer /\ ~CarriesOn(call)
      /\ CarriesOn(call) => connEp = 0 /\ nReads = 0 /\ ~timer
      /\ main = "init" => call = NoCall /\ ready = <<>>
  BY EndpointsAssumption DEF TypeInv, TypeOK, LoopInv, OneLoop
<1>2. /\ status = "Connected" =>
           /\ sock \in Live /\ reconnectDelay = 1 /\ connEp = 0 /\ ~timer /\ ~Reconnects(call)
           /\ \A e \in Elems(ready) : ~Reconnects(e)
      /\ call.op = "connect" /\ call.ec = "ok" => sock \in Live
      /\ sock = "connecting" => ~Settled(call) /\ \A e \in Elems(ready) : ~Settled(e)
      /\ main = "init" => status = "Disconnected"
  BY DEF StatusInv
<1>3. SUFFICES
      /\ status' = "Connected" =>
           /\ sock' \in Live /\ reconnectDelay' = 1 /\ connEp' = 0 /\ ~timer' /\ ~Reconnects(call')
           /\ \A e \in Elems(ready') : ~Reconnects(e)
      /\ call'.op = "connect" /\ call'.ec = "ok" => sock' \in Live
      /\ sock' = "connecting" => ~Settled(call') /\ \A e \in Elems(ready') : ~Settled(e)
      /\ main' = "init" => status' = "Disconnected"
  BY DEF StatusInv
<1>4. ~Reconnects(NoCall) /\ NoCall.op # "connect" /\ ~Settled(NoCall)
  BY NoCallLemma DEF Reconnects, Settled
<1>5. \A op \in Handlers \cup Segments : Running(op) /\ op # "none" => main # "init"
  BY <1>1, NoCallLemma DEF Running
<1>6. ASSUME NEW e \in Entries, ready' = Append(ready, e)
      PROVE  Elems(ready') = Elems(ready) \cup {e}
  <2>1. ready' = ready \o <<e>>
    BY <1>1, <1>6, AppendIsConcat
  <2>2. <<e>> \in Seq(Entries) /\ Elems(<<e>>) = {e}
    BY ElemsOne
  <2> DEFINE one == <<e>>
  <2> HIDE DEF one
  <2>3. Elems(ready \o one) = Elems(ready) \cup Elems(one)
    BY <1>1, <2>2, ElemsFacts DEF one
  <2>4. QED BY <2>1, <2>2, <2>3 DEF one
<1>10. CASE CheckStopped
  <2>1. UNCHANGED <<config, ops, outbox, wire, timer, ready, threads, counts, faults>>
    BY <1>10 DEF CheckStopped
  <2>2. CASE stopped
    BY <1>2, <1>4, <1>10, <2>1, <2>2 DEF CheckStopped
  <2>3. CASE ~stopped
    <3>1. call' = [call EXCEPT !.checked = TRUE]
      BY <1>10, <2>3 DEF CheckStopped
    <3>2. call'.op = call.op /\ call'.ec = call.ec
      BY <1>1, <3>1 DEF Calls
    <3>3. QED BY <1>2, <2>1, <3>2 DEF Reconnects, Settled
  <2>4. QED BY <2>2, <2>3
<1>11. CASE DoConnect
  <2>1. call.op = "do_connect" /\ call' = NoCall /\ status' = status /\ main # "init"
    BY <1>5, <1>11 DEF DoConnect, Running, Segments
  <2>2. status # "Connected" /\ CarriesOn(call)
    BY <1>2, <2>1 DEF Reconnects, CarriesOn
  <2>3. CASE ConnectTo(1) /\ UNCHANGED threads
    <3>1. sock' = "connecting" => \A e \in Elems(ready') : ~Settled(e)
      BY <2>2, <2>3, StatusConnect, EndpointsAssumption
    <3>2. QED BY <1>4, <2>1, <2>2, <2>3, <3>1
  <2>4. CASE UNCHANGED <<ops, ready, faults, main>>
    BY <1>2, <1>4, <2>1, <2>2, <2>4
  <2>5. QED BY <1>11, <2>3, <2>4 DEF DoConnect
<1>12. CASE ConnectOp
  <2>1. call.op = "connect_op" /\ status' = status /\ main # "init" /\ main' = main
    BY <1>5, <1>12 DEF ConnectOp, Running, Handlers
  <2>2. status # "Connected" /\ CarriesOn(call)
    BY <1>2, <2>1 DEF Reconnects, CarriesOn
  <2>3. CASE sock # "closed" /\ call.ec # "ok" /\ call.arg < NEndpoints
    <3>1. call.arg \in Nat
      BY <1>1 DEF Calls
    <3>2. call.arg + 1 \in 1..NEndpoints /\ ConnectTo(call.arg + 1) /\ call' = NoCall
      BY <1>12, <2>3, <3>1, EndpointsAssumption DEF ConnectOp
    <3>3. sock' = "connecting" => \A e \in Elems(ready') : ~Settled(e)
      BY <2>2, <3>2, StatusConnect
    <3>4. QED BY <1>4, <2>1, <2>2, <3>2, <3>3
  <2>4. CASE ~(sock # "closed" /\ call.ec # "ok" /\ call.arg < NEndpoints)
    <3>1. /\ UNCHANGED <<ops, ready, faults>>
          /\ call'.op = "connect"
          /\ call'.ec = "ok" => sock # "closed" /\ call.ec = "ok"
      BY <1>12, <2>4 DEF ConnectOp, Goto, NoCall
    <3>2. sock \in {"closed", "connecting", "established", "eof", "broken"}
      BY DEF TypeInv, TypeOK
    <3>3. call'.ec = "ok" => sock \in Live
      BY <1>2, <2>1, <3>1, <3>2 DEF Settled, Live
    <3>4. QED BY <1>2, <2>1, <2>2, <3>1, <3>3 DEF Settled
  <2>5. QED BY <2>3, <2>4
<1>13. CASE OnConnect
  <2>1. call.op = "connect" /\ main # "init" /\ UNCHANGED <<ops, timer, ready, threads>>
    BY <1>5, <1>13 DEF OnConnect, Running, Segments
  <2>2. CarriesOn(call)
    BY <2>1 DEF CarriesOn
  <2>3. CASE call.ec = "ok"
    <3>1. reconnectDelay' = 1 /\ call' = Goto("do_read")
      BY <1>13, <2>3 DEF OnConnect
    <3>2. call'.op = "do_read"
      BY <3>1, GotoLemma DEF Segments
    <3>3. \A e \in Elems(ready) : ~Reconnects(e)
      <4>1. \A e \in Elems(ready) : ~CarriesOn(e)
        BY <1>1, <2>2, ElemsFacts
      <4>2. QED BY <4>1 DEF Reconnects, CarriesOn
    <3>4. QED BY <1>1, <1>2, <2>1, <2>2, <2>3, <3>1, <3>2, <3>3 DEF Reconnects, Settled
  <2>4. CASE call.ec # "ok"
    <3>1. status' = "Error" /\ call'.op = "schedule_reconnect"
      BY <1>13, <2>4, GotoLemma DEF OnConnect, Segments
    <3>2. QED BY <1>2, <2>1, <3>1 DEF Settled
  <2>5. QED BY <2>3, <2>4
<1>14. CASE ScheduleReconnect
  <2>1. call.op = "schedule_reconnect" /\ main # "init" /\ UNCHANGED <<ops, threads>>
        /\ call' = NoCall /\ status' = "Reconnecting"
    BY <1>5, <1>14 DEF ScheduleReconnect, Running, Segments
  <2>2. ready' = ready
    BY <1>1, <1>14, <2>1 DEF ScheduleReconnect, CarriesOn
  <2>3. QED BY <1>2, <1>4, <2>1, <2>2
<1>15. CASE OnTimer
  <2>1. call.op = "timer" /\ main # "init" /\ UNCHANGED <<status, timer, threads>>
    BY <1>5, <1>15 DEF OnTimer, Running, Handlers
  <2>2. CASE call.ec = "ok"
    <3>1. status # "Connected"
      BY <1>2, <2>1, <2>2 DEF Reconnects
    <3>2. sock' = "closed" /\ call'.op = "do_connect"
      BY <1>15, <2>2, GotoLemma DEF OnTimer, CloseSocket, Segments
    <3>3. QED BY <2>1, <3>1, <3>2
  <2>3. CASE call.ec # "ok"
    <3>1. call' = NoCall /\ UNCHANGED <<reconnectDelay, ops, ready>>
      BY <1>15, <2>3 DEF OnTimer
    <3>2. QED BY <1>2, <1>4, <2>1, <3>1
  <2>4. QED BY <2>2, <2>3
<1>16. CASE DoRead
  <2>1. main # "init" /\ call' = NoCall
        /\ UNCHANGED <<config, sock, connEp, timer, threads>>
    BY <1>5, <1>16 DEF DoRead, Running, Segments
  <2>2. CASE UNCHANGED ready
    BY <1>2, <1>4, <2>1, <2>2
  <2>3. CASE /\ ReadResult # "none"
             /\ ready' = Append(ready, Entry("read", ReadResult, 0))
    <3>1. ReadResult \in Errors
      BY <2>3 DEF ReadResult, Errors
    <3>2. /\ Entry("read", ReadResult, 0) \in Entries
          /\ Entry("read", ReadResult, 0).op = "read"
      BY <3>1, EntryLemma DEF Handlers
    <3>3. Elems(ready') = Elems(ready) \cup {Entry("read", ReadResult, 0)}
      BY <1>6, <2>3, <3>2
    <3>4. /\ ~Reconnects(Entry("read", ReadResult, 0))
          /\ ~Settled(Entry("read", ReadResult, 0))
      BY <3>2 DEF Reconnects, Settled
    <3>5. QED BY <1>2, <1>4, <2>1, <3>3, <3>4
  <2>4. QED BY <1>16, <2>2, <2>3 DEF DoRead
<1>17. CASE OnRead
  <2>1. main # "init" /\ UNCHANGED <<reconnectDelay, ops, timer, ready, threads>>
    BY <1>5, <1>17 DEF OnRead, Running, Handlers
  <2>2. \/ call'.op = "do_read" /\ status' = status
        \/ call'.op = "schedule_reconnect" /\ status' # "Connected"
    BY <1>17, GotoLemma DEF OnRead, ReadStatus, Segments
  <2>3. QED BY <1>2, <2>1, <2>2 DEF Reconnects, Settled
<1>18. CASE OnSend \/ DoWrite \/ OnWrite \/ OnStart
  BY <1>1, <1>18 DEF OnSend, DoWrite, OnWrite, OnStart, Running
<1>19. CASE OnClose
  <2>1. main # "init" /\ call' = NoCall /\ UNCHANGED <<reconnectDelay, timer, threads>>
    BY <1>5, <1>19 DEF OnClose, Running, Handlers
  <2>2. CASE CloseSocket /\ status' = "Disconnected"
    BY <1>4, <2>1, <2>2 DEF CloseSocket
  <2>3. CASE UNCHANGED <<ops, ready, status>>
    BY <1>2, <1>4, <2>1, <2>3
  <2>4. QED BY <1>19, <2>2, <2>3 DEF OnClose
<1>20. CASE Dequeue
  <2>1. /\ ready # <<>> /\ Head(ready).op # "io" /\ call' = Begin(Head(ready))
        /\ ready' = Tail(ready)
        /\ UNCHANGED <<config, ops, timer, threads>>
    BY <1>20 DEF Dequeue
  <2>2. /\ Head(ready) \in Entries /\ Head(ready) \in Elems(ready)
        /\ Elems(ready') \subseteq Elems(ready)
    BY <1>1, <2>1, ElemsTail
  <2>3. call'.op = Head(ready).op /\ call'.ec = Head(ready).ec
    BY <2>1, <2>2, BeginLemma
  <2>4. call'.op # "connect"
    BY <2>2, <2>3 DEF Entries, Handlers
  <2>5. /\ Reconnects(call') <=> Reconnects(Head(ready))
        /\ Settled(call') <=> Settled(Head(ready))
    BY <2>3 DEF Reconnects, Settled
  <2>6. QED BY <1>2, <2>1, <2>2, <2>4, <2>5
<1>21. CASE PerformIo
  <2>1. PICK nr \in 0..nReads :
          /\ nr > 0 => ReadResult # "none"
          /\ connEp' = IF ConnectDone = <<>> THEN connEp ELSE 0
          /\ IF Done(0, nr) = <<>>
             THEN call' = NoCall /\ ready' = Tail(ready)
             ELSE /\ call' = Begin(Head(Done(0, nr)))
                  /\ ready' = Tail(ready) \o Tail(Done(0, nr))
    <3>1. PICK nw \in 0..Len(writes), nr \in 0..nReads :
            /\ nr > 0 => ReadResult # "none"
            /\ connEp' = IF ConnectDone = <<>> THEN connEp ELSE 0
            /\ IF Done(nw, nr) = <<>>
               THEN call' = NoCall /\ ready' = Tail(ready)
               ELSE /\ call' = Begin(Head(Done(nw, nr)))
                    /\ ready' = Tail(ready) \o Tail(Done(nw, nr))
      BY <1>21 DEF PerformIo
    <3>2. nw = 0
      BY <3>1 DEF LoopInv
    <3>3. QED BY <3>1, <3>2
  <2> DEFINE D == Done(0, nr)
  <2>2. /\ D \in Seq(Entries)
        /\ \A e \in Elems(D) :
             \/ e.op = "read"
             \/ /\ e.op = "connect_op" /\ connEp # 0
                /\ e.ec = "ok" => sock \in {"established", "eof"}
    BY <2>1, LoopDone
  <2>3. /\ D = <<>> => call' = NoCall /\ ready' = Tail(ready)
        /\ D # <<>> => call' = Begin(Head(D)) /\ ready' = Tail(ready) \o Tail(D)
    BY <2>1
  <2>4. connEp = 0 => connEp' = 0
    BY <2>1
  <2> HIDE DEF D
  <2>5. ready # <<>> /\ UNCHANGED <<config, sock, timer, threads>>
    BY <1>21 DEF PerformIo
  <2>6. Tail(ready) \in Seq(Entries) /\ Elems(Tail(ready)) \subseteq Elems(ready)
    BY <1>1, <2>5, ElemsTail
  <2>7. CASE D = <<>>
    BY <1>2, <1>4, <2>3, <2>4, <2>5, <2>6, <2>7
  <2>8. CASE D # <<>>
    <3>1. /\ Tail(D) \in Seq(Entries) /\ Head(D) \in Entries /\ Head(D) \in Elems(D)
          /\ Elems(Tail(D)) \subseteq Elems(D)
      BY <2>2, <2>8, ElemsTail
    <3>2. Elems(ready') = Elems(Tail(ready)) \cup Elems(Tail(D))
      BY <2>3, <2>6, <2>8, <3>1, ElemsFacts
    <3>3. \A e \in Elems(D) : /\ status = "Connected" => ~Reconnects(e)
                              /\ sock = "connecting" => ~Settled(e)
                              /\ e.op # "connect" /\ e.op # "io"
      BY <1>2, <2>2 DEF Reconnects, Settled
    <3>4. call'.op = Head(D).op /\ call'.ec = Head(D).ec
      BY <2>3, <2>8, <3>1, <3>3, BeginLemma
    <3>5. /\ Reconnects(call') <=> Reconnects(Head(D))
          /\ Settled(call') <=> Settled(Head(D))
      BY <3>4 DEF Reconnects, Settled
    <3>6. QED BY <1>2, <2>4, <2>5, <2>6, <3>1, <3>2, <3>3, <3>4, <3>5
  <2>9. QED BY <2>7, <2>8
<1>22. CASE ReportDue \/ ReportPossible
  <2>1. /\ ready' = Append(ready, Entry("io", "ok", 0))
        /\ UNCHANGED <<config, ops, timer, call, threads>>
    BY <1>22 DEF ReportDue, ReportPossible, Report
  <2>2. Entry("io", "ok", 0) \in Entries /\ Entry("io", "ok", 0).op = "io"
    BY EntryLemma DEF Handlers, Errors
  <2>3. Elems(ready') = Elems(ready) \cup {Entry("io", "ok", 0)}
    BY <1>6, <2>1, <2>2
  <2>4. ~Reconnects(Entry("io", "ok", 0)) /\ ~Settled(Entry("io", "ok", 0))
    BY <2>2 DEF Reconnects, Settled
  <2>5. QED BY <1>2, <2>1, <2>3, <2>4
<1>23. CASE TimerExpires
  <2>1. /\ ready' = Append(ready, Entry("timer", "ok", 0)) /\ timer
        /\ UNCHANGED <<config, ops, call, threads>>
    BY <1>23 DEF TimerExpires
  <2>2. Entry("timer", "ok", 0) \in Entries /\ Entry("timer", "ok", 0).op = "timer"
    BY EntryLemma DEF Handlers, Errors
  <2>3. Elems(ready') = Elems(ready) \cup {Entry("timer", "ok", 0)}
    BY <1>6, <2>1, <2>2
  <2>4. ~Settled(Entry("timer", "ok", 0))
    BY <2>2 DEF Settled
  <2>5. status # "Connected"
    BY <1>2, <2>1
  <2>6. QED BY <1>2, <2>1, <2>3, <2>4, <2>5
<1>24. CASE IoExit
  BY <1>2, <1>24 DEF IoExit
<1>25. CASE ConnectionSettles \/ PeerClosesOrResets
  <2>1. sock' \in Live /\ UNCHANGED <<config, connEp, timer, ready, call, threads>>
    BY <1>25 DEF ConnectionSettles, PeerClosesOrResets, Live
  <2>2. QED BY <1>2, <2>1 DEF Live
<1>26. CASE MainStart
  <2>1. /\ main = "init" /\ main' = "starting" /\ call' = Goto("do_connect")
        /\ UNCHANGED <<status, reconnectDelay, ops, timer, ready>>
    BY <1>26 DEF MainStart
  <2>2. call'.op = "do_connect"
    BY <2>1, GotoLemma DEF Segments
  <2>3. QED BY <1>2, <2>1, <2>2 DEF Settled
<1>27. CASE MainRun \/ MainStopStore \/ MainIoStop \/ MainJoin
  BY <1>2, <1>27 DEF MainRun, MainStopStore, MainIoStop, MainJoin
<1>28. CASE MainSend
  BY <1>28 DEF MainSend, LoopInv, Undisturbed, TypeInv, TypeOK
<1>29. CASE MainStopPost
  <2>1. /\ ready' = Append(ready, Entry("close", "ok", 0)) /\ main' = "stopped"
        /\ UNCHANGED <<config, ops, timer, call>>
    BY <1>29 DEF MainStopPost
  <2>2. Entry("close", "ok", 0) \in Entries /\ Entry("close", "ok", 0).op = "close"
    BY EntryLemma DEF Handlers, Errors
  <2>3. Elems(ready') = Elems(ready) \cup {Entry("close", "ok", 0)}
    BY <1>6, <2>1, <2>2
  <2>4. ~Reconnects(Entry("close", "ok", 0)) /\ ~Settled(Entry("close", "ok", 0))
    BY <2>2 DEF Reconnects, Settled
  <2>5. QED BY <1>2, <2>1, <2>3, <2>4
<1>30. CASE MainRestart
  <2>1. main # "init" /\ starts < MaxStarts
    BY <1>30 DEF MainRestart
  <2>2. QED BY <2>1 DEF LoopInv, Undisturbed
<1>31. CASE UNCHANGED vars
  BY <1>2, <1>31
<1>32. CASE Ended
  BY <1>31, <1>32 DEF Ended
<1>33. QED
  BY <1>10, <1>11, <1>12, <1>13, <1>14, <1>15, <1>16, <1>17, <1>18, <1>19, <1>20, <1>21, <1>22,
     <1>23, <1>24, <1>25, <1>26, <1>27, <1>28, <1>29, <1>30, <1>31, <1>32
     DEF Next, IoThread, Client, Main

\* While get_status() says Connected, socket_ holds the connection that was
\* established and the back-off is at its start.
THEOREM ConnectedIsTrue == Undisturbed /\ Spec => []ConnectedTruthful
<1>1. StatusInv => ConnectedTruthful
  BY DEF StatusInv, ConnectedTruthful, Live
<1>2. QED
  BY <1>1, LoopInit, LoopNext, TypeInit, TypeNext, StatusInit, StatusNext, PTL DEF Spec
=============================================================================
