------------------------ MODULE DaytimeServersProofs ------------------------
(***************************************************************************)
(* Theorems about DaytimeServers, for any number of clients, peers and     *)
(* connections: the accept loop neither forks nor dies, no connection is   *)
(* used after it is freed, no client gets more than one message, and every *)
(* datagram is answered to its sender.                                     *)
(***************************************************************************)
EXTENDS DaytimeServers, SequenceTheorems, FiniteSetTheorems, TLAPS

-----------------------------------------------------------------------------
(* The queue of the io_context.                                            *)

No(q, op) == \A i \in 1..Len(q) : q[i].op # op
One(q, op) == \E i \in 1..Len(q) :
    q[i].op = op /\ \A j \in 1..Len(q) : q[j].op = op => j = i

\* A datagram has been received and handle_receive() has not run yet.
Unhandled(q) == \E i \in 1..Len(q) : q[i].op = "receive" /\ q[i].ok

\* The entry's handler owns its connection, if it is about one.
OwnsOne(e, conns) == e.op \in {"accept", "write"} => e.owns /\ e.conn \in conns
Owning(q, conns) == \A i \in 1..Len(q) : OwnsOne(q[i], conns)

LEMMA QueueAppend ==
  ASSUME NEW q \in Seq(Entries), NEW e \in Entries, NEW r, r = Append(q, e)
  PROVE  /\ r \in Seq(Entries)
         /\ \A op : No(r, op) <=> No(q, op) /\ e.op # op
         /\ \A op : No(q, op) /\ e.op = op => One(r, op)
         /\ \A op : One(q, op) /\ e.op # op => One(r, op)
         /\ Unhandled(r) <=> Unhandled(q) \/ (e.op = "receive" /\ e.ok)
         /\ \A conns : Owning(q, conns) /\ OwnsOne(e, conns) => Owning(r, conns)
<1> DEFINE n == Len(q)
<1>1. /\ r \in Seq(Entries) /\ Len(r) = n + 1 /\ n \in Nat
      /\ \A i \in 1..n : r[i] = q[i]
      /\ r[n + 1] = e
  BY AppendProperties, LenProperties
<1> HIDE DEF n
<1>2. 1..Len(r) = (1..n) \cup {n + 1} /\ n + 1 \notin 1..n
  BY <1>1
<1>3. /\ \A op : No(r, op) <=> No(q, op) /\ e.op # op
      /\ Unhandled(r) <=> Unhandled(q) \/ (e.op = "receive" /\ e.ok)
      /\ \A conns : Owning(q, conns) /\ OwnsOne(e, conns) => Owning(r, conns)
  BY <1>1, <1>2, Zenon DEF No, Unhandled, Owning, n
<1>4. ASSUME NEW op, No(q, op), e.op = op PROVE One(r, op)
  <2>1. n + 1 \in 1..Len(r) /\ r[n + 1].op = op
    BY <1>1, <1>2, <1>4
  <2>2. ASSUME NEW j \in 1..Len(r), r[j].op = op PROVE j = n + 1
    BY <1>1, <1>2, <1>4, <2>2 DEF No, n
  <2>3. QED BY <2>1, <2>2 DEF One
<1>5. ASSUME NEW op, One(q, op), e.op # op PROVE One(r, op)
  <2>1. PICK i \in 1..n : q[i].op = op /\ \A j \in 1..n : q[j].op = op => j = i
    BY <1>5 DEF One, n
  <2>2. i \in 1..Len(r) /\ r[i].op = op
    BY <1>1, <1>2, <2>1
  <2>3. ASSUME NEW j \in 1..Len(r), r[j].op = op PROVE j = i
    BY <1>1, <1>2, <1>5, <2>1, <2>3
  <2>4. QED BY <2>2, <2>3 DEF One
<1>6. QED BY <1>1, <1>3, <1>4, <1>5

LEMMA QueueTail ==
  ASSUME NEW q \in Seq(Entries), q # <<>>, NEW r, r = Tail(q)
  PROVE  /\ r \in Seq(Entries) /\ Head(q) \in Entries
         /\ \A op : No(q, op) => No(r, op) /\ Head(q).op # op
         /\ \A op : One(q, op) /\ Head(q).op = op => No(r, op)
         /\ \A op : One(q, op) /\ Head(q).op # op => One(r, op)
         /\ Unhandled(q) <=> Unhandled(r) \/ (Head(q).op = "receive" /\ Head(q).ok)
         /\ \A conns : Owning(q, conns) => Owning(r, conns) /\ OwnsOne(Head(q), conns)
<1> DEFINE n == Len(r)
<1>1. /\ r \in Seq(Entries) /\ Head(q) \in Entries /\ n \in Nat /\ Len(q) = n + 1
      /\ \A i \in 1..n : r[i] = q[i + 1]
      /\ Head(q) = q[1]
  BY HeadTailProperties, LenProperties
<1> HIDE DEF n
<1>2. /\ \A i \in 1..n : i + 1 \in 1..Len(q)
      /\ \A j \in 1..Len(q) : j = 1 \/ (j - 1 \in 1..n /\ q[j] = r[j - 1])
      /\ 1 \in 1..Len(q)
  BY <1>1
<1>3. ASSUME NEW op, No(q, op) PROVE No(r, op) /\ Head(q).op # op
  BY <1>1, <1>2, <1>3 DEF No, n
<1>4. Unhandled(q) <=> Unhandled(r) \/ (Head(q).op = "receive" /\ Head(q).ok)
  BY <1>1, <1>2, SMTT(30) DEF Unhandled, n
<1>5. ASSUME NEW conns, Owning(q, conns) PROVE Owning(r, conns) /\ OwnsOne(Head(q), conns)
  BY <1>1, <1>2, <1>5, Zenon DEF Owning, n
<1>6. ASSUME NEW op, One(q, op)
      PROVE  /\ Head(q).op = op => No(r, op)
             /\ Head(q).op # op => One(r, op)
  <2>1. PICK i \in 1..Len(q) : q[i].op = op /\ \A j \in 1..Len(q) : q[j].op = op => j = i
    BY <1>6 DEF One
  <2>2. ASSUME Head(q).op = op PROVE No(r, op)
    <3>1. i = 1
      BY <1>1, <1>2, <2>1, <2>2
    <3>2. ASSUME NEW j \in 1..n, r[j].op = op PROVE FALSE
      <4>1. j + 1 \in 1..Len(q) /\ q[j + 1].op = op /\ j + 1 # 1
        BY <1>1, <3>2
      <4>2. QED BY <4>1, <3>1, <2>1
    <3>3. QED BY <3>2 DEF No, n
  <2>3. ASSUME Head(q).op # op PROVE One(r, op)
    <3>1. i - 1 \in 1..n /\ r[i - 1].op = op
      BY <1>1, <1>2, <2>1, <2>3
    <3>2. ASSUME NEW j \in 1..n, r[j].op = op PROVE j = i - 1
      <4>1. j + 1 \in 1..Len(q) /\ q[j + 1].op = op
        BY <1>1, <3>2
      <4>2. j + 1 = i
        BY <4>1, <2>1
      <4>3. QED BY <4>2, <2>1, <1>1
    <3>3. QED BY <3>1, <3>2 DEF One, n
  <2>4. QED BY <2>2, <2>3
<1>7. QED BY <1>1, <1>3, <1>4, <1>5, <1>6

LEMMA EmptyQueue ==
  /\ <<>> \in Seq(Entries) /\ ~Unhandled(<<>>)
  /\ \A op : No(<<>>, op)
  /\ \A conns : Owning(<<>>, conns)
  BY DEF No, Unhandled, Owning

-----------------------------------------------------------------------------
(* The inductive invariant.                                                *)

Types ==
    /\ ready \in Seq(Entries) /\ accepting \in Connections \cup {None}
    /\ objects \subseteq Connections /\ writes \subseteq Writes
    /\ receiving \in BOOLEAN /\ remote \in Peers \cup {None}
    /\ sends \in Seq(Peers) /\ inbox \in Seq(Peers)
    /\ asked \in Seq(Peers) /\ answered \in Seq(Peers)

\* The loop is in one place: pending in the reactor, or in the queue.
Accepts == IF accepting = None THEN One(ready, "accept") ELSE No(ready, "accept")

\* Who uses a connection owns it, and what is owned exists.
Owners ==
    /\ accepting # None => accepting \in objects
    /\ \A x \in writes : x.owns /\ x.conn \in objects
    /\ Owning(ready, objects)

\* remote_endpoint_ belongs to the one datagram that is not handled yet.
Replies ==
    /\ No(ready, "receive") \/ (One(ready, "receive") /\ ~receiving)
    /\ IF Unhandled(ready)
       THEN remote \in Peers /\ asked = Append(answered \o sends, remote)
       ELSE asked = answered \o sends

IInv == Types /\ Accepts /\ Owners /\ Replies

LEMMA EnoughConnections == Connections # {}
<1>1. SUFFICES ASSUME Connections = {} PROVE FALSE
  OBVIOUS
<1>2. Cardinality(Connections) = 0 /\ Cardinality(Clients) \in Nat
  BY <1>1, ServerParameters, FS_EmptySet, FS_CardinalityType
<1>3. QED BY <1>2, ServerParameters

LEMMA FreshIsNew ==
  ASSUME NEW existing, Connections \ existing # {}
  PROVE  Fresh(existing) \in Connections \ existing
  BY DEF Fresh

LEMMA InitHolds == Init => IInv
<1> SUFFICES ASSUME Init PROVE IInv
  OBVIOUS
<1>1. accepting \in Connections /\ objects = {accepting}
  BY EnoughConnections, FreshIsNew DEF Init
<1>2. Types
  BY <1>1 DEF Init, Types
<1>3. Accepts /\ Owners
  BY <1>1, EmptyQueue, ServerParameters DEF Init, Accepts, Owners
<1>4. Replies
  <2>1. <<>> \o <<>> = <<>>
    BY ConcatEmptySeq
  <2>2. QED BY <2>1, EmptyQueue DEF Init, Replies
<1>5. QED BY <1>2, <1>3, <1>4 DEF IInv

-----------------------------------------------------------------------------
(* The handlers.                                                           *)

LEMMA EntryIsEntry ==
  ASSUME NEW op \in {"accept", "write", "receive", "send"}, NEW ok \in BOOLEAN,
         NEW c \in Connections \cup {None}, NEW owns \in BOOLEAN, NEW left \in 0..Pieces
  PROVE  Entry(op, ok, c, owns, left) \in Entries
  BY DEF Entry, Entries

\* Starting a connection adds a write that owns it.
LEMMA StartOwns ==
  ASSUME NEW c \in Connections
  PROVE  Start(c) \subseteq Writes /\ \A x \in Start(c) : x.owns /\ x.conn = c
  BY ServerParameters DEF Start, Writes

LEMMA HandleAcceptStep ==
  ASSUME IInv, HandleAccept PROVE IInv'
<1> DEFINE c == Fresh(objects)
<1>1. /\ ready \in Seq(Entries) /\ ready # <<>> /\ Handler = Head(ready)
      /\ Handler.op = "accept" /\ ready' = Tail(ready)
  BY DEF IInv, Types, HandleAccept, Runs, Handler
<1>2. /\ ready' \in Seq(Entries) /\ Handler \in Entries
      /\ Owning(ready', objects) /\ OwnsOne(Handler, objects)
      /\ Unhandled(ready) <=> Unhandled(ready')
      /\ No(ready, "receive") => No(ready', "receive")
      /\ One(ready, "receive") => One(ready', "receive")
      /\ One(ready, "accept") => No(ready', "accept")
      /\ ~No(ready, "accept")
  BY <1>1, QueueTail DEF IInv, Owners
<1>3. c \in Connections \ objects /\ accepting' = c
  BY FreshIsNew DEF HandleAccept
<1>4. c # None
  BY <1>3, ServerParameters
<1>5. /\ writes' \subseteq Writes
      /\ \A x \in writes' : x.owns /\ x.conn \in objects
  <2>1. Handler.conn \in objects /\ Handler.conn \in Connections
    BY <1>1, <1>2 DEF OwnsOne, IInv, Types
  <2>2. /\ Start(Handler.conn) \subseteq Writes
        /\ \A x \in Start(Handler.conn) : x.owns /\ x.conn = Handler.conn
    BY <2>1, StartOwns
  <2>3. writes' = writes \cup Start(Handler.conn) \/ writes' = writes
    BY DEF HandleAccept
  <2>4. QED BY <2>1, <2>2, <2>3 DEF IInv, Types, Owners
<1>6. objects' = (objects \cap Owned(ready', None, writes')) \cup {c}
  BY DEF HandleAccept
<1> HIDE DEF c
<1>7. /\ Types' /\ Replies'
  <2>1. UNCHANGED udp
    BY DEF HandleAccept
  <2>2. QED BY <1>2, <1>3, <1>5, <1>6, <2>1 DEF udp, IInv, Types, Replies
<1>8. Accepts'
  BY <1>2, <1>3, <1>4 DEF IInv, Accepts
<1>9. Owners'
  <2>1. \A x \in writes' : x.conn \in objects'
    BY <1>5, <1>6 DEF Owned, IInv, Types
  <2>2. ASSUME NEW i \in 1..Len(ready') PROVE OwnsOne(ready'[i], objects')
    <3>1. OwnsOne(ready'[i], objects)
      BY <1>2 DEF Owning
    <3>2. QED BY <3>1, <1>6 DEF OwnsOne, Owned, IInv, Types
  <2>3. QED BY <1>3, <1>5, <1>6, <2>1, <2>2 DEF Owners, Owning
<1>10. QED BY <1>7, <1>8, <1>9 DEF IInv

LEMMA ContinueWriteStep ==
  ASSUME IInv, ContinueWrite PROVE IInv'
<1>1. /\ ready \in Seq(Entries) /\ ready # <<>> /\ Handler = Head(ready)
      /\ Handler.op = "write" /\ ready' = Tail(ready)
  BY DEF IInv, Types, ContinueWrite, Runs, Handler
<1>2. /\ ready' \in Seq(Entries) /\ Handler \in Entries
      /\ Owning(ready', objects) /\ OwnsOne(Handler, objects)
      /\ Unhandled(ready) <=> Unhandled(ready')
      /\ \A op \in {"receive", "accept"} : No(ready, op) => No(ready', op)
      /\ \A op \in {"receive", "accept"} : One(ready, op) => One(ready', op)
  BY <1>1, QueueTail DEF IInv, Owners
<1>3. /\ writes' \subseteq Writes
      /\ \A x \in writes' : x.owns /\ x.conn \in objects
  <2>1. Handler.conn \in objects /\ Handler.conn \in Connections /\ Handler.owns
    BY <1>1, <1>2 DEF OwnsOne, IInv, Types
  <2>2. CASE Handler.ok /\ Handler.left > 0
    <3> DEFINE w == [conn |-> Handler.conn, left |-> Handler.left, owns |-> Handler.owns]
    <3>1. writes' = writes \cup {w}
      BY <2>2 DEF ContinueWrite
    <3>2. Handler.left \in 1..Pieces /\ Handler.owns \in BOOLEAN
      BY <1>2, <2>2, ServerParameters DEF Entries
    <3>3. w \in Writes /\ w.owns /\ w.conn \in objects
      BY <2>1, <3>2 DEF Writes
    <3> HIDE DEF w
    <3>4. QED BY <3>1, <3>3 DEF IInv, Types, Owners
  <2>3. CASE ~(Handler.ok /\ Handler.left > 0)
    BY <2>3 DEF ContinueWrite, IInv, Types, Owners
  <2>4. QED BY <2>2, <2>3
<1>4. /\ UNCHANGED <<accepting, udp>>
      /\ objects' = objects \cap Owned(ready', accepting', writes')
  BY DEF ContinueWrite, Release
<1>5. Types' /\ Accepts' /\ Replies'
  BY <1>2, <1>3, <1>4 DEF udp, IInv, Types, Accepts, Replies
<1>6. Owners'
  <2>1. \A x \in writes' : x.conn \in objects'
    BY <1>3, <1>4 DEF Owned, IInv, Types
  <2>2. ASSUME NEW i \in 1..Len(ready') PROVE OwnsOne(ready'[i], objects')
    <3>1. OwnsOne(ready'[i], objects)
      BY <1>2 DEF Owning
    <3>2. QED BY <3>1, <1>4 DEF OwnsOne, Owned, IInv, Types
  <2>3. accepting' # None => accepting' \in objects'
    BY <1>4 DEF IInv, Owners, Types, Owned
  <2>4. QED BY <1>3, <2>1, <2>2, <2>3 DEF Owners, Owning
<1>7. QED BY <1>5, <1>6 DEF IInv

LEMMA AppendOfConcat ==
  \A s, t \in Seq(Peers) : \A e \in Peers : Append(s \o t, e) = s \o Append(t, e)
<1> SUFFICES ASSUME NEW s \in Seq(Peers), NEW t \in Seq(Peers), NEW e \in Peers
             PROVE  Append(s \o t, e) = s \o Append(t, e)
  OBVIOUS
<1>1. <<e>> \in Seq(Peers) /\ s \o t \in Seq(Peers)
  BY ConcatProperties
<1>2. Append(s \o t, e) = (s \o t) \o <<e>> /\ Append(t, e) = t \o <<e>>
  BY <1>1, AppendIsConcat
<1>3. QED BY <1>1, <1>2, ConcatAssociative

LEMMA HeadMoves ==
  ASSUME NEW S, NEW s \in Seq(S), NEW t \in Seq(S), t # <<>>
  PROVE  Append(s, Head(t)) \o Tail(t) = s \o t
<1>1. /\ Head(t) \in S /\ Tail(t) \in Seq(S) /\ <<Head(t)>> \in Seq(S)
      /\ t = <<Head(t)>> \o Tail(t)
  OBVIOUS
<1>2. Append(s, Head(t)) = s \o <<Head(t)>>
  BY <1>1, AppendIsConcat
<1>3. (s \o <<Head(t)>>) \o Tail(t) = s \o (<<Head(t)>> \o Tail(t))
  BY <1>1, ConcatAssociative
<1>4. QED BY <1>1, <1>2, <1>3

LEMMA ReceiveEntry ==
  ASSUME NEW ok \in BOOLEAN
  PROVE  LET e == Entry("receive", ok, None, FALSE, 0) IN
           /\ e \in Entries /\ e.op = "receive" /\ e.ok = ok
           /\ \A conns : OwnsOne(e, conns)
  BY ServerParameters DEF Entry, Entries, OwnsOne

\* recvfrom() with no receive in the queue: one is there afterwards, and it is
\* the one remote_endpoint_ belongs to.
LEMMA ReceivedStep ==
  ASSUME Types, inbox # <<>>, NEW q \in Seq(Entries), No(q, "receive"), Received(q, inbox)
  PROVE  /\ ready' \in Seq(Entries) /\ One(ready', "receive") /\ Unhandled(ready')
         /\ \A conns : Owning(q, conns) => Owning(ready', conns)
         /\ No(q, "accept") => No(ready', "accept")
         /\ One(q, "accept") => One(ready', "accept")
         /\ receiving' = FALSE /\ inbox' \in Seq(Peers)
         /\ remote' \in Peers /\ asked' = Append(asked, remote') /\ asked' \in Seq(Peers)
<1> DEFINE e == Entry("receive", TRUE, None, FALSE, 0)
<1>1. e \in Entries /\ e.op = "receive" /\ e.ok = TRUE /\ \A conns : OwnsOne(e, conns)
  BY ReceiveEntry
<1>2. ready' = Append(q, e) /\ receiving' = FALSE
  BY DEF Received
<1>3. /\ remote' = Head(inbox) /\ asked' = Append(asked, Head(inbox)) /\ inbox' = Tail(inbox)
      /\ inbox \in Seq(Peers) /\ asked \in Seq(Peers)
  BY DEF Received, Types
<1> HIDE DEF e
<1>4. /\ ready' \in Seq(Entries) /\ One(ready', "receive") /\ Unhandled(ready')
      /\ \A conns : Owning(q, conns) => Owning(ready', conns)
      /\ No(q, "accept") => No(ready', "accept")
      /\ One(q, "accept") => One(ready', "accept")
  BY <1>1, <1>2, QueueAppend
<1>5. Head(inbox) \in Peers /\ Tail(inbox) \in Seq(Peers)
  BY <1>3, HeadTailProperties
<1>6. Append(asked, Head(inbox)) \in Seq(Peers)
  BY <1>3, <1>5, AppendProperties
<1>7. QED BY <1>2, <1>3, <1>4, <1>5, <1>6

LEMMA HandleReceiveStep ==
  ASSUME IInv, HandleReceive PROVE IInv'
<1>1. /\ ready \in Seq(Entries) /\ ready # <<>> /\ Handler = Head(ready)
      /\ Handler.op = "receive"
  BY DEF IInv, Types, HandleReceive, Runs, Handler
<1> DEFINE q == Tail(ready)
<1>2. /\ q \in Seq(Entries) /\ Handler \in Entries /\ Owning(q, objects)
      /\ Unhandled(ready) <=> Unhandled(q) \/ Handler.ok
      /\ ~No(ready, "receive")
      /\ One(ready, "receive") => No(q, "receive")
      /\ No(ready, "accept") => No(q, "accept")
      /\ One(ready, "accept") => One(q, "accept")
  BY <1>1, QueueTail DEF IInv, Owners
<1>3. No(q, "receive") /\ ~Unhandled(q) /\ ~receiving
  BY <1>2 DEF IInv, Replies, No, Unhandled
<1>4. UNCHANGED <<accepting, objects, writes, answered>>
  BY DEF HandleReceive, tcp
<1>5. CASE Handler.ok
  <2>1. StartReceive(q) /\ sends' = Append(sends, remote)
    BY <1>5 DEF HandleReceive
  <2>2. remote \in Peers /\ asked = Append(answered \o sends, remote)
    BY <1>2, <1>5 DEF IInv, Replies
  <2>3. sends' \in Seq(Peers) /\ asked = answered' \o sends'
    <3>1. sends \in Seq(Peers) /\ answered \in Seq(Peers)
      BY DEF IInv, Types
    <3>2. Append(sends, remote) \in Seq(Peers)
      BY <3>1, <2>2, AppendProperties
    <3>3. Append(answered \o sends, remote) = answered \o Append(sends, remote)
      <4>1. remote \in Peers
        BY <2>2
      <4>2. QED BY <3>1, <4>1, AppendOfConcat, Zenon
    <3>4. sends' = Append(sends, remote) /\ answered' = answered
      BY <1>4, <2>1
    <3>5. QED BY <2>2, <3>2, <3>3, <3>4, Zenon
  <2>4. CASE inbox # <<>> /\ Received(q, inbox)
    <3>1. /\ ready' \in Seq(Entries) /\ One(ready', "receive") /\ Unhandled(ready')
          /\ Owning(ready', objects)
          /\ No(q, "accept") => No(ready', "accept")
          /\ One(q, "accept") => One(ready', "accept")
          /\ receiving' = FALSE /\ inbox' \in Seq(Peers)
          /\ remote' \in Peers /\ asked' = Append(asked, remote') /\ asked' \in Seq(Peers)
      BY <1>2, <1>3, <2>4, ReceivedStep DEF IInv
    <3>2. Types'
      BY <1>4, <2>3, <3>1 DEF IInv, Types
    <3>3. Accepts' /\ Owners'
      BY <1>2, <1>4, <3>1 DEF IInv, Accepts, Owners
    <3>4. Replies'
      BY <2>3, <3>1 DEF Replies
    <3>5. QED BY <3>2, <3>3, <3>4 DEF IInv
  <2>5. CASE receiving' = TRUE /\ ready' = q /\ UNCHANGED <<remote, asked, inbox>>
    <3>1. Types'
      BY <1>2, <1>4, <2>3, <2>5 DEF IInv, Types
    <3>2. Accepts' /\ Owners'
      BY <1>2, <1>4, <2>5 DEF IInv, Accepts, Owners
    <3>3. Replies'
      BY <1>3, <2>3, <2>5 DEF Replies
    <3>4. QED BY <3>1, <3>2, <3>3 DEF IInv
  <2>6. QED BY <2>1, <2>4, <2>5 DEF StartReceive
<1>6. CASE ~Handler.ok
  <2>1. ready' = q /\ UNCHANGED <<receiving, remote, asked, inbox, sends>>
    BY <1>6 DEF HandleReceive
  <2>2. Types'
    BY <1>2, <1>4, <2>1 DEF IInv, Types
  <2>3. Accepts' /\ Owners'
    BY <1>2, <1>4, <2>1 DEF IInv, Accepts, Owners
  <2>4. Replies'
    BY <1>2, <1>3, <1>4, <1>6, <2>1 DEF IInv, Replies
  <2>5. QED BY <2>2, <2>3, <2>4 DEF IInv
<1>7. QED BY <1>5, <1>6

LEMMA HandleSendStep ==
  ASSUME IInv, HandleSend PROVE IInv'
<1>1. /\ ready \in Seq(Entries) /\ ready # <<>> /\ Handler = Head(ready)
      /\ Handler.op = "send" /\ ready' = Tail(ready)
      /\ UNCHANGED <<tcp, udp>>
  BY DEF IInv, Types, HandleSend, Runs, Handler
<1>2. /\ ready' \in Seq(Entries) /\ Owning(ready', objects)
      /\ Unhandled(ready) <=> Unhandled(ready')
      /\ \A op \in {"receive", "accept"} : No(ready, op) => No(ready', op)
      /\ \A op \in {"receive", "accept"} : One(ready, op) => One(ready', op)
  BY <1>1, QueueTail DEF IInv, Owners
<1>3. QED BY <1>1, <1>2 DEF tcp, udp, IInv, Types, Accepts, Owners, Replies

-----------------------------------------------------------------------------
(* The reactor.                                                            *)

LEMMA AcceptStep ==
  ASSUME IInv, NEW ok \in BOOLEAN, Accept(ok) PROVE IInv'
<1> DEFINE e == Entry("accept", ok, accepting, TRUE, 0)
<1>1. /\ ready' = Append(ready, e) /\ accepting # None /\ accepting' = None
      /\ UNCHANGED <<objects, writes, udp>>
  BY DEF Accept
<1>2. e \in Entries /\ e.op = "accept" /\ e.owns /\ e.conn = accepting
  BY ServerParameters DEF Entry, Entries, IInv, Types
<1>3. OwnsOne(e, objects)
  BY <1>1, <1>2 DEF OwnsOne, IInv, Owners
<1> HIDE DEF e
<1>4. /\ ready' \in Seq(Entries) /\ Owning(ready', objects)
      /\ Unhandled(ready) <=> Unhandled(ready')
      /\ No(ready, "receive") => No(ready', "receive")
      /\ One(ready, "receive") => One(ready', "receive")
      /\ No(ready, "accept") => One(ready', "accept")
  BY <1>1, <1>2, <1>3, QueueAppend DEF IInv, Types, Owners
<1>5. Types' /\ Replies'
  BY <1>1, <1>4 DEF udp, IInv, Types, Replies
<1>6. Accepts' /\ Owners'
  BY <1>1, <1>4 DEF IInv, Accepts, Owners
<1>7. QED BY <1>5, <1>6 DEF IInv

\* An entry that is neither an accept nor a receive leaves both loops alone.
LEMMA OtherEntry ==
  ASSUME IInv, NEW e \in Entries, e.op \notin {"accept", "receive"}, OwnsOne(e, objects),
         ready' = Append(ready, e)
  PROVE  /\ ready' \in Seq(Entries) /\ Owning(ready', objects)
         /\ Unhandled(ready) <=> Unhandled(ready')
         /\ \A op \in {"receive", "accept"} : No(ready, op) => No(ready', op)
         /\ \A op \in {"receive", "accept"} : One(ready, op) => One(ready', op)
<1>1. e.op # "accept" /\ e.op # "receive" /\ ready \in Seq(Entries) /\ Owning(ready, objects)
  BY DEF IInv, Types, Owners
<1>2. QED BY <1>1, QueueAppend

LEMMA WritePieceStep ==
  ASSUME IInv, NEW x \in writes, WritePiece(x) PROVE IInv'
<1> DEFINE ok == client[peer[x.conn]] = "connected"
           e  == Entry("write", ok, x.conn, x.owns, x.left - 1)
<1>1. /\ ready' = Append(ready, e) /\ writes' = writes \ {x}
      /\ UNCHANGED <<accepting, objects, udp>>
  BY DEF WritePiece
<1>2. x \in Writes /\ x.owns /\ x.conn \in objects
  BY DEF IInv, Types, Owners
<1>3. x.left - 1 \in 0..Pieces /\ x.conn \in Connections /\ x.owns \in BOOLEAN /\ ok \in BOOLEAN
  BY <1>2, ServerParameters DEF Writes
<1> HIDE DEF ok
<1>4. e \in Entries /\ e.op = "write" /\ e.owns /\ e.conn \in objects
  BY <1>2, <1>3 DEF Entry, Entries
<1> HIDE DEF e
<1>5. /\ ready' \in Seq(Entries) /\ Owning(ready', objects)
      /\ Unhandled(ready) <=> Unhandled(ready')
      /\ \A op \in {"receive", "accept"} : No(ready, op) => No(ready', op)
      /\ \A op \in {"receive", "accept"} : One(ready, op) => One(ready', op)
  BY <1>1, <1>4, OtherEntry DEF OwnsOne
<1>6. Types' /\ Replies'
  BY <1>1, <1>5 DEF udp, IInv, Types, Replies
<1>7. Accepts' /\ Owners'
  BY <1>1, <1>5 DEF IInv, Accepts, Owners
<1>8. QED BY <1>6, <1>7 DEF IInv

LEMMA ReceiveStep ==
  ASSUME IInv, Receive PROVE IInv'
<1>1. /\ Types /\ inbox # <<>> /\ ready \in Seq(Entries) /\ Received(ready, inbox)
      /\ UNCHANGED <<tcp, sends, answered>> /\ receiving
  BY DEF Receive, IInv, Types
<1>2. No(ready, "receive") /\ ~Unhandled(ready) /\ asked = answered \o sends
  BY <1>1 DEF IInv, Replies, No, Unhandled
<1>3. /\ ready' \in Seq(Entries) /\ One(ready', "receive") /\ Unhandled(ready')
      /\ Owning(ready', objects)
      /\ No(ready, "accept") => No(ready', "accept")
      /\ One(ready, "accept") => One(ready', "accept")
      /\ receiving' = FALSE /\ inbox' \in Seq(Peers)
      /\ remote' \in Peers /\ asked' = Append(asked, remote') /\ asked' \in Seq(Peers)
  BY <1>1, <1>2, ReceivedStep DEF IInv, Owners
<1>4. Types'
  BY <1>1, <1>3 DEF tcp, IInv, Types
<1>5. Accepts' /\ Owners'
  BY <1>1, <1>3 DEF tcp, IInv, Accepts, Owners
<1>6. Replies'
  BY <1>1, <1>2, <1>3 DEF Replies
<1>7. QED BY <1>4, <1>5, <1>6 DEF IInv

LEMMA ReceiveFailsStep ==
  ASSUME IInv, ReceiveFails PROVE IInv'
<1> DEFINE e == Entry("receive", FALSE, None, FALSE, 0)
<1>1. /\ ready' = Append(ready, e) /\ receiving /\ receiving' = FALSE
      /\ UNCHANGED <<tcp, remote, sends, inbox, asked, answered>>
  BY DEF ReceiveFails
<1>2. e \in Entries /\ e.op = "receive" /\ ~e.ok /\ OwnsOne(e, objects)
  BY ReceiveEntry
<1> HIDE DEF e
<1>3. /\ ready' \in Seq(Entries) /\ Owning(ready', objects)
      /\ Unhandled(ready) <=> Unhandled(ready')
      /\ No(ready, "receive") => One(ready', "receive")
      /\ No(ready, "accept") => No(ready', "accept")
      /\ One(ready, "accept") => One(ready', "accept")
  BY <1>1, <1>2, QueueAppend DEF IInv, Types, Owners
<1>4. Types'
  BY <1>1, <1>3 DEF tcp, IInv, Types
<1>5. Accepts' /\ Owners' /\ Replies'
  BY <1>1, <1>3 DEF tcp, IInv, Accepts, Owners, Replies
<1>6. QED BY <1>4, <1>5 DEF IInv

LEMMA SendReplyStep ==
  ASSUME IInv, SendReply PROVE IInv'
<1> DEFINE e == Entry("send", TRUE, None, FALSE, 0)
<1>1. /\ ready' = Append(ready, e) /\ sends # <<>> /\ sends' = Tail(sends)
      /\ answered' = Append(answered, Head(sends))
      /\ UNCHANGED <<tcp, receiving, remote, inbox, asked>>
  BY DEF SendReply
<1>2. e \in Entries /\ e.op = "send"
  BY ServerParameters DEF Entry, Entries
<1> HIDE DEF e
<1>3. /\ ready' \in Seq(Entries) /\ Owning(ready', objects)
      /\ Unhandled(ready) <=> Unhandled(ready')
      /\ \A op \in {"receive", "accept"} : No(ready, op) => No(ready', op)
      /\ \A op \in {"receive", "accept"} : One(ready, op) => One(ready', op)
  BY <1>1, <1>2, OtherEntry DEF OwnsOne
<1>4. sends \in Seq(Peers) /\ answered \in Seq(Peers)
  BY DEF IInv, Types
<1>5. sends' \in Seq(Peers) /\ answered' \in Seq(Peers) /\ answered' \o sends' = answered \o sends
  <2>1. Head(sends) \in Peers /\ Tail(sends) \in Seq(Peers)
    BY <1>1, <1>4, HeadTailProperties
  <2>2. Append(answered, Head(sends)) \in Seq(Peers)
    BY <1>4, <2>1, AppendProperties
  <2>3. Append(answered, Head(sends)) \o Tail(sends) = answered \o sends
    BY <1>1, <1>4, HeadMoves
  <2>4. QED BY <1>1, <2>1, <2>2, <2>3
<1>6. Types'
  BY <1>1, <1>3, <1>5 DEF tcp, IInv, Types
<1>7. Accepts' /\ Owners'
  BY <1>1, <1>3 DEF tcp, IInv, Accepts, Owners
<1>8. Replies'
  BY <1>1, <1>3, <1>5 DEF IInv, Replies
<1>9. QED BY <1>6, <1>7, <1>8 DEF IInv

LEMMA AskStep ==
  ASSUME IInv, NEW p \in Peers, Ask(p) PROVE IInv'
<1>1. /\ inbox' = Append(inbox, p)
      /\ UNCHANGED <<ready, tcp, receiving, remote, sends, asked, answered>>
  BY DEF Ask
<1>2. inbox' \in Seq(Peers)
  BY <1>1, AppendProperties DEF IInv, Types
<1>3. QED BY <1>1, <1>2 DEF tcp, IInv, Types, Accepts, Owners, Replies

LEMMA Inductive == IInv /\ [Next]_vars => IInv'
<1> SUFFICES ASSUME IInv, [Next]_vars PROVE IInv'
  OBVIOUS
<1>1. CASE Handle
  BY <1>1, HandleAcceptStep, ContinueWriteStep, HandleReceiveStep, HandleSendStep DEF Handle
<1>2. CASE ReactorTcp
  BY <1>2, AcceptStep DEF ReactorTcp
<1>3. CASE \E x \in writes : WritePiece(x)
  BY <1>3, WritePieceStep
<1>4. CASE Receive
  BY <1>4, ReceiveStep
<1>5. CASE SendReply
  BY <1>5, SendReplyStep
<1>6. CASE World
  <2>1. CASE ReceiveFails
    BY <2>1, ReceiveFailsStep
  <2>2. CASE \E k \in Clients : Connect(k) \/ Disconnect(k)
    <3>1. UNCHANGED <<ready, accepting, objects, writes, udp>>
      BY <2>2 DEF Connect, Disconnect
    <3>2. QED BY <3>1 DEF udp, IInv, Types, Accepts, Owners, Replies
  <2>3. CASE \E p \in Peers : Ask(p)
    BY <2>3, AskStep
  <2>4. QED BY <1>6, <2>1, <2>2, <2>3 DEF World
<1>7. CASE UNCHANGED vars
  BY <1>7 DEF vars, tcp, udp, IInv, Types, Accepts, Owners, Replies
<1>8. QED BY <1>1, <1>2, <1>3, <1>4, <1>5, <1>6, <1>7 DEF Next

LEMMA InvariantHolds == Spec => []IInv
  BY InitHolds, Inductive, PTL DEF Spec

-----------------------------------------------------------------------------
(* What the invariant says.                                                *)

LEMMA CountNone ==
  ASSUME NEW op, No(ready, op) PROVE Cardinality(Queued(op)) = 0
<1>1. Queued(op) = {}
  BY DEF Queued, No
<1>2. QED BY <1>1, FS_EmptySet

LEMMA CountOne ==
  ASSUME NEW op, One(ready, op) PROVE Cardinality(Queued(op)) = 1
<1>1. PICK i \in 1..Len(ready) :
        ready[i].op = op /\ \A j \in 1..Len(ready) : ready[j].op = op => j = i
  BY DEF One
<1>2. Queued(op) = {i}
  BY <1>1 DEF Queued
<1>3. QED BY <1>2, FS_Singleton

\* The accept loop neither forks nor dies, whatever the accepts return: an
\* accept is pending, or exactly one completion of it is queued.
THEOREM AcceptLoopGoesOn == Spec => []OneAccept
<1>1. IInv => OneAccept
  BY CountNone, CountOne DEF IInv, Accepts, OneAccept
<1>2. QED BY <1>1, InvariantHolds, PTL

\* A connection outlives the accept and the writes that refer to it.
THEOREM ConnectionsOutliveTheirUse == Spec => []NoUseAfterFree
<1>1. IInv => NoUseAfterFree
  BY DEF IInv, Owners, Owning, OwnsOne, Queued, NoUseAfterFree
<1>2. QED BY <1>1, InvariantHolds, PTL

\* Every datagram received is answered to its sender and in order, although
\* the next receive may overwrite remote_endpoint_ before the reply is sent.
THEOREM RepliesGoToTheSender == Spec => []RepliesMatch
<1>1. ASSUME IInv PROVE RepliesMatch
  <2> DEFINE U == {i \in Queued("receive") : ready[i].ok}
             s == answered \o sends
  <2> SUFFICES ASSUME NEW n, n = Cardinality(U)
               PROVE  n <= 1 /\ s = SubSeq(asked, 1, Len(asked) - n)
    BY DEF RepliesMatch
  <2>1. s \in Seq(Peers)
    BY <1>1, ConcatProperties DEF IInv, Types
  <2>2. CASE Unhandled(ready)
    <3>1. One(ready, "receive")
      BY <1>1, <2>2 DEF IInv, Replies, Unhandled, No
    <3>2. PICK i \in 1..Len(ready) : ready[i].op = "receive" /\ ready[i].ok
      BY <2>2 DEF Unhandled
    <3>3. U = {i}
      BY <3>1, <3>2 DEF One, Queued
    <3>4. n = 1
      BY <3>3, FS_Singleton
    <3>5. remote \in Peers /\ asked = Append(s, remote)
      BY <1>1, <2>2 DEF IInv, Replies
    <3> HIDE DEF s
    <3>6. SubSeq(Append(s, remote), 1, Len(s)) = s /\ Len(Append(s, remote)) - 1 = Len(s)
      BY <2>1, <3>5
    <3>7. Len(asked) - n = Len(s) /\ SubSeq(asked, 1, Len(s)) = s
      BY <3>4, <3>5, <3>6
    <3>8. n <= 1
      BY <3>4
    <3>9. QED BY <3>7, <3>8, Zenon
  <2>3. CASE ~Unhandled(ready)
    <3>1. U = {}
      BY <2>3 DEF Unhandled, Queued
    <3>2. n = 0
      BY <3>1, FS_EmptySet
    <3>3. asked = s
      BY <1>1, <2>3 DEF IInv, Replies
    <3> HIDE DEF s
    <3>4. SubSeq(s, 1, Len(s) - 0) = s
      BY <2>1
    <3>5. QED BY <3>2, <3>3, <3>4
  <2>4. QED BY <2>2, <2>3
<1>2. QED BY <1>1, InvariantHolds, PTL

-----------------------------------------------------------------------------
(* TypeOK: that no client gets more than the message is what is hard.  A    *)
(* connection is in one place at a time, and what its client has got and    *)
(* what is still to be written make up at most one message.                 *)

About(e) == e.op \in {"accept", "write"}
UsedBy(q, c) == \E i \in 1..Len(q) : About(q[i]) /\ q[i].conn = c
Distinct(q) == \A i, j \in 1..Len(q) :
    About(q[i]) /\ About(q[j]) /\ q[i].conn = q[j].conn => i = j
AllIn(q, S) == \A i \in 1..Len(q) : q[i] \in S
Written(c) == \E x \in writes : x.conn = c

Alone ==
    /\ accepting # None => /\ ~Written(accepting) /\ ~UsedBy(ready, accepting)
                           /\ peer[accepting] = None
    /\ \A x, y \in writes : x.conn = y.conn => x = y
    /\ \A x \in writes : ~UsedBy(ready, x.conn)
    /\ Distinct(ready)

\* Entries that agree with whom their connection serves and what it got.
Fit ==
    {e \in Entries :
       /\ e.op = "accept" => IF e.ok THEN peer[e.conn] \in Clients /\ got[peer[e.conn]] = 0
                                     ELSE peer[e.conn] = None
       /\ e.op = "write" => peer[e.conn] \in Clients /\ got[peer[e.conn]] + e.left <= Pieces
       /\ e.op \in {"receive", "send"} => e.conn = None}
Budget ==
    /\ AllIn(ready, Fit)
    /\ \A x \in writes : peer[x.conn] \in Clients /\ got[peer[x.conn]] + x.left <= Pieces
    /\ \A c \in Connections : peer[c] # None => Written(c) \/ UsedBy(ready, c)
    /\ \A c, d \in Connections : peer[c] = peer[d] /\ peer[c] # None => c = d

\* A client in the backlog has not been served, and is there once.
Unserved(k) == got[k] = 0 /\ \A c \in Connections : peer[c] # k
Arrivals ==
    /\ \A i \in 1..Len(backlog) : Unserved(backlog[i]) /\ client[backlog[i]] # "idle"
    /\ \A i, j \in 1..Len(backlog) : backlog[i] = backlog[j] => i = j
    /\ \A k \in Clients : client[k] = "idle" => Unserved(k)

ClientTypes ==
    /\ peer \in [Connections -> Clients \cup {None}] /\ backlog \in Seq(Clients)
    /\ client \in [Clients -> {"idle", "connected", "closed", "gone"}]
    /\ got \in [Clients -> 0..Pieces]
CountTypes ==
    /\ deaf \in BOOLEAN /\ requests \in 0..MaxRequests /\ faults \in 0..MaxFaults

OneMessage == ClientTypes /\ Alone /\ Budget /\ Arrivals

LEMMA UseAppend ==
  ASSUME NEW q \in Seq(Entries), NEW e \in Entries, NEW r, r = Append(q, e)
  PROVE  /\ \A c : UsedBy(r, c) <=> UsedBy(q, c) \/ (About(e) /\ e.conn = c)
         /\ Distinct(q) /\ (About(e) => ~UsedBy(q, e.conn)) => Distinct(r)
         /\ \A S : AllIn(r, S) <=> AllIn(q, S) /\ e \in S
<1> DEFINE n == Len(q)
<1>1. /\ Len(r) = n + 1 /\ n \in Nat
      /\ \A i \in 1..n : r[i] = q[i]
      /\ r[n + 1] = e
  BY AppendProperties, LenProperties
<1> HIDE DEF n
<1>2. 1..Len(r) = (1..n) \cup {n + 1} /\ n + 1 \notin 1..n
  BY <1>1
<1>3. \A c : UsedBy(r, c) <=> UsedBy(q, c) \/ (About(e) /\ e.conn = c)
  BY <1>1, <1>2, Zenon DEF UsedBy, n
<1>4. \A S : AllIn(r, S) <=> AllIn(q, S) /\ e \in S
  BY <1>1, <1>2, Zenon DEF AllIn, n
<1>5. ASSUME Distinct(q), About(e) => ~UsedBy(q, e.conn) PROVE Distinct(r)
  <2>1. SUFFICES ASSUME NEW i \in 1..Len(r), NEW j \in 1..Len(r), About(r[i]), About(r[j]),
                        r[i].conn = r[j].conn
                 PROVE  i = j
    BY DEF Distinct
  <2>2. CASE i \in 1..n /\ j \in 1..n
    BY <1>1, <1>5, <2>1, <2>2 DEF Distinct, n
  <2>3. CASE i = n + 1 /\ j \in 1..n
    BY <1>1, <1>5, <2>1, <2>3 DEF UsedBy, n
  <2>4. CASE i \in 1..n /\ j = n + 1
    BY <1>1, <1>5, <2>1, <2>4 DEF UsedBy, n
  <2>5. QED BY <1>2, <2>2, <2>3, <2>4
<1>6. QED BY <1>3, <1>4, <1>5

LEMMA UseTail ==
  ASSUME NEW q \in Seq(Entries), q # <<>>, NEW r, r = Tail(q)
  PROVE  /\ \A c : UsedBy(q, c) <=> UsedBy(r, c) \/ (About(Head(q)) /\ Head(q).conn = c)
         /\ Distinct(q) => Distinct(r) /\ (About(Head(q)) => ~UsedBy(r, Head(q).conn))
         /\ \A S : AllIn(q, S) <=> AllIn(r, S) /\ Head(q) \in S
<1> DEFINE n == Len(r)
<1>1. /\ n \in Nat /\ Len(q) = n + 1 /\ Head(q) = q[1]
      /\ \A i \in 1..n : r[i] = q[i + 1]
  BY HeadTailProperties, LenProperties
<1> HIDE DEF n
<1>2. /\ \A i \in 1..n : i + 1 \in 1..Len(q) /\ i + 1 # 1 /\ r[i] = q[i + 1]
      /\ \A j \in 1..Len(q) : j = 1 \/ (j - 1 \in 1..n /\ q[j] = r[j - 1])
      /\ 1 \in 1..Len(q)
      /\ \A i, j \in 1..n : i + 1 = j + 1 => i = j
  BY <1>1
<1>3. \A c : UsedBy(q, c) <=> UsedBy(r, c) \/ (About(Head(q)) /\ Head(q).conn = c)
  BY <1>1, <1>2 DEF UsedBy, n
<1>4. \A S : AllIn(q, S) <=> AllIn(r, S) /\ Head(q) \in S
  <2>1. ASSUME NEW S, AllIn(q, S) PROVE AllIn(r, S) /\ Head(q) \in S
    BY <1>1, <1>2, <2>1 DEF AllIn, n
  <2>2. ASSUME NEW S, AllIn(r, S), Head(q) \in S PROVE AllIn(q, S)
    <3>1. ASSUME NEW j \in 1..Len(q) PROVE q[j] \in S
      BY <1>1, <1>2, <2>2, <3>1 DEF AllIn, n
    <3>2. QED BY <3>1 DEF AllIn
  <2>3. QED BY <2>1, <2>2
<1>5. ASSUME Distinct(q) PROVE Distinct(r) /\ (About(Head(q)) => ~UsedBy(r, Head(q).conn))
  BY <1>1, <1>2, <1>5 DEF Distinct, UsedBy, n
<1>6. QED BY <1>3, <1>4, <1>5

\* An entry stays fit if its connection and its client are left alone.
LEMMA StaysFit ==
  ASSUME NEW e \in Fit,
         About(e) => peer'[e.conn] = peer[e.conn] /\ got'[peer[e.conn]] = got[peer[e.conn]]
  PROVE  e \in Fit'
  BY DEF Fit, About

\* The UDP server and its entries leave the connections alone.
LEMMA UdpKeeps ==
  ASSUME OneMessage, UNCHANGED tcp,
         \A c : UsedBy(ready', c) <=> UsedBy(ready, c),
         Distinct(ready) => Distinct(ready'),
         \A S : AllIn(ready, S) /\ {e \in Entries : ~About(e) /\ e.conn = None} \subseteq S
                  => AllIn(ready', S)
  PROVE  OneMessage'
<1> USE DEF tcp
<1>1. Fit' = Fit /\ {e \in Entries : ~About(e) /\ e.conn = None} \subseteq Fit
  BY DEF Fit, About
<1>2. AllIn(ready, Fit)
  BY DEF OneMessage, Budget
<1>3. AllIn(ready', Fit')
  BY <1>1, <1>2
<1>4. ClientTypes' /\ Arrivals'
  BY DEF OneMessage, ClientTypes, Arrivals, Unserved
<1>5. Alone'
  BY DEF OneMessage, Alone, Written
<1>6. Budget'
  BY <1>3 DEF OneMessage, Budget, Written
<1>7. QED BY <1>4, <1>5, <1>6 DEF OneMessage

LEMMA UdpStep ==
  ASSUME IInv, OneMessage,
         HandleReceive \/ HandleSend \/ Receive \/ ReceiveFails \/ SendReply \/ \E p \in Peers : Ask(p)
  PROVE  OneMessage'
<1> DEFINE Own == {e \in Entries : ~About(e) /\ e.conn = None}
           Same == /\ \A c : UsedBy(ready', c) <=> UsedBy(ready, c)
                   /\ Distinct(ready) => Distinct(ready')
                   /\ \A S : AllIn(ready, S) /\ Own \subseteq S => AllIn(ready', S)
<1>1. UNCHANGED tcp
  BY DEF HandleReceive, HandleSend, Receive, ReceiveFails, SendReply, Ask
<1>2. ready \in Seq(Entries)
  BY DEF IInv, Types
<1>3. /\ \A ok \in BOOLEAN : Entry("receive", ok, None, FALSE, 0) \in Own
      /\ Entry("send", TRUE, None, FALSE, 0) \in Own
  BY ServerParameters DEF Entry, Entries, About
<1>4. ASSUME NEW e \in Own, ready' = Append(ready, e) PROVE Same
  BY <1>2, <1>4, UseAppend
<1>5. ASSUME ready # <<>>, Head(ready).op \in {"receive", "send"}
      PROVE  LET q == Tail(ready) IN
             /\ q \in Seq(Entries)
             /\ \A c : UsedBy(q, c) <=> UsedBy(ready, c)
             /\ Distinct(ready) => Distinct(q)
             /\ \A S : AllIn(ready, S) => AllIn(q, S)
  <2>1. ~About(Head(ready)) /\ Tail(ready) \in Seq(Entries)
    BY <1>2, <1>5, HeadTailProperties DEF About
  <2>2. QED BY <1>2, <1>5, <2>1, UseTail
<1>6. Same
  <2>1. CASE HandleReceive
    <3> DEFINE q == Tail(ready)
    <3>1. /\ q \in Seq(Entries)
          /\ \A c : UsedBy(q, c) <=> UsedBy(ready, c)
          /\ Distinct(ready) => Distinct(q)
          /\ \A S : AllIn(ready, S) => AllIn(q, S)
      BY <1>5, <2>1 DEF HandleReceive, Runs, Handler
    <3>2. ready' = q \/ ready' = Append(q, Entry("receive", TRUE, None, FALSE, 0))
      BY <2>1 DEF HandleReceive, StartReceive, Received
    <3> HIDE DEF q
    <3>3. CASE ready' = q
      BY <3>1, <3>3
    <3>4. ASSUME NEW e \in Own, ready' = Append(q, e) PROVE Same
      BY <3>1, <3>4, UseAppend
    <3>5. QED BY <1>3, <3>2, <3>3, <3>4
  <2>2. CASE HandleSend
    BY <1>5, <2>2 DEF HandleSend, Runs, Handler
  <2>3. CASE Receive \/ ReceiveFails
    BY <1>3, <1>4, <2>3 DEF Receive, Received, ReceiveFails
  <2>4. CASE SendReply
    BY <1>3, <1>4, <2>4 DEF SendReply
  <2>5. CASE \E p \in Peers : Ask(p)
    BY <2>5 DEF Ask
  <2>6. QED BY <2>1, <2>2, <2>3, <2>4, <2>5
<1>7. QED BY <1>1, <1>6, UdpKeeps

\* Only what exists is used, and only what is used serves a client.
LEMMA UsedExists ==
  ASSUME IInv, OneMessage, NEW c \in Connections, c \notin objects
  PROVE  ~Written(c) /\ ~UsedBy(ready, c) /\ peer[c] = None
<1>1. ~Written(c) /\ ~UsedBy(ready, c)
  BY DEF IInv, Owners, Owning, OwnsOne, Written, UsedBy, About
<1>2. QED BY <1>1 DEF OneMessage, Budget

LEMMA HandleAcceptServes ==
  ASSUME IInv, OneMessage, HandleAccept PROVE OneMessage'
<1>1. /\ ready \in Seq(Entries) /\ ready # <<>> /\ Handler = Head(ready)
      /\ Handler.op = "accept" /\ ready' = Tail(ready)
      /\ UNCHANGED <<peer, client, got, backlog>>
  BY DEF IInv, Types, HandleAccept, Runs, Handler
<1>2. PICK c \in Connections : c \notin objects /\ accepting' = c
  BY FreshIsNew DEF HandleAccept
<1>3. /\ \A d : UsedBy(ready, d) <=> UsedBy(ready', d) \/ Handler.conn = d
      /\ Distinct(ready) => Distinct(ready') /\ ~UsedBy(ready', Handler.conn)
      /\ AllIn(ready, Fit) <=> AllIn(ready', Fit) /\ Handler \in Fit
  BY <1>1, UseTail DEF About
<1>4. /\ Distinct(ready') /\ ~UsedBy(ready', Handler.conn)
      /\ AllIn(ready', Fit) /\ Handler \in Fit
  BY <1>3 DEF OneMessage, Alone, Budget
<1>5. Fit' = Fit
  BY <1>1 DEF Fit
<1>6. OwnsOne(Handler, objects) /\ Owning(ready', objects)
  BY <1>1, QueueTail DEF IInv, Owners
<1>7. Handler.conn \in objects /\ Handler.conn \in Connections
  BY <1>1, <1>6 DEF OwnsOne, IInv, Types
<1>8. ~Written(Handler.conn)
  BY <1>3 DEF OneMessage, Alone, Written
<1>9. /\ writes' = IF Handler.ok THEN writes \cup Start(Handler.conn) ELSE writes
      /\ \A x \in Start(Handler.conn) : x.conn = Handler.conn /\ x.left = Pieces
      /\ Handler.ok => \E x \in Start(Handler.conn) : x.conn = Handler.conn
      /\ \A x, y \in Start(Handler.conn) : x = y
  BY DEF HandleAccept, Start
<1>10. Alone'
  <2>1. ~Written(c)' /\ ~UsedBy(ready', c) /\ peer[c] = None
    BY <1>2, <1>3, <1>7, <1>9, UsedExists DEF Written
  <2>2. \A x, y \in writes' : x.conn = y.conn => x = y
    BY <1>8, <1>9 DEF OneMessage, Alone, Written
  <2>3. \A x \in writes' : ~UsedBy(ready', x.conn)
    BY <1>3, <1>4, <1>9 DEF OneMessage, Alone
  <2>4. accepting' = c /\ peer'[c] = None /\ ~Written(accepting)'
    BY <1>1, <1>2, <2>1 DEF Written
  <2>5. QED BY <1>4, <2>1, <2>2, <2>3, <2>4 DEF Alone
<1>11. Budget'
  <2>1. ASSUME NEW x \in writes' PROVE peer[x.conn] \in Clients /\ got[peer[x.conn]] + x.left <= Pieces
    <3>1. CASE x \in writes
      BY <3>1 DEF OneMessage, Budget
    <3>2. CASE Handler.ok /\ x.conn = Handler.conn /\ x.left = Pieces
      BY <1>1, <1>4, <3>2, ServerParameters DEF Fit
    <3>3. QED BY <1>9, <2>1, <3>1, <3>2
  <2>2. ASSUME NEW d \in Connections, peer[d] # None PROVE Written(d)' \/ UsedBy(ready', d)
    <3>1. Written(d) \/ UsedBy(ready, d)
      BY <2>2 DEF OneMessage, Budget
    <3>2. Written(d) => Written(d)'
      BY <1>9 DEF Written
    <3>3. d = Handler.conn => Handler.ok
      BY <1>1, <1>4, <2>2 DEF Fit
    <3>4. d = Handler.conn => Written(d)'
      <4>1. d = Handler.conn => \E x \in writes' : x.conn = d
        BY <1>9, <3>3
      <4>2. QED BY <4>1 DEF Written
    <3>5. QED BY <1>3, <3>1, <3>2, <3>4
  <2>3. QED BY <1>1, <1>4, <1>5, <2>1, <2>2 DEF OneMessage, Budget
<1>12. ClientTypes' /\ Arrivals'
  BY <1>1 DEF OneMessage, ClientTypes, Arrivals, Unserved
<1>13. QED BY <1>10, <1>11, <1>12 DEF OneMessage

\* A connection whose write goes on keeps its client; another is released.
LEMMA ContinueWriteServes ==
  ASSUME IInv, OneMessage, ContinueWrite PROVE OneMessage'
<1> DEFINE goes == Handler.ok /\ Handler.left > 0
           w == [conn |-> Handler.conn, left |-> Handler.left, owns |-> Handler.owns]
<1>1. /\ ready \in Seq(Entries) /\ ready # <<>> /\ Handler = Head(ready)
      /\ Handler.op = "write" /\ ready' = Tail(ready)
      /\ UNCHANGED <<got, backlog, accepting>>
      /\ writes' = IF goes THEN writes \cup {w} ELSE writes
  BY DEF IInv, Types, ContinueWrite, Runs, Handler
<1>2. /\ \A d : UsedBy(ready, d) <=> UsedBy(ready', d) \/ Handler.conn = d
      /\ Distinct(ready) => Distinct(ready') /\ ~UsedBy(ready', Handler.conn)
      /\ AllIn(ready, Fit) <=> AllIn(ready', Fit) /\ Handler \in Fit
  BY <1>1, UseTail DEF About
<1>3. /\ Distinct(ready') /\ ~UsedBy(ready', Handler.conn)
      /\ AllIn(ready', Fit) /\ Handler \in Fit
  BY <1>2 DEF OneMessage, Alone, Budget
<1>4. IInv'
  BY ContinueWriteStep
<1>5. /\ objects' = objects \cap Owned(ready', accepting', writes')
      /\ peer' = [c \in Connections |-> IF c \in objects' THEN peer[c] ELSE None]
      /\ client' = [k \in Clients |->
           IF client[k] = "connected" /\ \E c \in objects \ objects' : peer[c] = k
           THEN "closed" ELSE client[k]]
  BY DEF ContinueWrite, Release
<1>6. \A c \in Connections : peer'[c] = peer[c] \/ (peer'[c] = None /\ c \notin objects')
  BY <1>5
<1>7. ClientTypes'
  <2>1. peer' \in [Connections -> Clients \cup {None}]
    BY <1>5 DEF OneMessage, ClientTypes
  <2>2. client' \in [Clients -> {"idle", "connected", "closed", "gone"}]
    BY <1>5 DEF OneMessage, ClientTypes
  <2>3. QED BY <1>1, <2>1, <2>2 DEF OneMessage, ClientTypes
<1>8. ~Written(Handler.conn)
  BY <1>2 DEF OneMessage, Alone, Written
<1>9. Alone'
  <2>1. \A x, y \in writes' : x.conn = y.conn => x = y
    BY <1>1, <1>8 DEF OneMessage, Alone, Written
  <2>2. \A x \in writes' : ~UsedBy(ready', x.conn)
    BY <1>1, <1>2, <1>3 DEF OneMessage, Alone
  <2>3. ASSUME accepting # None
        PROVE  ~(\E x \in writes' : x.conn = accepting) /\ ~UsedBy(ready', accepting)
               /\ peer'[accepting] = None
    <3>1. ~Written(accepting) /\ ~UsedBy(ready, accepting) /\ peer[accepting] = None
          /\ accepting \in Connections
      BY <2>3 DEF OneMessage, Alone, IInv, Types
    <3>2. QED BY <1>1, <1>2, <1>6, <3>1 DEF Written
  <2>4. QED BY <1>1, <1>3, <2>1, <2>2, <2>3 DEF Alone, Written
\* What is used still exists.
<1>10. /\ \A i \in 1..Len(ready') : About(ready'[i]) => peer'[ready'[i].conn] = peer[ready'[i].conn]
       /\ \A x \in writes' : peer'[x.conn] = peer[x.conn]
  <2>1. /\ \A i \in 1..Len(ready') : About(ready'[i]) => ready'[i].conn \in objects'
        /\ \A x \in writes' : x.conn \in objects'
        /\ objects' \subseteq Connections
    BY <1>4 DEF IInv, Types, Owners, Owning, OwnsOne, About
  <2>2. QED BY <1>6, <2>1
<1>11. Budget'
  <2>1. ASSUME NEW i \in 1..Len(ready') PROVE ready'[i] \in Fit'
    BY <1>1, <1>3, <1>10, StaysFit DEF AllIn
  <2>2. ASSUME NEW x \in writes' PROVE peer'[x.conn] \in Clients /\ got'[peer'[x.conn]] + x.left <= Pieces
    <3>1. CASE x \in writes
      BY <1>1, <1>10, <3>1 DEF OneMessage, Budget
    <3>2. CASE goes /\ x = w
      <4>1. peer[Handler.conn] \in Clients /\ got[peer[Handler.conn]] + Handler.left <= Pieces
        BY <1>1, <1>3 DEF Fit
      <4>2. x.conn = Handler.conn /\ x.left = Handler.left
        BY <3>2
      <4>3. QED BY <1>1, <1>10, <4>1, <4>2
    <3>3. QED BY <1>1, <3>1, <3>2
  <2>3. ASSUME NEW c \in Connections, peer'[c] # None PROVE Written(c)' \/ UsedBy(ready', c)
    <3>1. c \in objects' /\ peer[c] # None
      BY <1>5, <2>3
    <3>2. c # accepting /\ c # None
      BY <3>1, ServerParameters DEF OneMessage, Alone
    <3>3. \/ \E i \in 1..Len(ready') : ready'[i].conn = c
          \/ \E x \in writes' : x.conn = c
      BY <1>1, <1>5, <3>1, <3>2 DEF Owned
    <3>4. \A i \in 1..Len(ready') : ready'[i].conn = c => About(ready'[i])
      <4>1. \A e \in Fit : e.conn = c => About(e)
        BY <3>2 DEF Fit, About, Entries
      <4>2. QED BY <1>3, <4>1 DEF AllIn
    <3>5. QED BY <3>3, <3>4 DEF Written, UsedBy
  <2>4. ASSUME NEW c \in Connections, NEW d \in Connections, peer'[c] = peer'[d], peer'[c] # None
        PROVE  c = d
    BY <1>6, <2>4 DEF OneMessage, Budget
  <2>5. QED BY <2>1, <2>2, <2>3, <2>4 DEF Budget, AllIn
<1>12. Arrivals'
  <2>1. \A k \in Clients : Unserved(k) => got'[k] = 0 /\ \A c \in Connections : peer'[c] # k
    BY <1>1, <1>6, ServerParameters DEF Unserved
  <2>2. \A k \in Clients : client'[k] = "idle" <=> client[k] = "idle"
    BY <1>5
  <2>3. \A i \in 1..Len(backlog) : backlog[i] \in Clients
    BY ElementOfSeq DEF OneMessage, ClientTypes
  <2>4. QED BY <1>1, <2>1, <2>2, <2>3 DEF OneMessage, Arrivals, Unserved
<1>13. QED BY <1>7, <1>9, <1>11, <1>12 DEF OneMessage

LEMMA AcceptServes ==
  ASSUME IInv, OneMessage, NEW ok \in BOOLEAN, Accept(ok) PROVE OneMessage'
<1> DEFINE e == Entry("accept", ok, accepting, TRUE, 0)
<1>1. PICK a \in Connections : a = accepting /\ a # None
  BY DEF Accept, IInv, Types
<1>2. /\ ready' = Append(ready, e) /\ accepting' = None /\ backlog # <<>>
      /\ UNCHANGED <<writes, client, got>> /\ ready \in Seq(Entries)
  BY DEF Accept, IInv, Types
<1>3. e \in Entries /\ e.op = "accept" /\ About(e) /\ e.ok = ok /\ e.conn = a
  BY <1>1, ServerParameters DEF Entry, Entries, About
<1> HIDE DEF e
<1>4. ~Written(a) /\ ~UsedBy(ready, a) /\ peer[a] = None
  BY <1>1 DEF OneMessage, Alone
<1>5. /\ \A c : UsedBy(ready', c) <=> UsedBy(ready, c) \/ a = c
      /\ Distinct(ready) /\ ~UsedBy(ready, a) => Distinct(ready')
      /\ AllIn(ready', Fit') <=> AllIn(ready, Fit') /\ e \in Fit'
  BY <1>2, <1>3, UseAppend
<1>6. backlog \in Seq(Clients) /\ Head(backlog) \in Clients /\ Head(backlog) = backlog[1]
      /\ 1 \in 1..Len(backlog) /\ Tail(backlog) \in Seq(Clients)
      /\ \A i \in 1..Len(Tail(backlog)) : Tail(backlog)[i] = backlog[i + 1] /\ i + 1 \in 1..Len(backlog)
  BY <1>2, HeadTailProperties, EmptySeq DEF OneMessage, ClientTypes
<1> DEFINE k == Head(backlog)
<1>7. Unserved(k) /\ client[k] # "idle"
  BY <1>6 DEF OneMessage, Arrivals
<1>8. /\ IF ok THEN peer' = [peer EXCEPT ![a] = k] /\ backlog' = Tail(backlog)
         ELSE peer' = peer /\ backlog' = backlog
      /\ peer \in [Connections -> Clients \cup {None}]
  BY <1>1 DEF Accept, OneMessage, ClientTypes
<1>9. k \in Clients /\ k # None
  BY <1>6, ServerParameters
<1> HIDE DEF k
<1>10. /\ \A c \in Connections : c # a => peer'[c] = peer[c]
       /\ peer'[a] = IF ok THEN k ELSE None
       /\ peer' \in [Connections -> Clients \cup {None}]
  BY <1>4, <1>8, <1>9
<1>11. ClientTypes'
  BY <1>2, <1>6, <1>8, <1>10 DEF OneMessage, ClientTypes
<1>12. Alone'
  <2>1. \A x \in writes : x.conn # a
    BY <1>4 DEF Written
  <2>2. QED BY <1>2, <1>4, <1>5, <2>1 DEF OneMessage, Alone
<1>13. AllIn(ready', Fit')
  <2>1. ASSUME NEW i \in 1..Len(ready) PROVE ready[i] \in Fit'
    <3>1. ready[i] \in Fit
      BY DEF OneMessage, Budget, AllIn
    <3>2. About(ready[i]) => ready[i].conn # a /\ ready[i].conn \in Connections
      BY <1>4 DEF UsedBy, IInv, Types, Owners, Owning, OwnsOne, About
    <3>3. QED BY <1>2, <1>10, <3>1, <3>2, StaysFit
  <2>2. e \in Fit'
    BY <1>2, <1>3, <1>7, <1>9, <1>10 DEF Fit, Unserved
  <2>3. QED BY <1>5, <2>1, <2>2 DEF AllIn
<1>14. Budget'
  <2>1. ASSUME NEW x \in writes' PROVE peer'[x.conn] \in Clients /\ got'[peer'[x.conn]] + x.left <= Pieces
    <3>1. x \in writes /\ x.conn \in Connections /\ x.conn # a
      BY <1>2, <1>4, <2>1 DEF IInv, Types, Writes, Written
    <3>2. QED BY <1>2, <1>10, <3>1 DEF OneMessage, Budget
  <2>2. ASSUME NEW c \in Connections, peer'[c] # None PROVE Written(c)' \/ UsedBy(ready', c)
    BY <1>2, <1>5, <1>10, <2>2 DEF OneMessage, Budget, Written
  <2>3. ASSUME NEW c \in Connections, NEW d \in Connections, peer'[c] = peer'[d], peer'[c] # None
        PROVE  c = d
    BY <1>7, <1>10, <2>3 DEF OneMessage, Budget, Unserved
  <2>4. QED BY <1>13, <2>1, <2>2, <2>3 DEF Budget
<1>15. Arrivals'
  <2>1. ASSUME NEW j \in Clients, Unserved(j), j # k \/ ~ok
        PROVE  got'[j] = 0 /\ \A c \in Connections : peer'[c] # j
    BY <1>2, <1>4, <1>10, <2>1, ServerParameters DEF Unserved
  <2>2. CASE ok
    <3>1. \A i \in 1..Len(backlog') : /\ i + 1 \in 1..Len(backlog) /\ i + 1 # 1
                                      /\ backlog'[i] = backlog[i + 1] /\ backlog[i + 1] \in Clients
      BY <1>6, <1>8, <2>2, ElementOfSeq
    <3>2. \A i \in 1..Len(backlog') : backlog'[i] # k
      BY <1>6, <3>1 DEF OneMessage, Arrivals, k
    <3>3. \A i, j \in 1..Len(backlog') : i + 1 = j + 1 => i = j
      OBVIOUS
    <3>4. ASSUME NEW i \in 1..Len(backlog') 
          PROVE  /\ got'[backlog'[i]] = 0 /\ \A c \in Connections : peer'[c] # backlog'[i]
                 /\ client'[backlog'[i]] # "idle"
      <4>1. /\ Unserved(backlog[i + 1]) /\ client[backlog[i + 1]] # "idle"
            /\ backlog[i + 1] \in Clients /\ backlog'[i] = backlog[i + 1] /\ backlog[i + 1] # k
        BY <3>1, <3>2 DEF OneMessage, Arrivals
      <4>2. QED BY <1>2, <2>1, <4>1
    <3>5. \A i, j \in 1..Len(backlog') : backlog'[i] = backlog'[j] => i = j
      BY <3>1, <3>3, SMTT(30) DEF OneMessage, Arrivals
    <3>6. ASSUME NEW j \in Clients, client'[j] = "idle" PROVE Unserved(j)'
      <4>1. Unserved(j) /\ j # k
        BY <1>2, <1>7, <3>6 DEF OneMessage, Arrivals
      <4>2. QED BY <2>1, <4>1 DEF Unserved
    <3>7. QED BY <3>4, <3>5, <3>6 DEF Arrivals, Unserved
  <2>3. CASE ~ok
    BY <1>2, <1>4, <1>8, <1>10, <2>3 DEF OneMessage, Arrivals, Unserved
  <2>4. QED BY <2>2, <2>3
<1>16. QED BY <1>11, <1>12, <1>14, <1>15 DEF OneMessage

\* A piece that the client gets is no longer left to write.
LEMMA WritePieceServes ==
  ASSUME IInv, OneMessage, NEW x \in writes, WritePiece(x) PROVE OneMessage'
<1> DEFINE e == Entry("write", client[peer[x.conn]] = "connected", x.conn, x.owns, x.left - 1)
<1>1. /\ ready' = Append(ready, e) /\ writes' = writes \ {x}
      /\ UNCHANGED <<accepting, peer, client, backlog>> /\ ready \in Seq(Entries)
  BY DEF WritePiece, IInv, Types
<1>2. x.conn \in Connections /\ x.left \in 1..Pieces /\ x.owns \in BOOLEAN
  BY DEF IInv, Types, Writes
<1>3. e \in Entries /\ e.op = "write" /\ About(e) /\ e.conn = x.conn /\ e.left = x.left - 1
  <2>1. x.left - 1 \in 0..Pieces
    BY <1>2, ServerParameters
  <2>2. QED BY <1>2, <2>1 DEF Entry, Entries, About
<1> HIDE DEF e
<1>4. PICK k \in Clients : k = peer[x.conn] /\ got[k] + x.left <= Pieces
  BY DEF OneMessage, Budget
<1>5. got \in [Clients -> 0..Pieces] /\ got[k] \in Nat /\ x.left \in Nat /\ Pieces \in Nat
  BY <1>2, ServerParameters DEF OneMessage, ClientTypes
<1>6. /\ got' \in [Clients -> 0..Pieces] /\ got'[k] \in {got[k], got[k] + 1}
      /\ \A j \in Clients : j # k => got'[j] = got[j]
  <2>1. got' = got \/ got' = [got EXCEPT ![k] = got[k] + 1]
    BY <1>4 DEF WritePiece
  <2>2. got[k] + 1 \in 0..Pieces
    BY <1>2, <1>4, <1>5
  <2>3. QED BY <1>5, <2>1, <2>2
<1>7. ~UsedBy(ready, x.conn) /\ \A y \in writes : y.conn = x.conn => y = x
  BY DEF OneMessage, Alone
<1>8. /\ \A c : UsedBy(ready', c) <=> UsedBy(ready, c) \/ x.conn = c
      /\ Distinct(ready) => Distinct(ready')
      /\ AllIn(ready', Fit') <=> AllIn(ready, Fit') /\ e \in Fit'
  BY <1>1, <1>3, <1>7, UseAppend
<1>9. ClientTypes'
  BY <1>1, <1>6 DEF OneMessage, ClientTypes
<1>10. Alone'
  <2>1. accepting # None => accepting # x.conn
    BY DEF OneMessage, Alone, Written
  <2>2. QED BY <1>1, <1>7, <1>8, <2>1 DEF OneMessage, Alone, Written
\* The other connections serve other clients.
<1>11. \A c \in Connections : c # x.conn => peer[c] # k
  BY <1>2, <1>4, ServerParameters DEF OneMessage, Budget
<1>12. AllIn(ready', Fit')
  <2>1. ASSUME NEW i \in 1..Len(ready) PROVE ready[i] \in Fit'
    <3>1. ready[i] \in Fit
      BY DEF OneMessage, Budget, AllIn
    <3>2. About(ready[i]) => ready[i].conn # x.conn /\ ready[i].conn \in Connections
      BY <1>7 DEF UsedBy, IInv, Types, Owners, Owning, OwnsOne, About
    <3>3. About(ready[i]) => peer[ready[i].conn] # k /\ peer[ready[i].conn] \in Clients \cup {None}
      BY <1>11, <3>2 DEF OneMessage, ClientTypes
    <3>4. QED BY <1>1, <1>6, <3>1, <3>2, <3>3 DEF Fit, About
  <2>2. e \in Fit'
    <3>1. got'[k] + (x.left - 1) <= Pieces
      BY <1>4, <1>5, <1>6
    <3>2. QED BY <1>1, <1>3, <1>4, <3>1 DEF Fit
  <2>3. QED BY <1>8, <2>1, <2>2 DEF AllIn
<1>13. Budget'
  <2>1. ASSUME NEW y \in writes' PROVE peer'[y.conn] \in Clients /\ got'[peer'[y.conn]] + y.left <= Pieces
    <3>1. y \in writes /\ y.conn \in Connections /\ y.conn # x.conn
      BY <1>1, <1>7, <2>1 DEF IInv, Types, Writes
    <3>2. peer[y.conn] # k /\ peer[y.conn] \in Clients /\ got[peer[y.conn]] + y.left <= Pieces
      BY <1>11, <3>1 DEF OneMessage, Budget
    <3>3. QED BY <1>1, <1>6, <3>2
  <2>2. ASSUME NEW c \in Connections, peer'[c] # None PROVE Written(c)' \/ UsedBy(ready', c)
    BY <1>1, <1>8, <2>2 DEF OneMessage, Budget, Written
  <2>3. QED BY <1>1, <1>12, <2>1, <2>2 DEF OneMessage, Budget
<1>14. Arrivals'
  <2>1. \A j \in Clients : Unserved(j) => j # k
    BY <1>2, <1>4 DEF Unserved
  <2>2. \A j \in Clients : Unserved(j) => got'[j] = 0 /\ \A c \in Connections : peer'[c] # j
    BY <1>1, <1>6, <2>1 DEF Unserved
  <2>3. \A i \in 1..Len(backlog) : backlog[i] \in Clients
    BY ElementOfSeq DEF OneMessage, ClientTypes
  <2>4. QED BY <1>1, <2>2, <2>3 DEF OneMessage, Arrivals, Unserved
<1>15. QED BY <1>9, <1>10, <1>13, <1>14 DEF OneMessage

LEMMA ClientsServed ==
  ASSUME OneMessage, NEW k \in Clients, Connect(k) \/ Disconnect(k) PROVE OneMessage'
<1>1. UNCHANGED <<ready, accepting, peer, writes, got>>
  BY DEF Connect, Disconnect
<1>2. Alone' /\ Budget'
  <2>1. Fit' = Fit
    BY <1>1 DEF Fit
  <2>2. QED BY <1>1, <2>1 DEF OneMessage, Alone, Budget, Written
<1>3. client \in [Clients -> {"idle", "connected", "closed", "gone"}] /\ backlog \in Seq(Clients)
      /\ \A i \in 1..Len(backlog) : backlog[i] \in Clients
  BY ElementOfSeq DEF OneMessage, ClientTypes
<1>4. CASE Connect(k)
  <2>1. /\ client[k] = "idle" /\ client' = [client EXCEPT ![k] = "connected"]
        /\ backlog' = Append(backlog, k)
    BY <1>4 DEF Connect
  <2>2. /\ backlog' \in Seq(Clients) /\ Len(backlog') = Len(backlog) + 1 /\ Len(backlog) \in Nat
        /\ \A i \in 1..Len(backlog) : backlog'[i] = backlog[i]
        /\ backlog'[Len(backlog) + 1] = k
    BY <1>3, <2>1, AppendProperties, LenProperties
  <2>3. \A i \in 1..Len(backlog') : i \in 1..Len(backlog) \/ i = Len(backlog) + 1
    BY <2>2
  <2>4. ClientTypes'
    BY <1>1, <1>3, <2>1, <2>2 DEF OneMessage, ClientTypes
  <2>5. Unserved(k) /\ \A i \in 1..Len(backlog) : backlog[i] # k
    BY <2>1 DEF OneMessage, Arrivals
  <2>6. \A j \in Clients : client'[j] = IF j = k THEN "connected" ELSE client[j]
    BY <1>3, <2>1
  <2>7. Arrivals'
    <3>1. ASSUME NEW i \in 1..Len(backlog')
          PROVE  Unserved(backlog'[i]) /\ client'[backlog'[i]] # "idle"
      BY <1>3, <2>2, <2>3, <2>5, <2>6 DEF OneMessage, Arrivals
    <3>2. ASSUME NEW i \in 1..Len(backlog'), NEW j \in 1..Len(backlog'), backlog'[i] = backlog'[j]
          PROVE  i = j
      BY <2>2, <2>3, <2>5, <3>2 DEF OneMessage, Arrivals
    <3>3. \A j \in Clients : client'[j] = "idle" => Unserved(j)
      BY <2>6 DEF OneMessage, Arrivals
    <3>4. QED BY <1>1, <3>1, <3>2, <3>3 DEF Arrivals, Unserved
  <2>8. QED BY <1>2, <2>4, <2>7 DEF OneMessage
<1>5. CASE Disconnect(k)
  <2>1. client' = [client EXCEPT ![k] = "gone"] /\ backlog' = backlog
    BY <1>5 DEF Disconnect
  <2>2. \A j \in Clients : client'[j] = IF j = k THEN "gone" ELSE client[j]
    BY <1>3, <2>1
  <2>3. ClientTypes'
    BY <1>1, <1>3, <2>1 DEF OneMessage, ClientTypes
  <2>4. Arrivals'
    BY <1>1, <1>3, <2>1, <2>2 DEF OneMessage, Arrivals, Unserved
  <2>5. QED BY <1>2, <2>3, <2>4 DEF OneMessage
<1>6. QED BY <1>4, <1>5

LEMMA CountTypesNext ==
  ASSUME IInv, CountTypes, [Next]_vars PROVE CountTypes'
<1> USE ServerParameters DEF CountTypes, tcp, udp
<1>1. CASE HandleAccept \/ ContinueWrite \/ HandleReceive \/ HandleSend
  BY <1>1 DEF HandleAccept, ContinueWrite, HandleReceive, HandleSend
<1>2. CASE Accept(TRUE) \/ Accept(FALSE)
  <2>1. /\ deaf' = deaf /\ requests' = requests
        /\ faults' = faults \/ (faults' = faults + 1 /\ faults < MaxFaults)
    BY <1>2 DEF Accept, Fault
  <2>2. QED BY <2>1
<1>3. CASE (\E x \in writes : WritePiece(x)) \/ Receive \/ SendReply
  BY <1>3 DEF WritePiece, Receive, SendReply
<1>4. CASE ReceiveFails
  <2>1. deaf' = TRUE /\ requests' = requests /\ faults' = faults + 1 /\ faults < MaxFaults
    BY <1>4 DEF ReceiveFails, Fault
  <2>2. QED BY <2>1
<1>5. CASE \E k \in Clients : Connect(k) \/ Disconnect(k)
  BY <1>5 DEF Connect, Disconnect, Fault
<1>6. CASE \E p \in Peers : Ask(p)
  BY <1>6 DEF Ask
<1>7. CASE UNCHANGED vars
  BY <1>7 DEF vars
<1>8. QED
  BY <1>1, <1>2, <1>3, <1>4, <1>5, <1>6, <1>7 DEF Next, Handle, ReactorTcp, World

LEMMA OneMessageNext ==
  ASSUME IInv, OneMessage, [Next]_vars PROVE OneMessage'
<1>1. CASE UNCHANGED vars
  <2>1. UNCHANGED <<ready, tcp>>
    BY <1>1 DEF vars
  <2>2. QED BY <2>1, UdpKeeps
<1>2. CASE HandleReceive \/ HandleSend \/ Receive \/ ReceiveFails \/ SendReply \/ \E p \in Peers : Ask(p)
  BY <1>2, UdpStep
<1>3. QED
  BY <1>1, <1>2, HandleAcceptServes, ContinueWriteServes, AcceptServes, WritePieceServes,
     ClientsServed DEF Next, Handle, ReactorTcp, World

\* Every variable has its type: in particular no client ever gets more than the
\* one message, whatever fails (async_write writes the rest of it and no more,
\* and a connection that is freed serves nobody).
THEOREM TypeCorrect == Spec => []TypeOK
<1>1. Init => OneMessage /\ CountTypes
  <2> SUFFICES ASSUME Init PROVE OneMessage /\ CountTypes
    OBVIOUS
  <2>1. IInv
    BY InitHolds
  <2>2. CountTypes
    <3>1. 0 \in 0..MaxRequests /\ 0 \in 0..MaxFaults
      BY ServerParameters
    <3>2. QED BY <3>1 DEF Init, CountTypes
  <2>3. ClientTypes
    <3>1. backlog \in Seq(Clients)
      BY DEF Init
    <3>2. 0 \in 0..Pieces
      BY ServerParameters
    <3>3. QED BY <3>1, <3>2 DEF Init, ClientTypes
  <2>4. /\ \A c : ~UsedBy(ready, c) /\ ~Written(c)
        /\ Distinct(ready) /\ AllIn(ready, Fit) /\ Len(backlog) = 0
    BY DEF Init, UsedBy, Written, Distinct, AllIn
  <2>5. accepting \in Connections
    BY <2>1, EnoughConnections, FreshIsNew DEF Init
  <2>6. Alone /\ Budget
    BY <2>4, <2>5 DEF Init, Alone, Budget
  <2>7. Arrivals
    BY <2>4, ServerParameters DEF Init, Arrivals, Unserved
  <2>8. QED BY <2>2, <2>3, <2>6, <2>7 DEF OneMessage
<1>2. IInv /\ OneMessage /\ CountTypes /\ [Next]_vars => (OneMessage /\ CountTypes)'
  BY OneMessageNext, CountTypesNext
<1>3. IInv /\ OneMessage /\ CountTypes => TypeOK
  BY DEF IInv, Types, OneMessage, ClientTypes, CountTypes, TypeOK
<1>4. QED BY <1>1, <1>2, <1>3, InvariantHolds, PTL DEF Spec
=============================================================================
